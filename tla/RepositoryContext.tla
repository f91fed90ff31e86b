-------------------------- MODULE RepositoryContext --------------------------
(* What an analysis gets to see of a repository: the working tree of a       *)
(* shallow clone (clone-scan.service.ts), or the files fetched one by one    *)
(* over REST (fetchRepositoryContext of scan-pipeline.service.ts and          *)
(* github.service.ts), and the recent commits of a repository that matched a  *)
(* brand. A file is [kind, words, root, excluded, big, lines]: what its name  *)
(* says, the words of its path, whether it lies in the root directory or in   *)
(* one the clone leaves out (node_modules, dist, ...), whether it is over the *)
(* size limit or binary, and its lines, each a set of words.                  *)
EXTENDS BrandMatch

CONSTANTS MAX_FILES,        \* files read over REST (40)
          CLONE_MAX_FILES,  \* files read of a clone (200)
          MAX_ENTRIES,      \* files with those of the history (30)
          Unanchored        \* secret patterns without an anchor to grep for

ASSUME LimitsAssumption == {MAX_FILES, CLONE_MAX_FILES, MAX_ENTRIES} \subseteq Nat

\* The rank a file's name earns; "manifest" is a package or build file, "data"
\* a json, yaml or properties file, "text" any other text file.
KindPriority ==
  [env |-> 100, pem |-> 95, id_rsa |-> 95, credentials |-> 93, firebase |-> 92,
   secret |-> 90, npmrc |-> 88, manifest |-> 85, lock |-> 85, dockerfile |-> 80,
   readme |-> 70, data |-> 60, deploy |-> 60, text |-> 40,
   script |-> 0, apk |-> 0, other |-> 0]

\* TEXT_FILE_RE: id_rsa and .npmrc rank high but are not text files by it.
IsText(f) == KindPriority[f.kind] > 0 /\ f.kind \notin {"id_rsa", "npmrc"}

\* A path that names a brand is ranked before manifests, and a manifest that
\* does is ranked lower than one that does not.
PathPriority(f, aliases) ==
  IF /\ KindPriority[f.kind] < 88
     /\ IsText(f)
     /\ \E a \in aliases : Includes(f.words, a)
  THEN 82 ELSE KindPriority[f.kind]

\* PATH_SECRET_BOOST
Boosted(f) == f.kind \in {"env", "pem", "id_rsa", "credentials", "firebase", "secret", "npmrc"}

\* The files to read: text files by rank, then by path, up to a limit. What the
\* code then fills up with are text files of no rank, of which there are none.
Selected(repo, visible, aliases, max) ==
  LET Rank(i) == PathPriority(repo.files[i], aliases)
      Before(i, j) == Rank(i) > Rank(j) \/ (Rank(i) = Rank(j) /\ i < j)
  IN UpTo(Sorted({i \in visible : IsText(repo.files[i])}, Before), max)

\* A file that is too large or binary is not read, but has used its place.
Readable(repo, i) == ~repo.files[i].big

Haystack(source, path, boost, lines) ==
  [source |-> source, path |-> path, boost |-> boost, lines |-> lines]

FileHaystack(repo, i) == Haystack("file", i, Boosted(repo.files[i]), repo.files[i].lines)

\* The README is found by name and read a second time, beside the selection.
ReadmeOf(repo, visible) ==
  LET named == {i \in visible : repo.files[i].kind = "readme" /\ Readable(repo, i)}
  IN IF named = {} THEN 0 ELSE Min(named)

\* The haystacks: the description, the README, the files of the selection.
Haystacks(repo, visible, aliases, max) ==
  LET readme == ReadmeOf(repo, visible)
      picked == Selected(repo, visible, aliases, max)
      chosen == Those(picked, {k \in DOMAIN picked : Readable(repo, picked[k])})
  IN <<Haystack("description", 0, FALSE, <<repo.description>>)>>
     \o (IF readme = 0 THEN <<>>
         ELSE <<Haystack("readme", readme, FALSE, repo.files[readme].lines)>>)
     \o [k \in DOMAIN chosen |-> FileHaystack(repo, chosen[k])]

Context(repo, visible, haystacks, brandHits, keywordHits, candidates) ==
  [owner |-> repo.owner, name |-> repo.name, description |-> repo.description,
   topics |-> repo.topics, stars |-> repo.stars, forks |-> repo.forks,
   fork |-> repo.fork, age |-> repo.age, profile |-> "unknown",
   paths |-> {repo.files[i].words : i \in visible},
   kinds |-> {repo.files[i].kind : i \in visible},
   haystacks |-> haystacks, brandHits |-> brandHits, keywordHits |-> keywordHits,
   candidates |-> candidates, commitMessages |-> {}, commitAuthors |-> {}]

-----------------------------------------------------------------------------
(* A clone: the tree without the excluded directories, and three greps over   *)
(* it that also leave lock files out. A grep that fails finds nothing.        *)

Tree(repo) == {i \in DOMAIN repo.files : ~repo.files[i].excluded}

\* Every line the greps read, as <<file, line number>> in the order of the output.
Grepped(repo) ==
  LET Lines(i) == [n \in DOMAIN repo.files[i].lines |-> <<i, n>>]
      searched == Ascending({i \in Tree(repo) : repo.files[i].kind \notin {"lock", "apk"}})
  IN FlattenSeq([k \in DOMAIN searched |-> Lines(searched[k])])

LineAt(repo, p) == repo.files[p[1]].lines[p[2]]

\* A line with several aliases is reported once, for the first of them.
GrepBrandMentions(repo, aliasList) ==
  {[alias |-> aliasList[Min({k \in DOMAIN aliasList :
                               HasWordBoundaryMatch(LineAt(repo, p), aliasList[k])})],
    words |-> LineAt(repo, p)] :
     p \in {p \in ToSet(Grepped(repo)) :
              \E a \in ToSet(aliasList) : HasWordBoundaryMatch(LineAt(repo, p), a)}}

\* A line with several keywords is reported for each of them.
GrepCustomKeywords(repo, keywords) ==
  UNION {{[alias |-> k, words |-> LineAt(repo, p)] :
            k \in {k \in keywords : HasWordBoundaryMatch(LineAt(repo, p), k)}} :
         p \in ToSet(Grepped(repo))}

\* The lines that hold the anchor of a secret pattern or open a private key.
GrepSecretAnchors(repo) ==
  LET Anchored(p) == \E w \in LineAt(repo, p) : \/ w.as = "secret" /\ w.of \notin Unanchored
                                                \/ w.as \in {"loose", "opens"}
      lines == Grepped(repo)
      hits == Those(lines, {k \in DOMAIN lines : Anchored(lines[k])})
  IN [k \in DOMAIN hits |-> [path |-> hits[k][1], line |-> hits[k][2],
                             boost |-> Boosted(repo.files[hits[k][1]]),
                             words |-> LineAt(repo, hits[k])]]

\* CloneAndScan, given the greps that succeed.
CloneContext(repo, aliasList, keywords, greps) ==
  Context(repo, Tree(repo), Haystacks(repo, Tree(repo), ToSet(aliasList), CLONE_MAX_FILES),
          IF "brand" \in greps THEN GrepBrandMentions(repo, aliasList) ELSE {},
          IF "keyword" \in greps THEN GrepCustomKeywords(repo, keywords) ELSE {},
          IF "secret" \in greps THEN GrepSecretAnchors(repo) ELSE <<>>)

-----------------------------------------------------------------------------
(* REST: the paths of the commit's tree, or those of the root directory when  *)
(* the commit is not known or its tree cannot be had.                          *)

RestContext(repo, aliasList, treeKnown) ==
  LET visible == {i \in DOMAIN repo.files : treeKnown \/ repo.files[i].root}
  IN Context(repo, visible, Haystacks(repo, visible, ToSet(aliasList), MAX_FILES), {}, {}, <<>>)

-----------------------------------------------------------------------------
(* The recent commits: their messages and authors, and the lines each added,  *)
(* file by file, while there is room. A commit is [message, author, patches],  *)
(* a patch the lines added to one file.                                        *)

AppendHistory(ctx, commits) ==
  LET fileCount == Cardinality({k \in DOMAIN ctx.haystacks : ctx.haystacks[k].source = "file"})
      touched == FlattenSeq([k \in DOMAIN commits |-> commits[k].patches])
      patches == Those(touched, {k \in DOMAIN touched : touched[k] # <<>>})
      room == IF fileCount >= MAX_ENTRIES THEN 0 ELSE MAX_ENTRIES - fileCount
      read == UpTo(patches, room)
  IN [ctx EXCEPT !.commitMessages = {c.message : c \in ToSet(commits)},
                 !.commitAuthors = {c.author : c \in ToSet(commits)},
                 !.haystacks = @ \o [k \in DOMAIN read |-> Haystack("file", -k, FALSE, read[k])]]
=============================================================================
