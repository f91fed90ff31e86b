--------------------------- MODULE ReferenceCorpus ---------------------------
(* What is stored of a brand's own repository, to be found again in others:   *)
(* the contents of its files, its telling phrases and its credentials          *)
(* (fingerprints/reference-fingerprint.service.ts). An ingest goes through one  *)
(* commit file by file; several requests may be at it at once, and the process  *)
(* may die between any two writes. To remove a repository is to drop all that    *)
(* is not in a commit without files.                                           *)
(*                                                                             *)
(* A word [of |-> p, as |-> "phrase"] of a line is a phrase that is distinctive *)
(* by its length and its words; [of |-> p, as |-> "known"] a credential of the  *)
(* brand, and [of |-> p, as |-> "loose"] the placeholder everybody writes for it. *)
EXTENDS RepositoryContext

CONSTANTS Significance,          \* the telling words of a phrase
          MAX_REFERENCE_FILES,   \* REFERENCE_INGEST_MAX_FILES (5000)
          MAX_PHRASES_PER_FILE,  \* REFERENCE_INGEST_MAX_PHRASES_PER_FILE (20)
          Callers                \* bound: requests at work at once

VARIABLES corpus,   \* [files, phrases, secrets]
          ingests,  \* the request of each caller
          begun     \* bound: requests begun

corpusVars == <<corpus, ingests, begun>>

EmptyCorpus == [files |-> {}, phrases |-> {}, secrets |-> {}]

Path(f) == f.words

HasWord(f, terms) == \E t \in terms : MatchesWholeTerm(f.words, t)

\* Locale files, templates, legal texts and docs, but nothing that is the same
\* in every repository.
ClassifyContentFile(f) ==
  /\ ~HasWord(f, {"license", "changelog", "code of conduct", "contributing", "notice"})
  /\ f.kind = "readme" \/ HasWord(f, {"locale", "template", "terms", "privacy", "docs"})

\* The most telling first, at most so many of a file.
MostTelling(texts, limit) ==
  UpTo(SetToSortSeq(texts, LAMBDA s, t : Significance[s] > Significance[t]), limit)

ExtractDistinctivePhrases(f) ==
  MostTelling({w.of : w \in {w \in UNION ToSet(f.lines) : w.as = "phrase"}}, MAX_PHRASES_PER_FILE)

\* All that the secret patterns match in the whole file, placeholders included.
ExtractSecretValueHashes(f) == {w \in UNION ToSet(f.lines) : w.as \in {"known", "loose"}}

\* The first files of the tree by path; of those, the ones not too large or binary.
ReferenceFiles(repo) ==
  SelectSeq(UpTo(SelectSeq(repo.files, LAMBDA f : ~f.excluded), MAX_REFERENCE_FILES),
            LAMBDA f : ~f.big)

HashContent(f) == f.lines

PhrasesOf(f) ==
  IF ClassifyContentFile(f) THEN ToSet(ExtractDistinctivePhrases(f)) ELSE {}

\* What a whole ingest of these files is to leave.
CorpusOfFiles(selected) ==
  LET files == ToSet(selected)
  IN [files |-> {[path |-> Path(f), hash |-> HashContent(f)] : f \in files},
      phrases |-> UNION {{[path |-> Path(f), text |-> t] : t \in PhrasesOf(f)} : f \in files},
      secrets |-> UNION {ExtractSecretValueHashes(f) : f \in files}]

CorpusOf(repo) == CorpusOfFiles(ReferenceFiles(repo))

NoCall == [stage |-> "none", files |-> <<>>, at |-> 1, left |-> <<>>,
           undisturbed |-> FALSE]
Working(c) == ingests[c].stage \notin {"none", "done"}

CorpusInit(start) == corpus = start /\ ingests = [c \in Callers |-> NoCall] /\ begun = 0

\* History: a request is undisturbed while nobody is at work on, or begins with,
\* another commit of the repository.
Begin(c, files, limit) ==
  /\ ~Working(c) /\ begun < limit
  /\ begun' = begun + 1
  /\ ingests' = [d \in Callers |->
       IF d = c THEN [stage |-> "file", files |-> files, at |-> 1, left |-> <<>>,
                      undisturbed |-> \A e \in Callers \ {c} :
                                        Working(e) => ingests[e].files = files]
       ELSE [ingests[d] EXCEPT !.undisturbed = @ /\ ingests[d].files = files]]
  /\ UNCHANGED corpus

\* The clone is there: its tree is the commit's at that time. A clone that fails
\* leaves everything as it was.
IngestReferenceRepo(c, repo, limit) == Begin(c, ReferenceFiles(repo), limit)

\* A removal goes through both deletes even if there is nothing, and then says so.
RemoveReferenceRepo(c, limit) == Begin(c, <<>>, limit)

AtHand(c) == ingests[c].files[ingests[c].at]

AtFile(c) == ingests[c].stage = "file" /\ ingests[c].at <= Len(ingests[c].files)

Upsert(rows, path, row) == {x \in rows : x.path # path} \cup {row}

UpsertFile(c) ==
  /\ AtFile(c)
  /\ corpus' = [corpus EXCEPT !.files =
       Upsert(@, Path(AtHand(c)), [path |-> Path(AtHand(c)), hash |-> HashContent(AtHand(c))])]
  /\ ingests' = [ingests EXCEPT
       ![c].stage = IF ClassifyContentFile(AtHand(c)) THEN "phrases" ELSE "secrets",
       ![c].left = ExtractDistinctivePhrases(AtHand(c))]
  /\ UNCHANGED begun

UpsertPhrase(c) ==
  /\ ingests[c].stage = "phrases" /\ ingests[c].left # <<>>
  /\ corpus' = [corpus EXCEPT !.phrases =
       @ \cup {[path |-> Path(AtHand(c)), text |-> Head(ingests[c].left)]}]
  /\ ingests' = [ingests EXCEPT ![c].left = Tail(@)]
  /\ UNCHANGED begun

\* Mutant: phrases that a file no longer holds are kept with it.
KeepStalePhrases(c) ==
  /\ ingests[c].stage = "phrases" /\ ingests[c].left = <<>>
  /\ ingests' = [ingests EXCEPT ![c].stage = "secrets"]
  /\ UNCHANGED <<corpus, begun>>

DropStalePhrases(c) ==
  /\ ingests[c].stage = "phrases" /\ ingests[c].left = <<>>
  /\ corpus' = [corpus EXCEPT !.phrases =
       {p \in @ : p.path = Path(AtHand(c)) => p.text \in PhrasesOf(AtHand(c))}]
  /\ ingests' = [ingests EXCEPT ![c].stage = "secrets"]
  /\ UNCHANGED begun

\* Credentials are added (hash by hash in the code), and never taken away again.
UpsertSecrets(c) ==
  /\ ingests[c].stage = "secrets"
  /\ corpus' = [corpus EXCEPT !.secrets = @ \cup ExtractSecretValueHashes(AtHand(c))]
  /\ ingests' = [ingests EXCEPT ![c].stage = "file", ![c].at = @ + 1]
  /\ UNCHANGED begun

CurrentFilePaths(c) == {Path(f) : f \in ToSet(ingests[c].files)}

PruneFiles(c) ==
  /\ ingests[c].stage = "file" /\ ~AtFile(c)
  /\ corpus' = [corpus EXCEPT !.files = {x \in @ : x.path \in CurrentFilePaths(c)}]
  /\ ingests' = [ingests EXCEPT ![c].stage = "files pruned"]
  /\ UNCHANGED begun

PrunePhrases(c) ==
  /\ ingests[c].stage = "files pruned"
  /\ corpus' = [corpus EXCEPT !.phrases = {x \in @ : x.path \in CurrentFilePaths(c)}]
  /\ ingests' = [ingests EXCEPT ![c].stage = "done"]
  /\ UNCHANGED begun

CrashIngest(c) == Working(c) /\ ingests' = [ingests EXCEPT ![c] = NoCall] /\ UNCHANGED <<corpus, begun>>

IngestStep(c) ==
  \/ UpsertFile(c) \/ UpsertPhrase(c) \/ DropStalePhrases(c) \/ UpsertSecrets(c)
  \/ PruneFiles(c) \/ PrunePhrases(c)

\* The phrases to search GitHub for, those of all files together.
TopPhrases(limit) ==
  LET rows == UpTo(SetToSortSeq(corpus.phrases,
                                LAMBDA p, q : Significance[p.text] > Significance[q.text]), limit)
  IN [i \in DOMAIN rows |-> rows[i].text]

\* An ingest that is through, and was not crossed by one of another commit or by
\* a removal, leaves exactly the commit's files and phrases, whatever ingests of
\* other commits broke off before it, and however many of the same commit run
\* beside it (ingestReferenceRepo: "re-ingestion replaces the corpus rather than
\* accreting").
CorpusIsTheCommit ==
  \A c \in Callers : ingests[c].stage = "done" /\ ingests[c].undisturbed =>
    LET commit == CorpusOfFiles(ingests[c].files)
    IN /\ corpus.files = commit.files /\ corpus.phrases = commit.phrases
       /\ commit.secrets \subseteq corpus.secrets
=============================================================================
