----------------------------- MODULE BrandMatch -----------------------------
(* How a repository is attributed to a monitored brand                      *)
(* (common/brand-match.ts, common/utils/word-match.util.ts and matchBrand of *)
(* scan-pipeline.service.ts). A text is a set of words. A word [of, as] says *)
(* that the term "of" occurs in it, on its own ("word"), as a component of a *)
(* camelCase identifier ("camel"), buried in a longer word ("inside") or     *)
(* misspelt ("near"); other values of "as" are met in the modules that       *)
(* extend this one. A brand is [names, slug, owners, keywords, hosts]: its    *)
(* name and aliases, the login that is its name, its own accounts, what it     *)
(* wants searched for, and the hosts that are its own.                         *)
EXTENDS Integers, Sequences, FiniteSets, SequencesExt, FiniteSetsExt

Nothing == [type |-> "none", location |-> "none"]

\* No brand.
Nobody == [name |-> "", names |-> {}, slug |-> "nobody", owners |-> {}, keywords |-> <<>>,
           hosts |-> {}, phrases |-> <<>>]

UpTo(s, n) == SubSeq(s, 1, IF Len(s) < n THEN Len(s) ELSE n)

\* The members of a set in an order, and what a list has at these places: what
\* SetToSortSeq and SelectSeq are, in a form the provers can look into.
Sorted(S, Before(_, _)) ==
  [k \in 1..Cardinality(S) |-> CHOOSE i \in S : Cardinality({j \in S : Before(j, i)}) = k - 1]
Ascending(places) == Sorted(places, LAMBDA i, j : i < j)
Those(list, places) == LET at == Ascending(places) IN [k \in DOMAIN at |-> list[at[k]]]

\* Substring, whole word as the rules read it, word or identifier component,
\* and typo: the four ways the code looks for a term.
Includes(text, t) == \E w \in text : w.of = t /\ w.as \in {"word", "camel", "inside"}
MatchesWholeTerm(text, t) == [of |-> t, as |-> "word"] \in text
HasWordBoundaryMatch(text, t) == \E w \in text : w.of = t /\ w.as \in {"word", "camel"}
FuzzyMatches(text, t) == [of |-> t, as |-> "near"] \in text

\* The sources in the order of their strength.
Locations == <<"repo_name", "description", "topics", "file_path", "readme",
               "file_content", "commit_message", "commit_author">>

STRONG_LOCATIONS == {"owner", "repo_name", "description", "topics", "file_path"}

\* The lines of the haystacks [source, file, boost, lines] of one kind.
LinesOf(ctx, source) ==
  UNION {ToSet(h.lines) : h \in {h \in ToSet(ctx.haystacks) : h.source = source}}

OrderedSources(ctx, location) ==
  CASE location = "repo_name" -> {ctx.name}
    [] location = "description" -> {ctx.description}
    [] location = "topics" -> ctx.topics
    [] location = "file_path" -> ctx.paths
    [] location = "readme" -> LinesOf(ctx, "readme")
    [] location = "file_content" -> LinesOf(ctx, "file")
    [] location = "commit_message" -> ctx.commitMessages
    [] location = "commit_author" -> ctx.commitAuthors

\* The hits of the grep over the whole tree take the place of file content;
\* they were checked for word boundaries when they were made.
FoundIn(aliases, ctx, hits, location, type) ==
  \/ location = "file_content" /\ \E h \in hits : h.alias \in aliases
  \/ \E text \in OrderedSources(ctx, location), a \in aliases :
       IF type = "exact" THEN HasWordBoundaryMatch(text, a) ELSE FuzzyMatches(text, a)

First(aliases, ctx, hits, type) ==
  LET found == {i \in DOMAIN Locations : FoundIn(aliases, ctx, hits, Locations[i], type)}
  IN IF found = {} THEN Nothing ELSE [type |-> type, location |-> Locations[Min(found)]]

\* Exact evidence anywhere before fuzzy evidence anywhere, the strongest
\* source of its kind first. The fuzzy pass does not read the grep's hits.
FindBrandMatch(aliases, owners, ctx, hits, exactOnly) ==
  LET exact == First(aliases, ctx, hits, "exact")
  IN CASE aliases = {} -> Nothing
       [] aliases # {} /\ ctx.owner \in owners -> [type |-> "trusted_owner", location |-> "owner"]
       [] OTHER -> IF exact # Nothing \/ exactOnly THEN exact
                   ELSE First(aliases, ctx, {}, "fuzzy")

MATCH_STRENGTH == [trusted_owner |-> 3, exact |-> 2, fuzzy |-> 1, none |-> 0]

LocationTier(e) == IF e.location \in STRONG_LOCATIONS THEN 1 ELSE 0

\* Mutant: the kind of match is compared before its place.
StrongerByTypeFirst(candidate, current) ==
  MATCH_STRENGTH[candidate.type] > MATCH_STRENGTH[current.type]

IsStrongerMatch(candidate, current) ==
  IF LocationTier(candidate) # LocationTier(current)
  THEN LocationTier(candidate) > LocationTier(current)
  ELSE MATCH_STRENGTH[candidate.type] > MATCH_STRENGTH[current.type]

Evidence(brand, ctx) == FindBrandMatch(brand.names, brand.owners, ctx, ctx.brandHits, FALSE)

\* The position in the list of the brand the repository is attributed to, 0 if
\* there is none; of two matches as strong the first stays.
FindBestBrandMatch(brands, ctx) ==
  LET E(i) == Evidence(brands[i], ctx)
      Better(best, i) == IF /\ E(i) # Nothing
                            /\ best = 0 \/ IsStrongerMatch(E(i), E(best))
                         THEN i ELSE best
  IN FoldLeft(Better, 0, [i \in DOMAIN brands |-> i])

\* A brand's own keywords, each looked for as if it were a brand, until the cap.
FindKeywordMatches(keywords, ctx, maxMatches) ==
  LET Of(k) == FindBrandMatch({k}, {}, ctx, ctx.keywordHits, TRUE)
      found == UpTo(Those(keywords, {i \in DOMAIN keywords : Of(keywords[i]) # Nothing}), maxMatches)
  IN [i \in DOMAIN found |-> Of(found[i])]

\* The first guess, made from the search result alone: the trusted owner of
\* any brand, then the first brand named in the name, description or topics, or
\* that the three together resemble as a whole.
MatchBrand(brands, item) ==
  LET blob == item.name \cup item.description \cup UNION item.topics
      owned == {i \in DOMAIN brands : item.owner \in brands[i].owners}
      named == {i \in DOMAIN brands :
                  \E a \in brands[i].names : Includes(blob, a) \/ blob = {[of |-> a, as |-> "near"]}}
  IN IF owned # {} THEN Min(owned) ELSE IF named # {} THEN Min(named) ELSE 0
=============================================================================
