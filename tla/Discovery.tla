------------------------------ MODULE Discovery ------------------------------
(***************************************************************************)
(* The discovery of repositories by GitHub search: scans whose queries are *)
(* paged, split when GitHub would not return all of their results, and     *)
(* continued by a later scan from the bookmark that each query has in its  *)
(* workspace.                                                              *)
(*                                                                         *)
(* A step is what a search job does between two awaits.  The counters that *)
(* tell when a scan is over are in ScanLifecycle: here a scan is over when *)
(* it has no job left.                                                     *)
(*                                                                         *)
(* Abstracted: a repository is a number, its date of creation for          *)
(* repository search, the size of its matching file for code search; a     *)
(* query is its range of these numbers and its language, the rest of its   *)
(* text being the same; GitHub answers alike every time, the largest       *)
(* number first.  A child is named by its text, whose hash is its index.   *)
(***************************************************************************)
EXTENDS Integers, FiniteSets, FiniteSetsExt

CONSTANTS
  Repo,          \* the repositories there are: numbers
  Language,      \* language[r]: JavaScript and the like, or "other"
  SplitLanguages,
  Outside,       \* repositories outside the window of dates that the scans ask for
  Scan,          \* scans of one workspace, each for a brand of its own
  Continue,      \* scans that continue from the bookmarks
  Plans,         \* what the scans may be: [only: those that only discover, root: the
                 \* queries that the orchestrator makes for each, maxRepos: their cap, batch: results on a page,
                 \* maxFaults: bound on failed jobs, retried orchestrators and cancels]
  MaxResults,    \* GITHUB_SEARCH_MAX_RESULTS
  Threshold,     \* CODE_SEARCH_SPLIT_THRESHOLD, DATE_RANGE_SPLIT_THRESHOLD
  MinWidth,      \* MIN_SPLIT_WIDTH_MS, MIN_SPLIT_SIZE_WIDTH_BYTES
  MaxDepth,      \* MAX_DATE_SPLIT_DEPTH, MAX_SIZE_SPLIT_DEPTH
  Worker         \* bound: search jobs that run at once

ASSUME DiscoveryConstantsOK ==
  /\ Repo \subseteq Int /\ Outside \subseteq Repo /\ Continue \subseteq Scan
  /\ IsFiniteSet(Repo) /\ IsFiniteSet(Worker)
  /\ DOMAIN Language = Repo /\ \A r \in Repo : Language[r] \in SplitLanguages \cup {"other"}
  /\ "any" \notin SplitLanguages /\ "none" \notin Scan
  /\ \A p \in Plans :
       /\ p.only \subseteq Scan /\ {p.maxRepos, p.batch} \subseteq Nat \ {0} /\ p.maxFaults \in Nat
       /\ DOMAIN p.root = Scan
       /\ \A s \in Scan : \A q \in p.root[s] :
            /\ DOMAIN q = {"kind", "lang", "lo", "hi"} /\ {q.lo, q.hi} \subseteq Int
            /\ q.kind = "repositories" \/ (q.kind = "code" /\ q.lang = "any")
  /\ MaxResults \in Nat \ {0} /\ MinWidth \in Nat \ {0, 1}
  /\ Threshold \in 1 .. MaxResults /\ MaxDepth \in Nat

VARIABLES
  plan,        \* what the scans are
  known,       \* repositories with a document
  credit,      \* brands a document names: [first, also]
  cursor,      \* the bookmarks: query -> [page, exhausted]
  scan,        \* the scans' documents
  added,       \* search jobs ever added: an id is added once
  ready,       \* those that wait
  job,         \* what each worker does
  faults,      \* failures so far
  cut,         \* history: repositories passed over by a cap, a cancel or a failure
  raced        \* history: repositories that two scans took for new at once

vars == <<plan, known, credit, cursor, scan, added, ready, job, faults, cut, raced>>
-----------------------------------------------------------------------------
(* Queries and their results.                                              *)

Query(kind, lang, lo, hi) == [kind |-> kind, lang |-> lang, lo |-> lo, hi |-> hi]

\* A catch-all child has lang = "other": none of the languages that have a child.
Hits(q) == {r \in Repo : /\ r \in q.lo .. q.hi
                         /\ q.lang = "any" \/ Language[r] = q.lang}

Rank(q, r) == Cardinality({x \in Hits(q) : x >= r})

\* GitHub's answer: no more than MaxResults of a query can be had.
OnPage(q, page) ==
  {r \in Hits(q) : Rank(q, r) \in ((page - 1) * plan.batch + 1) .. (page * plan.batch) /\ Rank(q, r) <= MaxResults}

\* As if the halves of a range both left out the middle.
HalvesApart(q) ==
  LET mid == q.lo + (q.hi - q.lo) \div 2 IN
  IF q.hi - q.lo < MinWidth THEN {}
  ELSE {[q EXCEPT !.hi = mid - 1], [q EXCEPT !.lo = mid + 1]}

\* splitCreatedRangeQuery, splitSizeRangeQuery
Halves(q) ==
  LET mid == q.lo + (q.hi - q.lo) \div 2 IN
  IF q.hi - q.lo < MinWidth THEN {}
  ELSE IF q.kind = "repositories"
    THEN {[q EXCEPT !.hi = mid - 1], [q EXCEPT !.lo = mid]}
    ELSE {[q EXCEPT !.hi = mid], [q EXCEPT !.lo = mid + 1]}

\* buildLanguageSplitQueries
ByLanguage(q) == {[q EXCEPT !.lang = l] : l \in SplitLanguages \cup {"other"}}

\* The children of a job, with their depth.  A code query is split by language first;
\* only its children (family "-split") by size.
Children(j) ==
  IF j.page # 1 \/ Cardinality(Hits(j.query)) < Threshold THEN {}
  ELSE IF j.query.kind = "code" /\ ~j.split
    THEN {[j EXCEPT !.query = q, !.split = TRUE] : q \in ByLanguage(j.query)}
  ELSE IF j.depth >= MaxDepth THEN {}
  ELSE {[j EXCEPT !.query = q, !.depth = @ + 1] : q \in Halves(j.query)}

-----------------------------------------------------------------------------
Idle == [at |-> "idle"]

Brands == Scan
Nobody == [first |-> "none", also |-> {}]

Init ==
  /\ plan \in Plans
  /\ known = {} /\ credit = [r \in Repo |-> Nobody]
  /\ cursor = <<>>
  /\ scan = [s \in Scan |-> [status |-> "new", claims |-> {}, found |-> {}, count |-> 0,
                             pages |-> <<>>, handed |-> {}, hurt |-> FALSE]]
  /\ added = {} /\ ready = {} /\ job = [w \in Worker |-> Idle]
  /\ faults = 0 /\ cut = {} /\ raced = {}

\* getResumePage
Resume(q) == IF q \in DOMAIN cursor /\ ~cursor[q].exhausted THEN cursor[q].page + 1 ELSE 1

ResumePageFor(s, q) == IF s \in Continue THEN Resume(q) ELSE 1

Put(f, q, v) == [x \in DOMAIN f \cup {q} |-> IF x = q THEN v ELSE f[x]]

\* An id that has been added is not added again; depth and family are no part of it.
Id(j) == <<j.scan, j.query, j.page>>
New(js) == {j \in js : \A old \in added : Id(old) # Id(j)}
Enqueue(js) == added' = added \cup New(js) /\ ready' = ready \cup New(js)

Busy(s) == (\E j \in ready : j.scan = s) \/ \E w \in Worker : job[w].at # "idle" /\ job[w].job.scan = s

\* The orchestrator: of a query that has a page in the scan's own checkpoint, the next one.
Roots(s) ==
  {[scan |-> s, query |-> q, depth |-> 0, split |-> FALSE,
    page |-> IF q \in DOMAIN scan[s].pages THEN scan[s].pages[q] + 1 ELSE ResumePageFor(s, q)]
     : q \in plan.root[s]}

Start(s) ==
  /\ scan[s].status = "new" /\ scan' = [scan EXCEPT ![s].status = "running"]
  /\ Enqueue(Roots(s))
  /\ UNCHANGED <<plan, known, credit, cursor, job, faults, cut, raced>>

\* BullMQ runs the orchestrator again.
Restart(s) ==
  /\ scan[s].status = "running" /\ faults < plan.maxFaults /\ faults' = faults + 1
  /\ Enqueue(Roots(s)) /\ added' # added
  /\ UNCHANGED <<plan, known, credit, cursor, scan, job, cut, raced>>

Cancel(s) ==
  /\ scan[s].status = "running" /\ Busy(s) /\ faults < plan.maxFaults /\ faults' = faults + 1
  /\ scan' = [scan EXCEPT ![s].status = "cancelled"]
  /\ UNCHANGED <<plan, known, credit, cursor, added, ready, job, cut, raced>>

-----------------------------------------------------------------------------
(* A search job.                                                           *)

\* A job that the code ends without doing anything more.
Done(w) == job' = [job EXCEPT ![w] = Idle]

\* A page some of whose results GitHub would return.
CanBeHad(page) == (page - 1) * plan.batch < MaxResults

\* The scan is read once: before is its count of discovered repositories.
Begin(w) ==
  \E j \in ready :
    LET s == j.scan IN
    /\ job[w].at = "idle" /\ ready' = ready \ {j}
    /\ IF scan[s].status = "cancelled" \/ scan[s].count >= plan.maxRepos
         THEN UNCHANGED <<job, cursor>>
         ELSE IF ~CanBeHad(j.page)
           THEN /\ cursor' = Put(cursor, j.query, [page |-> j.page, exhausted |-> TRUE])
                /\ UNCHANGED job
           ELSE /\ job' = [job EXCEPT ![w] =
                     [at |-> "answer", job |-> j, before |-> scan[s].count, pages |-> scan[s].pages,
                      todo |-> OnPage(j.query, j.page), took |-> 0, split |-> FALSE]]
                /\ UNCHANGED cursor
    /\ UNCHANGED <<plan, known, credit, scan, added, faults, cut, raced>>

\* GitHub has answered: the children of a query with too many results, each from its
\* own bookmark.
Split(w) ==
  /\ job[w].at = "answer"
  /\ LET kids == Children(job[w].job) IN
     /\ Enqueue({[k EXCEPT !.page = ResumePageFor(k.scan, k.query)] : k \in kids})
     /\ job' = [job EXCEPT ![w].at = "item", ![w].split = kids # {}]
  /\ UNCHANGED <<plan, known, credit, cursor, scan, faults, cut, raced>>

Item(w) == Max(job[w].todo)
Drop(w) == job' = [job EXCEPT ![w].at = "item", ![w].todo = @ \ {Item(w)}]

MayClaimUncapped(s, r) == r \notin scan[s].claims

\* claimRepositoryForAnalysis reads the scan.
MayClaim(s, r) == r \notin scan[s].claims /\ Cardinality(scan[s].claims) < plan.maxRepos
Capped(s, r) == r \notin scan[s].claims /\ Cardinality(scan[s].claims) >= plan.maxRepos

\* As if a repository that has a document were passed over in silence.
NotedSilent(s, r) == UNCHANGED credit

\* recordAdditionalBrandMatch
Noted(s, r) == credit' = [credit EXCEPT ![r].also = IF credit[r].first = s THEN @ ELSE @ \cup {s}]

\* A result: a cancelled scan takes no more; code search has no dates to ask for, so its
\* results are compared with the window here; a scan that only discovers passes over a
\* repository that has a document, and notes its brand.  The two reads before a claim, of
\* the document and of the scan, are one step: neither is of what the other's writers write.
Look(w) ==
  LET s == job[w].job.scan  r == Item(w) IN
  /\ job[w].at = "item" /\ job[w].todo # {}
  /\ IF scan[s].status = "cancelled"
       THEN /\ job' = [job EXCEPT ![w].todo = {}] /\ cut' = cut \cup job[w].todo
            /\ UNCHANGED credit
       ELSE IF job[w].job.query.kind = "code" /\ r \in Outside
         THEN Drop(w) /\ UNCHANGED <<credit, cut>>
         ELSE IF s \in plan.only /\ r \in known
           THEN Noted(s, r) /\ Drop(w) /\ UNCHANGED cut
           ELSE /\ IF MayClaim(s, r) THEN job' = [job EXCEPT ![w].at = "claim"] ELSE Drop(w)
                /\ cut' = IF Capped(s, r) THEN cut \cup {r} ELSE cut
                /\ UNCHANGED credit
  /\ UNCHANGED <<plan, known, cursor, scan, added, ready, faults, raced>>

\* It writes if nobody else has claimed the repository since.
Claim(w) ==
  LET s == job[w].job.scan  r == Item(w) IN
  /\ job[w].at = "claim"
  /\ IF r \in scan[s].claims
       THEN Drop(w) /\ UNCHANGED scan
       ELSE /\ scan' = [scan EXCEPT ![s].claims = @ \cup {r}]
            /\ job' = [job EXCEPT ![w].at = "record"]
  /\ UNCHANGED <<plan, known, credit, cursor, added, ready, faults, cut, raced>>

\* The new repository, after its dates have been fetched if code search found it: a
\* document that names the scan's brand (upsertRepository) and is counted after that, or
\* an analysis job, counted before.  The three writes are one step: a throw between them is
\* the failure of the claim as a whole (Fail).
Record(w) ==
  LET s == job[w].job.scan  r == Item(w) IN
  /\ job[w].at = "record"
  /\ IF s \in plan.only
       THEN /\ known' = known \cup {r} /\ credit' = [credit EXCEPT ![r].first = s]
            /\ raced' = IF r \in known THEN raced \cup {r} ELSE raced
       ELSE UNCHANGED <<known, credit, raced>>
  /\ scan' = [scan EXCEPT ![s].count = @ + 1, ![s].found = @ \cup {r},
                          ![s].handed = IF s \in plan.only THEN @ ELSE @ \cup {r}]
  /\ job' = [job EXCEPT ![w].at = "item", ![w].todo = @ \ {r}, ![w].took = @ + 1]
  /\ UNCHANGED <<plan, cursor, added, ready, faults, cut>>

\* An analysis writes the document.
Analyse(s) ==
  /\ \E r \in scan[s].handed : /\ known' = known \cup {r}
                               /\ scan' = [scan EXCEPT ![s].handed = @ \ {r}]
  /\ UNCHANGED <<plan, credit, cursor, added, ready, job, faults, cut, raced>>

\* hasMoreResults
More(w) ==
  LET j == job[w].job IN
  /\ ~job[w].split
  /\ Cardinality(OnPage(j.query, j.page)) = plan.batch
  /\ Cardinality(Hits(j.query)) > j.page * plan.batch
  /\ j.page * plan.batch < MaxResults

\* As if the bookmark were put before the page that comes next.
BookmarkAhead(w) ==
  LET j == job[w].job IN
  /\ job[w].at = "item" /\ job[w].todo = {}
  /\ scan' = [scan EXCEPT ![j.scan].pages = Put(job[w].pages, j.query, j.page)]
  /\ cursor' = Put(cursor, j.query, [page |-> j.page + (IF More(w) THEN 1 ELSE 0), exhausted |-> ~More(w)])
  /\ job' = [job EXCEPT ![w].at = "next"]
  /\ UNCHANGED <<plan, known, credit, added, ready, faults, cut, raced>>

\* The page is through: the scan's checkpoint, with the other queries' pages as they were
\* when the job began, and the query's bookmark, one save after the other in the code.
Bookmark(w) ==
  LET j == job[w].job IN
  /\ job[w].at = "item" /\ job[w].todo = {}
  /\ scan' = [scan EXCEPT ![j.scan].pages = Put(job[w].pages, j.query, j.page)]
  /\ cursor' = Put(cursor, j.query, [page |-> j.page, exhausted |-> ~More(w)])
  /\ job' = [job EXCEPT ![w].at = "next"]
  /\ UNCHANGED <<plan, known, credit, added, ready, faults, cut, raced>>

\* The next page, unless the scan has enough by what this job knows.
NextPage(w) ==
  LET j == job[w].job IN
  /\ job[w].at = "next"
  /\ IF More(w) /\ job[w].before + job[w].took < plan.maxRepos
       THEN Enqueue({[j EXCEPT !.page = @ + 1]})
       ELSE UNCHANGED <<added, ready>>
  /\ Done(w)
  /\ UNCHANGED <<plan, known, credit, cursor, scan, faults, cut, raced>>

\* The job fails anywhere, or its process dies: it is tried again, or this was its last
\* attempt.  A repository it has claimed and not recorded stays claimed.
Fail(w) ==
  /\ job[w].at # "idle" /\ faults < plan.maxFaults /\ faults' = faults + 1
  /\ \/ ready' = ready \cup {job[w].job} /\ UNCHANGED scan
     \/ scan' = [scan EXCEPT ![job[w].job.scan].hurt = TRUE] /\ UNCHANGED ready
  /\ cut' = IF job[w].at = "record" THEN cut \cup {Item(w)} ELSE cut
  /\ Done(w)
  /\ UNCHANGED <<plan, known, credit, cursor, added, raced>>

Next ==
  \/ \E s \in Scan : Start(s) \/ Restart(s) \/ Cancel(s) \/ Analyse(s)
  \/ \E w \in Worker : \/ Begin(w) \/ Split(w) \/ Look(w) \/ Claim(w)
                       \/ Record(w) \/ Bookmark(w) \/ NextPage(w) \/ Fail(w)

Spec == Init /\ [][Next]_vars

-----------------------------------------------------------------------------
(* Properties.                                                             *)

\* Pages are bounded (GITHUB_SEARCH_MAX_RESULTS) but for the one that a bookmark at the
\* last page or a retried orchestrator asks for; splits by MAX_DATE_SPLIT_DEPTH.
Asked(page) == page \in Nat \ {0} /\ (page = 1 \/ CanBeHad(page - 1))

JobTyped(j) ==
  /\ DOMAIN j = {"scan", "query", "depth", "split", "page"}
  /\ j.scan \in Scan /\ j.depth \in 0 .. MaxDepth /\ j.split \in BOOLEAN /\ Asked(j.page)

WorkTyped(work) ==
  \/ work = Idle
  \/ /\ DOMAIN work = {"at", "job", "before", "pages", "todo", "took", "split"}
     /\ work.at \in {"answer", "item", "claim", "record", "next"}
     /\ work.job \in added /\ CanBeHad(work.job.page)
     /\ work.todo \subseteq Repo /\ work.split \in BOOLEAN
     /\ work.before \in Nat /\ work.took \in Nat

ScanTyped(s) ==
  /\ DOMAIN scan[s] = {"status", "claims", "found", "count", "pages", "handed", "hurt"}
  /\ scan[s].status \in {"new", "running", "cancelled"} /\ scan[s].hurt \in BOOLEAN
  /\ scan[s].claims \subseteq Repo /\ scan[s].found \subseteq scan[s].claims
  /\ scan[s].handed \subseteq Repo
  /\ scan[s].count \in 0 .. Cardinality(scan[s].claims)

TypeOK ==
  /\ plan \in Plans /\ known \subseteq Repo
  /\ credit \in [Repo -> [first : Brands \cup {"none"}, also : SUBSET Brands]]
  /\ \A q \in DOMAIN cursor :
       /\ DOMAIN cursor[q] = {"page", "exhausted"}
       /\ Asked(cursor[q].page) /\ cursor[q].exhausted \in BOOLEAN
  /\ DOMAIN scan = Scan /\ \A s \in Scan : ScanTyped(s)
  /\ ready \subseteq added /\ \A j \in added : JobTyped(j)
  /\ DOMAIN job = Worker /\ \A w \in Worker : WorkTyped(job[w])
  /\ faults \in 0 .. plan.maxFaults /\ cut \subseteq Repo /\ raced \subseteq Repo

Found == known \cup UNION {scan[s].handed : s \in Scan}
InHand == {Item(w) : w \in {x \in Worker : job[x].at = "record"}}
Held == Found \cup InHand \cup cut
AtRest == ready = {} /\ \A w \in Worker : job[w].at = "idle"

Overshoot == Cardinality(Worker) - 1

\* "maxRepos": a scan's claims exceed its cap by no more than the other jobs that had read
\* the claims when it was still free.  (With the type of every variable.)
CapKept == TypeOK /\ \A s \in Scan : Cardinality(scan[s].claims) <= plan.maxRepos + Overshoot

\* Of the results of q, what needs no more looking at.
Covered(q) == Held \cup (IF q.kind = "code" THEN Outside ELSE {})
Through(q, last) == \A page \in 1 .. last : OnPage(q, page) \subseteq Covered(q)

\* "the last page actually completed for this query, so a future scan can continue past it":
\* what is on the pages up to a bookmark has been found or is about to be, or was passed over
\* by the cap, a cancel or a failure.
BookmarkCovers == \A q \in DOMAIN cursor : ~cursor[q].exhausted => Through(q, cursor[q].page)

\* What GitHub does not return: more than MaxResults of a query that the scan did not split,
\* for it is too narrow or too deep, or is continued from a bookmark.
IsSplit(s, q) == \E j \in added : j.scan = s /\ j.query = q /\ Children(j) # {}
OutOfReach(s) == {r \in Repo : \E j \in added : /\ j.scan = s /\ ~IsSplit(s, j.query)
                                                /\ r \in Hits(j.query) /\ Rank(j.query, r) > MaxResults}

Clean(s) == scan[s].status # "cancelled" /\ ~scan[s].hurt /\ Cardinality(scan[s].claims) < plan.maxRepos

\* "every file GitHub returns for the base query is now covered by exactly one": at rest,
\* a scan that was not cancelled, hurt or full has found everything that its queries match
\* and GitHub returns, itself or by the scans before it, however the queries were split.
NothingMissed ==
  AtRest => \A s \in Scan :
    scan[s].status # "new" /\ Clean(s) =>
      \A q \in plan.root[s] : Hits(q) \subseteq Covered(q) \cup OutOfReach(s)

\* "would otherwise silently vanish for every brand except whichever one happened to
\* discover it first": at rest a repository names every brand whose scan, one that only
\* discovers, has had all of its results, unless two scans took it for new at once.
EveryBrandNamed ==
  AtRest => \A s \in plan.only \ Continue :
    scan[s].status # "new" /\ Clean(s) =>
      \A q \in plan.root[s] : \A r \in Hits(q) \ (cut \cup raced \cup Outside \cup OutOfReach(s)) :
        s \in credit[r].also \cup {credit[r].first}
-----------------------------------------------------------------------------
(* The inductive invariant of the first two.                               *)

\* A checkpoint's pages, as the scan or a job that read them has them.
PagesDone(pages) == \A q \in DOMAIN pages :
  pages[q] \in Nat \ {0} /\ CanBeHad(pages[q]) /\ Through(q, pages[q])

At(label, s) == {w \in Worker : job[w].at = label /\ job[w].job.scan = s}

\* What a scan has claimed is found, in hand or lost; what is about to be claimed counts;
\* what is being recorded is recorded once.
ScanSound(s) ==
  /\ scan[s].count = Cardinality(scan[s].found)
  /\ scan[s].claims \subseteq Held
  /\ Cardinality(scan[s].claims) + Cardinality(At("claim", s)) <= plan.maxRepos + Overshoot
  /\ \A w \in At("record", s) :
       /\ Item(w) \in scan[s].claims \ scan[s].found
       /\ \A u \in At("record", s) : u # w => Item(u) # Item(w)
  /\ PagesDone(scan[s].pages)

\* A page is asked for when those before it are through.
JobSound(j) == Through(j.query, j.page - 1)

\* What a job has left of its page is what is not covered.
WorkSound(work) == work # Idle =>
  LET j == work.job IN
  /\ work.todo \subseteq OnPage(j.query, j.page)
  /\ OnPage(j.query, j.page) \ work.todo \subseteq Covered(j.query)
  /\ PagesDone(work.pages)
  /\ work.at \in {"claim", "record"} => work.todo # {}
  /\ work.at = "next" => work.todo = {}

DiscoveryInv ==
  /\ CapKept /\ BookmarkCovers
  /\ \A q \in DOMAIN cursor : ~cursor[q].exhausted => CanBeHad(cursor[q].page)
  /\ \A s \in Scan : ScanSound(s)
  /\ \A j \in added : JobSound(j)
  /\ \A w \in Worker : WorkSound(job[w])
-----------------------------------------------------------------------------
(* What it takes besides for the other two.                                *)

\* Smaller for the children of a query.
Size(q) == 2 * (q.hi - q.lo) + (IF q.kind = "code" /\ q.lang = "any" THEN 1 ELSE 0)

\* A code query is split by language only if it has none.
QuerySound(j) ==
  /\ DOMAIN j.query = {"kind", "lang", "lo", "hi"} /\ {j.query.lo, j.query.hi} \subseteq Int
  /\ j.query.kind = "repositories" \/ (j.query.kind = "code" /\ (j.split \/ j.query.lang = "any"))

\* Every result of q is one of a smaller query that the scan asks for.
HandedDown(s, q) == \A r \in Hits(q) :
  \E i \in added : i.scan = s /\ i.query.kind = q.kind /\ r \in Hits(i.query) /\ Size(i.query) < Size(q)

MoreAfter(j) ==
  /\ Cardinality(OnPage(j.query, j.page)) = plan.batch
  /\ Cardinality(Hits(j.query)) > j.page * plan.batch
  /\ j.page * plan.batch < MaxResults

\* What comes after a page has been asked for.
Followed(j) ==
  IF Children(j) # {} THEN HandedDown(j.scan, j.query)
  ELSE MoreAfter(j) => \E i \in added : Id(i) = <<j.scan, j.query, j.page + 1>>

Pending(j) == j \in ready \/ \E w \in Worker : job[w].at # "idle" /\ job[w].job = j

\* A job that is over has dealt with its page, unless its scan ended early.
JobsFollowed == \A j \in added :
  /\ QuerySound(j)
  /\ Pending(j) \/ ~Clean(j.scan) \/ (OnPage(j.query, j.page) \subseteq Covered(j.query) /\ Followed(j))

RootsAsked == \A s \in Scan : scan[s].status # "new" =>
  \A q \in plan.root[s] : \E j \in added : j.scan = s /\ j.query = q

\* What a job knows of its scan's count, and of its children.
SplitsHanded == \A w \in Worker : job[w].at # "idle" =>
  LET j == job[w].job IN
  /\ job[w].before + job[w].took <= scan[j.scan].count
  /\ job[w].at # "answer" => /\ job[w].split = (Children(j) # {})
                             /\ Children(j) # {} => HandedDown(j.scan, j.query)

PagingInv == JobsFollowed /\ RootsAsked /\ SplitsHanded

\* Of the results of a scan that only discovers and continues nothing, what names its brand.
Named(s) == {r \in Repo : s \in credit[r].also \cup {credit[r].first}}
              \cup cut \cup raced \cup Outside \cup {Item(w) : w \in At("record", s)}

NamedTo(s, q, last) == \A page \in 1 .. last : OnPage(q, page) \subseteq Named(s)
AllNamed(s, pages) == \A q \in DOMAIN pages : NamedTo(s, q, pages[q])

NamingSound(s) ==
  /\ scan[s].claims \subseteq Named(s) /\ AllNamed(s, scan[s].pages)
  /\ \A j \in added : j.scan = s =>
       /\ NamedTo(s, j.query, j.page - 1)
       /\ Pending(j) \/ ~Clean(s) \/ OnPage(j.query, j.page) \subseteq Named(s)
  /\ \A w \in Worker : job[w].at # "idle" /\ job[w].job.scan = s =>
       LET j == job[w].job IN
       AllNamed(s, job[w].pages) /\ OnPage(j.query, j.page) \ job[w].todo \subseteq Named(s)

NamingInv ==
  /\ \A r \in Repo : credit[r].first # "none" => r \in known
  /\ \A s \in plan.only \ Continue : NamingSound(s)
=============================================================================
