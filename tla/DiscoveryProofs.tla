--------------------------- MODULE DiscoveryProofs ---------------------------
(***************************************************************************)
(* The discovery of repositories for any number of scans, workers, results *)
(* and plans, whatever fails: a scan keeps to its cap but for the jobs     *)
(* that race for the last place, no bookmark stands past a page that       *)
(* nobody has been through, a scan that ends as it should has missed       *)
(* nothing that GitHub returns, and its brand is on all of its results.    *)
(***************************************************************************)
EXTENDS Discovery, FiniteSetTheorems, FunctionTheorems, WellFoundedInduction, TLAPS

-----------------------------------------------------------------------------
(* The parts of the invariant.                                              *)

HistorySound ==
  /\ plan \in Plans /\ known \subseteq Repo
  /\ credit \in [Repo -> [first : Brands \cup {"none"}, also : SUBSET Brands]]
  /\ faults \in 0 .. plan.maxFaults /\ cut \subseteq Repo /\ raced \subseteq Repo

BookmarkSound(q, mark) ==
  /\ DOMAIN mark = {"page", "exhausted"}
  /\ Asked(mark.page) /\ mark.exhausted \in BOOLEAN
  /\ ~mark.exhausted => CanBeHad(mark.page) /\ Through(q, mark.page)

CursorSound == \A q \in DOMAIN cursor : BookmarkSound(q, cursor[q])

ScansSound == DOMAIN scan = Scan /\ \A s \in Scan : ScanTyped(s) /\ ScanSound(s)

QueueSound == ready \subseteq added /\ \A j \in added : JobTyped(j) /\ JobSound(j)

WorkersSound == DOMAIN job = Worker /\ \A w \in Worker : WorkTyped(job[w]) /\ WorkSound(job[w])

LEMMA PlanOK ==
  ASSUME plan \in Plans
  PROVE  /\ plan.only \subseteq Scan /\ plan.maxRepos \in Nat \ {0} /\ plan.batch \in Nat \ {0}
         /\ plan.maxFaults \in Nat
BY DiscoveryConstantsOK DEF DiscoveryConstantsOK

LEMMA Workers ==
  ASSUME NEW S \in SUBSET Worker
  PROVE  /\ IsFiniteSet(S) /\ Cardinality(S) \in Nat /\ Cardinality(Worker) \in Nat
         /\ Cardinality(S) <= Cardinality(Worker)
         /\ \A T \in SUBSET S : Cardinality(T) \in Nat /\ Cardinality(T) <= Cardinality(S)
         /\ \A w \in S : Cardinality(S \ {w}) = Cardinality(S) - 1
<1>1. IsFiniteSet(Worker)
  BY DiscoveryConstantsOK DEF DiscoveryConstantsOK
<1>2. IsFiniteSet(S) /\ Cardinality(S) <= Cardinality(Worker)
  BY <1>1, FS_Subset
<1>3. \A T \in SUBSET S : IsFiniteSet(T) /\ Cardinality(T) <= Cardinality(S)
  BY <1>2, FS_Subset
<1>4. \A w \in S : Cardinality(S \ {w}) = Cardinality(S) - 1
  BY <1>2, FS_RemoveElement
<1>5. \A T : IsFiniteSet(T) => Cardinality(T) \in Nat
  BY FS_CardinalityType
<1>6. QED
  BY <1>1, <1>2, <1>3, <1>4, <1>5

LEMMA Repos ==
  ASSUME NEW S \in SUBSET Repo
  PROVE  /\ IsFiniteSet(S) /\ Cardinality(S) \in Nat
         /\ \A r \in Repo \ S : Cardinality(S \cup {r}) = Cardinality(S) + 1
<1>1. IsFiniteSet(S)
  BY FS_Subset, DiscoveryConstantsOK DEF DiscoveryConstantsOK
<1>2. Cardinality(S) \in Nat
  BY <1>1, FS_CardinalityType
<1>3. \A r \in Repo \ S : Cardinality(S \cup {r}) = Cardinality(S) + 1
  BY <1>1, FS_AddElement
<1>4. QED
  BY <1>1, <1>2, <1>3

LEMMA Fewer ==
  ASSUME NEW S \in SUBSET Repo, NEW T \in SUBSET S
  PROVE  Cardinality(T) <= Cardinality(S)
BY Repos, FS_Subset

LEMMA Within ==
  ASSUME NEW m \in Nat, NEW n \in Nat, m <= n
  PROVE  m \in 0 .. n
OBVIOUS

\* The cap follows from what is claimed and about to be.
LEMMA InvariantParts ==
  DiscoveryInv <=> HistorySound /\ CursorSound /\ ScansSound /\ QueueSound /\ WorkersSound
<1>1. ASSUME ScansSound, plan \in Plans, NEW s \in Scan
      PROVE  Cardinality(scan[s].claims) <= plan.maxRepos + Overshoot
  <2>1. /\ Cardinality(scan[s].claims) + Cardinality(At("claim", s)) <= plan.maxRepos + Overshoot
        /\ scan[s].claims \in SUBSET Repo
    BY <1>1 DEF ScansSound, ScanSound, ScanTyped
  <2>2. /\ Cardinality(scan[s].claims) \in Nat /\ plan.maxRepos \in Nat
        /\ Cardinality(At("claim", s)) \in Nat /\ Overshoot \in Int
    BY <1>1, <2>1, Repos, Workers, PlanOK DEF At, Overshoot
  <2>3. QED
    BY <2>1, <2>2
<1>2. DiscoveryInv => HistorySound /\ CursorSound /\ ScansSound /\ QueueSound /\ WorkersSound
  BY DEF DiscoveryInv, CapKept, BookmarkCovers, TypeOK, HistorySound, CursorSound, BookmarkSound,
         ScansSound, QueueSound, WorkersSound
<1>3. HistorySound /\ CursorSound /\ ScansSound /\ QueueSound /\ WorkersSound => DiscoveryInv
  <2>1. ASSUME HistorySound, CursorSound, ScansSound, QueueSound, WorkersSound PROVE CapKept
    BY <1>1, <2>1 DEF CapKept, TypeOK, HistorySound, CursorSound, BookmarkSound, ScansSound,
                      QueueSound, WorkersSound
  <2>2. QED
    BY <2>1 DEF DiscoveryInv, BookmarkCovers, CursorSound, BookmarkSound, ScansSound, QueueSound,
                WorkersSound
<1>4. QED
  BY <1>2, <1>3

-----------------------------------------------------------------------------
(* The largest of what is left.                                             *)

LEMMA LargestIs ==
  ASSUME NEW S \in SUBSET Repo, S # {}
  PROVE  Max(S) \in S /\ \A x \in S : x <= Max(S)
<1> DEFINE Above(x) == {y \in S : y >= x}
           tails == {Above(x) : x \in S}
<1>1. S \subseteq Int /\ IsFiniteSet(S)
  BY FS_Subset, DiscoveryConstantsOK DEF DiscoveryConstantsOK
<1>2. tails \subseteq FiniteSubsetsOf(S) /\ tails # {}
  <2>1. ASSUME NEW x \in S PROVE Above(x) \in FiniteSubsetsOf(S)
    <3>1. Above(x) \in SUBSET S
      OBVIOUS
    <3> HIDE DEF Above
    <3>2. QED
      BY <1>1, <3>1, FS_Subset DEF FiniteSubsetsOf
  <2> HIDE DEF Above
  <2>2. QED
    BY <2>1
<1>3. IsWellFoundedOn(StrictSubsetOrdering(S), FiniteSubsetsOf(S))
  BY FS_StrictSubsetOrderingWellFounded
<1> HIDE DEF tails
<1>4. PICK least \in tails : \A other \in tails : ~ <<other, least>> \in StrictSubsetOrdering(S)
  BY <1>2, <1>3, WFMin
<1> USE DEF tails
<1>5. PICK top \in S : least = Above(top)
  BY <1>4
<1>6. ASSUME NEW y \in S, y > top PROVE FALSE
  <2>1. Above(y) \subseteq Above(top) /\ top \in Above(top) /\ top \notin Above(y)
    <3>1. \A z \in S : z \in Int
      BY <1>1
    <3>2. top \in S /\ y \in S /\ y > top
      BY <1>6
    <3>3. \A z \in S : z >= y => z >= top
      BY <3>1, <3>2
    <3>4. top >= top /\ ~ top >= y
      BY <3>1, <3>2
    <3>5. QED
      BY <3>2, <3>3, <3>4
  <2>2. <<Above(y), Above(top)>> \in StrictSubsetOrdering(S)
    <3>1. Above(y) \in SUBSET S /\ Above(top) \in SUBSET S /\ Above(y) # Above(top)
      BY <2>1
    <3> HIDE DEF Above
    <3>2. QED
      BY <2>1, <3>1 DEF StrictSubsetOrdering
  <2>3. Above(y) \in tails
    BY <1>6
  <2>4. QED
    BY <1>4, <1>5, <2>2, <2>3
<1>7. \A y \in S : top >= y
  BY <1>1, <1>6
<1>8. Max(S) \in S /\ \A x \in S : Max(S) >= x
  BY <1>7 DEF Max
<1>9. QED
  BY <1>1, <1>8

LEMMA ItemIs ==
  ASSUME WorkersSound, NEW w \in Worker, job[w].at # "idle", job[w].todo # {}
  PROVE  Item(w) \in job[w].todo /\ Item(w) \in Repo
<1>1. job[w] # Idle
  BY DEF Idle
<1>2. job[w].todo \in SUBSET Repo
  BY <1>1 DEF WorkersSound, WorkTyped
<1>3. QED
  BY <1>2, LargestIs DEF Item

LEMMA SameItem ==
  ASSUME NEW w, job'[w].todo = job[w].todo
  PROVE  Item(w)' = Item(w)
<1>1. Item(w)' = Max(job'[w].todo) /\ Item(w) = Max(job[w].todo)
  BY DEF Item
<1>2. QED
  BY <1>1

-----------------------------------------------------------------------------
(* What is covered stays covered.                                           *)

Grows == plan' = plan /\ Held \subseteq Held'

\* Nothing is let go that is not held in another way.
LEMMA HeldGrows ==
  ASSUME plan' = plan, known \subseteq known', cut \subseteq cut',
         \A s \in Scan : scan[s].handed \subseteq scan'[s].handed \cup known',
         \A w \in Worker : job[w].at = "record" =>
           \/ job'[w].at = "record" /\ job'[w].todo = job[w].todo
           \/ Item(w) \in Held'
  PROVE  Grows
<1>1. Found \subseteq Found'
  BY DEF Found
<1>2. InHand \subseteq Held'
  <2>1. SUFFICES ASSUME NEW w \in Worker, job[w].at = "record" PROVE Item(w) \in Held'
    BY DEF InHand
  <2>2. CASE job'[w].at = "record" /\ job'[w].todo = job[w].todo
    <3>1. Item(w)' = Item(w)
      BY <2>2, SameItem
    <3>2. Item(w)' \in InHand'
      BY <2>2 DEF InHand
    <3>3. QED
      BY <3>1, <3>2 DEF Held
  <2>3. QED
    BY <2>1, <2>2
<1>3. QED
  BY <1>1, <1>2 DEF Grows, Held

LEMMA ThroughGrows ==
  ASSUME Grows, NEW q, NEW last, Through(q, last)
  PROVE  Through(q, last)'
<1>1. \A page : OnPage(q, page)' = OnPage(q, page)
  BY DEF Grows, OnPage
<1>2. Covered(q) \subseteq Covered(q)'
  BY DEF Grows, Covered
<1>3. QED
  BY <1>1, <1>2 DEF Through

LEMMA HadStill ==
  ASSUME plan' = plan, NEW page
  PROVE  (CanBeHad(page)' <=> CanBeHad(page)) /\ (Asked(page)' <=> Asked(page))
BY DEF CanBeHad, Asked

LEMMA PagesGrow ==
  ASSUME Grows, NEW pages, PagesDone(pages)
  PROVE  PagesDone(pages)'
<1>1. ASSUME NEW q \in DOMAIN pages
      PROVE  pages[q] \in Nat \ {0} /\ CanBeHad(pages[q])' /\ Through(q, pages[q])'
  <2>1. pages[q] \in Nat \ {0} /\ CanBeHad(pages[q]) /\ Through(q, pages[q])
    BY DEF PagesDone
  <2>2. QED
    BY <2>1, ThroughGrows, HadStill DEF Grows
<1>2. QED
  BY <1>1 DEF PagesDone

\* The invariant of what an action leaves alone.
LEMMA BookmarkGrows ==
  ASSUME Grows, NEW q, NEW mark, BookmarkSound(q, mark)
  PROVE  BookmarkSound(q, mark)'
<1>1. /\ Asked(mark.page)' <=> Asked(mark.page)
      /\ CanBeHad(mark.page)' <=> CanBeHad(mark.page)
  BY HadStill DEF Grows
<1>2. Through(q, mark.page) => Through(q, mark.page)'
  BY ThroughGrows
<1>3. QED
  BY <1>1, <1>2 DEF BookmarkSound

LEMMA CursorKept ==
  ASSUME Grows, CursorSound, cursor' = cursor
  PROVE  CursorSound'
<1>1. ASSUME NEW q \in DOMAIN cursor PROVE BookmarkSound(q, cursor[q])'
  <2>1. PICK mark : mark = cursor[q] /\ mark = cursor'[q]
    OBVIOUS
  <2>2. BookmarkSound(q, mark)'
    BY <2>1, BookmarkGrows DEF CursorSound
  <2>3. QED
    BY <2>1, <2>2
<1>2. QED
  BY <1>1 DEF CursorSound

LEMMA CursorPut ==
  ASSUME Grows, CursorSound, NEW q, NEW page, NEW over \in BOOLEAN,
         cursor' = Put(cursor, q, [page |-> page, exhausted |-> over]),
         Asked(page), ~over => CanBeHad(page) /\ Through(q, page)
  PROVE  CursorSound'
<1>1. /\ DOMAIN cursor' = DOMAIN cursor \cup {q}
      /\ cursor'[q] = [page |-> page, exhausted |-> over]
      /\ \A x \in DOMAIN cursor : x # q => cursor'[x] = cursor[x]
  BY DEF Put
<1>2. BookmarkSound(q, cursor[q])'
  <2>1. PICK mark : mark = [page |-> page, exhausted |-> over]
    OBVIOUS
  <2>2. BookmarkSound(q, mark)
    BY <2>1 DEF BookmarkSound
  <2>3. BookmarkSound(q, mark)' /\ mark = cursor'[q]
    BY <1>1, <2>1, <2>2, BookmarkGrows
  <2>4. QED
    BY <2>3
<1>3. ASSUME NEW x \in DOMAIN cursor, x # q PROVE BookmarkSound(x, cursor[x])'
  <2>1. PICK mark : mark = cursor[x] /\ mark = cursor'[x]
    BY <1>1, <1>3
  <2>2. BookmarkSound(x, mark)'
    BY <2>1, BookmarkGrows DEF CursorSound
  <2>3. QED
    BY <2>1, <2>2
<1>4. QED
  BY <1>1, <1>2, <1>3 DEF CursorSound

LEMMA WorkGrows ==
  ASSUME Grows, added \subseteq added', NEW work, WorkTyped(work), WorkSound(work)
  PROVE  WorkTyped(work)' /\ WorkSound(work)'
<1>1. CASE work = Idle
  BY <1>1 DEF WorkTyped, WorkSound
<1>2. CASE work # Idle
  <2>1. CanBeHad(work.job.page)' <=> CanBeHad(work.job.page)
    BY HadStill DEF Grows
  <2>2. WorkTyped(work)'
    BY <1>2, <2>1 DEF WorkTyped
  <2>3. PagesDone(work.pages)'
    BY <1>2, PagesGrow DEF WorkSound
  <2>4. OnPage(work.job.query, work.job.page)' = OnPage(work.job.query, work.job.page)
    BY DEF Grows, OnPage
  <2>5. Covered(work.job.query) \subseteq Covered(work.job.query)'
    BY DEF Grows, Covered
  <2>6. WorkSound(work)'
    BY <1>2, <2>3, <2>4, <2>5 DEF WorkSound
  <2>7. QED
    BY <2>2, <2>6
<1>3. QED
  BY <1>1, <1>2

\* One worker has done a step.
StepsTo(w, work) ==
  DOMAIN job' = Worker /\ job'[w] = work /\ \A u \in Worker \ {w} : job'[u] = job[u]

\* The workers after it.
LEMMA WorkersStep ==
  ASSUME Grows, added \subseteq added', WorkersSound, NEW w \in Worker, NEW work,
         StepsTo(w, work), WorkTyped(work)', WorkSound(work)'
  PROVE  WorkersSound'
<1>1. DOMAIN job' = Worker /\ job'[w] = work
  BY DEF StepsTo
<1>2. ASSUME NEW u \in Worker, u # w PROVE WorkTyped(job[u])' /\ WorkSound(job[u])'
  <2>1. PICK old : old = job[u] /\ old = job'[u]
    BY <1>2 DEF StepsTo
  <2>2. WorkTyped(old)' /\ WorkSound(old)'
    BY <2>1, WorkGrows DEF WorkersSound
  <2>3. QED
    BY <2>1, <2>2
<1>3. WorkTyped(job[w])' /\ WorkSound(job[w])'
  BY <1>1
<1>4. QED
  BY <1>1, <1>2, <1>3 DEF WorkersSound

LEMMA WorkersKept ==
  ASSUME Grows, added \subseteq added', WorkersSound, job' = job
  PROVE  WorkersSound'
<1>1. ASSUME NEW u \in Worker PROVE WorkTyped(job[u])' /\ WorkSound(job[u])'
  <2>1. PICK old : old = job[u] /\ old = job'[u]
    OBVIOUS
  <2>2. WorkTyped(old)' /\ WorkSound(old)'
    BY <2>1, WorkGrows DEF WorkersSound
  <2>3. QED
    BY <2>1, <2>2
<1>2. QED
  BY <1>1 DEF WorkersSound

\* The queue, when jobs that are sound are added.
LEMMA JobGrows ==
  ASSUME Grows, NEW j, JobTyped(j), JobSound(j)
  PROVE  JobTyped(j)' /\ JobSound(j)'
<1>1. Asked(j.page)' <=> Asked(j.page)
  BY HadStill DEF Grows
<1>2. JobTyped(j)'
  BY <1>1 DEF JobTyped
<1>3. JobSound(j)'
  BY ThroughGrows DEF JobSound
<1>4. QED
  BY <1>2, <1>3

LEMMA QueueKept ==
  ASSUME Grows, QueueSound, added' = added, ready' \subseteq added
  PROVE  QueueSound'
<1>1. \A j \in added : JobTyped(j)' /\ JobSound(j)'
  BY JobGrows DEF QueueSound
<1>2. QED
  BY <1>1 DEF QueueSound

LEMMA QueueGrows ==
  ASSUME Grows, QueueSound, NEW js, Enqueue(js), \A j \in js : JobTyped(j) /\ JobSound(j)
  PROVE  QueueSound' /\ added \subseteq added'
<1>1. \A j \in added \cup js : JobTyped(j)' /\ JobSound(j)'
  BY JobGrows DEF QueueSound
<1>2. added' = added \cup New(js) /\ ready' = ready \cup New(js) /\ New(js) \subseteq js
  BY DEF Enqueue, New
<1>3. QED
  BY <1>1, <1>2 DEF QueueSound

-----------------------------------------------------------------------------
(* What a scan's claims and records look like after a step.                 *)

\* Where the jobs are after one has gone on.
LEMMA AtAfter ==
  ASSUME WorkersSound, NEW w \in Worker, NEW work, StepsTo(w, work),
         NEW label, NEW s
  PROVE  /\ At(label, s)' \subseteq At(label, s) \cup {w}
         /\ At(label, s) \ {w} \subseteq At(label, s)'
         /\ w \in At(label, s)' <=> work.at = label /\ work.job.scan = s
         /\ \A u \in Worker \ {w} : Item(u)' = Item(u)
<1>1. job'[w] = work /\ \A u \in Worker \ {w} : job'[u] = job[u]
  BY DEF StepsTo
<1>2. \A u \in Worker \ {w} : Item(u)' = Item(u)
  BY <1>1, SameItem
<1>3. QED
  BY <1>1, <1>2 DEF At

\* A job that does not go on to claim or to record.
Elsewhere ==
  \/ job' = job
  \/ \E w \in Worker : \E work : StepsTo(w, work) /\ work.at \notin {"claim", "record"}

LEMMA AtElsewhere ==
  ASSUME WorkersSound, Elsewhere, NEW s, NEW label \in {"claim", "record"}
  PROVE  At(label, s)' \subseteq At(label, s) /\ \A u \in At(label, s)' : Item(u)' = Item(u)
<1>1. CASE job' = job
  BY <1>1, SameItem DEF At
<1>2. ASSUME NEW w \in Worker, NEW work, StepsTo(w, work), work.at \notin {"claim", "record"}
      PROVE  At(label, s)' \subseteq At(label, s) /\ \A u \in At(label, s)' : Item(u)' = Item(u)
  <2>1. w \notin At(label, s)'
    BY <1>2, AtAfter
  <2>2. At(label, s)' \subseteq At(label, s) \cup {w} /\ \A u \in Worker \ {w} : Item(u)' = Item(u)
    BY <1>2, AtAfter
  <2>3. At(label, s)' \subseteq Worker
    BY DEF At
  <2>4. QED
    BY <2>1, <2>2, <2>3
<1>3. QED
  BY <1>1, <1>2 DEF Elsewhere

Room(s) == Cardinality(scan[s].claims) + Cardinality(At("claim", s)) <= plan.maxRepos + Overshoot
RecordedOnce(s) == \A w \in At("record", s) :
  /\ Item(w) \in scan[s].claims \ scan[s].found
  /\ \A u \in At("record", s) : u # w => Item(u) # Item(w)

LEMMA ScanParts ==
  ASSUME NEW s
  PROVE  ScanSound(s) <=> /\ scan[s].count = Cardinality(scan[s].found)
                          /\ scan[s].claims \subseteq Held
                          /\ Room(s) /\ RecordedOnce(s) /\ PagesDone(scan[s].pages)
BY DEF ScanSound, Room, RecordedOnce

LEMMA RoomKept ==
  ASSUME plan' = plan, plan \in Plans, NEW s, ScanTyped(s), Room(s),
         scan'[s].claims = scan[s].claims, At("claim", s)' \subseteq At("claim", s)
  PROVE  Room(s)'
<1>1. At("claim", s) \in SUBSET Worker /\ At("claim", s)' \in SUBSET At("claim", s)
  BY DEF At
<1>2. /\ Cardinality(At("claim", s)) \in Nat /\ Cardinality(At("claim", s)') \in Nat
      /\ Cardinality(At("claim", s)') <= Cardinality(At("claim", s))
      /\ Cardinality(Worker) \in Nat
  BY <1>1, Workers
<1>3. scan[s].claims \in SUBSET Repo
  BY DEF ScanTyped
<1>4. Cardinality(scan[s].claims) \in Nat /\ plan.maxRepos \in Nat
  BY <1>3, Repos, PlanOK
<1>5. Room(s)' <=> Cardinality(scan'[s].claims) + Cardinality(At("claim", s)') <= plan'.maxRepos + Overshoot
  BY DEF Room, Overshoot
<1>6. Cardinality(scan[s].claims) + Cardinality(At("claim", s)) <= plan.maxRepos + Overshoot
  BY DEF Room
<1>7. Overshoot \in Int
  BY <1>2 DEF Overshoot
<1>8. QED
  BY <1>2, <1>4, <1>5, <1>6, <1>7

LEMMA RecordedKept ==
  ASSUME NEW s, RecordedOnce(s), At("record", s)' \subseteq At("record", s),
         \A u \in At("record", s)' : Item(u)' = Item(u),
         scan[s].claims \subseteq scan'[s].claims, scan'[s].found = scan[s].found
  PROVE  RecordedOnce(s)'
BY DEF RecordedOnce

LEMMA PagesKept ==
  ASSUME Grows, NEW s, PagesDone(scan[s].pages), scan'[s].pages = scan[s].pages
  PROVE  PagesDone(scan[s].pages)'
<1>1. PICK pages : pages = scan[s].pages /\ pages = scan'[s].pages
  OBVIOUS
<1>2. PagesDone(pages)'
  BY <1>1, PagesGrow
<1>3. QED
  BY <1>1, <1>2

\* A scan whose claims stay, while a job goes on to neither claim nor record.
LEMMA ScanKept ==
  ASSUME Grows, plan \in Plans, WorkersSound, Elsewhere, NEW s \in Scan,
         ScanTyped(s), ScanSound(s), scan'[s].claims = scan[s].claims,
         scan'[s].found = scan[s].found, scan'[s].count = scan[s].count,
         PagesDone(scan[s].pages)'
  PROVE  ScanSound(s)'
<1>1. /\ At("claim", s)' \subseteq At("claim", s)
      /\ At("record", s)' \subseteq At("record", s)
      /\ \A u \in At("record", s)' : Item(u)' = Item(u)
  BY AtElsewhere
<1>2. Room(s)'
  BY <1>1, RoomKept, ScanParts DEF Grows
<1>3. RecordedOnce(s)'
  BY <1>1, RecordedKept, ScanParts
<1>4. scan'[s].claims \subseteq Held'
  BY ScanParts DEF Grows
<1>5. scan'[s].count = Cardinality(scan'[s].found)
  BY ScanParts
<1>6. ScanSound(s)' <=> /\ scan'[s].count = Cardinality(scan'[s].found)
                        /\ scan'[s].claims \subseteq Held'
                        /\ Room(s)' /\ RecordedOnce(s)' /\ PagesDone(scan[s].pages)'
  BY DEF ScanSound, Room, RecordedOnce
<1>7. QED
  BY <1>2, <1>3, <1>4, <1>5, <1>6

\* The scans, when their claims stay and a job goes on to neither claim nor record.
LEMMA ScansEdited ==
  ASSUME Grows, plan \in Plans, WorkersSound, Elsewhere, ScansSound, DOMAIN scan' = Scan,
         \A s \in Scan :
           /\ ScanTyped(s)'
           /\ scan'[s].claims = scan[s].claims /\ scan'[s].found = scan[s].found
           /\ scan'[s].count = scan[s].count /\ scan'[s].pages = scan[s].pages
  PROVE  ScansSound'
<1>1. ASSUME NEW s \in Scan PROVE ScanSound(s)'
  <2>1. ScanTyped(s) /\ ScanSound(s) /\ PagesDone(scan[s].pages)
    BY ScanParts DEF ScansSound
  <2>2. PagesDone(scan[s].pages)'
    BY <2>1, PagesKept
  <2>3. QED
    BY <2>1, <2>2, ScanKept
<1>2. QED
  BY <1>1 DEF ScansSound

LEMMA ScansKept ==
  ASSUME Grows, plan \in Plans, WorkersSound, Elsewhere, ScansSound, scan' = scan
  PROVE  ScansSound'
<1>1. \A s \in Scan : ScanTyped(s)'
  BY DEF ScansSound, ScanTyped
<1>2. DOMAIN scan' = Scan
  BY DEF ScansSound
<1>3. QED
  BY <1>1, <1>2, ScansEdited

-----------------------------------------------------------------------------
(* What is asked for.                                                       *)

LEMMA NextIs ==
  ASSUME NEW page \in Nat \ {0}
  PROVE  page + 1 \in Nat \ {0} /\ (page + 1) - 1 = page /\ page + 1 # 1
OBVIOUS

\* A page after one that is through.
LEMMA NextSound ==
  ASSUME NEW q, NEW page \in Nat \ {0}, CanBeHad(page), Through(q, page)
  PROVE  Asked(page + 1) /\ Through(q, (page + 1) - 1)
<1>1. page + 1 \in Nat \ {0} /\ (page + 1) - 1 = page
  BY NextIs
<1>2. QED
  BY <1>1 DEF Asked

LEMMA FirstSound ==
  ASSUME NEW q
  PROVE  Asked(1) /\ Through(q, 1 - 1)
<1>1. 1 .. (1 - 1) = {}
  OBVIOUS
<1>2. QED
  BY <1>1 DEF Asked, Through

LEMMA ResumeSound ==
  ASSUME CursorSound, NEW s, NEW q
  PROVE  Asked(ResumePageFor(s, q)) /\ Through(q, ResumePageFor(s, q) - 1)
<1>1. CASE s \in Continue /\ q \in DOMAIN cursor /\ ~cursor[q].exhausted
  <2>1. PICK page : page = cursor[q].page
    OBVIOUS
  <2>2. page \in Nat \ {0} /\ CanBeHad(page) /\ Through(q, page)
    BY <1>1, <2>1 DEF CursorSound, BookmarkSound, Asked
  <2>3. ResumePageFor(s, q) = page + 1
    BY <1>1, <2>1 DEF ResumePageFor, Resume
  <2>4. QED
    BY <2>2, <2>3, NextSound
<1>2. CASE ~(s \in Continue /\ q \in DOMAIN cursor /\ ~cursor[q].exhausted)
  <2>1. ResumePageFor(s, q) = 1
    BY <1>2 DEF ResumePageFor, Resume
  <2>2. QED
    BY <2>1, FirstSound
<1>3. QED
  BY <1>1, <1>2

LEMMA RootsSound ==
  ASSUME CursorSound, ScansSound, NEW s \in Scan, NEW j \in Roots(s)
  PROVE  JobTyped(j) /\ JobSound(j)
<1>1. PICK q \in plan.root[s] :
        j = [scan |-> s, query |-> q, depth |-> 0, split |-> FALSE,
             page |-> IF q \in DOMAIN scan[s].pages THEN scan[s].pages[q] + 1 ELSE ResumePageFor(s, q)]
  BY DEF Roots
<1>2. /\ DOMAIN j = {"scan", "query", "depth", "split", "page"}
      /\ j.scan = s /\ j.query = q /\ j.depth = 0 /\ j.split = FALSE
      /\ j.page = IF q \in DOMAIN scan[s].pages THEN scan[s].pages[q] + 1 ELSE ResumePageFor(s, q)
  BY <1>1
<1>3. PagesDone(scan[s].pages)
  BY ScanParts DEF ScansSound
<1>4. Asked(j.page) /\ Through(q, j.page - 1)
  <2>1. CASE q \in DOMAIN scan[s].pages
    <3>1. PICK page : page = scan[s].pages[q]
      OBVIOUS
    <3>2. page \in Nat \ {0} /\ CanBeHad(page) /\ Through(q, page) /\ j.page = page + 1
      BY <1>2, <1>3, <2>1, <3>1 DEF PagesDone
    <3>3. QED
      BY <3>2, NextSound
  <2>2. CASE q \notin DOMAIN scan[s].pages
    BY <1>2, <2>2, ResumeSound
  <2>3. QED
    BY <2>1, <2>2
<1>5. 0 \in 0 .. MaxDepth
  BY DiscoveryConstantsOK DEF DiscoveryConstantsOK
<1>6. QED
  BY <1>2, <1>4, <1>5 DEF JobTyped, JobSound

LEMMA KidsSound ==
  ASSUME CursorSound, NEW j, JobTyped(j), NEW k \in Children(j), NEW kid,
         kid = [k EXCEPT !.page = ResumePageFor(k.scan, k.query)]
  PROVE  JobTyped(kid) /\ JobSound(kid)
<1>1. /\ DOMAIN j = {"scan", "query", "depth", "split", "page"}
      /\ j.scan \in Scan /\ j.depth \in 0 .. MaxDepth /\ j.split \in BOOLEAN
  BY DEF JobTyped
<1>2. /\ DOMAIN k = DOMAIN j /\ k.scan = j.scan /\ k.split \in BOOLEAN
      /\ k.depth \in 0 .. MaxDepth
  <2>1. CASE k \in {[j EXCEPT !.query = q, !.split = TRUE] : q \in ByLanguage(j.query)}
    BY <1>1, <2>1
  <2>2. CASE /\ k \in {[j EXCEPT !.query = q, !.depth = @ + 1] : q \in Halves(j.query)}
             /\ ~ j.depth >= MaxDepth
    <3>1. PICK q : k = [j EXCEPT !.query = q, !.depth = @ + 1]
      BY <2>2
    <3>2. DOMAIN k = DOMAIN j /\ k.scan = j.scan /\ k.split = j.split /\ k.depth = j.depth + 1
      BY <1>1, <3>1
    <3>3. MaxDepth \in Nat
      BY DiscoveryConstantsOK DEF DiscoveryConstantsOK
    <3>4. k.depth \in 0 .. MaxDepth
      <4>1. PICK depth : depth = j.depth
        OBVIOUS
      <4>2. depth \in 0 .. MaxDepth /\ ~ depth >= MaxDepth /\ k.depth = depth + 1
        BY <1>1, <2>2, <3>2, <4>1
      <4>3. QED
        BY <3>3, <4>2
    <3>5. QED
      BY <1>1, <3>2, <3>4
  <2>3. QED
    BY <2>1, <2>2 DEF Children
<1>3. /\ DOMAIN kid = DOMAIN k /\ kid.scan = k.scan /\ kid.query = k.query
      /\ kid.depth = k.depth /\ kid.split = k.split /\ kid.page = ResumePageFor(k.scan, k.query)
  BY <1>1, <1>2
<1>4. Asked(kid.page) /\ Through(kid.query, kid.page - 1)
  BY <1>3, ResumeSound
<1>5. QED
  BY <1>1, <1>2, <1>3, <1>4 DEF JobTyped, JobSound

-----------------------------------------------------------------------------
(* The steps of a scan.                                                     *)

AllSound == HistorySound /\ CursorSound /\ ScansSound /\ QueueSound /\ WorkersSound

LEMMA StartKeeps ==
  ASSUME AllSound, NEW s \in Scan, Start(s)
  PROVE  AllSound' /\ Grows
<1>1. /\ HistorySound /\ CursorSound /\ ScansSound /\ QueueSound /\ WorkersSound
      /\ plan \in Plans
  BY DEF AllSound, HistorySound
<1>2. /\ scan' = [scan EXCEPT ![s].status = "running"] /\ Enqueue(Roots(s))
      /\ UNCHANGED <<plan, known, credit, cursor, job, faults, cut, raced>>
  BY DEF Start
<1>3. DOMAIN scan' = Scan /\ \A t \in Scan :
        /\ ScanTyped(t)'
        /\ scan'[t].claims = scan[t].claims /\ scan'[t].found = scan[t].found
        /\ scan'[t].count = scan[t].count /\ scan'[t].pages = scan[t].pages
        /\ scan'[t].handed = scan[t].handed
  BY <1>1, <1>2 DEF ScansSound, ScanTyped
<1>4. Grows
  <2>1. \A w \in Worker : job'[w] = job[w]
    BY <1>2
  <2>2. QED
    BY <1>2, <1>3, <2>1, HeldGrows
<1>5. ScansSound'
  <2>1. Elsewhere
    BY <1>2 DEF Elsewhere
  <2>2. QED
    BY <1>1, <1>3, <1>4, <2>1, ScansEdited
<1>6. QueueSound' /\ added \subseteq added'
  BY <1>1, <1>2, <1>4, RootsSound, QueueGrows
<1>7. CursorSound' /\ WorkersSound'
  BY <1>1, <1>2, <1>4, <1>6, CursorKept, WorkersKept
<1>8. HistorySound'
  BY <1>1, <1>2 DEF HistorySound
<1>9. QED
  BY <1>5, <1>6, <1>7, <1>8, <1>4 DEF AllSound

LEMMA FaultCounted ==
  ASSUME HistorySound, plan' = plan, faults < plan.maxFaults, faults' = faults + 1
  PROVE  faults' \in 0 .. plan'.maxFaults
<1>1. plan.maxFaults \in Nat /\ faults \in 0 .. plan.maxFaults
  BY PlanOK DEF HistorySound
<1>2. QED
  BY <1>1

LEMMA RestartKeeps ==
  ASSUME AllSound, NEW s \in Scan, Restart(s)
  PROVE  AllSound' /\ Grows
<1>1. /\ HistorySound /\ CursorSound /\ ScansSound /\ QueueSound /\ WorkersSound
      /\ plan \in Plans
  BY DEF AllSound, HistorySound
<1>2. /\ Enqueue(Roots(s)) /\ faults < plan.maxFaults /\ faults' = faults + 1
      /\ UNCHANGED <<plan, known, credit, cursor, scan, job, cut, raced>>
  BY DEF Restart
<1>3. Grows
  BY <1>2, HeldGrows
<1>4. Elsewhere
  BY <1>2 DEF Elsewhere
<1>5. QueueSound' /\ added \subseteq added'
  BY <1>1, <1>2, <1>3, RootsSound, QueueGrows
<1>6. CursorSound' /\ WorkersSound' /\ ScansSound'
  BY <1>1, <1>2, <1>3, <1>4, <1>5, CursorKept, WorkersKept, ScansKept
<1>7. HistorySound'
  BY <1>1, <1>2, FaultCounted DEF HistorySound
<1>8. QED
  BY <1>5, <1>6, <1>7, <1>3 DEF AllSound

LEMMA CancelKeeps ==
  ASSUME AllSound, NEW s \in Scan, Cancel(s)
  PROVE  AllSound' /\ Grows
<1>1. /\ HistorySound /\ CursorSound /\ ScansSound /\ QueueSound /\ WorkersSound
      /\ plan \in Plans
  BY DEF AllSound, HistorySound
<1>2. /\ scan' = [scan EXCEPT ![s].status = "cancelled"]
      /\ faults < plan.maxFaults /\ faults' = faults + 1
      /\ UNCHANGED <<plan, known, credit, cursor, added, ready, job, cut, raced>>
  BY DEF Cancel
<1>3. DOMAIN scan' = Scan /\ \A t \in Scan :
        /\ ScanTyped(t)'
        /\ scan'[t].claims = scan[t].claims /\ scan'[t].found = scan[t].found
        /\ scan'[t].count = scan[t].count /\ scan'[t].pages = scan[t].pages
        /\ scan'[t].handed = scan[t].handed
  BY <1>1, <1>2 DEF ScansSound, ScanTyped
<1>4. Grows
  <2>1. \A w \in Worker : job'[w] = job[w]
    BY <1>2
  <2>2. QED
    BY <1>2, <1>3, <2>1, HeldGrows
<1>5. ScansSound'
  <2>1. Elsewhere
    BY <1>2 DEF Elsewhere
  <2>2. QED
    BY <1>1, <1>3, <1>4, <2>1, ScansEdited
<1>6. ready \subseteq added
  BY <1>1 DEF QueueSound
<1>7. QueueSound' /\ CursorSound' /\ WorkersSound'
  BY <1>1, <1>2, <1>4, <1>6, CursorKept, WorkersKept, QueueKept
<1>8. HistorySound'
  BY <1>1, <1>2, FaultCounted DEF HistorySound
<1>9. QED
  BY <1>5, <1>7, <1>8, <1>4 DEF AllSound

LEMMA AnalyseKeeps ==
  ASSUME AllSound, NEW s \in Scan, Analyse(s)
  PROVE  AllSound' /\ Grows
<1>1. /\ HistorySound /\ CursorSound /\ ScansSound /\ QueueSound /\ WorkersSound
      /\ plan \in Plans
  BY DEF AllSound, HistorySound
<1>2. PICK r \in scan[s].handed :
        /\ known' = known \cup {r} /\ scan' = [scan EXCEPT ![s].handed = @ \ {r}]
        /\ UNCHANGED <<plan, credit, cursor, added, ready, job, faults, cut, raced>>
  BY DEF Analyse
<1>3. DOMAIN scan' = Scan /\ \A t \in Scan :
        /\ ScanTyped(t)'
        /\ scan'[t].claims = scan[t].claims /\ scan'[t].found = scan[t].found
        /\ scan'[t].count = scan[t].count /\ scan'[t].pages = scan[t].pages
        /\ scan[t].handed \subseteq scan'[t].handed \cup {r}
  BY <1>1, <1>2 DEF ScansSound, ScanTyped
<1>4. Grows
  <2>1. \A w \in Worker : job'[w] = job[w]
    BY <1>2
  <2>2. \A t \in Scan : scan[t].handed \subseteq scan'[t].handed \cup known'
    BY <1>2, <1>3
  <2>3. QED
    BY <1>2, <2>1, <2>2, HeldGrows
<1>5. ScansSound'
  <2>1. Elsewhere
    BY <1>2 DEF Elsewhere
  <2>2. QED
    BY <1>1, <1>3, <1>4, <2>1, ScansEdited
<1>6. ready \subseteq added
  BY <1>1 DEF QueueSound
<1>7. QueueSound' /\ CursorSound' /\ WorkersSound'
  BY <1>1, <1>2, <1>4, <1>6, CursorKept, WorkersKept, QueueKept
<1>8. HistorySound'
  <2>1. r \in Repo
    BY <1>1, <1>2 DEF ScansSound, ScanTyped
  <2>2. QED
    BY <1>1, <1>2, <2>1 DEF HistorySound
<1>9. QED
  BY <1>5, <1>7, <1>8, <1>4 DEF AllSound

-----------------------------------------------------------------------------
(* The steps of a search job.                                               *)

\* What a job knows while it works.
LEMMA WorkIs ==
  ASSUME AllSound, NEW w \in Worker, job[w].at # "idle"
  PROVE  /\ DOMAIN job[w] = {"at", "job", "before", "pages", "todo", "took", "split"}
         /\ job[w].at \in {"answer", "item", "claim", "record", "next"}
         /\ job[w].job \in added /\ JobTyped(job[w].job) /\ CanBeHad(job[w].job.page)
         /\ job[w].todo \subseteq Repo /\ job[w].split \in BOOLEAN
         /\ job[w].before \in Nat /\ job[w].took \in Nat
         /\ WorkSound(job[w]) /\ job[w] # Idle /\ JobSound(job[w].job)
         /\ PagesDone(job[w].pages)
<1>1. job[w] # Idle
  BY DEF Idle
<1>2. WorkTyped(job[w]) /\ WorkSound(job[w])
  BY DEF AllSound, WorkersSound
<1>3. job[w].job \in added => JobTyped(job[w].job) /\ JobSound(job[w].job)
  BY DEF AllSound, QueueSound
<1>4. QED
  BY <1>1, <1>2, <1>3 DEF WorkTyped, WorkSound

LEMMA CountIs ==
  ASSUME NEW s, ScanTyped(s)
  PROVE  scan[s].count \in Nat
<1>1. scan[s].claims \in SUBSET Repo /\ scan[s].count \in 0 .. Cardinality(scan[s].claims)
  BY DEF ScanTyped
<1>2. Cardinality(scan[s].claims) \in Nat
  BY <1>1, Repos
<1>3. QED
  BY <1>1, <1>2

LEMMA IdleSound == WorkTyped(Idle)' /\ WorkSound(Idle)'
BY DEF WorkTyped, WorkSound

LEMMA OnPageIn ==
  ASSUME NEW q, NEW page
  PROVE  OnPage(q, page) \subseteq Repo
BY DEF OnPage, Hits

LEMMA BeginKeeps ==
  ASSUME AllSound, NEW w \in Worker, Begin(w)
  PROVE  AllSound' /\ Grows
<1>1. /\ HistorySound /\ CursorSound /\ ScansSound /\ QueueSound /\ WorkersSound
      /\ plan \in Plans
  BY DEF AllSound, HistorySound
<1>2. PICK j \in ready :
        /\ job[w].at = "idle" /\ ready' = ready \ {j}
        /\ \/ UNCHANGED <<job, cursor>>
           \/ /\ cursor' = Put(cursor, j.query, [page |-> j.page, exhausted |-> TRUE])
              /\ UNCHANGED job
           \/ /\ CanBeHad(j.page)
              /\ job' = [job EXCEPT ![w] =
                     [at |-> "answer", job |-> j, before |-> scan[j.scan].count,
                      pages |-> scan[j.scan].pages,
                      todo |-> OnPage(j.query, j.page), took |-> 0, split |-> FALSE]]
              /\ UNCHANGED cursor
        /\ UNCHANGED <<plan, known, credit, scan, added, faults, cut, raced>>
  BY DEF Begin
<1>3. j \in added /\ JobTyped(j) /\ ready \subseteq added
  BY <1>1, <1>2 DEF QueueSound
<1>4. PICK work :
        work = [at |-> "answer", job |-> j, before |-> scan[j.scan].count,
                pages |-> scan[j.scan].pages,
                todo |-> OnPage(j.query, j.page), took |-> 0, split |-> FALSE]
  OBVIOUS
<1>5. /\ DOMAIN work = {"at", "job", "before", "pages", "todo", "took", "split"}
      /\ work.at = "answer" /\ work.job = j /\ work.before = scan[j.scan].count
      /\ work.pages = scan[j.scan].pages /\ work.todo = OnPage(j.query, j.page)
      /\ work.took = 0 /\ work.split = FALSE
  BY <1>4
<1>6. job' = job \/ (StepsTo(w, work) /\ CanBeHad(j.page))
  BY <1>1, <1>2, <1>4 DEF StepsTo, WorkersSound
<1>7. Grows
  <2>1. \A u \in Worker : job[u].at = "record" =>
          job'[u].at = "record" /\ job'[u].todo = job[u].todo
    BY <1>2, <1>6 DEF StepsTo
  <2>2. QED
    BY <1>2, <2>1, HeldGrows
<1>8. Elsewhere
  BY <1>5, <1>6 DEF Elsewhere
<1>9. ScansSound'
  BY <1>1, <1>2, <1>7, <1>8, ScansKept
<1>10. QueueSound'
  BY <1>1, <1>2, <1>3, <1>7, QueueKept
<1>11. CursorSound'
  BY <1>1, <1>2, <1>3, <1>7, CursorKept, CursorPut DEF JobTyped
<1>12. WorkersSound'
  <2>1. CASE job' = job
    BY <1>1, <1>2, <1>7, <2>1, WorkersKept
  <2>2. CASE StepsTo(w, work) /\ CanBeHad(j.page)
    <3>1. scan[j.scan].count \in Nat /\ PagesDone(scan[j.scan].pages)
      BY <1>1, <1>3, CountIs, ScanParts DEF ScansSound, JobTyped
    <3>2. WorkTyped(work)
      <4>1. work.todo \subseteq Repo /\ work.before \in Nat /\ work.took \in Nat
        BY <1>5, <3>1, OnPageIn
      <4>2. work.split \in BOOLEAN /\ work.job \in added /\ CanBeHad(work.job.page)
        BY <1>3, <1>5, <2>2
      <4>3. QED
        BY <1>5, <4>1, <4>2 DEF WorkTyped
    <3>3. WorkSound(work)
      BY <1>5, <3>1 DEF WorkSound
    <3>4. WorkTyped(work)' /\ WorkSound(work)'
      BY <1>2, <1>7, <3>2, <3>3, WorkGrows
    <3>5. QED
      BY <1>1, <1>2, <1>7, <2>2, <3>4, WorkersStep
  <2>3. QED
    BY <1>6, <2>1, <2>2
<1>13. HistorySound'
  BY <1>1, <1>2 DEF HistorySound
<1>14. QED
  BY <1>9, <1>10, <1>11, <1>12, <1>13, <1>7 DEF AllSound

LEMMA SplitKeeps ==
  ASSUME AllSound, NEW w \in Worker, Split(w)
  PROVE  AllSound' /\ Grows
<1>1. /\ HistorySound /\ CursorSound /\ ScansSound /\ QueueSound /\ WorkersSound
      /\ plan \in Plans
  BY DEF AllSound, HistorySound
<1>2. PICK kids : kids = Children(job[w].job)
  OBVIOUS
<1>3. PICK js : js = {[k EXCEPT !.page = ResumePageFor(k.scan, k.query)] : k \in kids}
  OBVIOUS
<1>4. /\ job[w].at = "answer" /\ Enqueue(js)
      /\ job' = [job EXCEPT ![w].at = "item", ![w].split = kids # {}]
      /\ UNCHANGED <<plan, known, credit, cursor, scan, faults, cut, raced>>
  BY <1>2, <1>3 DEF Split
<1>5. PICK work : work = job'[w]
  OBVIOUS
<1>6. /\ DOMAIN work = DOMAIN job[w] /\ work.at = "item" /\ work.split \in BOOLEAN
      /\ work.job = job[w].job /\ work.before = job[w].before /\ work.pages = job[w].pages
      /\ work.todo = job[w].todo /\ work.took = job[w].took
      /\ StepsTo(w, work)
  BY <1>1, <1>4, <1>5, WorkIs DEF StepsTo, WorkersSound
<1>7. Grows
  <2>1. \A u \in Worker : job[u].at = "record" =>
          job'[u].at = "record" /\ job'[u].todo = job[u].todo
    BY <1>4, <1>6 DEF StepsTo
  <2>2. QED
    BY <1>4, <2>1, HeldGrows
<1>8. Elsewhere
  BY <1>6 DEF Elsewhere
<1>9. ScansSound' /\ CursorSound'
  BY <1>1, <1>4, <1>7, <1>8, ScansKept, CursorKept
<1>10. QueueSound' /\ added \subseteq added'
  <2>1. JobTyped(job[w].job)
    BY <1>4, WorkIs
  <2>2. \A kid \in js : JobTyped(kid) /\ JobSound(kid)
    BY <1>1, <1>2, <1>3, <2>1, KidsSound
  <2>3. QED
    BY <1>1, <1>4, <1>7, <2>2, QueueGrows
<1>11. WorkersSound'
  <2>1. WorkTyped(work) /\ WorkSound(work)
    BY <1>4, <1>6, WorkIs DEF WorkTyped, WorkSound
  <2>2. WorkTyped(work)' /\ WorkSound(work)'
    BY <1>7, <1>10, <2>1, WorkGrows
  <2>3. QED
    BY <1>1, <1>6, <1>7, <1>10, <2>2, WorkersStep
<1>12. HistorySound'
  BY <1>1, <1>4 DEF HistorySound
<1>13. QED
  BY <1>9, <1>10, <1>11, <1>12, <1>7 DEF AllSound

\* A result that is covered may be dropped.
LEMMA DropSound ==
  ASSUME AllSound, NEW w \in Worker, job[w].at \in {"item", "claim"}, Grows,
         NEW q, q = job[w].job.query, NEW item, item \in Covered(q)', added \subseteq added',
         NEW work, DOMAIN work = DOMAIN job[w], work.at = "item", work.job = job[w].job,
         work.before = job[w].before, work.pages = job[w].pages, work.split = job[w].split,
         work.took \in Nat, work.todo = job[w].todo \ {item}
  PROVE  WorkTyped(work)' /\ WorkSound(work)'
<1>1. job[w].at # "idle"
  OBVIOUS
<1>2. WorkSound(job[w]) /\ job[w] # Idle /\ PagesDone(job[w].pages)
  BY <1>1, WorkIs
<1>3. CanBeHad(work.job.page)' <=> CanBeHad(work.job.page)
  BY HadStill DEF Grows
<1>4. WorkTyped(work)'
  BY <1>1, <1>3, WorkIs DEF WorkTyped
<1>5. PagesDone(work.pages)'
  <2>1. PICK pages : pages = job[w].pages /\ pages = work.pages
    OBVIOUS
  <2>2. PagesDone(pages)'
    BY <1>2, <2>1, PagesGrow
  <2>3. QED
    BY <2>1, <2>2
<1>6. PICK page : q = work.job.query /\ page = work.job.page
  OBVIOUS
<1>7. /\ OnPage(q, page)' = OnPage(q, page)
      /\ Covered(q) \subseteq Covered(q)'
  BY DEF Grows, OnPage, Covered
<1>8. /\ job[w].todo \subseteq OnPage(q, page)
      /\ OnPage(q, page) \ job[w].todo \subseteq Covered(q)
      /\ item \in Covered(q)'
  BY <1>2, <1>6 DEF WorkSound
<1>9. /\ work.todo \subseteq OnPage(q, page)'
      /\ OnPage(q, page)' \ work.todo \subseteq Covered(q)'
  BY <1>7, <1>8
<1>10. WorkSound(work)'
  BY <1>5, <1>6, <1>9 DEF WorkSound
<1>11. QED
  BY <1>4, <1>10

LEMMA LookKeeps ==
  ASSUME AllSound, NEW w \in Worker, Look(w)
  PROVE  AllSound' /\ Grows
<1>1. /\ HistorySound /\ CursorSound /\ ScansSound /\ QueueSound /\ WorkersSound
      /\ plan \in Plans
  BY DEF AllSound, HistorySound
<1>2. PICK s, r, q : s = job[w].job.scan /\ r = Item(w) /\ q = job[w].job.query
  OBVIOUS
<1>3. /\ job[w].at = "item" /\ job[w].todo # {}
      /\ \/ /\ job' = [job EXCEPT ![w].todo = {}] /\ cut' = cut \cup job[w].todo
            /\ UNCHANGED credit
         \/ /\ q.kind = "code" /\ r \in Outside
            /\ Drop(w) /\ UNCHANGED <<credit, cut>>
         \/ r \in known /\ Noted(s, r) /\ Drop(w) /\ UNCHANGED cut
         \/ /\ MayClaim(s, r) /\ job' = [job EXCEPT ![w].at = "claim"] /\ UNCHANGED credit
            /\ cut' = IF Capped(s, r) THEN cut \cup {r} ELSE cut
         \/ /\ ~MayClaim(s, r) /\ Drop(w) /\ UNCHANGED credit
            /\ cut' = IF Capped(s, r) THEN cut \cup {r} ELSE cut
      /\ UNCHANGED <<plan, known, cursor, scan, added, ready, faults, raced>>
  BY <1>2 DEF Look
<1>4. /\ DOMAIN job[w] = {"at", "job", "before", "pages", "todo", "took", "split"}
      /\ job[w].todo \subseteq Repo /\ WorkSound(job[w]) /\ WorkTyped(job[w])
      /\ job[w] # Idle /\ PagesDone(job[w].pages) /\ job[w].took \in Nat
      /\ s \in Scan
  BY <1>1, <1>2, <1>3, WorkIs DEF WorkersSound, JobTyped
<1>5. r \in job[w].todo /\ r \in Repo
  BY <1>1, <1>2, <1>3, ItemIs
<1>6. PICK work : work = job'[w]
  OBVIOUS
<1>7. /\ DOMAIN work = DOMAIN job[w] /\ work.job = job[w].job /\ work.before = job[w].before
      /\ work.pages = job[w].pages /\ work.split = job[w].split /\ work.took = job[w].took
      /\ StepsTo(w, work)
      /\ \/ work.at = "item" /\ work.todo = {} /\ cut' = cut \cup job[w].todo
         \/ /\ work.at = "item" /\ work.todo = job[w].todo \ {r}
            /\ \/ q.kind = "code" /\ r \in Outside
               \/ r \in known
               \/ /\ ~MayClaim(s, r)
                  /\ cut' = IF Capped(s, r) THEN cut \cup {r} ELSE cut
         \/ work.at = "claim" /\ work.todo = job[w].todo /\ MayClaim(s, r)
  BY <1>1, <1>2, <1>3, <1>4, <1>6 DEF StepsTo, WorkersSound, Drop
<1>8. cut \subseteq cut' /\ cut' \subseteq Repo
  BY <1>1, <1>3, <1>4, <1>5 DEF HistorySound
<1>9. Grows
  <2>1. \A u \in Worker : job[u].at = "record" =>
          job'[u].at = "record" /\ job'[u].todo = job[u].todo
    BY <1>3, <1>7 DEF StepsTo
  <2>2. QED
    BY <1>3, <1>8, <2>1, HeldGrows
<1>10. QueueSound' /\ CursorSound'
  BY <1>1, <1>3, <1>9, QueueKept, CursorKept DEF QueueSound
<1>11. HistorySound'
  <2>1. credit' \in [Repo -> [first : Brands \cup {"none"}, also : SUBSET Brands]]
    <3>1. CASE UNCHANGED credit
      BY <1>1, <3>1 DEF HistorySound
    <3>2. CASE Noted(s, r)
      <4>1. credit[r] \in [first : Brands \cup {"none"}, also : SUBSET Brands]
        BY <1>1, <1>5 DEF HistorySound
      <4>2. PICK also : also = IF credit[r].first = s THEN credit[r].also ELSE credit[r].also \cup {s}
        OBVIOUS
      <4>3. also \in SUBSET Brands
        BY <1>4, <4>1, <4>2 DEF Brands
      <4>4. credit' = [credit EXCEPT ![r].also = also]
        BY <3>2, <4>2 DEF Noted
      <4>5. QED
        BY <1>1, <1>5, <4>1, <4>3, <4>4 DEF HistorySound
    <3>3. QED
      BY <1>3, <3>1, <3>2
  <2>2. QED
    BY <1>1, <1>3, <1>8, <2>1 DEF HistorySound
<1>12. ScansSound'
  <2>1. CASE work.at = "item"
    <3>1. Elsewhere
      BY <1>7, <2>1 DEF Elsewhere
    <3>2. QED
      BY <1>1, <1>3, <1>9, <3>1, ScansKept
  <2>2. CASE work.at = "claim" /\ MayClaim(s, r)
    <3>1. /\ \A t \in Scan \ {s} : At("claim", t)' \subseteq At("claim", t)
          /\ \A t \in Scan : At("record", t)' \subseteq At("record", t)
          /\ \A t \in Scan : \A u \in At("record", t)' : Item(u)' = Item(u)
      <4>1. ASSUME NEW t, NEW label \in {"claim", "record"}, label = "record" \/ t # s
            PROVE  At(label, t)' \subseteq At(label, t) /\ w \notin At(label, t)'
        <5>1. /\ At(label, t)' \subseteq At(label, t) \cup {w}
              /\ w \in At(label, t)' <=> work.at = label /\ work.job.scan = t
          BY <1>1, <1>7, AtAfter
        <5>2. QED
          BY <1>2, <1>7, <2>2, <4>1, <5>1
      <4>2. \A u \in Worker \ {w} : Item(u)' = Item(u)
        BY <1>1, <1>7, AtAfter
      <4>3. \A t : At("record", t)' \subseteq Worker
        BY DEF At
      <4>4. QED
        BY <4>1, <4>2, <4>3
    <3>2. ASSUME NEW t \in Scan PROVE Room(t)'
      <4>1. CASE t = s
        <5>1. scan[s].claims \in SUBSET Repo
          BY <1>1, <1>4 DEF ScansSound, ScanTyped
        <5>2. Cardinality(scan[s].claims) \in Nat /\ plan.maxRepos \in Nat
          BY <1>1, <5>1, Repos, PlanOK
        <5>3. Cardinality(scan[s].claims) < plan.maxRepos
          BY <2>2 DEF MayClaim
        <5>4. At("claim", s)' \in SUBSET Worker
          BY DEF At
        <5>5. /\ Cardinality(At("claim", s)') \in Nat /\ Cardinality(Worker) \in Nat
              /\ Cardinality(At("claim", s)') <= Cardinality(Worker)
          BY <5>4, Workers
        <5>6. Cardinality(scan[s].claims) + Cardinality(At("claim", s)')
                <= plan.maxRepos + (Cardinality(Worker) - 1)
          BY <5>2, <5>3, <5>5
        <5>7. QED
          BY <1>3, <4>1, <5>6 DEF Room, Overshoot
      <4>2. CASE t # s
        <5>1. ScanTyped(t) /\ Room(t) /\ At("claim", t)' \subseteq At("claim", t)
          BY <1>1, <3>1, <4>2, ScanParts DEF ScansSound
        <5>2. scan'[t].claims = scan[t].claims /\ plan' = plan
          BY <1>3
        <5>3. QED
          BY <1>1, <5>1, <5>2, RoomKept
      <4>3. QED
        BY <4>1, <4>2
    <3>3. ASSUME NEW t \in Scan PROVE ScanSound(t)'
      <4>1. /\ ScanTyped(t) /\ RecordedOnce(t) /\ PagesDone(scan[t].pages)
            /\ scan[t].claims \subseteq Held /\ scan[t].count = Cardinality(scan[t].found)
        BY <1>1, ScanParts DEF ScansSound
      <4>2. RecordedOnce(t)'
        BY <1>3, <3>1, <4>1, RecordedKept
      <4>3. PagesDone(scan[t].pages)'
        BY <1>3, <1>9, <4>1, PagesKept
      <4>4. scan'[t].claims \subseteq Held' /\ scan'[t].count = Cardinality(scan'[t].found)
        BY <1>3, <1>9, <4>1 DEF Grows
      <4>5. QED
        BY <3>2, <4>2, <4>3, <4>4 DEF ScanSound, Room, RecordedOnce
    <3>4. ASSUME NEW t \in Scan PROVE ScanTyped(t)'
      BY <1>1, <1>3 DEF ScansSound, ScanTyped
    <3>5. QED
      BY <1>1, <1>3, <3>3, <3>4 DEF ScansSound
  <2>3. QED
    BY <1>7, <2>1, <2>2
<1>13. WorkTyped(work)' /\ WorkSound(work)'
  <2>1. CASE work.at = "item" /\ work.todo = {} /\ cut' = cut \cup job[w].todo
    <3>1. WorkTyped(work)'
      <4>1. WorkTyped(work)
        BY <1>4, <1>7, <2>1 DEF WorkTyped
      <4>2. CanBeHad(work.job.page)' <=> CanBeHad(work.job.page)
        BY <1>3, HadStill
      <4>3. QED
        BY <1>3, <4>1, <4>2 DEF WorkTyped
    <3>2. PICK page : page = work.job.page
      OBVIOUS
    <3>3. OnPage(q, page)' = OnPage(q, page) /\ Covered(q) \subseteq Covered(q)'
      BY <1>9 DEF Grows, OnPage, Covered
    <3>4. OnPage(q, page) \ job[w].todo \subseteq Covered(q) /\ q = work.job.query
      BY <1>2, <1>4, <1>7, <3>2 DEF WorkSound
    <3>5. job[w].todo \subseteq Covered(q)'
      BY <2>1 DEF Covered, Held
    <3>6. OnPage(q, page)' \subseteq Covered(q)'
      BY <3>3, <3>4, <3>5
    <3>7. PagesDone(work.pages)'
      <4>1. PICK pages : pages = job[w].pages /\ pages = work.pages
        BY <1>7
      <4>2. PagesDone(pages)'
        BY <1>4, <1>9, <4>1, PagesGrow
      <4>3. QED
        BY <4>1, <4>2
    <3>8. WorkSound(work)'
      BY <2>1, <3>2, <3>4, <3>6, <3>7 DEF WorkSound
    <3>9. QED
      BY <3>1, <3>8
  <2>2. CASE work.at = "item" /\ work.todo = job[w].todo \ {r} /\ r \in Covered(q)'
    <3>1. /\ job[w].at \in {"item", "claim"} /\ q = job[w].job.query
          /\ work.took \in Nat /\ added \subseteq added'
      BY <1>2, <1>3, <1>4, <1>7
    <3>2. QED
      BY <1>7, <1>9, <2>2, <3>1, DropSound
  <2>3. CASE work.at = "claim" /\ work.todo = job[w].todo
    <3>1. WorkTyped(work) /\ WorkSound(work)
      BY <1>3, <1>4, <1>7, <2>3 DEF WorkTyped, WorkSound
    <3>2. QED
      BY <1>3, <1>9, <3>1, WorkGrows
  <2>4. ASSUME ~ (work.at = "item" /\ work.todo = {} /\ cut' = cut \cup job[w].todo),
               work.at = "item"
        PROVE  r \in Covered(q)'
    <3>1. \/ q.kind = "code" /\ r \in Outside
          \/ r \in known
          \/ /\ ~MayClaim(s, r) /\ cut' = IF Capped(s, r) THEN cut \cup {r} ELSE cut
      BY <1>7, <2>4
    <3>2. CASE q.kind = "code" /\ r \in Outside
      BY <3>2 DEF Covered
    <3>3. CASE r \in known
      BY <1>3, <3>3 DEF Covered, Held, Found
    <3>4. CASE ~MayClaim(s, r) /\ cut' = IF Capped(s, r) THEN cut \cup {r} ELSE cut
      <4>1. CASE Capped(s, r)
        BY <3>4, <4>1 DEF Covered, Held
      <4>2. CASE ~Capped(s, r)
        <5>1. scan[s].claims \in SUBSET Repo
          BY <1>1, <1>4 DEF ScansSound, ScanTyped
        <5>2. Cardinality(scan[s].claims) \in Nat /\ plan.maxRepos \in Nat
          BY <1>1, <5>1, Repos, PlanOK
        <5>3. r \in scan[s].claims
          BY <3>4, <4>2, <5>2 DEF Capped, MayClaim
        <5>4. r \in Held
          BY <1>1, <1>4, <5>3, ScanParts DEF ScansSound
        <5>5. QED
          BY <1>9, <5>4 DEF Grows, Covered
      <4>3. QED
        BY <4>1, <4>2
    <3>5. QED
      BY <3>1, <3>2, <3>3, <3>4
  <2>5. QED
    BY <1>7, <2>1, <2>2, <2>3, <2>4
<1>14. WorkersSound'
  BY <1>1, <1>3, <1>7, <1>9, <1>13, WorkersStep
<1>15. QED
  BY <1>10, <1>11, <1>12, <1>14, <1>9 DEF AllSound

LEMMA PartsAfter ==
  ASSUME NEW s
  PROVE  ScanSound(s)' <=> /\ scan'[s].count = Cardinality(scan'[s].found)
                           /\ scan'[s].claims \subseteq Held'
                           /\ Room(s)' /\ RecordedOnce(s)' /\ PagesDone(scan[s].pages)'
BY DEF ScanSound, Room, RecordedOnce

\* A job's step, seen by the scans of the others.
LEMMA OthersKept ==
  ASSUME Grows, plan \in Plans, WorkersSound, NEW t \in Scan, ScanTyped(t), ScanSound(t),
         scan'[t] = scan[t], NEW w \in Worker, NEW work, StepsTo(w, work), work.job.scan # t
  PROVE  ScanTyped(t)' /\ ScanSound(t)'
<1>1. ASSUME NEW label PROVE At(label, t)' \subseteq At(label, t) /\ w \notin At(label, t)'
  <2>1. /\ At(label, t)' \subseteq At(label, t) \cup {w}
        /\ w \in At(label, t)' <=> work.at = label /\ work.job.scan = t
    BY AtAfter
  <2>2. QED
    BY <2>1
<1>2. \A u \in At("record", t)' : Item(u)' = Item(u)
  <2>1. \A u \in Worker \ {w} : Item(u)' = Item(u)
    BY AtAfter
  <2>2. At("record", t)' \subseteq Worker \ {w}
    BY <1>1 DEF At
  <2>3. QED
    BY <2>1, <2>2
<1>3. /\ RecordedOnce(t) /\ PagesDone(scan[t].pages) /\ Room(t)
      /\ scan[t].claims \subseteq Held /\ scan[t].count = Cardinality(scan[t].found)
  BY ScanParts
<1>4. Room(t)'
  BY <1>1, <1>3, RoomKept DEF Grows
<1>5. RecordedOnce(t)'
  BY <1>1, <1>2, <1>3, RecordedKept
<1>6. PagesDone(scan[t].pages)'
  BY <1>3, PagesKept
<1>7. scan'[t].claims \subseteq Held' /\ scan'[t].count = Cardinality(scan'[t].found)
  BY <1>3 DEF Grows
<1>8. ScanSound(t)'
  BY <1>4, <1>5, <1>6, <1>7, PartsAfter
<1>9. QED
  BY <1>8 DEF ScanTyped

\* A claim that is written takes the place that it had before.
LEMMA ClaimWritten ==
  ASSUME AllSound, NEW w \in Worker, job[w].at = "claim",
         NEW s \in Scan, s = job[w].job.scan, NEW r, r = Item(w), r \notin scan[s].claims,
         scan' = [scan EXCEPT ![s].claims = @ \cup {r}],
         NEW work, StepsTo(w, work), work.at = "record", work.job = job[w].job,
         work.todo = job[w].todo, Grows
  PROVE  ScanTyped(s)' /\ ScanSound(s)'
<1>1. ScansSound /\ WorkersSound /\ plan \in Plans
  BY DEF AllSound, HistorySound
<1>2. ScanTyped(s) /\ ScanSound(s)
  BY <1>1 DEF ScansSound
<1>3. r \in Repo
  <2>1. job[w].todo # {}
    BY WorkIs DEF WorkSound
  <2>2. QED
    BY <1>1, <2>1, ItemIs
<1>4. /\ DOMAIN scan'[s] = DOMAIN scan[s] /\ scan'[s].claims = scan[s].claims \cup {r}
      /\ scan'[s].found = scan[s].found /\ scan'[s].count = scan[s].count
      /\ scan'[s].pages = scan[s].pages /\ scan'[s].handed = scan[s].handed
      /\ scan'[s].status = scan[s].status /\ scan'[s].hurt = scan[s].hurt
  BY <1>1, <1>2 DEF ScansSound, ScanTyped
<1>5. PICK claims, more : claims = scan[s].claims /\ more = claims \cup {r}
  OBVIOUS
<1>6. /\ claims \in SUBSET Repo /\ more \in SUBSET Repo
      /\ Cardinality(claims) \in Nat /\ Cardinality(more) = Cardinality(claims) + 1
  <2>1. claims \in SUBSET Repo /\ r \in Repo \ claims
    BY <1>2, <1>3, <1>5 DEF ScanTyped
  <2>2. QED
    BY <1>5, <2>1, Repos
<1>7. ScanTyped(s)'
  <2>1. scan[s].count \in 0 .. Cardinality(claims)
    BY <1>2, <1>5 DEF ScanTyped
  <2>2. scan[s].count \in 0 .. Cardinality(more)
    BY <1>6, <2>1
  <2>3. scan'[s].count \in 0 .. Cardinality(scan'[s].claims)
    BY <1>4, <1>5, <2>2
  <2>4. scan'[s].claims \subseteq Repo /\ scan'[s].found \subseteq scan'[s].claims
    BY <1>2, <1>4, <1>5, <1>6 DEF ScanTyped
  <2>5. QED
    BY <1>2, <1>4, <2>3, <2>4 DEF ScanTyped
<1>8. Item(w)' = r /\ \A u \in Worker : Item(u)' = Item(u)
  <2>1. \A u \in Worker : job'[u].todo = job[u].todo
    BY DEF StepsTo
  <2>2. QED
    BY <2>1, SameItem
<1>9. scan'[s].claims \subseteq Held'
  <2>1. job'[w].at = "record"
    BY DEF StepsTo
  <2>2. Item(w)' \in InHand'
    BY <2>1 DEF InHand
  <2>3. r \in Held'
    BY <1>8, <2>2 DEF Held
  <2>4. scan[s].claims \subseteq Held'
    BY <1>2, ScanParts DEF Grows
  <2>5. QED
    BY <1>4, <2>3, <2>4
<1>10. /\ At("claim", s) \in SUBSET Worker /\ w \in At("claim", s)
       /\ At("claim", s)' \in SUBSET (At("claim", s) \ {w})
       /\ At("record", s)' \subseteq At("record", s) \cup {w}
  <2>1. /\ At("claim", s)' \subseteq At("claim", s) \cup {w}
        /\ w \in At("claim", s)' <=> work.at = "claim" /\ work.job.scan = s
        /\ At("record", s)' \subseteq At("record", s) \cup {w}
    BY <1>1, AtAfter
  <2>2. At("claim", s) \in SUBSET Worker /\ w \in At("claim", s)
    BY DEF At
  <2>3. QED
    BY <2>1, <2>2
<1>11. Room(s)'
  <2>1. PICK at, after : at = At("claim", s) /\ after = At("claim", s)'
    OBVIOUS
  <2>2. /\ Cardinality(at) \in Nat /\ Cardinality(at \ {w}) = Cardinality(at) - 1
        /\ at \ {w} \in SUBSET Worker
    BY <1>10, <2>1, Workers
  <2>3. Cardinality(after) \in Nat /\ Cardinality(after) <= Cardinality(at) - 1
    <3>1. after \in SUBSET (at \ {w})
      BY <1>10, <2>1
    <3>2. Cardinality(after) \in Nat /\ Cardinality(after) <= Cardinality(at \ {w})
      BY <2>2, <3>1, Workers
    <3>3. QED
      BY <2>2, <3>2
  <2>4. Cardinality(claims) + Cardinality(at) <= plan.maxRepos + Overshoot
    BY <1>2, <1>5, <2>1, ScanParts DEF Room
  <2>5. plan.maxRepos \in Nat /\ Overshoot \in Int
    BY <1>1, <2>2, PlanOK, Workers DEF Overshoot
  <2>6. Cardinality(more) + Cardinality(after) <= plan.maxRepos + Overshoot
    BY <1>6, <2>2, <2>3, <2>4, <2>5
  <2>7. Cardinality(scan'[s].claims) + Cardinality(At("claim", s)') <= plan'.maxRepos + Overshoot
    BY <1>4, <1>5, <2>1, <2>6 DEF Grows
  <2>8. QED
    BY <2>7 DEF Room, Overshoot
<1>12. RecordedOnce(s)'
  <2>1. /\ RecordedOnce(s) /\ scan[s].found \subseteq scan[s].claims
        /\ At("record", s) \subseteq Worker /\ w \notin At("record", s)
    BY <1>2, ScanParts DEF ScanTyped, At
  <2>2. \A u \in At("record", s) : Item(u)' \in scan[s].claims \ scan[s].found
    BY <1>8, <2>1 DEF RecordedOnce
  <2>3. ASSUME NEW u \in At("record", s)'
        PROVE  Item(u)' \in scan'[s].claims \ scan'[s].found
    <3>1. CASE u \in At("record", s)
      BY <1>4, <2>2, <3>1
    <3>2. CASE u = w
      <4>1. r \in scan'[s].claims /\ r \notin scan'[s].found
        BY <1>4, <2>1
      <4>2. QED
        BY <1>8, <3>2, <4>1
    <3>3. QED
      BY <1>10, <3>1, <3>2
  <2>4. ASSUME NEW u \in At("record", s)', NEW v \in At("record", s)', u # v
        PROVE  Item(u)' # Item(v)'
    <3>1. CASE u # w /\ v # w
      <4>1. u \in At("record", s) /\ v \in At("record", s)
        BY <1>10, <2>4, <3>1
      <4>2. Item(u) # Item(v)
        BY <2>1, <2>4, <4>1 DEF RecordedOnce
      <4>3. QED
        BY <1>8, <2>1, <4>1, <4>2
    <3>2. CASE u = w \/ v = w
      BY <1>8, <1>10, <2>2, <2>4, <3>2
    <3>3. QED
      BY <3>1, <3>2
  <2>5. QED
    BY <2>3, <2>4 DEF RecordedOnce
<1>13. PagesDone(scan[s].pages)'
  BY <1>2, <1>4, ScanParts, PagesKept
<1>14. scan'[s].count = Cardinality(scan'[s].found)
  BY <1>2, <1>4, ScanParts
<1>15. QED
  BY <1>7, <1>9, <1>11, <1>12, <1>13, <1>14, PartsAfter

LEMMA ClaimKeeps ==
  ASSUME AllSound, NEW w \in Worker, Claim(w)
  PROVE  AllSound' /\ Grows
<1>1. /\ HistorySound /\ CursorSound /\ ScansSound /\ QueueSound /\ WorkersSound
      /\ plan \in Plans
  BY DEF AllSound, HistorySound
<1>2. PICK s, r, q : s = job[w].job.scan /\ r = Item(w) /\ q = job[w].job.query
  OBVIOUS
<1>3. /\ job[w].at = "claim"
      /\ \/ r \in scan[s].claims /\ Drop(w) /\ UNCHANGED scan
         \/ /\ r \notin scan[s].claims /\ scan' = [scan EXCEPT ![s].claims = @ \cup {r}]
            /\ job' = [job EXCEPT ![w].at = "record"]
      /\ UNCHANGED <<plan, known, credit, cursor, added, ready, faults, cut, raced>>
  BY <1>2 DEF Claim
<1>4. /\ DOMAIN job[w] = {"at", "job", "before", "pages", "todo", "took", "split"}
      /\ WorkSound(job[w]) /\ WorkTyped(job[w]) /\ job[w].took \in Nat /\ s \in Scan
      /\ job[w] # Idle
  BY <1>1, <1>2, <1>3, WorkIs DEF WorkersSound, JobTyped
<1>5. r \in job[w].todo
  BY <1>1, <1>2, <1>3, <1>4, ItemIs DEF WorkSound
<1>6. PICK work : work = job'[w]
  OBVIOUS
<1>7. /\ DOMAIN work = DOMAIN job[w] /\ work.job = job[w].job /\ work.before = job[w].before
      /\ work.pages = job[w].pages /\ work.split = job[w].split /\ work.took = job[w].took
      /\ StepsTo(w, work)
      /\ \/ /\ work.at = "item" /\ work.todo = job[w].todo \ {r}
            /\ r \in scan[s].claims /\ scan' = scan
         \/ /\ work.at = "record" /\ work.todo = job[w].todo
            /\ r \notin scan[s].claims /\ scan' = [scan EXCEPT ![s].claims = @ \cup {r}]
  BY <1>1, <1>2, <1>3, <1>4, <1>6 DEF StepsTo, WorkersSound, Drop
<1>8. Grows
  <2>1. \A u \in Worker : job[u].at = "record" =>
          job'[u].at = "record" /\ job'[u].todo = job[u].todo
    BY <1>3, <1>7 DEF StepsTo
  <2>2. \A t \in Scan : scan'[t].handed = scan[t].handed
    BY <1>1, <1>4, <1>7 DEF ScansSound, ScanTyped
  <2>3. QED
    BY <1>3, <2>1, <2>2, HeldGrows
<1>9. QueueSound' /\ CursorSound'
  BY <1>1, <1>3, <1>8, QueueKept, CursorKept DEF QueueSound
<1>10. HistorySound'
  BY <1>1, <1>3 DEF HistorySound
<1>11. CASE work.at = "item" /\ work.todo = job[w].todo \ {r} /\ r \in scan[s].claims /\ scan' = scan
  <2>1. r \in Covered(q)'
    <3>1. r \in Held
      BY <1>1, <1>4, <1>11, ScanParts DEF ScansSound
    <3>2. QED
      BY <1>8, <3>1 DEF Grows, Covered
  <2>2. WorkTyped(work)' /\ WorkSound(work)'
    BY <1>2, <1>3, <1>4, <1>7, <1>8, <1>11, <2>1, DropSound
  <2>3. WorkersSound'
    BY <1>1, <1>3, <1>7, <1>8, <2>2, WorkersStep
  <2>4. ScansSound'
    <3>1. Elsewhere
      BY <1>7, <1>11 DEF Elsewhere
    <3>2. QED
      BY <1>1, <1>8, <1>11, <3>1, ScansKept
  <2>5. QED
    BY <1>9, <1>10, <2>3, <2>4, <1>8 DEF AllSound
<1>12. CASE /\ work.at = "record" /\ work.todo = job[w].todo /\ r \notin scan[s].claims
            /\ scan' = [scan EXCEPT ![s].claims = @ \cup {r}]
  <2>1. WorkTyped(work)' /\ WorkSound(work)'
    <3>1. WorkTyped(work) /\ WorkSound(work)
      BY <1>3, <1>4, <1>5, <1>7, <1>12 DEF WorkTyped, WorkSound
    <3>2. QED
      BY <1>3, <1>8, <3>1, WorkGrows
  <2>2. WorkersSound'
    BY <1>1, <1>3, <1>7, <1>8, <2>1, WorkersStep
  <2>3. ScanTyped(s)' /\ ScanSound(s)'
    BY <1>2, <1>3, <1>4, <1>7, <1>8, <1>12, ClaimWritten
  <2>4. ASSUME NEW t \in Scan, t # s PROVE ScanTyped(t)' /\ ScanSound(t)'
    <3>1. scan'[t] = scan[t] /\ ScanTyped(t) /\ ScanSound(t) /\ work.job.scan # t
      BY <1>1, <1>2, <1>7, <1>12, <2>4 DEF ScansSound
    <3>2. QED
      BY <1>1, <1>7, <1>8, <3>1, OthersKept
  <2>5. DOMAIN scan' = Scan
    BY <1>1, <1>12 DEF ScansSound
  <2>6. ScansSound'
    BY <2>3, <2>4, <2>5 DEF ScansSound
  <2>7. QED
    BY <1>9, <1>10, <2>2, <2>6, <1>8 DEF AllSound
<1>13. QED
  BY <1>7, <1>8, <1>11, <1>12

\* A record counts a repository that was not counted yet.
LEMMA RecordWritten ==
  ASSUME AllSound, NEW w \in Worker, job[w].at = "record",
         NEW s \in Scan, s = job[w].job.scan, NEW r, r = Item(w), NEW handed \in SUBSET Repo,
         DOMAIN scan'[s] = DOMAIN scan[s], scan'[s].claims = scan[s].claims,
         scan'[s].found = scan[s].found \cup {r}, scan'[s].count = scan[s].count + 1,
         scan'[s].pages = scan[s].pages, scan'[s].handed = handed,
         scan'[s].status = scan[s].status, scan'[s].hurt = scan[s].hurt,
         NEW work, StepsTo(w, work), work.at = "item", Grows
  PROVE  ScanTyped(s)' /\ ScanSound(s)'
<1>1. ScansSound /\ WorkersSound /\ plan \in Plans
  BY DEF AllSound, HistorySound
<1>2. ScanTyped(s) /\ ScanSound(s)
  BY <1>1 DEF ScansSound
<1>3. w \in At("record", s) /\ At("record", s) \subseteq Worker
  BY DEF At
<1>4. r \in scan[s].claims \ scan[s].found /\ RecordedOnce(s)
  BY <1>2, <1>3, ScanParts DEF RecordedOnce
<1>5. PICK claims, found, more :
        claims = scan[s].claims /\ found = scan[s].found /\ more = found \cup {r}
  OBVIOUS
<1>6. /\ claims \in SUBSET Repo /\ more \in SUBSET claims
      /\ Cardinality(found) \in Nat /\ Cardinality(more) = Cardinality(found) + 1
      /\ Cardinality(claims) \in Nat /\ Cardinality(more) \in Nat
      /\ Cardinality(more) <= Cardinality(claims)
  <2>1. claims \in SUBSET Repo /\ found \in SUBSET claims /\ r \in claims \ found
    BY <1>2, <1>4, <1>5 DEF ScanTyped
  <2>2. found \in SUBSET Repo /\ r \in Repo \ found /\ more \in SUBSET claims
    BY <1>5, <2>1
  <2>3. Cardinality(found) \in Nat /\ Cardinality(more) = Cardinality(found) + 1
    BY <1>5, <2>2, Repos
  <2>4. Cardinality(more) \in Nat
    BY <2>3
  <2>5. IsFiniteSet(claims) /\ Cardinality(claims) \in Nat
    BY <2>1, Repos
  <2>6. Cardinality(more) <= Cardinality(claims)
    BY <2>1, <2>2, Fewer
  <2>7. QED
    BY <2>1, <2>2, <2>3, <2>4, <2>5, <2>6
<1>7. scan'[s].count = Cardinality(more) /\ more = scan'[s].found
  BY <1>2, <1>5, <1>6, ScanParts
<1>8. ScanTyped(s)'
  <2>1. scan'[s].count \in 0 .. Cardinality(scan'[s].claims)
    <3>1. Cardinality(more) \in 0 .. Cardinality(claims)
      BY <1>6, Within
    <3>2. QED
      BY <1>5, <1>7, <3>1
  <2>2. scan'[s].claims \subseteq Repo /\ scan'[s].found \subseteq scan'[s].claims
    BY <1>5, <1>6, <1>7
  <2>3. QED
    BY <1>2, <2>1, <2>2 DEF ScanTyped
<1>9. /\ At("claim", s)' \subseteq At("claim", s)
      /\ At("record", s)' \subseteq At("record", s) \ {w}
      /\ \A u \in At("record", s)' : Item(u)' = Item(u)
  <2>1. Elsewhere
    BY DEF Elsewhere
  <2>2. w \notin At("record", s)'
    BY <1>1, AtAfter
  <2>3. At("claim", s)' \subseteq At("claim", s)
    BY <1>1, <2>1, AtElsewhere
  <2>4. /\ At("record", s)' \subseteq At("record", s)
        /\ \A u \in At("record", s)' : Item(u)' = Item(u)
    BY <1>1, <2>1, AtElsewhere
  <2>5. QED
    BY <2>2, <2>3, <2>4
<1>10. Room(s)'
  BY <1>1, <1>2, <1>9, ScanParts, RoomKept DEF Grows
<1>11. RecordedOnce(s)'
  <2>1. ASSUME NEW u \in At("record", s), u # w
        PROVE  Item(u) \in scan[s].claims \ (scan[s].found \cup {r})
    BY <1>3, <1>4, <2>1 DEF RecordedOnce
  <2>2. ASSUME NEW u \in At("record", s)'
        PROVE  Item(u)' \in scan'[s].claims \ scan'[s].found
    <3>1. u \in At("record", s) /\ u # w /\ Item(u)' = Item(u)
      BY <1>9
    <3>2. Item(u) \in scan[s].claims \ (scan[s].found \cup {r})
      BY <2>1, <3>1
    <3>3. QED
      BY <3>1, <3>2
  <2>3. ASSUME NEW u \in At("record", s)', NEW v \in At("record", s)', u # v
        PROVE  Item(u)' # Item(v)'
    <3>1. /\ u \in At("record", s) /\ Item(u)' = Item(u)
          /\ v \in At("record", s) /\ Item(v)' = Item(v)
      BY <1>9
    <3>2. Item(u) # Item(v)
      BY <1>4, <2>3, <3>1 DEF RecordedOnce
    <3>3. QED
      BY <3>1, <3>2
  <2>4. QED
    BY <2>2, <2>3 DEF RecordedOnce
<1>12. PagesDone(scan[s].pages)'
  BY <1>2, ScanParts, PagesKept
<1>13. scan'[s].claims \subseteq Held'
  BY <1>2, ScanParts DEF Grows
<1>14. scan'[s].count = Cardinality(scan'[s].found)
  BY <1>7
<1>15. QED
  BY <1>8, <1>10, <1>11, <1>12, <1>13, <1>14, PartsAfter

LEMMA RecordKeeps ==
  ASSUME AllSound, NEW w \in Worker, Record(w)
  PROVE  AllSound' /\ Grows
<1>1. /\ HistorySound /\ CursorSound /\ ScansSound /\ QueueSound /\ WorkersSound
      /\ plan \in Plans
  BY DEF AllSound, HistorySound
<1>2. PICK s, r, q : s = job[w].job.scan /\ r = Item(w) /\ q = job[w].job.query
  OBVIOUS
<1>3. PICK handed : handed = IF s \in plan.only THEN scan[s].handed ELSE scan[s].handed \cup {r}
  OBVIOUS
<1>4. /\ job[w].at = "record"
      /\ \/ /\ s \in plan.only /\ known' = known \cup {r}
            /\ credit' = [credit EXCEPT ![r].first = s]
            /\ raced' = IF r \in known THEN raced \cup {r} ELSE raced
         \/ s \notin plan.only /\ UNCHANGED <<known, credit, raced>>
      /\ scan' = [scan EXCEPT ![s].count = @ + 1, ![s].found = @ \cup {r}, ![s].handed = handed]
      /\ job' = [job EXCEPT ![w].at = "item", ![w].todo = @ \ {r}, ![w].took = @ + 1]
      /\ UNCHANGED <<plan, cursor, added, ready, faults, cut>>
  <2>1. scan' = [scan EXCEPT ![s].count = @ + 1, ![s].found = @ \cup {r}, ![s].handed = handed]
    BY <1>2, <1>3 DEF Record
  <2>2. QED
    BY <1>2, <2>1 DEF Record
<1>5. /\ DOMAIN job[w] = {"at", "job", "before", "pages", "todo", "took", "split"}
      /\ WorkSound(job[w]) /\ WorkTyped(job[w]) /\ job[w].took \in Nat /\ s \in Scan
      /\ job[w] # Idle /\ PagesDone(job[w].pages) /\ job[w].todo \subseteq Repo
  BY <1>1, <1>2, <1>4, WorkIs DEF WorkersSound, JobTyped
<1>6. r \in job[w].todo /\ r \in Repo
  BY <1>1, <1>2, <1>4, <1>5, ItemIs DEF WorkSound
<1>7. PICK work : work = job'[w]
  OBVIOUS
<1>8. /\ DOMAIN work = DOMAIN job[w] /\ work.job = job[w].job /\ work.before = job[w].before
      /\ work.pages = job[w].pages /\ work.split = job[w].split /\ work.took = job[w].took + 1
      /\ StepsTo(w, work) /\ work.at = "item" /\ work.todo = job[w].todo \ {r}
  BY <1>1, <1>4, <1>5, <1>7 DEF StepsTo, WorkersSound
<1>9. /\ ScanTyped(s) /\ handed \in SUBSET Repo /\ scan'[s].handed = handed
      /\ \A t \in Scan \ {s} : scan'[t] = scan[t]
      /\ DOMAIN scan' = Scan
      /\ DOMAIN scan'[s] = DOMAIN scan[s] /\ scan'[s].claims = scan[s].claims
      /\ scan'[s].found = scan[s].found \cup {r} /\ scan'[s].count = scan[s].count + 1
      /\ scan'[s].pages = scan[s].pages
      /\ scan'[s].status = scan[s].status /\ scan'[s].hurt = scan[s].hurt
  <2>1. ScanTyped(s) /\ DOMAIN scan = Scan
    BY <1>1, <1>5 DEF ScansSound
  <2>2. handed \in SUBSET Repo
    BY <1>3, <1>6, <2>1 DEF ScanTyped
  <2>3. QED
    BY <1>4, <1>5, <2>1, <2>2 DEF ScanTyped
<1>10. known \subseteq known' /\ known' \subseteq Repo /\ r \in known' \cup handed
  BY <1>1, <1>3, <1>4, <1>6 DEF HistorySound
<1>11. Grows
  <2>1. r \in Held'
    <3>1. handed \subseteq Found'
      BY <1>5, <1>9 DEF Found
    <3>2. QED
      BY <1>10, <3>1 DEF Held, Found
  <2>2. ASSUME NEW u \in Worker, job[u].at = "record"
        PROVE  \/ job'[u].at = "record" /\ job'[u].todo = job[u].todo
               \/ Item(u) \in Held'
    BY <1>2, <1>8, <2>1, <2>2 DEF StepsTo
  <2>3. \A t \in Scan : scan[t].handed \subseteq scan'[t].handed \cup known'
    BY <1>3, <1>9
  <2>4. QED
    BY <1>4, <1>10, <2>2, <2>3, HeldGrows
<1>12. QueueSound' /\ CursorSound'
  BY <1>1, <1>4, <1>11, QueueKept, CursorKept DEF QueueSound
<1>13. HistorySound'
  <2>1. credit' \in [Repo -> [first : Brands \cup {"none"}, also : SUBSET Brands]]
    <3>1. CASE UNCHANGED credit
      BY <1>1, <3>1 DEF HistorySound
    <3>2. CASE credit' = [credit EXCEPT ![r].first = s]
      <4>1. credit[r] \in [first : Brands \cup {"none"}, also : SUBSET Brands]
        BY <1>1, <1>6 DEF HistorySound
      <4>2. s \in Brands
        BY <1>5 DEF Brands
      <4>3. QED
        BY <1>1, <1>6, <3>2, <4>1, <4>2 DEF HistorySound
    <3>3. QED
      BY <1>4, <3>1, <3>2
  <2>2. raced' \subseteq Repo
    BY <1>1, <1>4, <1>6 DEF HistorySound
  <2>3. QED
    BY <1>1, <1>4, <1>10, <2>1, <2>2 DEF HistorySound
<1>14. WorkersSound'
  <2>1. WorkTyped(work)'
    <3>1. WorkTyped(work)
      BY <1>5, <1>8 DEF WorkTyped
    <3>2. CanBeHad(work.job.page)' <=> CanBeHad(work.job.page)
      BY <1>4, HadStill
    <3>3. QED
      BY <1>4, <3>1, <3>2 DEF WorkTyped
  <2>2. WorkSound(work)'
    <3>1. PICK page : page = work.job.page /\ page = job[w].job.page /\ q = work.job.query
      BY <1>2, <1>8
    <3>2. OnPage(q, page)' = OnPage(q, page) /\ Covered(q) \subseteq Covered(q)'
      BY <1>11 DEF Grows, OnPage, Covered
    <3>3. /\ job[w].todo \subseteq OnPage(q, page)
          /\ OnPage(q, page) \ job[w].todo \subseteq Covered(q)
      BY <1>2, <1>5, <3>1 DEF WorkSound
    <3>4. r \in Covered(q)'
      <4>1. handed \subseteq Found'
        BY <1>5, <1>9 DEF Found
      <4>2. QED
        BY <1>10, <4>1 DEF Covered, Held, Found
    <3>5. /\ work.todo \subseteq OnPage(q, page)'
          /\ OnPage(q, page)' \ work.todo \subseteq Covered(q)'
      BY <1>8, <3>2, <3>3, <3>4
    <3>6. PagesDone(work.pages)'
      <4>1. PICK pages : pages = job[w].pages /\ pages = work.pages
        BY <1>8
      <4>2. PagesDone(pages)'
        BY <1>5, <1>11, <4>1, PagesGrow
      <4>3. QED
        BY <4>1, <4>2
    <3>7. QED
      BY <1>8, <3>1, <3>5, <3>6 DEF WorkSound
  <2>3. QED
    BY <1>1, <1>4, <1>8, <1>11, <2>1, <2>2, WorkersStep
<1>15. ScansSound'
  <2>1. ScanTyped(s)' /\ ScanSound(s)'
    <3>1. job[w].at = "record" /\ s \in Scan /\ s = job[w].job.scan /\ r = Item(w)
      BY <1>2, <1>4, <1>5
    <3>2. StepsTo(w, work) /\ work.at = "item"
      BY <1>8
    <3>3. QED
      BY <1>9, <1>11, <3>1, <3>2, RecordWritten
  <2>2. ASSUME NEW t \in Scan, t # s PROVE ScanTyped(t)' /\ ScanSound(t)'
    <3>1. scan'[t] = scan[t] /\ ScanTyped(t) /\ ScanSound(t) /\ work.job.scan # t
      BY <1>1, <1>2, <1>8, <1>9, <2>2 DEF ScansSound
    <3>2. QED
      BY <1>1, <1>8, <1>11, <3>1, OthersKept
  <2>3. QED
    BY <1>9, <2>1, <2>2 DEF ScansSound
<1>16. QED
  BY <1>12, <1>13, <1>14, <1>15, <1>11 DEF AllSound

\* A page of which nothing is left is through, with those before it.
LEMMA PageThrough ==
  ASSUME AllSound, NEW w \in Worker, job[w].at # "idle", job[w].todo = {},
         NEW q, q = job[w].job.query, NEW page, page = job[w].job.page
  PROVE  page \in Nat \ {0} /\ CanBeHad(page) /\ Through(q, page)
<1>1. page \in Nat \ {0} /\ CanBeHad(page)
  BY WorkIs DEF JobTyped, Asked
<1>2. Through(q, page - 1) /\ OnPage(q, page) \subseteq Covered(q)
  BY WorkIs DEF JobSound, WorkSound
<1>3. \A p \in 1 .. page : p = page \/ p \in 1 .. (page - 1)
  BY <1>1
<1>4. Through(q, page)
  BY <1>2, <1>3 DEF Through
<1>5. QED
  BY <1>1, <1>4

LEMMA BookmarkKeeps ==
  ASSUME AllSound, NEW w \in Worker, Bookmark(w)
  PROVE  AllSound' /\ Grows
<1>1. /\ HistorySound /\ CursorSound /\ ScansSound /\ QueueSound /\ WorkersSound
      /\ plan \in Plans
  BY DEF AllSound, HistorySound
<1>2. PICK s, q, page, over :
        /\ s = job[w].job.scan /\ q = job[w].job.query /\ page = job[w].job.page
        /\ over = ~More(w)
  OBVIOUS
<1>3. PICK pages : pages = Put(job[w].pages, q, page)
  OBVIOUS
<1>4. /\ job[w].at = "item" /\ job[w].todo = {}
      /\ scan' = [scan EXCEPT ![s].pages = pages]
      /\ cursor' = Put(cursor, q, [page |-> page, exhausted |-> over])
      /\ job' = [job EXCEPT ![w].at = "next"]
      /\ UNCHANGED <<plan, known, credit, added, ready, faults, cut, raced>>
  BY <1>2, <1>3 DEF Bookmark
<1>5. over \in BOOLEAN
  BY <1>2
<1>6. /\ DOMAIN job[w] = {"at", "job", "before", "pages", "todo", "took", "split"}
      /\ WorkSound(job[w]) /\ WorkTyped(job[w]) /\ job[w] # Idle /\ PagesDone(job[w].pages)
      /\ s \in Scan /\ Asked(page)
  BY <1>1, <1>2, <1>4, WorkIs DEF WorkersSound, JobTyped
<1>7. page \in Nat \ {0} /\ CanBeHad(page) /\ Through(q, page)
  BY <1>2, <1>4, PageThrough
<1>8. PagesDone(pages)
  <2>1. /\ DOMAIN pages = DOMAIN job[w].pages \cup {q} /\ pages[q] = page
        /\ \A x \in DOMAIN job[w].pages : x # q => pages[x] = job[w].pages[x]
    BY <1>3 DEF Put
  <2>2. QED
    BY <1>6, <1>7, <2>1 DEF PagesDone
<1>9. PICK work : work = job'[w]
  OBVIOUS
<1>10. /\ DOMAIN work = DOMAIN job[w] /\ work.job = job[w].job /\ work.before = job[w].before
       /\ work.pages = job[w].pages /\ work.split = job[w].split /\ work.took = job[w].took
       /\ StepsTo(w, work) /\ work.at = "next" /\ work.todo = job[w].todo
  BY <1>1, <1>4, <1>6, <1>9 DEF StepsTo, WorkersSound
<1>11. DOMAIN scan' = Scan /\ \A t \in Scan :
         /\ ScanTyped(t)'
         /\ scan'[t].claims = scan[t].claims /\ scan'[t].found = scan[t].found
         /\ scan'[t].count = scan[t].count /\ scan'[t].handed = scan[t].handed
         /\ scan'[t].pages = IF t = s THEN pages ELSE scan[t].pages
  BY <1>1, <1>4 DEF ScansSound, ScanTyped
<1>12. Grows
  <2>1. \A u \in Worker : job[u].at = "record" =>
          job'[u].at = "record" /\ job'[u].todo = job[u].todo
    BY <1>4, <1>10 DEF StepsTo
  <2>2. QED
    BY <1>4, <1>11, <2>1, HeldGrows
<1>13. ScansSound'
  <2>1. Elsewhere
    BY <1>10 DEF Elsewhere
  <2>2. ASSUME NEW t \in Scan PROVE PagesDone(scan[t].pages)'
    <3>1. PICK now : now = scan'[t].pages
      OBVIOUS
    <3>2. PagesDone(now)
      <4>1. CASE t = s
        BY <1>8, <1>11, <3>1, <4>1
      <4>2. CASE t # s
        BY <1>1, <1>11, <3>1, <4>2, ScanParts DEF ScansSound
      <4>3. QED
        BY <4>1, <4>2
    <3>3. PagesDone(now)'
      BY <1>12, <3>2, PagesGrow
    <3>4. QED
      BY <3>1, <3>3
  <2>3. \A t \in Scan : ScanTyped(t) /\ ScanSound(t)
    BY <1>1 DEF ScansSound
  <2>4. \A t \in Scan : ScanSound(t)'
    BY <1>1, <1>11, <1>12, <2>1, <2>2, <2>3, ScanKept
  <2>5. QED
    BY <1>11, <2>4 DEF ScansSound
<1>14. CursorSound'
  BY <1>1, <1>4, <1>5, <1>6, <1>7, <1>12, CursorPut
<1>15. QueueSound'
  BY <1>1, <1>4, <1>12, QueueKept DEF QueueSound
<1>16. WorkersSound'
  <2>1. WorkTyped(work) /\ WorkSound(work)
    BY <1>4, <1>6, <1>10 DEF WorkTyped, WorkSound
  <2>2. WorkTyped(work)' /\ WorkSound(work)'
    BY <1>4, <1>12, <2>1, WorkGrows
  <2>3. QED
    BY <1>1, <1>4, <1>10, <1>12, <2>2, WorkersStep
<1>17. HistorySound'
  BY <1>1, <1>4 DEF HistorySound
<1>18. QED
  BY <1>13, <1>14, <1>15, <1>16, <1>17, <1>12 DEF AllSound

LEMMA NextPageKeeps ==
  ASSUME AllSound, NEW w \in Worker, NextPage(w)
  PROVE  AllSound' /\ Grows
<1>1. /\ HistorySound /\ CursorSound /\ ScansSound /\ QueueSound /\ WorkersSound
      /\ plan \in Plans
  BY DEF AllSound, HistorySound
<1>2. PICK j : j = job[w].job
  OBVIOUS
<1>3. /\ job[w].at = "next"
      /\ Enqueue({[j EXCEPT !.page = @ + 1]}) \/ UNCHANGED <<added, ready>>
      /\ job' = [job EXCEPT ![w] = Idle]
      /\ UNCHANGED <<plan, known, credit, cursor, scan, faults, cut, raced>>
  BY <1>2 DEF NextPage, Done
<1>4. JobTyped(j) /\ WorkSound(job[w]) /\ job[w] # Idle
  BY <1>2, <1>3, WorkIs
<1>5. /\ j.page \in Nat \ {0} /\ CanBeHad(j.page) /\ Through(j.query, j.page)
  BY <1>2, <1>3, <1>4, PageThrough DEF WorkSound
<1>6. PICK k : k = [j EXCEPT !.page = @ + 1]
  OBVIOUS
<1>7. JobTyped(k) /\ JobSound(k)
  <2>1. /\ DOMAIN k = DOMAIN j /\ k.scan = j.scan /\ k.query = j.query /\ k.depth = j.depth
        /\ k.split = j.split /\ k.page = j.page + 1
    BY <1>4, <1>6 DEF JobTyped
  <2>2. Asked(k.page) /\ Through(k.query, k.page - 1)
    BY <1>5, <2>1, NextSound
  <2>3. QED
    BY <1>4, <2>1, <2>2 DEF JobTyped, JobSound
<1>8. StepsTo(w, Idle)
  BY <1>1, <1>3 DEF StepsTo, WorkersSound
<1>9. Grows
  <2>1. \A u \in Worker : job[u].at = "record" =>
          job'[u].at = "record" /\ job'[u].todo = job[u].todo
    BY <1>3, <1>8 DEF StepsTo
  <2>2. QED
    BY <1>3, <2>1, HeldGrows
<1>10. Elsewhere
  BY <1>8 DEF Elsewhere, Idle
<1>11. ScansSound' /\ CursorSound'
  BY <1>1, <1>3, <1>9, <1>10, ScansKept, CursorKept
<1>12. QueueSound' /\ added \subseteq added'
  <2>1. CASE Enqueue({k})
    <3>1. \A x \in {k} : JobTyped(x) /\ JobSound(x)
      BY <1>7
    <3>2. QED
      BY <1>1, <1>9, <2>1, <3>1, QueueGrows
  <2>2. CASE UNCHANGED <<added, ready>>
    BY <1>1, <1>9, <2>2, QueueKept DEF QueueSound
  <2>3. QED
    BY <1>3, <1>6, <2>1, <2>2
<1>13. WorkersSound'
  BY <1>1, <1>8, <1>9, <1>12, IdleSound, WorkersStep
<1>14. HistorySound'
  BY <1>1, <1>3 DEF HistorySound
<1>15. QED
  BY <1>11, <1>12, <1>13, <1>14, <1>9 DEF AllSound

LEMMA FailKeeps ==
  ASSUME AllSound, NEW w \in Worker, Fail(w)
  PROVE  AllSound' /\ Grows
<1>1. /\ HistorySound /\ CursorSound /\ ScansSound /\ QueueSound /\ WorkersSound
      /\ plan \in Plans
  BY DEF AllSound, HistorySound
<1>2. PICK s, r : s = job[w].job.scan /\ r = Item(w)
  OBVIOUS
<1>3. /\ job[w].at # "idle" /\ faults < plan.maxFaults /\ faults' = faults + 1
      /\ \/ ready' = ready \cup {job[w].job} /\ UNCHANGED scan
         \/ scan' = [scan EXCEPT ![s].hurt = TRUE] /\ UNCHANGED ready
      /\ cut' = IF job[w].at = "record" THEN cut \cup {r} ELSE cut
      /\ job' = [job EXCEPT ![w] = Idle]
      /\ UNCHANGED <<plan, known, credit, cursor, added, raced>>
  BY <1>2 DEF Fail, Done
<1>4. /\ job[w].job \in added /\ s \in Scan /\ WorkSound(job[w]) /\ job[w] # Idle
  BY <1>2, <1>3, WorkIs DEF JobTyped
<1>5. job[w].at = "record" => r \in Repo
  BY <1>1, <1>2, <1>3, <1>4, ItemIs DEF WorkSound
<1>6. DOMAIN scan' = Scan /\ \A t \in Scan :
        /\ ScanTyped(t)'
        /\ scan'[t].claims = scan[t].claims /\ scan'[t].found = scan[t].found
        /\ scan'[t].count = scan[t].count /\ scan'[t].pages = scan[t].pages
        /\ scan'[t].handed = scan[t].handed
  <2>1. DOMAIN scan = Scan /\ \A t \in Scan : ScanTyped(t)
    BY <1>1 DEF ScansSound
  <2>2. CASE UNCHANGED scan
    BY <2>1, <2>2 DEF ScanTyped
  <2>3. CASE scan' = [scan EXCEPT ![s].hurt = TRUE]
    <3>1. DOMAIN scan' = Scan /\ \A t \in Scan :
            /\ DOMAIN scan'[t] = DOMAIN scan[t] /\ scan'[t].status = scan[t].status
            /\ scan'[t].claims = scan[t].claims /\ scan'[t].found = scan[t].found
            /\ scan'[t].count = scan[t].count /\ scan'[t].pages = scan[t].pages
            /\ scan'[t].handed = scan[t].handed
      BY <2>1, <2>3 DEF ScanTyped
    <3>2. \A t \in Scan : scan'[t].hurt \in BOOLEAN
      BY <2>1, <2>3 DEF ScanTyped
    <3>3. QED
      BY <2>1, <3>1, <3>2 DEF ScanTyped
  <2>4. QED
    BY <1>3, <2>2, <2>3
<1>7. StepsTo(w, Idle)
  BY <1>1, <1>3 DEF StepsTo, WorkersSound
<1>8. cut \subseteq cut' /\ cut' \subseteq Repo
  BY <1>1, <1>3, <1>5 DEF HistorySound
<1>9. Grows
  <2>1. ASSUME NEW u \in Worker, job[u].at = "record"
        PROVE  \/ job'[u].at = "record" /\ job'[u].todo = job[u].todo
               \/ Item(u) \in Held'
    <3>1. CASE u = w
      BY <1>2, <1>3, <2>1, <3>1 DEF Held
    <3>2. CASE u # w
      BY <1>7, <2>1, <3>2 DEF StepsTo
    <3>3. QED
      BY <3>1, <3>2
  <2>2. QED
    BY <1>3, <1>6, <1>8, <2>1, HeldGrows
<1>10. Elsewhere
  BY <1>7 DEF Elsewhere, Idle
<1>11. ScansSound' /\ CursorSound'
  BY <1>1, <1>3, <1>6, <1>9, <1>10, ScansEdited, CursorKept
<1>12. QueueSound'
  <2>1. ready' \subseteq added
    BY <1>1, <1>3, <1>4 DEF QueueSound
  <2>2. QED
    BY <1>1, <1>3, <1>9, <2>1, QueueKept
<1>13. WorkersSound'
  BY <1>1, <1>3, <1>7, <1>9, IdleSound, WorkersStep
<1>14. HistorySound'
  <2>1. faults' \in 0 .. plan'.maxFaults
    BY <1>1, <1>3, FaultCounted
  <2>2. QED
    BY <1>1, <1>3, <1>8, <2>1 DEF HistorySound
<1>15. QED
  BY <1>11, <1>12, <1>13, <1>14, <1>9 DEF AllSound

-----------------------------------------------------------------------------
(* The invariant, and what it is for.                                       *)

LEMMA StutterKeeps ==
  ASSUME AllSound, UNCHANGED vars
  PROVE  AllSound' /\ Grows
<1>1. /\ HistorySound /\ CursorSound /\ ScansSound /\ QueueSound /\ WorkersSound
      /\ plan \in Plans
  BY DEF AllSound, HistorySound
<1>2. UNCHANGED <<plan, known, credit, cursor, scan, added, ready, job, faults, cut, raced>>
  BY DEF vars
<1>3. Grows
  BY <1>2, HeldGrows
<1>4. Elsewhere
  BY <1>2 DEF Elsewhere
<1>5. ScansSound' /\ CursorSound' /\ WorkersSound'
  BY <1>1, <1>2, <1>3, <1>4, ScansKept, CursorKept, WorkersKept
<1>6. QueueSound'
  BY <1>1, <1>2, <1>3, QueueKept DEF QueueSound
<1>7. HistorySound'
  BY <1>1, <1>2 DEF HistorySound
<1>8. QED
  BY <1>5, <1>6, <1>7, <1>3 DEF AllSound

LEMMA NextKeeps ==
  ASSUME AllSound, [Next]_vars
  PROVE  AllSound' /\ Grows
<1>1. ASSUME NEW s \in Scan, Start(s) \/ Restart(s) \/ Cancel(s) \/ Analyse(s)
      PROVE  AllSound' /\ Grows
  BY <1>1, StartKeeps, RestartKeeps, CancelKeeps, AnalyseKeeps
<1>2. ASSUME NEW w \in Worker,
             \/ Begin(w) \/ Split(w) \/ Look(w) \/ Claim(w)
             \/ Record(w) \/ Bookmark(w) \/ NextPage(w) \/ Fail(w)
      PROVE  AllSound' /\ Grows
  BY <1>2, BeginKeeps, SplitKeeps, LookKeeps, ClaimKeeps, RecordKeeps, BookmarkKeeps,
     NextPageKeeps, FailKeeps
<1>3. QED
  BY <1>1, <1>2, StutterKeeps DEF Next

LEMMA InitSound ==
  ASSUME Init
  PROVE  AllSound
<1>1. HistorySound
  <2>1. plan.maxFaults \in Nat
    BY PlanOK DEF Init
  <2>2. credit \in [Repo -> [first : Brands \cup {"none"}, also : SUBSET Brands]]
    BY DEF Init, Nobody
  <2>3. QED
    BY <2>1, <2>2 DEF Init, HistorySound
<1>2. CursorSound
  BY DEF Init, CursorSound
<1>3. ASSUME NEW s \in Scan PROVE ScanTyped(s) /\ ScanSound(s)
  <2>1. /\ DOMAIN scan[s] = {"status", "claims", "found", "count", "pages", "handed", "hurt"}
        /\ scan[s].status = "new" /\ scan[s].claims = {} /\ scan[s].found = {}
        /\ scan[s].count = 0 /\ scan[s].pages = <<>> /\ scan[s].handed = {}
        /\ scan[s].hurt = FALSE
    BY DEF Init
  <2>2. Cardinality({}) = 0
    BY FS_EmptySet
  <2>3. ScanTyped(s)
    <3>1. scan[s].count \in 0 .. Cardinality(scan[s].claims)
      <4>1. 0 \in 0 .. 0
        OBVIOUS
      <4>2. QED
        BY <2>1, <2>2, <4>1
    <3>2. scan[s].hurt \in BOOLEAN
      BY <2>1
    <3>3. QED
      BY <2>1, <3>1, <3>2 DEF ScanTyped
  <2>4. Room(s)
    <3>1. At("claim", s) \in SUBSET Worker
      BY DEF At
    <3>2. \A w \in Worker : job[w].at = "idle"
      BY DEF Init, Idle
    <3>3. At("claim", s) = {}
      BY <3>2 DEF At
    <3>4. plan.maxRepos \in Nat \ {0} /\ Cardinality(Worker) \in Nat
      BY <3>1, PlanOK, Workers DEF Init
    <3>5. 0 + 0 <= plan.maxRepos + (Cardinality(Worker) - 1)
      BY <3>4
    <3>6. Cardinality(scan[s].claims) = 0 /\ Cardinality(At("claim", s)) = 0
      BY <2>1, <2>2, <3>3
    <3>7. QED
      BY <3>5, <3>6 DEF Room, Overshoot
  <2>5. RecordedOnce(s)
    BY DEF Init, Idle, RecordedOnce, At
  <2>6. PagesDone(scan[s].pages)
    BY <2>1 DEF PagesDone
  <2>7. scan[s].count = Cardinality(scan[s].found) /\ scan[s].claims \subseteq Held
    BY <2>1, <2>2
  <2>8. QED
    BY <2>3, <2>4, <2>5, <2>6, <2>7, ScanParts
<1>4. ScansSound
  BY <1>3 DEF Init, ScansSound
<1>5. QueueSound /\ WorkersSound
  BY DEF Init, QueueSound, WorkersSound, WorkTyped, WorkSound
<1>6. QED
  BY <1>1, <1>2, <1>4, <1>5 DEF AllSound

\* The inductive invariant: what is claimed is found, in hand or lost, a page is asked for
\* when those before it are through, what a job has left of its page is what nobody holds.
THEOREM DiscoveryHolds == Spec => []DiscoveryInv
<1>1. Init => AllSound
  BY InitSound
<1>2. AllSound /\ [Next]_vars => AllSound'
  BY NextKeeps
<1>3. AllSound => DiscoveryInv
  BY InvariantParts DEF AllSound
<1>4. QED
  BY <1>1, <1>2, <1>3, PTL DEF Spec

\* maxRepos (claimRepositoryForAnalysis): with any number of search jobs at once a scan
\* claims no more repositories over its cap than there are other jobs, however often jobs
\* fail and are tried again, and the queries are split and resumed.
THEOREM CapIsKept == Spec => []CapKept
<1>1. DiscoveryInv => CapKept
  BY DEF DiscoveryInv
<1>2. QED
  BY <1>1, DiscoveryHolds, PTL

\* recordDiscoveryProgress: what is on the pages up to a bookmark, of any query of any scan,
\* has been found or is in hand, or was passed over by a cap, a cancel or a failure: the scan
\* that continues past it misses nothing.
THEOREM BookmarksCover == Spec => []BookmarkCovers
<1>1. DiscoveryInv => BookmarkCovers
  BY DEF DiscoveryInv
<1>2. QED
  BY <1>1, DiscoveryHolds, PTL

-----------------------------------------------------------------------------
(* The results of a query by rank, and its pages.                           *)

LEMMA HitsIn ==
  ASSUME NEW q
  PROVE  Hits(q) \in SUBSET Repo /\ Hits(q) \in SUBSET Int /\ IsFiniteSet(Hits(q)) /\ Cardinality(Hits(q)) \in Nat
<1>1. Hits(q) \in SUBSET Repo /\ Repo \subseteq Int
  BY DiscoveryConstantsOK DEF DiscoveryConstantsOK, Hits
<1>2. QED
  BY <1>1, Repos

LEMMA RankIs ==
  ASSUME NEW q, NEW r \in Hits(q)
  PROVE  /\ Rank(q, r) \in 1 .. Cardinality(Hits(q))
         /\ \A t \in Hits(q) : r < t => Rank(q, t) < Rank(q, r)
<1> DEFINE Above(x) == {y \in Hits(q) : y >= x}
<1>1. \A x : Rank(q, x) = Cardinality(Above(x)) /\ Above(x) \in SUBSET Hits(q)
  BY DEF Rank
<1>2. IsFiniteSet(Hits(q)) /\ Cardinality(Hits(q)) \in Nat /\ \A x \in Hits(q) : x \in Int
  BY HitsIn
<1>3. r \in Above(r)
  BY <1>2
<1>4. \A t \in Hits(q) : r < t => Above(t) \subseteq Above(r) /\ r \notin Above(t)
  BY <1>2
<1> HIDE DEF Above
<1>5. \A x : IsFiniteSet(Above(x)) /\ Cardinality(Above(x)) \in Nat /\ Cardinality(Above(x)) <= Cardinality(Hits(q))
  BY <1>1, <1>2, FS_Subset, FS_CardinalityType
<1>6. Above(r) # {}
  BY <1>3
<1>7. Cardinality(Above(r)) # 0
  BY <1>5, <1>6, FS_EmptySet
<1>8. ASSUME NEW t \in Hits(q), r < t PROVE Cardinality(Above(t)) < Cardinality(Above(r))
  <2>1. Above(t) \in SUBSET Above(r) /\ Above(t) # Above(r)
    BY <1>3, <1>4, <1>8
  <2>2. Cardinality(Above(t)) <= Cardinality(Above(r)) /\ Cardinality(Above(t)) # Cardinality(Above(r))
    BY <1>5, <2>1, FS_Subset
  <2>3. QED
    BY <1>5, <2>2
<1>9. Rank(q, r) \in 1 .. Cardinality(Hits(q))
  BY <1>1, <1>2, <1>5, <1>7
<1>10. QED
  BY <1>1, <1>8, <1>9

LEMMA RanksDiffer ==
  ASSUME NEW q, NEW r \in Hits(q), NEW t \in Hits(q), Rank(q, r) = Rank(q, t)
  PROVE  r = t
<1>1. r \in Int /\ t \in Int
  BY HitsIn
<1>2. Rank(q, r) \in Int /\ Rank(q, t) \in Int
  BY RankIs
<1>3. r < t \/ t < r \/ r = t
  BY <1>1
<1>4. ~ Rank(q, r) < Rank(q, t) /\ ~ Rank(q, t) < Rank(q, r)
  BY <1>2
<1>5. QED
  BY <1>3, <1>4, RankIs

\* Every rank is one of a result.
LEMMA RanksMet ==
  ASSUME NEW q, NEW n \in 1 .. Cardinality(Hits(q))
  PROVE  \E r \in Hits(q) : Rank(q, r) = n
<1> DEFINE f == [r \in Hits(q) |-> Rank(q, r)]
           N == 1 .. Cardinality(Hits(q))
<1>1. f \in [Hits(q) -> N]
  BY RankIs
<1>2. \A a, b \in Hits(q) : f[a] = f[b] => a = b
  BY RanksDiffer
<1>3. IsFiniteSet(N) /\ Cardinality(N) = Cardinality(Hits(q))
  <2>1. Cardinality(Hits(q)) \in Nat
    BY HitsIn
  <2>2. 1 \in Int /\ Cardinality(Hits(q)) \in Int
    BY <2>1
  <2>3. Cardinality(N) = IF 1 > Cardinality(Hits(q)) THEN 0 ELSE Cardinality(Hits(q)) - 1 + 1
    BY <2>2, FS_Interval
  <2>4. QED
    BY <2>1, <2>2, <2>3, FS_Interval
<1> HIDE DEF f, N
<1>4. f \in Injection(Hits(q), N)
  BY <1>1, <1>2, Fun_IsInj
<1>5. f \in Surjection(Hits(q), N)
  BY <1>3, <1>4, FS_Injection
<1>6. \E r \in Hits(q) : f[r] = n
  BY <1>5 DEF Surjection, N
<1>7. QED
  BY <1>6 DEF f

\* A page before the end is full.
LEMMA PageFull ==
  ASSUME NEW q, NEW page \in Nat \ {0}, plan \in Plans,
         page * plan.batch <= Cardinality(Hits(q)), page * plan.batch <= MaxResults
  PROVE  Cardinality(OnPage(q, page)) = plan.batch
<1>1. PICK b, first, last : b = plan.batch /\ first = (page - 1) * b + 1 /\ last = page * b
  OBVIOUS
<1>2. b \in Nat \ {0} /\ MaxResults \in Nat /\ Cardinality(Hits(q)) \in Nat
  BY <1>1, PlanOK, HitsIn, DiscoveryConstantsOK DEF DiscoveryConstantsOK
<1>3. /\ first \in Nat \ {0} /\ last \in Nat /\ last - first + 1 = b
      /\ last <= Cardinality(Hits(q)) /\ last <= MaxResults
  <2>1. PICK x : x = (page - 1) * b
    OBVIOUS
  <2>2. x \in Nat /\ page * b = x + b
    BY <1>2, <2>1
  <2>3. first = x + 1 /\ last = x + b
    BY <1>1, <2>1, <2>2
  <2>4. last <= Cardinality(Hits(q)) /\ last <= MaxResults
    BY <1>1
  <2>5. QED
    BY <1>2, <2>2, <2>3, <2>4
<1> DEFINE S == OnPage(q, page)
           N == first .. last
           f == [r \in S |-> Rank(q, r)]
<1>4. S = {r \in Hits(q) : Rank(q, r) \in N}
  <2>1. \A r \in Hits(q) : Rank(q, r) \in N => Rank(q, r) <= MaxResults
    BY <1>2, <1>3
  <2>2. QED
    BY <1>1, <2>1 DEF OnPage
<1>5. f \in [S -> N] /\ S \subseteq Hits(q)
  BY <1>4
<1>6. \A x, y \in S : f[x] = f[y] => x = y
  BY <1>5, RanksDiffer
<1>7. \A n \in N : \E r \in S : f[r] = n
  <2>1. SUFFICES ASSUME NEW n \in N PROVE \E r \in S : f[r] = n
    OBVIOUS
  <2>2. n \in 1 .. Cardinality(Hits(q))
    BY <1>2, <1>3, <2>1
  <2>3. PICK r \in Hits(q) : Rank(q, r) = n
    BY <2>2, RanksMet
  <2>4. QED
    BY <1>4, <2>1, <2>3
<1>8. IsFiniteSet(N) /\ Cardinality(N) = b
  <2>1. first \in Int /\ last \in Int /\ ~ first > last
    BY <1>2, <1>3
  <2>2. IsFiniteSet(N) /\ Cardinality(N) = last - first + 1
    BY <2>1, FS_Interval
  <2>3. QED
    BY <1>3, <2>2
<1>9. IsFiniteSet(S) /\ Cardinality(S) \in Nat
  BY <1>5, HitsIn, FS_Subset, FS_CardinalityType
<1> HIDE DEF f, N, S
<1>10. f \in Injection(S, N) /\ f \in Surjection(S, N)
  BY <1>5, <1>6, <1>7, Fun_IsInj, Fun_IsSurj
<1>11. Cardinality(S) = Cardinality(N)
  BY <1>8, <1>10, FS_Injection
<1>12. QED
  BY <1>1, <1>8, <1>11 DEF S

\* A result that GitHub returns is on a page.
LEMMA PageOf ==
  ASSUME NEW q, NEW r \in Hits(q), NEW last \in Nat, plan \in Plans,
         Rank(q, r) <= last * plan.batch, Rank(q, r) <= MaxResults
  PROVE  \E page \in 1 .. last : r \in OnPage(q, page)
<1>1. PICK b, n : b = plan.batch /\ n = Rank(q, r)
  OBVIOUS
<1>2. b \in Nat \ {0} /\ n \in Nat \ {0} /\ n <= last * b
  BY <1>1, PlanOK, RankIs, HitsIn
<1>3. PICK k \in Nat : k * b < n /\ n <= (k + 1) * b
  <2>1. PICK k : k = (n - 1) \div b
    OBVIOUS
  <2>2. k \in Nat /\ n - 1 = b * k + ((n - 1) % b) /\ (n - 1) % b \in 0 .. (b - 1)
    BY <1>2, <2>1
  <2>3. PICK x, y : x = b * k /\ y = (n - 1) % b
    OBVIOUS
  <2>4. k * b = x /\ (k + 1) * b = x + b /\ x \in Int
    BY <1>2, <2>2, <2>3
  <2>5. x < n /\ n <= x + b
    BY <1>2, <2>2, <2>3, <2>4
  <2>6. QED
    BY <2>2, <2>4, <2>5
<1>4. k + 1 \in 1 .. last
  <2>1. ASSUME last <= k PROVE FALSE
    <3>1. last * b <= k * b
      BY <1>2, <2>1
    <3>2. last * b \in Int /\ k * b \in Int
      BY <1>2
    <3>3. QED
      BY <1>2, <1>3, <3>1, <3>2
  <2>2. QED
    BY <2>1
<1>5. r \in OnPage(q, k + 1)
  <2>1. ((k + 1) - 1) = k /\ k * b \in Int /\ (k + 1) * b \in Int
    BY <1>2
  <2>2. n \in (k * b + 1) .. ((k + 1) * b)
    BY <1>2, <1>3, <2>1
  <2>3. QED
    BY <1>1, <2>1, <2>2 DEF OnPage
<1>6. QED
  BY <1>4, <1>5

-----------------------------------------------------------------------------
(* The children of a query cover it, and are smaller.                       *)

LEMMA HalvesCover ==
  ASSUME NEW q, DOMAIN q = {"kind", "lang", "lo", "hi"}, q.lo \in Int, q.hi \in Int,
         Halves(q) # {}
  PROVE  /\ \A h \in Halves(q) :
              /\ DOMAIN h = DOMAIN q /\ {h.lo, h.hi} \subseteq Int
              /\ h.kind = q.kind /\ h.lang = q.lang /\ Size(h) < Size(q)
         /\ \A r \in Hits(q) : \E h \in Halves(q) : r \in Hits(h)
<1>1. PICK mid : mid = q.lo + (q.hi - q.lo) \div 2
  OBVIOUS
<1>2. PICK left, right :
        /\ Halves(q) = {left, right}
        /\ \/ left = [q EXCEPT !.hi = mid - 1] /\ right = [q EXCEPT !.lo = mid]
           \/ left = [q EXCEPT !.hi = mid] /\ right = [q EXCEPT !.lo = mid + 1]
        /\ q.hi - q.lo >= MinWidth
  <2>1. ~ q.hi - q.lo < MinWidth
    BY DEF Halves
  <2>2. MinWidth \in Nat
    BY DiscoveryConstantsOK DEF DiscoveryConstantsOK
  <2>3. q.hi - q.lo >= MinWidth
    BY <2>1, <2>2
  <2>4. CASE q.kind = "repositories"
    BY <1>1, <2>1, <2>3, <2>4 DEF Halves
  <2>5. CASE q.kind # "repositories"
    BY <1>1, <2>1, <2>3, <2>5 DEF Halves
  <2>6. QED
    BY <2>4, <2>5
<1>3. mid \in Int /\ q.lo < mid /\ mid < q.hi
  <2>1. MinWidth \in Nat \ {0, 1}
    BY DiscoveryConstantsOK DEF DiscoveryConstantsOK
  <2>2. PICK half : half = (q.hi - q.lo) \div 2
    OBVIOUS
  <2>3. q.hi - q.lo \in Int /\ q.hi - q.lo >= 2
    BY <1>2, <2>1
  <2>4. half \in Int /\ half >= 1 /\ 2 * half <= q.hi - q.lo
    BY <2>2, <2>3
  <2>5. mid = q.lo + half /\ mid \in Int
    BY <1>1, <2>2, <2>4
  <2>6. QED
    BY <2>3, <2>4, <2>5
<1>4. /\ DOMAIN left = DOMAIN q /\ DOMAIN right = DOMAIN q
      /\ left.kind = q.kind /\ right.kind = q.kind /\ left.lang = q.lang /\ right.lang = q.lang
      /\ left.lo = q.lo /\ right.hi = q.hi
      /\ (left.hi = mid - 1 /\ right.lo = mid) \/ (left.hi = mid /\ right.lo = mid + 1)
  <2>1. CASE left = [q EXCEPT !.hi = mid - 1] /\ right = [q EXCEPT !.lo = mid]
    BY <2>1
  <2>2. CASE left = [q EXCEPT !.hi = mid] /\ right = [q EXCEPT !.lo = mid + 1]
    BY <2>2
  <2>3. QED
    BY <1>2, <2>1, <2>2
<1>5. /\ left.hi \in Int /\ right.lo \in Int /\ left.lo \in Int /\ right.hi \in Int
      /\ left.hi - left.lo < q.hi - q.lo /\ right.hi - right.lo < q.hi - q.lo
      /\ \A r \in Int : q.lo <= r /\ r <= q.hi => r <= left.hi \/ right.lo <= r
  BY <1>3, <1>4
<1>6. ASSUME NEW h, h \in {left, right} PROVE Size(h) < Size(q)
  <2>1. h.kind = q.kind /\ h.lang = q.lang /\ h.lo \in Int /\ h.hi \in Int
        /\ h.hi - h.lo < q.hi - q.lo
    BY <1>4, <1>5, <1>6
  <2>2. PICK x \in {0, 1} : x = IF q.kind = "code" /\ q.lang = "any" THEN 1 ELSE 0
    OBVIOUS
  <2>3. Size(h) = 2 * (h.hi - h.lo) + x /\ Size(q) = 2 * (q.hi - q.lo) + x
    BY <2>1, <2>2 DEF Size
  <2>4. QED
    BY <2>1, <2>2, <2>3
<1>7. ASSUME NEW r \in Hits(q) PROVE r \in Hits(left) \/ r \in Hits(right)
  <2>1. r \in Repo /\ r \in Int /\ r \in q.lo .. q.hi /\ (q.lang = "any" \/ Language[r] = q.lang)
    BY DiscoveryConstantsOK DEF DiscoveryConstantsOK, Hits
  <2>2. r \in left.lo .. left.hi \/ r \in right.lo .. right.hi
    BY <1>4, <1>5, <2>1
  <2>3. QED
    BY <1>4, <2>1, <2>2 DEF Hits
<1>8. QED
  BY <1>2, <1>4, <1>5, <1>6, <1>7

LEMMA LanguagesCover ==
  ASSUME NEW q, DOMAIN q = {"kind", "lang", "lo", "hi"}, q.lo \in Int, q.hi \in Int,
         q.kind = "code", q.lang = "any"
  PROVE  /\ \A h \in ByLanguage(q) :
              /\ DOMAIN h = DOMAIN q /\ {h.lo, h.hi} \subseteq Int
              /\ h.kind = q.kind /\ Size(h) < Size(q)
         /\ \A r \in Hits(q) : \E h \in ByLanguage(q) : r \in Hits(h)
<1>1. ASSUME NEW l \in SplitLanguages \cup {"other"}, NEW h, h = [q EXCEPT !.lang = l]
      PROVE  /\ DOMAIN h = DOMAIN q /\ h.lo = q.lo /\ h.hi = q.hi
             /\ h.kind = q.kind /\ h.lang = l /\ Size(h) < Size(q)
  <2>1. l # "any"
    BY DiscoveryConstantsOK DEF DiscoveryConstantsOK
  <2>2. DOMAIN h = DOMAIN q /\ h.lo = q.lo /\ h.hi = q.hi /\ h.kind = q.kind /\ h.lang = l
    BY <1>1
  <2>3. Size(h) = 2 * (q.hi - q.lo) + 0 /\ Size(q) = 2 * (q.hi - q.lo) + 1
    BY <2>1, <2>2 DEF Size
  <2>4. QED
    BY <2>2, <2>3
<1>2. ASSUME NEW r \in Hits(q) PROVE \E h \in ByLanguage(q) : r \in Hits(h)
  <2>1. r \in Repo /\ r \in q.lo .. q.hi /\ Language[r] \in SplitLanguages \cup {"other"}
    BY DiscoveryConstantsOK DEF DiscoveryConstantsOK, Hits
  <2>2. PICK h : h = [q EXCEPT !.lang = Language[r]]
    OBVIOUS
  <2>3. h \in ByLanguage(q)
    BY <2>1, <2>2 DEF ByLanguage
  <2>4. h.lo = q.lo /\ h.hi = q.hi /\ h.lang = Language[r]
    BY <1>1, <2>1, <2>2
  <2>5. QED
    BY <2>1, <2>3, <2>4 DEF Hits
<1>3. ASSUME NEW h \in ByLanguage(q)
      PROVE  DOMAIN h = DOMAIN q /\ {h.lo, h.hi} \subseteq Int /\ h.kind = q.kind /\ Size(h) < Size(q)
  <2>1. PICK l \in SplitLanguages \cup {"other"} : h = [q EXCEPT !.lang = l]
    BY DEF ByLanguage
  <2>2. QED
    BY <1>1, <2>1
<1>4. QED
  BY <1>2, <1>3

\* What the children of a job are.
LEMMA KidsAre ==
  ASSUME NEW j, JobTyped(j), QuerySound(j), NEW k \in Children(j)
  PROVE  /\ DOMAIN k = DOMAIN j /\ k.scan = j.scan /\ k.query.kind = j.query.kind
         /\ Size(k.query) < Size(j.query) /\ QuerySound(k)
<1>1. /\ DOMAIN j = {"scan", "query", "depth", "split", "page"} /\ j.split \in BOOLEAN
      /\ DOMAIN j.query = {"kind", "lang", "lo", "hi"} /\ j.query.lo \in Int /\ j.query.hi \in Int
      /\ j.query.kind = "repositories" \/ (j.query.kind = "code" /\ (j.split \/ j.query.lang = "any"))
  BY DEF JobTyped, QuerySound
<1>2. CASE \E q \in ByLanguage(j.query) : k = [j EXCEPT !.query = q, !.split = TRUE] /\ j.query.kind = "code" /\ ~j.split
  <2>1. PICK q \in ByLanguage(j.query) : k = [j EXCEPT !.query = q, !.split = TRUE]
    BY <1>2
  <2>2. DOMAIN k = DOMAIN j /\ k.scan = j.scan /\ k.query = q /\ k.split = TRUE
    BY <1>1, <2>1
  <2>3. /\ DOMAIN q = DOMAIN j.query /\ {q.lo, q.hi} \subseteq Int
        /\ q.kind = j.query.kind /\ Size(q) < Size(j.query)
    BY <1>1, <1>2, <2>1, LanguagesCover
  <2>4. QED
    BY <1>1, <2>2, <2>3 DEF QuerySound
<1>3. CASE \E q \in Halves(j.query) : k = [j EXCEPT !.query = q, !.depth = @ + 1]
  <2>1. PICK q \in Halves(j.query) : k = [j EXCEPT !.query = q, !.depth = @ + 1]
    BY <1>3
  <2>2. DOMAIN k = DOMAIN j /\ k.scan = j.scan /\ k.query = q /\ k.split = j.split
    BY <1>1, <2>1
  <2>3. /\ DOMAIN q = DOMAIN j.query /\ {q.lo, q.hi} \subseteq Int
        /\ q.kind = j.query.kind /\ q.lang = j.query.lang /\ Size(q) < Size(j.query)
    BY <1>1, <2>1, HalvesCover
  <2>4. QED
    BY <1>1, <2>2, <2>3 DEF QuerySound
<1>4. QED
  BY <1>2, <1>3 DEF Children

LEMMA KidsCover ==
  ASSUME NEW j, JobTyped(j), QuerySound(j), Children(j) # {}, NEW r \in Hits(j.query)
  PROVE  \E k \in Children(j) : r \in Hits(k.query)
<1>1. /\ DOMAIN j = {"scan", "query", "depth", "split", "page"}
      /\ DOMAIN j.query = {"kind", "lang", "lo", "hi"} /\ j.query.lo \in Int /\ j.query.hi \in Int
      /\ j.query.kind = "repositories" \/ (j.query.kind = "code" /\ (j.split \/ j.query.lang = "any"))
  BY DEF JobTyped, QuerySound
<1>2. CASE j.query.kind = "code" /\ ~j.split
  <2>1. PICK q \in ByLanguage(j.query) : r \in Hits(q)
    BY <1>1, <1>2, LanguagesCover
  <2>2. PICK k : k = [j EXCEPT !.query = q, !.split = TRUE]
    OBVIOUS
  <2>3. k \in Children(j)
    BY <1>2, <2>2 DEF Children
  <2>4. k.query = q
    BY <1>1, <2>2
  <2>5. QED
    BY <2>1, <2>3, <2>4
<1>3. CASE ~(j.query.kind = "code" /\ ~j.split)
  <2>1. Children(j) = {[j EXCEPT !.query = q, !.depth = @ + 1] : q \in Halves(j.query)}
    BY <1>3 DEF Children
  <2>2. Halves(j.query) # {}
    BY <2>1
  <2>3. PICK q \in Halves(j.query) : r \in Hits(q)
    BY <1>1, <2>2, HalvesCover
  <2>4. PICK k : k = [j EXCEPT !.query = q, !.depth = @ + 1]
    OBVIOUS
  <2>5. k \in Children(j) /\ k.query = q
    BY <1>1, <2>1, <2>4
  <2>6. QED
    BY <2>3, <2>5
<1>4. QED
  BY <1>2, <1>3

-----------------------------------------------------------------------------
(* A result on no page that the scan asks for is out of reach.              *)

LEMMA LeastIs ==
  ASSUME NEW S \in SUBSET Nat, S # {}
  PROVE  \E m \in S : \A n \in S : m <= n
<1>1. \E m \in S : \A n \in S : ~ n < m
  <2>1. PICK m \in S : \A n \in S : ~ <<n, m>> \in OpToRel(<, Nat)
    BY NatLessThanWellFounded, WFMin
  <2>2. \A n \in S : ~ n < m
    BY <2>1 DEF OpToRel
  <2>3. QED
    BY <2>2
<1>2. \A m, n \in S : ~ n < m => m <= n
  OBVIOUS
<1>3. QED
  BY <1>1, <1>2

LEMMA GreatestIs ==
  ASSUME NEW S \in SUBSET Nat, S # {}, NEW bound \in Nat, \A n \in S : n <= bound
  PROVE  \E m \in S : \A n \in S : n <= m
<1> DEFINE rest == {bound - n : n \in S}
<1>1. rest \in SUBSET Nat /\ rest # {}
  <2>1. \A n \in S : bound - n \in Nat
    OBVIOUS
  <2>2. QED
    BY <2>1, Zenon
<1> HIDE DEF rest
<1>2. PICK x \in rest : \A y \in rest : x <= y
  BY <1>1, LeastIs
<1> USE DEF rest
<1>3. PICK m \in S : x = bound - m
  BY <1>2
<1>4. ASSUME NEW n \in S PROVE n <= m
  <2>1. bound - m <= bound - n
    BY <1>2, <1>3
  <2>2. QED
    BY <2>1
<1>5. QED
  BY <1>4

\* A query has a last page that is asked for.
LEMMA PagesEnd ==
  ASSUME plan \in Plans, NEW page, Asked(page)
  PROVE  page \in Nat \ {0} /\ page <= MaxResults + 2
<1>1. PICK b : b = plan.batch
  OBVIOUS
<1>2. b \in Nat \ {0} /\ MaxResults \in Nat /\ page \in Nat \ {0}
  BY <1>1, PlanOK, DiscoveryConstantsOK DEF DiscoveryConstantsOK, Asked
<1>3. CASE page = 1
  BY <1>2, <1>3
<1>4. CASE page # 1
  <2>1. PICK x \in Nat : x = page - 2
    BY <1>2, <1>4
  <2>2. ((page - 1) - 1) * b < MaxResults
    BY <1>1, <1>4 DEF Asked, CanBeHad
  <2>3. (page - 1) - 1 = x
    BY <1>2, <2>1
  <2>4. x * b < MaxResults /\ x <= x * b /\ x * b \in Nat
    BY <1>2, <2>2, <2>3
  <2>5. QED
    BY <1>2, <2>1, <2>4
<1>5. QED
  BY <1>3, <1>4

LEMMA SizeIs ==
  ASSUME NEW j, QuerySound(j), NEW r \in Hits(j.query)
  PROVE  Size(j.query) \in Nat
<1>1. j.query.lo \in Int /\ j.query.hi \in Int /\ r \in j.query.lo .. j.query.hi
  BY DEF QuerySound, Hits
<1>2. j.query.hi - j.query.lo \in Nat
  BY <1>1
<1>3. QED
  BY <1>2 DEF Size

\* The last page of a query that is not split further.
LEMMA LastPage ==
  ASSUME plan \in Plans, NEW s, NEW q, NEW r \in Hits(q),
         \A j \in added : Asked(j.page),
         \A j \in added : j.scan = s /\ j.query = q => Followed(j),
         \A j \in added : j.scan = s /\ j.query = q => \A page \in 1 .. j.page : r \notin OnPage(q, page),
         \E j \in added : j.scan = s /\ j.query = q,
         ~IsSplit(s, q)
  PROVE  Rank(q, r) > MaxResults
<1> DEFINE pages == {j.page : j \in {i \in added : i.scan = s /\ i.query = q}}
<1>1. pages \in SUBSET Nat /\ pages # {} /\ \A page \in pages : page <= MaxResults + 2
  BY PagesEnd
<1>2. MaxResults \in Nat /\ MaxResults + 2 \in Nat
  BY DiscoveryConstantsOK DEF DiscoveryConstantsOK
<1> HIDE DEF pages
<1>3. PICK last \in pages : \A page \in pages : page <= last
  BY <1>1, <1>2, GreatestIs
<1> USE DEF pages
<1>4. PICK j \in added : j.scan = s /\ j.query = q /\ j.page = last
  BY <1>3
<1>5. last \in Nat \ {0}
  BY <1>4, PagesEnd
<1>6. ~MoreAfter(j)
  <2>1. Children(j) = {}
    BY <1>4 DEF IsSplit
  <2>2. ASSUME NEW i \in added, Id(i) = <<s, q, last + 1>> PROVE FALSE
    <3>1. i.scan = s /\ i.query = q /\ i.page = last + 1
      BY <2>2 DEF Id
    <3>2. last + 1 \in pages
      BY <3>1
    <3>3. QED
      BY <1>3, <1>5, <3>2
  <2>3. QED
    BY <1>4, <2>1, <2>2 DEF Followed
<1>7. PICK b, n, most, rank : b = plan.batch /\ n = last * b /\ most = Cardinality(Hits(q)) /\ rank = Rank(q, r)
  OBVIOUS
<1>8. n \in Nat /\ most \in Nat /\ rank \in Nat /\ rank <= most
  <2>1. b \in Nat \ {0} /\ most \in Nat /\ rank \in 1 .. most
    BY <1>7, PlanOK, HitsIn, RankIs
  <2>2. QED
    BY <1>5, <1>7, <2>1
<1>9. SUFFICES ASSUME rank <= MaxResults PROVE FALSE
  BY <1>2, <1>7, <1>8
<1>10. CASE rank <= n
  <2>1. \E page \in 1 .. last : r \in OnPage(q, page)
    BY <1>5, <1>7, <1>9, <1>10, PageOf
  <2>2. QED
    BY <1>4, <2>1
<1>11. CASE rank > n
  <2>1. n < most /\ n < MaxResults
    BY <1>2, <1>8, <1>9, <1>11
  <2>2. n <= most /\ n <= MaxResults
    BY <1>2, <1>8, <2>1
  <2>3. Cardinality(OnPage(q, last)) = b
    BY <1>5, <1>7, <2>2, PageFull
  <2>4. Cardinality(Hits(q)) > n
    BY <1>7, <1>8, <2>1
  <2>5. MoreAfter(j)
    BY <1>4, <1>7, <2>1, <2>3, <2>4 DEF MoreAfter
  <2>6. QED
    BY <1>6, <2>5
<1>12. QED
  BY <1>8, <1>10, <1>11

LEMMA NoneUnseen ==
  ASSUME plan \in Plans, NEW s, NEW kind, NEW r, \A j \in added : Asked(j.page),
         \A j \in added : j.scan = s => QuerySound(j) /\ Followed(j),
         \A j \in added : j.scan = s /\ j.query.kind = kind =>
           \A page \in 1 .. j.page : r \notin OnPage(j.query, page),
         r \notin OutOfReach(s)
  PROVE  \A j \in added : j.scan = s /\ j.query.kind = kind => r \notin Hits(j.query)
<1> DEFINE T == {j \in added : j.scan = s /\ j.query.kind = kind /\ r \in Hits(j.query)}
           sizes == {Size(j.query) : j \in T}
<1>1. SUFFICES ASSUME T # {} PROVE FALSE
  OBVIOUS
<1>2. sizes \in SUBSET Nat /\ sizes # {}
  BY <1>1, SizeIs
<1> HIDE DEF sizes
<1>3. PICK least \in sizes : \A size \in sizes : least <= size
  BY <1>2, LeastIs
<1> USE DEF sizes
<1>4. PICK j \in T : least = Size(j.query)
  BY <1>3
<1>5. PICK q : q = j.query
  OBVIOUS
<1>6. CASE IsSplit(s, q)
  <2>1. PICK i \in added : i.scan = s /\ i.query = q /\ Children(i) # {}
    BY <1>6 DEF IsSplit
  <2>2. HandedDown(s, q)
    BY <2>1 DEF Followed
  <2>3. PICK k \in added : k.scan = s /\ k.query.kind = q.kind /\ r \in Hits(k.query) /\ Size(k.query) < Size(q)
    BY <1>4, <1>5, <2>2 DEF HandedDown
  <2>4. Size(k.query) \in sizes /\ Size(k.query) \in Nat /\ least \in Nat
    BY <1>2, <1>3, <1>4, <1>5, <2>3
  <2>5. least <= Size(k.query) /\ Size(k.query) < least
    BY <1>3, <1>4, <1>5, <2>3, <2>4
  <2> HIDE DEF sizes, T
  <2>6. QED
    BY <2>4, <2>5
<1>7. CASE ~IsSplit(s, q)
  <2>1. r \in Hits(q) /\ r \in Repo
    BY <1>4, <1>5 DEF Hits
  <2>2. \A i \in added : i.scan = s /\ i.query = q => \A page \in 1 .. i.page : r \notin OnPage(q, page)
    BY <1>4, <1>5
  <2>3. Rank(q, r) > MaxResults
    BY <1>4, <1>5, <1>7, <2>1, <2>2, LastPage
  <2>4. r \in OutOfReach(s)
    BY <1>4, <1>5, <1>7, <2>1, <2>3 DEF OutOfReach
  <2>5. QED
    BY <2>4
<1>8. QED
  BY <1>6, <1>7

-----------------------------------------------------------------------------
(* What every step does to the scans: they get no emptier and no cleaner.   *)

Onward ==
  /\ Grows /\ added \subseteq added'
  /\ \A s \in Scan : (Clean(s)' => Clean(s)) /\ scan[s].count <= scan'[s].count

LEMMA CleanStays ==
  ASSUME AllSound, AllSound', plan' = plan, NEW s \in Scan, scan[s].claims \subseteq scan'[s].claims,
         scan[s].status = "cancelled" => scan'[s].status = "cancelled",
         scan[s].hurt => scan'[s].hurt
  PROVE  Clean(s)' => Clean(s)
<1>1. /\ scan[s].claims \in SUBSET Repo /\ scan'[s].claims \in SUBSET Repo
      /\ plan.maxRepos \in Nat /\ plan'.maxRepos = plan.maxRepos
  BY PlanOK DEF AllSound, HistorySound, ScansSound, ScanTyped
<1>2. /\ Cardinality(scan[s].claims) \in Nat /\ Cardinality(scan'[s].claims) \in Nat
      /\ Cardinality(scan[s].claims) <= Cardinality(scan'[s].claims)
  BY <1>1, Repos, Fewer
<1>3. QED
  BY <1>1, <1>2 DEF Clean

LEMMA FullIsUnclean ==
  ASSUME AllSound, NEW s \in Scan, NEW n \in Nat, n >= plan.maxRepos, scan[s].count >= n
  PROVE  ~Clean(s)
<1>1. /\ plan.maxRepos \in Nat /\ scan[s].claims \in SUBSET Repo
      /\ scan[s].count \in 0 .. Cardinality(scan[s].claims)
  BY PlanOK DEF AllSound, HistorySound, ScansSound, ScanTyped
<1>2. Cardinality(scan[s].claims) \in Nat
  BY <1>1, Repos
<1>3. QED
  BY <1>1, <1>2 DEF Clean

LEMMA ScanMoves ==
  ASSUME AllSound, AllSound', Grows, added \subseteq added', NEW s \in Scan,
         \A t \in Scan : t # s => scan'[t] = scan[t],
         scan[s].claims \subseteq scan'[s].claims,
         scan[s].status = "cancelled" => scan'[s].status = "cancelled",
         scan[s].hurt => scan'[s].hurt, scan[s].count <= scan'[s].count
  PROVE  Onward
<1>1. plan' = plan
  BY DEF Grows
<1>2. ASSUME NEW t \in Scan
      PROVE  (Clean(t)' => Clean(t)) /\ scan[t].count <= scan'[t].count
  <2>1. CASE t = s
    BY <1>1, <2>1, CleanStays
  <2>2. CASE t # s
    <3>1. scan'[t] = scan[t] /\ scan[t].count \in Nat
      BY <2>2, CountIs DEF AllSound, ScansSound
    <3>2. scan[t].count <= scan'[t].count
      BY <3>1
    <3>3. QED
      BY <1>1, <3>1, <3>2, CleanStays
  <2>3. QED
    BY <2>1, <2>2
<1>3. QED
  BY <1>2 DEF Onward

LEMMA ScansStay ==
  ASSUME AllSound, AllSound', Grows, added \subseteq added', scan' = scan
  PROVE  Onward
<1>1. plan' = plan
  BY DEF Grows
<1>2. ASSUME NEW t \in Scan
      PROVE  (Clean(t)' => Clean(t)) /\ scan[t].count <= scan'[t].count
  <2>1. scan'[t] = scan[t] /\ scan[t].count \in Nat
    BY CountIs DEF AllSound, ScansSound
  <2>2. scan[t].count <= scan'[t].count
    BY <2>1
  <2>3. QED
    BY <1>1, <2>1, <2>2, CleanStays
<1>3. QED
  BY <1>2 DEF Onward

-----------------------------------------------------------------------------
(* What has been asked for stays asked for.                                 *)

LEMMA HandedStays ==
  ASSUME added \subseteq added', NEW s, NEW q, HandedDown(s, q)
  PROVE  HandedDown(s, q)'
BY DEF HandedDown

LEMMA FollowedStays ==
  ASSUME Onward, NEW j, Followed(j)
  PROVE  Followed(j)'
<1>1. MoreAfter(j)' <=> MoreAfter(j)
  BY DEF Onward, Grows, MoreAfter, OnPage
<1>2. added \subseteq added'
  BY DEF Onward
<1>3. CASE Children(j) # {}
  <2>1. HandedDown(j.scan, j.query)
    BY <1>3 DEF Followed
  <2>2. HandedDown(j.scan, j.query)'
    BY <1>2, <2>1, HandedStays
  <2>3. QED
    BY <1>3, <2>2 DEF Followed
<1>4. CASE Children(j) = {}
  BY <1>1, <1>2, <1>4 DEF Followed
<1>5. QED
  BY <1>3, <1>4

Settled(j) == OnPage(j.query, j.page) \subseteq Covered(j.query) /\ Followed(j)

LEMMA SettledStays ==
  ASSUME Onward, NEW j, Settled(j)
  PROVE  Settled(j)'
<1>1. Followed(j)'
  BY FollowedStays DEF Settled
<1>2. OnPage(j.query, j.page)' = OnPage(j.query, j.page)
  BY DEF Onward, Grows, OnPage
<1>3. Covered(j.query) \subseteq Covered(j.query)'
  BY DEF Onward, Grows, Covered
<1>4. QED
  BY <1>1, <1>2, <1>3 DEF Settled

LEMMA JobsAfter ==
  ASSUME AllSound, Onward, JobsFollowed,
         \A j \in added' \ added : QuerySound(j) /\ j \in ready',
         \A j \in added : Pending(j) => Pending(j)' \/ ~Clean(j.scan)' \/ Settled(j)'
  PROVE  JobsFollowed'
<1>1. ASSUME NEW j \in added' PROVE QuerySound(j) /\ (Pending(j)' \/ ~Clean(j.scan)' \/ Settled(j)')
  <2>1. CASE j \notin added
    BY <2>1 DEF Pending
  <2>2. CASE j \in added
    <3>1. QuerySound(j) /\ j.scan \in Scan
      BY <2>2 DEF JobsFollowed, AllSound, QueueSound, JobTyped
    <3>2. CASE Pending(j)
      BY <2>2, <3>1, <3>2
    <3>3. CASE ~Clean(j.scan)
      BY <3>1, <3>3 DEF Onward
    <3>4. CASE Settled(j)
      BY <3>1, <3>4, SettledStays
    <3>5. QED
      BY <2>2, <3>1, <3>2, <3>3, <3>4 DEF JobsFollowed, Settled
  <2>3. QED
    BY <2>1, <2>2
<1>2. QED
  BY <1>1 DEF JobsFollowed, Settled

LEMMA RootsStay ==
  ASSUME Onward, RootsAsked, \A s \in Scan : scan'[s].status # "new" => scan[s].status # "new"
  PROVE  RootsAsked'
BY DEF Onward, Grows, RootsAsked

\* What a job knows.
KnowsOK(work) == work.at # "idle" =>
  LET j == work.job IN
  /\ work.before + work.took <= scan[j.scan].count
  /\ work.at # "answer" => /\ work.split = (Children(j) # {})
                           /\ Children(j) # {} => HandedDown(j.scan, j.query)

LEMMA CountAfter ==
  ASSUME AllSound', NEW s \in Scan
  PROVE  scan'[s].count \in Nat
<1>1. scan'[s].claims \in SUBSET Repo /\ scan'[s].count \in 0 .. Cardinality(scan'[s].claims)
  BY DEF AllSound, ScansSound, ScanTyped
<1>2. Cardinality(scan'[s].claims) \in Nat
  BY <1>1, Repos
<1>3. QED
  BY <1>1, <1>2

LEMMA KnowsStays ==
  ASSUME AllSound, AllSound', Onward, NEW u \in Worker, KnowsOK(job[u]), job'[u] = job[u]
  PROVE  KnowsOK(job[u])'
<1>1. CASE job[u].at = "idle"
  BY <1>1 DEF KnowsOK
<1>2. CASE job[u].at # "idle"
  <2>1. PICK j : j = job[u].job
    OBVIOUS
  <2>2. j.scan \in Scan /\ job[u].before \in Nat /\ job[u].took \in Nat
    BY <1>2, <2>1, WorkIs DEF JobTyped
  <2>3. scan[j.scan].count \in Nat /\ scan'[j.scan].count \in Nat /\ scan[j.scan].count <= scan'[j.scan].count
    BY <2>2, CountIs, CountAfter DEF AllSound, ScansSound, Onward
  <2>4. job[u].before + job[u].took <= scan'[j.scan].count
    BY <1>2, <2>1, <2>2, <2>3 DEF KnowsOK
  <2>5. HandedDown(j.scan, j.query) => HandedDown(j.scan, j.query)'
    BY HandedStays DEF Onward
  <2>6. QED
    BY <1>2, <2>1, <2>4, <2>5 DEF KnowsOK
<1>3. QED
  BY <1>1, <1>2

LEMMA KnowsStep ==
  ASSUME AllSound, AllSound', Onward, SplitsHanded, NEW w \in Worker, NEW work,
         StepsTo(w, work), KnowsOK(work)'
  PROVE  SplitsHanded'
<1>1. ASSUME NEW u \in Worker PROVE KnowsOK(job[u])'
  <2>1. CASE u = w
    BY <2>1 DEF StepsTo
  <2>2. CASE u # w
    BY <2>2, KnowsStays DEF StepsTo, SplitsHanded, KnowsOK
  <2>3. QED
    BY <2>1, <2>2
<1>2. QED
  BY <1>1 DEF SplitsHanded, KnowsOK

LEMMA KnowsKept ==
  ASSUME AllSound, AllSound', Onward, SplitsHanded, job' = job
  PROVE  SplitsHanded'
<1>1. ASSUME NEW u \in Worker PROVE KnowsOK(job[u])'
  BY KnowsStays DEF SplitsHanded, KnowsOK
<1>2. QED
  BY <1>1 DEF SplitsHanded, KnowsOK

-----------------------------------------------------------------------------
(* The steps, for what is asked for.                                        *)

LEMMA Enqueued ==
  ASSUME NEW js, Enqueue(js)
  PROVE  /\ added \subseteq added' /\ ready \subseteq ready'
         /\ \A j \in js : \E i \in added' : Id(i) = Id(j)
         /\ \A j \in added' \ added : j \in js /\ j \in ready'
BY DEF Enqueue, New

LEMMA PendingStays ==
  ASSUME NEW j, Pending(j), ready \subseteq ready',
         \A w \in Worker : job[w].at # "idle" => job'[w].at # "idle" /\ job'[w].job = job[w].job
  PROVE  Pending(j)'
BY DEF Pending

LEMMA RootsQueries ==
  ASSUME plan \in Plans, NEW s \in Scan, NEW j \in Roots(s)
  PROVE  QuerySound(j)
<1>1. PICK q \in plan.root[s] : j.query = q /\ j.split = FALSE
  BY DEF Roots
<1>2. /\ DOMAIN q = {"kind", "lang", "lo", "hi"} /\ {q.lo, q.hi} \subseteq Int
      /\ q.kind = "repositories" \/ (q.kind = "code" /\ q.lang = "any")
  BY <1>1, DiscoveryConstantsOK DEF DiscoveryConstantsOK
<1>3. QED
  BY <1>1, <1>2 DEF QuerySound

LEMMA RootsAfter ==
  ASSUME plan' = plan, NEW s, Enqueue(Roots(s)), NEW q \in plan'.root[s]
  PROVE  \E j \in added' : j.scan = s /\ j.query = q
<1>1. PICK j \in Roots(s) : j.scan = s /\ j.query = q
  <2>1. PICK page : page = IF q \in DOMAIN scan[s].pages THEN scan[s].pages[q] + 1 ELSE ResumePageFor(s, q)
    OBVIOUS
  <2>2. [scan |-> s, query |-> q, depth |-> 0, split |-> FALSE, page |-> page] \in Roots(s)
    BY <2>1 DEF Roots
  <2>3. QED
    BY <2>2
<1>2. PICK i \in added' : Id(i) = Id(j)
  BY <1>1, Enqueued
<1>3. QED
  BY <1>1, <1>2 DEF Id

LEMMA StartPaging ==
  ASSUME AllSound, AllSound', Grows, PagingInv, NEW s \in Scan, Start(s) \/ Restart(s)
  PROVE  PagingInv' /\ Onward
<1>1. /\ Enqueue(Roots(s)) /\ UNCHANGED <<plan, known, credit, cursor, job, cut, raced>>
      /\ \/ scan' = [scan EXCEPT ![s].status = "running"] /\ scan[s].status = "new"
         \/ scan' = scan
  BY DEF Start, Restart
<1>2. /\ added \subseteq added' /\ ready \subseteq ready'
      /\ \A j \in added' \ added : j \in Roots(s) /\ j \in ready'
  BY <1>1, Enqueued
<1>3. plan \in Plans /\ \A t \in Scan : ScanTyped(t) /\ DOMAIN scan = Scan
  BY DEF AllSound, HistorySound, ScansSound
<1>4. Onward
  <2>1. CASE scan' = scan
    BY <1>2, <2>1, ScansStay
  <2>2. CASE scan' = [scan EXCEPT ![s].status = "running"] /\ scan[s].status = "new"
    <3>1. \A t \in Scan : t # s => scan'[t] = scan[t]
      BY <1>3, <2>2
    <3>2. scan'[s].claims = scan[s].claims /\ scan'[s].hurt = scan[s].hurt /\ scan'[s].count = scan[s].count
      BY <1>3, <2>2 DEF ScanTyped
    <3>3. scan[s].count <= scan'[s].count
      BY <1>3, <3>2, CountIs
    <3>4. QED
      BY <1>2, <2>2, <3>1, <3>2, <3>3, ScanMoves
  <2>3. QED
    BY <1>1, <2>1, <2>2
<1>5. JobsFollowed'
  <2>1. \A j \in added : Pending(j) => Pending(j)'
    BY <1>1, <1>2, PendingStays
  <2>2. \A j \in added' \ added : QuerySound(j) /\ j \in ready'
    BY <1>2, <1>3, RootsQueries
  <2>3. QED
    BY <1>4, <2>1, <2>2, JobsAfter DEF PagingInv
<1>6. RootsAsked'
  <2>1. SUFFICES ASSUME NEW t \in Scan, scan'[t].status # "new", NEW q \in plan'.root[t]
                 PROVE  \E j \in added' : j.scan = t /\ j.query = q
    BY DEF RootsAsked
  <2>2. CASE t = s
    BY <1>1, <2>1, <2>2, RootsAfter
  <2>3. CASE t # s
    <3>1. scan[t].status # "new"
      BY <1>1, <1>3, <2>1, <2>3
    <3>2. QED
      BY <1>1, <1>2, <2>1, <3>1 DEF PagingInv, RootsAsked
  <2>4. QED
    BY <2>2, <2>3
<1>7. SplitsHanded'
  BY <1>1, <1>4, KnowsKept DEF PagingInv
<1>8. QED
  BY <1>4, <1>5, <1>6, <1>7 DEF PagingInv

LEMMA CancelPaging ==
  ASSUME AllSound, AllSound', Grows, PagingInv, NEW s \in Scan, Cancel(s) \/ Analyse(s)
  PROVE  PagingInv' /\ Onward
<1>1. /\ UNCHANGED <<plan, added, ready, job>>
      /\ \/ scan' = [scan EXCEPT ![s].status = "cancelled"] /\ scan[s].status = "running"
         \/ \E r \in scan[s].handed : scan' = [scan EXCEPT ![s].handed = @ \ {r}]
  BY DEF Cancel, Analyse
<1>2. \A t \in Scan : ScanTyped(t) /\ DOMAIN scan = Scan
  BY DEF AllSound, ScansSound
<1>3. /\ \A t \in Scan : t # s => scan'[t] = scan[t]
      /\ scan'[s].claims = scan[s].claims /\ scan'[s].hurt = scan[s].hurt /\ scan'[s].count = scan[s].count
      /\ scan[s].status = "cancelled" => scan'[s].status = "cancelled"
      /\ scan'[s].status # "new" => scan[s].status # "new"
  <2>1. CASE scan' = [scan EXCEPT ![s].status = "cancelled"] /\ scan[s].status = "running"
    BY <1>2, <2>1 DEF ScanTyped
  <2>2. ASSUME NEW r \in scan[s].handed, scan' = [scan EXCEPT ![s].handed = @ \ {r}]
        PROVE  /\ \A t \in Scan : t # s => scan'[t] = scan[t]
               /\ scan'[s].claims = scan[s].claims /\ scan'[s].hurt = scan[s].hurt
               /\ scan'[s].count = scan[s].count /\ scan'[s].status = scan[s].status
    BY <1>2, <2>2 DEF ScanTyped
  <2>3. QED
    BY <1>1, <2>1, <2>2
<1>4. Onward
  <2>1. scan[s].count <= scan'[s].count
    BY <1>2, <1>3, CountIs
  <2>2. QED
    BY <1>1, <1>3, <2>1, ScanMoves
<1>5. \A j \in added : Pending(j) => Pending(j)'
  BY <1>1, PendingStays
<1>6. JobsFollowed' /\ SplitsHanded'
  BY <1>1, <1>4, <1>5, JobsAfter, KnowsKept DEF PagingInv
<1>7. \A t \in Scan : scan'[t].status # "new" => scan[t].status # "new"
  BY <1>3
<1>8. RootsAsked'
  BY <1>4, <1>7, RootsStay DEF PagingInv
<1>9. QED
  BY <1>4, <1>6, <1>8 DEF PagingInv

\* A page past the last has no results, and nothing after it.
LEMMA PastIsEmpty ==
  ASSUME plan \in Plans, NEW q, NEW page \in Nat \ {0}, ~CanBeHad(page)
  PROVE  OnPage(q, page) = {}
<1>1. PICK b : b = plan.batch
  OBVIOUS
<1>2. b \in Nat \ {0} /\ MaxResults \in Nat \ {0}
  BY <1>1, PlanOK, DiscoveryConstantsOK DEF DiscoveryConstantsOK
<1>3. ~ (page - 1) * b < MaxResults /\ (page - 1) * b \in Nat
  BY <1>1, <1>2 DEF CanBeHad
<1>4. ASSUME NEW r \in OnPage(q, page) PROVE FALSE
  <2>1. /\ Rank(q, r) \in ((page - 1) * b + 1) .. (page * b)
        /\ Rank(q, r) <= MaxResults /\ r \in Hits(q)
    BY <1>1 DEF OnPage
  <2>2. QED
    BY <1>2, <1>3, <2>1
<1>5. QED
  BY <1>4

LEMMA PastIsSettled ==
  ASSUME plan \in Plans, NEW j, JobTyped(j), ~CanBeHad(j.page)
  PROVE  Settled(j)
<1>1. PICK b, page : b = plan.batch /\ page = j.page
  OBVIOUS
<1>2. b \in Nat \ {0} /\ MaxResults \in Nat \ {0} /\ page \in Nat \ {0}
  BY <1>1, PlanOK, DiscoveryConstantsOK DEF DiscoveryConstantsOK, JobTyped, Asked
<1>3. OnPage(j.query, j.page) = {}
  BY <1>1, <1>2, PastIsEmpty
<1>4. ~ (page - 1) * b < MaxResults
  BY <1>1 DEF CanBeHad
<1>5. page # 1
  BY <1>2, <1>4
<1>6. ~MoreAfter(j)
  BY <1>1, <1>2, <1>3, FS_EmptySet DEF MoreAfter
<1>7. Children(j) = {}
  BY <1>1, <1>5 DEF Children
<1>8. QED
  BY <1>3, <1>6, <1>7 DEF Settled, Followed

LEMMA BeginPaging ==
  ASSUME AllSound, AllSound', Grows, PagingInv, NEW w \in Worker, Begin(w)
  PROVE  PagingInv' /\ Onward
<1>1. PICK j \in ready :
        /\ job[w].at = "idle" /\ ready' = ready \ {j}
        /\ \/ (scan[j.scan].status = "cancelled" \/ scan[j.scan].count >= plan.maxRepos) /\ job' = job
           \/ ~CanBeHad(j.page) /\ job' = job
           \/ job' = [job EXCEPT ![w] =
                [at |-> "answer", job |-> j, before |-> scan[j.scan].count, pages |-> scan[j.scan].pages,
                 todo |-> OnPage(j.query, j.page), took |-> 0, split |-> FALSE]]
        /\ UNCHANGED <<plan, known, credit, scan, added, faults, cut, raced>>
  BY DEF Begin
<1>2. plan \in Plans /\ j \in added /\ JobTyped(j) /\ j.scan \in Scan /\ DOMAIN job = Worker
  BY DEF AllSound, HistorySound, QueueSound, JobTyped, WorkersSound
<1>3. Onward
  BY <1>1, ScansStay
<1>4. Pending(j)' \/ ~Clean(j.scan)' \/ Settled(j)'
  <2>1. CASE scan[j.scan].status = "cancelled"
    BY <1>2, <1>3, <2>1 DEF Clean, Onward
  <2>2. CASE scan[j.scan].count >= plan.maxRepos
    <3>1. scan[j.scan].count \in Nat /\ scan[j.scan].count >= scan[j.scan].count
      BY <1>2, CountIs DEF AllSound, ScansSound
    <3>2. ~Clean(j.scan)
      BY <1>2, <2>2, <3>1, FullIsUnclean
    <3>3. QED
      BY <1>2, <1>3, <3>2 DEF Onward
  <2>3. CASE ~CanBeHad(j.page)
    BY <1>2, <1>3, <2>3, PastIsSettled, SettledStays
  <2>4. CASE job'[w].at # "idle" /\ job'[w].job = j
    BY <2>4 DEF Pending
  <2>5. QED
    BY <1>1, <1>2, <2>1, <2>2, <2>3, <2>4
<1>5. \A i \in added : Pending(i) => i = j \/ Pending(i)'
  BY <1>1, <1>2 DEF Pending
<1>6. JobsFollowed'
  BY <1>1, <1>3, <1>4, <1>5, JobsAfter DEF PagingInv
<1>7. RootsAsked'
  BY <1>1, <1>3, RootsStay DEF PagingInv
<1>8. SplitsHanded'
  <2>1. CASE job' = job
    BY <1>3, <2>1, KnowsKept DEF PagingInv
  <2>2. ASSUME NEW work, job' = [job EXCEPT ![w] = work], work.at = "answer", work.job = j,
               work.before = scan[j.scan].count, work.took = 0
        PROVE  SplitsHanded'
    <3>1. StepsTo(w, work)
      BY <1>2, <2>2 DEF StepsTo
    <3>2. scan[j.scan].count \in Nat
      BY <1>2, CountIs DEF AllSound, ScansSound
    <3>3. KnowsOK(work)'
      BY <1>1, <2>2, <3>2 DEF KnowsOK
    <3>4. QED
      BY <1>3, <3>1, <3>3, KnowsStep DEF PagingInv
  <2>3. PICK work :
          work = [at |-> "answer", job |-> j, before |-> scan[j.scan].count, pages |-> scan[j.scan].pages,
                  todo |-> OnPage(j.query, j.page), took |-> 0, split |-> FALSE]
    OBVIOUS
  <2>4. work.at = "answer" /\ work.job = j /\ work.before = scan[j.scan].count /\ work.took = 0
    BY <2>3
  <2>5. job' = job \/ job' = [job EXCEPT ![w] = work]
    BY <1>1, <2>3
  <2>6. QED
    BY <2>1, <2>2, <2>4, <2>5
<1>9. QED
  BY <1>3, <1>6, <1>7, <1>8 DEF PagingInv

LEMMA SplitPaging ==
  ASSUME AllSound, AllSound', Grows, PagingInv, NEW w \in Worker, Split(w)
  PROVE  PagingInv' /\ Onward
<1>1. PICK j, kids, js :
        j = job[w].job /\ kids = Children(j)
        /\ js = {[k EXCEPT !.page = ResumePageFor(k.scan, k.query)] : k \in kids}
  OBVIOUS
<1>2. /\ job[w].at = "answer" /\ Enqueue(js)
      /\ job' = [job EXCEPT ![w].at = "item", ![w].split = kids # {}]
      /\ UNCHANGED <<plan, known, credit, cursor, scan, faults, cut, raced>>
  BY <1>1 DEF Split
<1>3. j \in added /\ JobTyped(j) /\ QuerySound(j) /\ DOMAIN job = Worker
  BY <1>1, <1>2, WorkIs DEF PagingInv, JobsFollowed, AllSound, WorkersSound
<1>4. PICK work : work = job'[w]
  OBVIOUS
<1>5. /\ StepsTo(w, work) /\ work.at = "item" /\ work.job = j /\ work.split = (kids # {})
      /\ work.before = job[w].before /\ work.took = job[w].took
  BY <1>1, <1>2, <1>3, <1>4, WorkIs DEF StepsTo
<1>6. ASSUME NEW k \in kids, NEW kid, kid = [k EXCEPT !.page = ResumePageFor(k.scan, k.query)]
      PROVE  /\ QuerySound(kid) /\ kid.scan = j.scan /\ kid.query = k.query
             /\ k.query.kind = j.query.kind /\ Size(k.query) < Size(j.query)
  <2>1. /\ DOMAIN k = {"scan", "query", "depth", "split", "page"} /\ k.scan = j.scan
        /\ k.query.kind = j.query.kind /\ Size(k.query) < Size(j.query) /\ QuerySound(k)
    BY <1>1, <1>3, KidsAre DEF JobTyped
  <2>2. kid.scan = j.scan /\ kid.query = k.query /\ kid.split = k.split
    BY <1>6, <2>1
  <2>3. QED
    BY <2>1, <2>2 DEF QuerySound
<1>7. /\ added \subseteq added' /\ ready \subseteq ready'
      /\ \A i \in added' \ added : QuerySound(i) /\ i \in ready'
  <2>1. \A kid \in js : QuerySound(kid)
    BY <1>1, <1>6
  <2>2. QED
    BY <1>2, <2>1, Enqueued
<1>8. Onward
  BY <1>2, <1>7, ScansStay
<1>9. JobsFollowed'
  <2>1. \A i \in added : Pending(i) => Pending(i)'
    BY <1>1, <1>5, <1>7, PendingStays DEF StepsTo
  <2>2. QED
    BY <1>7, <1>8, <2>1, JobsAfter DEF PagingInv
<1>10. RootsAsked'
  BY <1>2, <1>8, RootsStay DEF PagingInv
<1>11. kids # {} => HandedDown(j.scan, j.query)'
  <2>1. SUFFICES ASSUME kids # {}, NEW r \in Hits(j.query)
                 PROVE  \E i \in added' : /\ i.scan = j.scan /\ i.query.kind = j.query.kind
                                          /\ r \in Hits(i.query) /\ Size(i.query) < Size(j.query)
    BY DEF HandedDown
  <2>2. PICK k \in kids : r \in Hits(k.query)
    BY <1>1, <1>3, <2>1, KidsCover
  <2>3. PICK kid : kid = [k EXCEPT !.page = ResumePageFor(k.scan, k.query)]
    OBVIOUS
  <2>4. kid \in js
    BY <1>1, <2>3
  <2>5. PICK i \in added' : Id(i) = Id(kid)
    BY <1>2, <2>4, Enqueued
  <2>6. i.scan = kid.scan /\ i.query = kid.query
    BY <2>5 DEF Id
  <2>7. QED
    BY <1>6, <2>2, <2>3, <2>6
<1>12. KnowsOK(work)'
  <2>1. job[w].before + job[w].took <= scan[j.scan].count
    BY <1>1, <1>2 DEF PagingInv, SplitsHanded
  <2>2. QED
    BY <1>1, <1>2, <1>5, <1>11, <2>1 DEF KnowsOK
<1>13. SplitsHanded'
  BY <1>5, <1>8, <1>12, KnowsStep DEF PagingInv
<1>14. QED
  BY <1>8, <1>9, <1>10, <1>13 DEF PagingInv

-----------------------------------------------------------------------------

\* A step that a job does between its page's answer and the page that comes next.
LEMMA PagePaging ==
  ASSUME AllSound, AllSound', Onward, PagingInv, NEW w \in Worker, job[w].at \notin {"idle", "answer"},
         NEW work, StepsTo(w, work), work.at \notin {"idle", "answer"}, work.job = job[w].job,
         work.before = job[w].before, work.split = job[w].split,
         work.before + work.took <= scan'[work.job.scan].count,
         added' = added, ready' = ready,
         \A s \in Scan : scan'[s].status = scan[s].status
  PROVE  PagingInv'
<1>1. \A j \in added : Pending(j) => Pending(j)'
  BY PendingStays DEF StepsTo
<1>2. JobsFollowed' /\ RootsAsked'
  BY <1>1, JobsAfter, RootsStay DEF PagingInv
<1>3. KnowsOK(work)'
  <2>1. PICK j : j = work.job
    OBVIOUS
  <2>2. work.split = (Children(j) # {}) /\ (Children(j) # {} => HandedDown(j.scan, j.query))
    BY <2>1 DEF PagingInv, SplitsHanded
  <2>3. HandedDown(j.scan, j.query) => HandedDown(j.scan, j.query)'
    BY HandedStays
  <2>4. QED
    BY <2>1, <2>2, <2>3 DEF KnowsOK
<1>4. SplitsHanded'
  BY <1>3, KnowsStep DEF PagingInv
<1>5. QED
  BY <1>2, <1>4 DEF PagingInv

\* What such a job knows of its scan's count.
LEMMA CountKnown ==
  ASSUME AllSound, PagingInv, NEW w \in Worker, job[w].at # "idle"
  PROVE  /\ job[w].job.scan \in Scan /\ scan[job[w].job.scan].count \in Nat
         /\ job[w].before \in Nat /\ job[w].took \in Nat
         /\ job[w].before + job[w].took <= scan[job[w].job.scan].count
BY WorkIs, CountIs DEF AllSound, ScansSound, JobTyped, PagingInv, SplitsHanded

LEMMA LookPaging ==
  ASSUME AllSound, AllSound', Grows, PagingInv, NEW w \in Worker, Look(w)
  PROVE  PagingInv' /\ Onward
<1>1. /\ job[w].at = "item" /\ job[w].todo # {}
      /\ \/ job' = [job EXCEPT ![w].todo = {}]
         \/ job' = [job EXCEPT ![w].at = "item", ![w].todo = @ \ {Item(w)}]
         \/ job' = [job EXCEPT ![w].at = "claim"]
      /\ UNCHANGED <<plan, known, cursor, scan, added, ready, faults, raced>>
  BY DEF Look, Drop
<1>2. PICK work : work = job'[w]
  OBVIOUS
<1>3. /\ StepsTo(w, work) /\ work.at \in {"item", "claim"} /\ work.job = job[w].job
      /\ work.before = job[w].before /\ work.split = job[w].split /\ work.took = job[w].took
  <2>1. DOMAIN job = Worker /\ DOMAIN job[w] = {"at", "job", "before", "pages", "todo", "took", "split"}
    BY <1>1, WorkIs DEF AllSound, WorkersSound
  <2>2. QED
    BY <1>1, <1>2, <2>1 DEF StepsTo
<1>4. Onward
  BY <1>1, ScansStay
<1>5. work.before + work.took <= scan'[work.job.scan].count
  BY <1>1, <1>3, CountKnown
<1>6. QED
  BY <1>1, <1>3, <1>4, <1>5, PagePaging

LEMMA ClaimPaging ==
  ASSUME AllSound, AllSound', Grows, PagingInv, NEW w \in Worker, Claim(w)
  PROVE  PagingInv' /\ Onward
<1>1. PICK s, r : s = job[w].job.scan /\ r = Item(w)
  OBVIOUS
<1>2. /\ job[w].at = "claim"
      /\ \/ /\ job' = [job EXCEPT ![w].at = "item", ![w].todo = @ \ {r}] /\ scan' = scan
         \/ /\ job' = [job EXCEPT ![w].at = "record"] /\ scan' = [scan EXCEPT ![s].claims = @ \cup {r}]
      /\ UNCHANGED <<plan, known, credit, cursor, added, ready, faults, cut, raced>>
  BY <1>1 DEF Claim, Drop
<1>3. PICK work : work = job'[w]
  OBVIOUS
<1>4. /\ StepsTo(w, work) /\ work.at \in {"item", "record"} /\ work.job = job[w].job
      /\ work.before = job[w].before /\ work.split = job[w].split /\ work.took = job[w].took
  <2>1. DOMAIN job = Worker /\ DOMAIN job[w] = {"at", "job", "before", "pages", "todo", "took", "split"}
    BY <1>2, WorkIs DEF AllSound, WorkersSound
  <2>2. QED
    BY <1>2, <1>3, <2>1 DEF StepsTo
<1>5. /\ s \in Scan /\ \A t \in Scan : t # s => scan'[t] = scan[t]
      /\ scan[s].claims \subseteq scan'[s].claims /\ scan'[s].count = scan[s].count
      /\ scan'[s].status = scan[s].status /\ scan'[s].hurt = scan[s].hurt
  <2>1. s \in Scan /\ DOMAIN scan = Scan /\ ScanTyped(s)
    BY <1>1, <1>2, CountKnown DEF AllSound, ScansSound
  <2>2. QED
    BY <1>2, <2>1 DEF ScanTyped
<1>6. scan[s].count \in Nat /\ work.before + work.took <= scan'[work.job.scan].count
  BY <1>1, <1>2, <1>4, <1>5, CountKnown
<1>7. Onward
  <2>1. scan[s].count <= scan'[s].count
    BY <1>5, <1>6
  <2>2. QED
    BY <1>2, <1>5, <2>1, ScanMoves
<1>8. \A t \in Scan : scan'[t].status = scan[t].status
  BY <1>5
<1>9. QED
  BY <1>2, <1>4, <1>6, <1>7, <1>8, PagePaging

LEMMA RecordPaging ==
  ASSUME AllSound, AllSound', Grows, PagingInv, NEW w \in Worker, Record(w)
  PROVE  PagingInv' /\ Onward
<1>1. PICK s, r, handed :
        s = job[w].job.scan /\ r = Item(w)
        /\ handed = IF s \in plan.only THEN scan[s].handed ELSE scan[s].handed \cup {r}
  OBVIOUS
<1>2. /\ job[w].at = "record"
      /\ scan' = [scan EXCEPT ![s].count = @ + 1, ![s].found = @ \cup {r}, ![s].handed = handed]
      /\ job' = [job EXCEPT ![w].at = "item", ![w].todo = @ \ {r}, ![w].took = @ + 1]
      /\ UNCHANGED <<plan, cursor, added, ready, faults, cut>>
  BY <1>1 DEF Record
<1>3. PICK work : work = job'[w]
  OBVIOUS
<1>4. /\ StepsTo(w, work) /\ work.at = "item" /\ work.job = job[w].job
      /\ work.before = job[w].before /\ work.split = job[w].split /\ work.took = job[w].took + 1
  <2>1. DOMAIN job = Worker /\ DOMAIN job[w] = {"at", "job", "before", "pages", "todo", "took", "split"}
    BY <1>2, WorkIs DEF AllSound, WorkersSound
  <2>2. QED
    BY <1>2, <1>3, <2>1 DEF StepsTo
<1>5. /\ s \in Scan /\ \A t \in Scan : t # s => scan'[t] = scan[t]
      /\ scan'[s].claims = scan[s].claims /\ scan'[s].count = scan[s].count + 1
      /\ scan'[s].status = scan[s].status /\ scan'[s].hurt = scan[s].hurt
  <2>1. s \in Scan /\ DOMAIN scan = Scan /\ ScanTyped(s)
    BY <1>1, <1>2, CountKnown DEF AllSound, ScansSound
  <2>2. QED
    BY <1>2, <2>1 DEF ScanTyped
<1>6. /\ scan[s].count \in Nat /\ job[w].before \in Nat /\ job[w].took \in Nat
      /\ job[w].before + job[w].took <= scan[s].count
  BY <1>1, <1>2, CountKnown
<1>7. work.before + work.took <= scan'[work.job.scan].count
  BY <1>1, <1>4, <1>5, <1>6
<1>8. Onward
  <2>1. scan[s].count <= scan'[s].count
    BY <1>5, <1>6
  <2>2. QED
    BY <1>2, <1>5, <2>1, ScanMoves
<1>9. \A t \in Scan : scan'[t].status = scan[t].status
  BY <1>5
<1>10. QED
  BY <1>2, <1>4, <1>7, <1>8, <1>9, PagePaging

LEMMA BookmarkPaging ==
  ASSUME AllSound, AllSound', Grows, PagingInv, NEW w \in Worker, Bookmark(w)
  PROVE  PagingInv' /\ Onward
<1>1. PICK s, pages : s = job[w].job.scan /\ pages = Put(job[w].pages, job[w].job.query, job[w].job.page)
  OBVIOUS
<1>2. /\ job[w].at = "item" /\ job' = [job EXCEPT ![w].at = "next"]
      /\ scan' = [scan EXCEPT ![s].pages = pages]
      /\ UNCHANGED <<plan, known, credit, added, ready, faults, cut, raced>>
  BY <1>1 DEF Bookmark
<1>3. PICK work : work = job'[w]
  OBVIOUS
<1>4. /\ StepsTo(w, work) /\ work.at = "next" /\ work.job = job[w].job
      /\ work.before = job[w].before /\ work.split = job[w].split /\ work.took = job[w].took
  <2>1. DOMAIN job = Worker /\ DOMAIN job[w] = {"at", "job", "before", "pages", "todo", "took", "split"}
    BY <1>2, WorkIs DEF AllSound, WorkersSound
  <2>2. QED
    BY <1>2, <1>3, <2>1 DEF StepsTo
<1>5. /\ s \in Scan /\ \A t \in Scan : t # s => scan'[t] = scan[t]
      /\ scan'[s].claims = scan[s].claims /\ scan'[s].count = scan[s].count
      /\ scan'[s].status = scan[s].status /\ scan'[s].hurt = scan[s].hurt
  <2>1. s \in Scan /\ DOMAIN scan = Scan /\ ScanTyped(s)
    BY <1>1, <1>2, CountKnown DEF AllSound, ScansSound
  <2>2. QED
    BY <1>2, <2>1 DEF ScanTyped
<1>6. scan[s].count \in Nat /\ work.before + work.took <= scan'[work.job.scan].count
  BY <1>1, <1>2, <1>4, <1>5, CountKnown
<1>7. Onward
  <2>1. scan[s].count <= scan'[s].count
    BY <1>5, <1>6
  <2>2. QED
    BY <1>2, <1>5, <2>1, ScanMoves
<1>8. \A t \in Scan : scan'[t].status = scan[t].status
  BY <1>5
<1>9. QED
  BY <1>2, <1>4, <1>6, <1>7, <1>8, PagePaging

\* A job that is through with its page and asks for no other one.
LEMMA NextPagePaging ==
  ASSUME AllSound, AllSound', Grows, PagingInv, NEW w \in Worker, NextPage(w)
  PROVE  PagingInv' /\ Onward
<1>1. PICK j, next : j = job[w].job /\ next = [j EXCEPT !.page = @ + 1]
  OBVIOUS
<1>2. /\ job[w].at = "next" /\ job' = [job EXCEPT ![w] = Idle]
      /\ IF More(w) /\ job[w].before + job[w].took < plan.maxRepos
           THEN Enqueue({next}) ELSE UNCHANGED <<added, ready>>
      /\ UNCHANGED <<plan, known, credit, cursor, scan, faults, cut, raced>>
  BY <1>1 DEF NextPage, Done
<1>3. /\ plan \in Plans /\ j \in added /\ JobTyped(j) /\ QuerySound(j) /\ DOMAIN job = Worker
      /\ WorkSound(job[w]) /\ job[w] # Idle /\ j.scan \in Scan
  BY <1>1, <1>2, WorkIs DEF PagingInv, JobsFollowed, AllSound, HistorySound, WorkersSound, JobTyped
<1>4. /\ DOMAIN next = DOMAIN j /\ next.scan = j.scan /\ next.query = j.query /\ next.page = j.page + 1
      /\ next.split = j.split
  BY <1>1, <1>3 DEF JobTyped
<1>5. QuerySound(next)
  BY <1>3, <1>4 DEF QuerySound
<1>6. added \subseteq added' /\ ready \subseteq ready' /\ \A i \in added' \ added : i = next /\ i \in ready'
  <2>1. CASE Enqueue({next})
    BY <2>1, Enqueued
  <2>2. CASE UNCHANGED <<added, ready>>
    BY <2>2
  <2>3. QED
    BY <1>2, <2>1, <2>2
<1>7. Onward
  BY <1>2, <1>6, ScansStay
<1>8. ~Clean(j.scan)' \/ Settled(j)'
  <2>1. OnPage(j.query, j.page) \subseteq Covered(j.query)
    BY <1>1, <1>2, <1>3 DEF WorkSound
  <2>2. OnPage(j.query, j.page)' \subseteq Covered(j.query)'
    BY <1>2, <2>1 DEF OnPage, Covered, Grows
  <2>3. job[w].split = (Children(j) # {}) /\ (Children(j) # {} => HandedDown(j.scan, j.query))
    BY <1>1, <1>2 DEF PagingInv, SplitsHanded
  <2>4. MoreAfter(j)' <=> MoreAfter(j)
    BY <1>2 DEF MoreAfter, OnPage
  <2>5. More(w) <=> ~job[w].split /\ MoreAfter(j)
    BY <1>1 DEF More, MoreAfter
  <2>6. CASE Children(j) # {}
    <3>1. HandedDown(j.scan, j.query)'
      BY <1>6, <2>3, <2>6, HandedStays
    <3>2. QED
      BY <2>2, <2>6, <3>1 DEF Settled, Followed
  <2>7. CASE Children(j) = {} /\ ~MoreAfter(j)
    BY <2>2, <2>4, <2>7 DEF Settled, Followed
  <2>8. CASE More(w) /\ job[w].before + job[w].took < plan.maxRepos
    <3>1. PICK i \in added' : Id(i) = Id(next)
      BY <1>2, <2>8, Enqueued
    <3>2. Id(i) = <<j.scan, j.query, j.page + 1>>
      BY <1>4, <3>1 DEF Id
    <3>3. Children(j) = {}
      BY <2>3, <2>5, <2>8
    <3>4. QED
      BY <2>2, <3>1, <3>2, <3>3 DEF Settled, Followed
  <2>9. CASE ~ job[w].before + job[w].took < plan.maxRepos
    <3>1. PICK n : n = job[w].before + job[w].took
      OBVIOUS
    <3>2. n \in Nat /\ plan.maxRepos \in Nat /\ scan[j.scan].count \in Nat /\ n <= scan[j.scan].count
      BY <1>1, <1>2, <1>3, <3>1, CountKnown, PlanOK
    <3>3. n >= plan.maxRepos /\ scan[j.scan].count >= n
      BY <2>9, <3>1, <3>2
    <3>4. ~Clean(j.scan)
      BY <1>3, <3>2, <3>3, FullIsUnclean
    <3>5. QED
      BY <1>3, <1>7, <3>4 DEF Onward
  <2>10. QED
    BY <2>3, <2>5, <2>6, <2>7, <2>8, <2>9
<1>9. \A i \in added : Pending(i) => i = j \/ Pending(i)'
  BY <1>1, <1>2, <1>3, <1>6 DEF Pending
<1>10. JobsFollowed'
  <2>1. \A i \in added : Pending(i) => Pending(i)' \/ ~Clean(i.scan)' \/ Settled(i)'
    BY <1>8, <1>9
  <2>2. \A i \in added' \ added : QuerySound(i) /\ i \in ready'
    BY <1>5, <1>6
  <2>3. QED
    BY <1>7, <2>1, <2>2, JobsAfter DEF PagingInv
<1>11. RootsAsked'
  BY <1>2, <1>7, RootsStay DEF PagingInv
<1>12. SplitsHanded'
  <2>1. StepsTo(w, Idle)
    BY <1>2, <1>3 DEF StepsTo
  <2>2. KnowsOK(Idle)'
    BY DEF KnowsOK, Idle
  <2>3. QED
    BY <1>7, <2>1, <2>2, KnowsStep DEF PagingInv
<1>13. QED
  BY <1>7, <1>10, <1>11, <1>12 DEF PagingInv

LEMMA FailPaging ==
  ASSUME AllSound, AllSound', Grows, PagingInv, NEW w \in Worker, Fail(w)
  PROVE  PagingInv' /\ Onward
<1>1. PICK j : j = job[w].job
  OBVIOUS
<1>2. /\ job[w].at # "idle" /\ job' = [job EXCEPT ![w] = Idle]
      /\ \/ ready' = ready \cup {j} /\ UNCHANGED scan
         \/ scan' = [scan EXCEPT ![j.scan].hurt = TRUE] /\ UNCHANGED ready
      /\ UNCHANGED <<plan, known, credit, cursor, added, raced>>
  BY <1>1 DEF Fail, Done
<1>3. j \in added /\ JobTyped(j) /\ DOMAIN job = Worker /\ j.scan \in Scan
  BY <1>1, <1>2, WorkIs DEF AllSound, WorkersSound, JobTyped
<1>4. PICK s : s = j.scan
  OBVIOUS
<1>5. /\ \A t \in Scan : t # s => scan'[t] = scan[t]
      /\ scan'[s].claims = scan[s].claims /\ scan'[s].count = scan[s].count
      /\ scan'[s].status = scan[s].status /\ (scan[s].hurt => scan'[s].hurt)
      /\ scan'[s].hurt \/ j \in ready'
  <2>1. DOMAIN scan = Scan /\ ScanTyped(s)
    BY <1>3, <1>4 DEF AllSound, ScansSound
  <2>2. CASE scan' = [scan EXCEPT ![s].hurt = TRUE]
    BY <1>3, <1>4, <2>1, <2>2 DEF ScanTyped
  <2>3. CASE ready' = ready \cup {j} /\ UNCHANGED scan
    BY <2>3
  <2>4. QED
    BY <1>2, <1>4, <2>2, <2>3
<1>6. Onward
  <2>1. scan[s].count \in Nat
    BY <1>3, <1>4, CountIs DEF AllSound, ScansSound
  <2>2. scan[s].count <= scan'[s].count
    BY <1>5, <2>1
  <2>3. QED
    BY <1>2, <1>3, <1>4, <1>5, <2>2, ScanMoves
<1>7. \A i \in added : Pending(i) => i = j \/ Pending(i)'
  BY <1>1, <1>2, <1>3 DEF Pending
<1>8. Pending(j)' \/ ~Clean(j.scan)'
  BY <1>4, <1>5 DEF Pending, Clean
<1>9. JobsFollowed'
  BY <1>2, <1>6, <1>7, <1>8, JobsAfter DEF PagingInv
<1>10. RootsAsked'
  <2>1. \A t \in Scan : scan'[t].status # "new" => scan[t].status # "new"
    BY <1>5
  <2>2. QED
    BY <1>6, <2>1, RootsStay DEF PagingInv
<1>11. SplitsHanded'
  <2>1. StepsTo(w, Idle)
    BY <1>2, <1>3 DEF StepsTo
  <2>2. KnowsOK(Idle)'
    BY DEF KnowsOK, Idle
  <2>3. QED
    BY <1>6, <2>1, <2>2, KnowsStep DEF PagingInv
<1>12. QED
  BY <1>6, <1>9, <1>10, <1>11 DEF PagingInv

LEMMA StutterPaging ==
  ASSUME AllSound, AllSound', Grows, PagingInv, UNCHANGED vars
  PROVE  PagingInv' /\ Onward
<1>1. UNCHANGED <<plan, known, credit, cursor, scan, added, ready, job, faults, cut, raced>>
  BY DEF vars
<1>2. Onward
  BY <1>1, ScansStay
<1>3. \A j \in added : Pending(j) => Pending(j)'
  BY <1>1, PendingStays
<1>4. QED
  BY <1>1, <1>2, <1>3, JobsAfter, RootsStay, KnowsKept DEF PagingInv

LEMMA NextPaging ==
  ASSUME AllSound, PagingInv, [Next]_vars
  PROVE  PagingInv' /\ Onward
<1>1. AllSound' /\ Grows
  BY NextKeeps
<1>2. ASSUME NEW s \in Scan, Start(s) \/ Restart(s) \/ Cancel(s) \/ Analyse(s)
      PROVE  PagingInv' /\ Onward
  BY <1>1, <1>2, StartPaging, CancelPaging
<1>3. ASSUME NEW w \in Worker,
             \/ Begin(w) \/ Split(w) \/ Look(w) \/ Claim(w)
             \/ Record(w) \/ Bookmark(w) \/ NextPage(w) \/ Fail(w)
      PROVE  PagingInv' /\ Onward
  BY <1>1, <1>3, BeginPaging, SplitPaging, LookPaging, ClaimPaging, RecordPaging, BookmarkPaging,
     NextPagePaging, FailPaging
<1>4. QED
  BY <1>1, <1>2, <1>3, StutterPaging DEF Next

LEMMA InitPaging ==
  ASSUME Init
  PROVE  PagingInv
BY DEF Init, Idle, PagingInv, JobsFollowed, RootsAsked, SplitsHanded

\* At rest a job of a clean scan has been followed, and its pages are covered.
LEMMA RestIsSettled ==
  ASSUME AllSound, PagingInv, AtRest, NEW j \in added, Clean(j.scan)
  PROVE  /\ Asked(j.page) /\ QuerySound(j) /\ Followed(j)
         /\ \A page \in 1 .. j.page : OnPage(j.query, page) \subseteq Covered(j.query)
<1>1. ~Pending(j)
  BY DEF Pending, AtRest
<1>2. JobTyped(j) /\ JobSound(j)
  BY DEF AllSound, QueueSound
<1>3. QuerySound(j) /\ Followed(j) /\ OnPage(j.query, j.page) \subseteq Covered(j.query)
  BY <1>1 DEF PagingInv, JobsFollowed
<1>4. Asked(j.page) /\ j.page \in Nat \ {0} /\ Through(j.query, j.page - 1)
  BY <1>2 DEF JobTyped, JobSound, Asked
<1>5. \A page \in 1 .. j.page : page = j.page \/ page \in 1 .. (j.page - 1)
  BY <1>4
<1>6. QED
  BY <1>3, <1>4, <1>5 DEF Through

LEMMA RestMissesNothing ==
  ASSUME AllSound, PagingInv
  PROVE  NothingMissed
<1>1. SUFFICES ASSUME AtRest, NEW s \in Scan, scan[s].status # "new", Clean(s),
                      NEW q \in plan.root[s], NEW r \in Hits(q), r \notin Covered(q), r \notin OutOfReach(s)
               PROVE  FALSE
  BY DEF NothingMissed
<1>2. PICK root \in added : root.scan = s /\ root.query = q
  BY <1>1 DEF PagingInv, RootsAsked
<1>3. ASSUME NEW j \in added, j.scan = s, j.query.kind = q.kind, NEW page \in 1 .. j.page
      PROVE  r \notin OnPage(j.query, page)
  <2>1. OnPage(j.query, page) \subseteq Covered(j.query)
    BY <1>1, <1>3, RestIsSettled
  <2>2. Covered(j.query) = Covered(q)
    BY <1>3 DEF Covered
  <2>3. QED
    BY <1>1, <2>1, <2>2
<1>4. plan \in Plans /\ \A j \in added : Asked(j.page)
  BY DEF AllSound, HistorySound, QueueSound, JobTyped
<1>5. \A j \in added : j.scan = s => QuerySound(j) /\ Followed(j)
  BY <1>1, RestIsSettled
<1>6. PICK kind : kind = q.kind
  OBVIOUS
<1>7. \A j \in added : j.scan = s /\ j.query.kind = kind => r \notin Hits(j.query)
  BY <1>1, <1>3, <1>4, <1>5, <1>6, NoneUnseen
<1>8. QED
  BY <1>1, <1>2, <1>6, <1>7

\* buildLanguageSplitQueries, splitCreatedRangeQuery, splitSizeRangeQuery: when no search job
\* is left, a scan that was neither cancelled nor full and lost no job for good has found all
\* that its queries match and GitHub returns, for any ranges, thresholds and depths, however
\* the queries were split, paged, retried and resumed from the scans before it.
THEOREM NothingIsMissed == Spec => []NothingMissed
<1>1. Init => AllSound /\ PagingInv
  BY InitSound, InitPaging
<1>2. AllSound /\ PagingInv /\ [Next]_vars => AllSound' /\ PagingInv'
  BY NextKeeps, NextPaging
<1>3. AllSound /\ PagingInv => NothingMissed
  BY RestMissesNothing
<1>4. QED
  BY <1>1, <1>2, <1>3, PTL DEF Spec

-----------------------------------------------------------------------------
(* What names a brand names it still.                                       *)

Names(s, r) == s \in credit[r].also \cup {credit[r].first}

NamesGrow(s) == plan' = plan /\ Named(s) \subseteq Named(s)'

\* A step that forgets a name knows of the race, and one that lets go of a result in hand
\* names it, or gives it up.
LEMMA NamesStay ==
  ASSUME plan' = plan, cut \subseteq cut', raced \subseteq raced', NEW s,
         \A r \in Repo : Names(s, r) => Names(s, r)' \/ r \in raced',
         \A w \in Worker : job[w].at = "record" /\ job[w].job.scan = s =>
           \/ job'[w].at = "record" /\ job'[w].job = job[w].job /\ job'[w].todo = job[w].todo
           \/ Item(w) \in Named(s)'
  PROVE  NamesGrow(s)
<1>1. \A r \in Repo : Names(s, r) => r \in Named(s)'
  BY DEF Names, Named
<1>2. cut \cup raced \cup Outside \subseteq Named(s)'
  BY DEF Named
<1>3. ASSUME NEW w \in At("record", s) PROVE Item(w) \in Named(s)'
  <2>1. w \in Worker /\ job[w].at = "record" /\ job[w].job.scan = s
    BY DEF At
  <2>2. CASE job'[w].at = "record" /\ job'[w].job = job[w].job /\ job'[w].todo = job[w].todo
    <3>1. Item(w)' = Item(w) /\ w \in At("record", s)'
      BY <2>1, <2>2, SameItem DEF At
    <3>2. Item(w)' \in Named(s)'
      BY <3>1 DEF Named
    <3>3. QED
      BY <3>1, <3>2
  <2>3. QED
    BY <2>1, <2>2
<1>4. QED
  BY <1>1, <1>2, <1>3 DEF NamesGrow, Named, Names

LEMMA NamedToGrows ==
  ASSUME NEW s, NamesGrow(s), NEW q, NEW last, NamedTo(s, q, last)
  PROVE  NamedTo(s, q, last)'
<1>1. \A page : OnPage(q, page)' = OnPage(q, page)
  BY DEF NamesGrow, OnPage
<1>2. Named(s) \subseteq Named(s)'
  BY DEF NamesGrow
<1>3. QED
  BY <1>1, <1>2 DEF NamedTo

LEMMA AllNamedGrows ==
  ASSUME NEW s, NamesGrow(s), NEW pages, AllNamed(s, pages)
  PROVE  AllNamed(s, pages)'
BY NamedToGrows DEF AllNamed

\* What a job has dealt with is named, and its copy of the checkpoint.
WorkNamed(s, work) == work.at # "idle" /\ work.job.scan = s =>
  AllNamed(s, work.pages) /\ OnPage(work.job.query, work.job.page) \ work.todo \subseteq Named(s)

LEMMA WorkNamedGrows ==
  ASSUME NEW s, NamesGrow(s), NEW work, WorkNamed(s, work)
  PROVE  WorkNamed(s, work)'
<1>1. AllNamed(s, work.pages) => AllNamed(s, work.pages)'
  BY AllNamedGrows
<1>2. OnPage(work.job.query, work.job.page)' = OnPage(work.job.query, work.job.page)
  BY DEF NamesGrow, OnPage
<1>3. Named(s) \subseteq Named(s)'
  BY DEF NamesGrow
<1>4. QED
  BY <1>1, <1>2, <1>3 DEF WorkNamed

LEMMA WorksNamed ==
  ASSUME NEW s, NamingSound(s), NEW w \in Worker
  PROVE  WorkNamed(s, job[w])
BY DEF NamingSound, WorkNamed

LEMMA NamingAfter ==
  ASSUME Onward, NEW s \in Scan, NamingSound(s), NamesGrow(s),
         scan'[s].claims \subseteq scan[s].claims \cup Named(s)',
         AllNamed(s, scan[s].pages)',
         \A j \in added' \ added : j.scan = s => NamedTo(s, j.query, j.page - 1)' /\ j \in ready',
         \A j \in added : j.scan = s /\ Pending(j) =>
           Pending(j)' \/ ~Clean(s)' \/ OnPage(j.query, j.page) \subseteq Named(s)',
         \A w \in Worker : job'[w] = job[w] \/ WorkNamed(s, job[w])'
  PROVE  NamingSound(s)'
<1>1. /\ scan[s].claims \subseteq Named(s)
      /\ \A j \in added : j.scan = s =>
           /\ NamedTo(s, j.query, j.page - 1)
           /\ Pending(j) \/ ~Clean(s) \/ OnPage(j.query, j.page) \subseteq Named(s)
  BY DEF NamingSound
<1>2. Named(s) \subseteq Named(s)' /\ plan' = plan
  BY DEF NamesGrow
<1>3. ASSUME NEW j \in added', j.scan = s
      PROVE  /\ NamedTo(s, j.query, j.page - 1)'
             /\ Pending(j)' \/ ~Clean(s)' \/ OnPage(j.query, j.page)' \subseteq Named(s)'
  <2>1. OnPage(j.query, j.page)' = OnPage(j.query, j.page)
    BY <1>2 DEF OnPage
  <2>2. CASE j \notin added
    BY <1>3, <2>2 DEF Pending
  <2>3. CASE j \in added
    <3>1. NamedTo(s, j.query, j.page - 1)'
      BY <1>1, <1>3, <2>3, NamedToGrows
    <3>2. ~Clean(s) => ~Clean(s)'
      BY DEF Onward
    <3>3. Pending(j) \/ ~Clean(s) \/ OnPage(j.query, j.page) \subseteq Named(s)
      BY <1>1, <1>3, <2>3
    <3>4. Pending(j) => Pending(j)' \/ ~Clean(s)' \/ OnPage(j.query, j.page) \subseteq Named(s)'
      BY <1>3, <2>3
    <3>5. QED
      BY <1>2, <2>1, <3>1, <3>2, <3>3, <3>4
  <2>4. QED
    BY <2>2, <2>3
<1>4. ASSUME NEW w \in Worker PROVE WorkNamed(s, job[w])'
  <2>1. CASE job'[w] = job[w]
    <3>1. PICK work : work = job[w] /\ work = job'[w]
      BY <2>1
    <3>2. WorkNamed(s, work)'
      BY <3>1, WorksNamed, WorkNamedGrows
    <3>3. QED
      BY <3>1, <3>2
  <2>2. QED
    BY <2>1
<1>5. scan'[s].claims \subseteq Named(s)'
  BY <1>1, <1>2
<1>6. QED
  BY <1>3, <1>4, <1>5 DEF NamingSound, WorkNamed

\* The checkpoint, when the step leaves it alone.
LEMMA CheckpointNamed ==
  ASSUME NEW s, NamingSound(s), NamesGrow(s), scan'[s].pages = scan[s].pages
  PROVE  AllNamed(s, scan[s].pages)'
<1>1. PICK pages : pages = scan[s].pages /\ pages = scan'[s].pages
  OBVIOUS
<1>2. AllNamed(s, pages)'
  BY <1>1, AllNamedGrows DEF NamingSound
<1>3. QED
  BY <1>1, <1>2

\* A step that a job does within its page.
LEMMA PageNaming ==
  ASSUME Onward, NEW s \in Scan, NamingSound(s), NamesGrow(s), NEW w \in Worker, job[w].at # "idle",
         NEW work, StepsTo(w, work), work.at # "idle", work.job = job[w].job,
         work.pages = job[w].pages, work.job.scan = s => job[w].todo \ work.todo \subseteq Named(s)',
         scan'[s].claims \subseteq scan[s].claims \cup Named(s)',
         AllNamed(s, scan[s].pages)', added' = added, ready' = ready
  PROVE  NamingSound(s)'
<1>1. WorkNamed(s, work)'
  <2>1. SUFFICES ASSUME work.job.scan = s
                 PROVE  /\ AllNamed(s, work.pages)'
                        /\ OnPage(work.job.query, work.job.page)' \ work.todo \subseteq Named(s)'
    BY DEF WorkNamed
  <2>2. AllNamed(s, job[w].pages) /\ OnPage(work.job.query, work.job.page) \ job[w].todo \subseteq Named(s)
    BY <2>1, WorksNamed DEF WorkNamed
  <2>3. AllNamed(s, work.pages)'
    BY <2>2, AllNamedGrows
  <2>4. OnPage(work.job.query, work.job.page)' = OnPage(work.job.query, work.job.page)
    BY DEF NamesGrow, OnPage
  <2>5. QED
    BY <2>1, <2>2, <2>3, <2>4 DEF NamesGrow
<1>2. \A u \in Worker : job'[u] = job[u] \/ WorkNamed(s, job[u])'
  BY <1>1 DEF StepsTo
<1>3. \A j \in added : Pending(j) => Pending(j)'
  BY PendingStays DEF StepsTo
<1>4. QED
  BY <1>2, <1>3, NamingAfter

-----------------------------------------------------------------------------
(* The steps, for the names.                                                *)

FirstKnown == \A r \in Repo : credit[r].first # "none" => r \in known

Fresh == plan.only \ Continue

LEMMA NamingParts ==
  NamingInv <=> FirstKnown /\ \A s \in Fresh : NamingSound(s)
BY DEF NamingInv, FirstKnown, Fresh

LEMMA FreshAre ==
  ASSUME plan \in Plans, NEW s \in Fresh
  PROVE  s \in Scan /\ s \in plan.only /\ s \notin Continue /\ s # "none"
BY PlanOK, DiscoveryConstantsOK DEF Fresh, DiscoveryConstantsOK

\* Nothing is recorded and nobody's brand is named.
LEMMA NamesKept ==
  ASSUME plan' = plan, credit' = credit, cut \subseteq cut', raced' = raced, NEW s,
         \A w \in Worker : job[w].at = "record" =>
           job'[w].at = "record" /\ job'[w].job = job[w].job /\ job'[w].todo = job[w].todo
  PROVE  NamesGrow(s)
BY NamesStay DEF Names

LEMMA StartNaming ==
  ASSUME AllSound, Onward, NamingInv, NEW t \in Scan, Start(t) \/ Restart(t)
  PROVE  NamingInv'
<1>1. /\ Enqueue(Roots(t)) /\ UNCHANGED <<plan, known, credit, cursor, job, cut, raced>>
      /\ \/ scan' = [scan EXCEPT ![t].status = "running"]
         \/ scan' = scan
  BY DEF Start, Restart
<1>2. /\ added \subseteq added' /\ ready \subseteq ready'
      /\ \A j \in added' \ added : j \in Roots(t) /\ j \in ready'
  BY <1>1, Enqueued
<1>3. plan \in Plans /\ \A s \in Scan : ScanTyped(s) /\ ScanSound(s) /\ DOMAIN scan = Scan
  BY DEF AllSound, HistorySound, ScansSound
<1>4. ASSUME NEW s \in Fresh PROVE NamingSound(s)'
  <2>1. s \in Scan /\ s \notin Continue /\ NamingSound(s)
    BY <1>3, FreshAre, NamingParts
  <2>2. NamesGrow(s)
    BY <1>1, NamesKept
  <2>3. scan'[s].claims = scan[s].claims /\ scan'[s].pages = scan[s].pages
    BY <1>1, <1>3, <2>1 DEF ScanTyped
  <2>4. AllNamed(s, scan[s].pages)'
    BY <2>1, <2>2, <2>3, CheckpointNamed
  <2>5. ASSUME NEW j \in added' \ added, j.scan = s
        PROVE  NamedTo(s, j.query, j.page - 1)' /\ j \in ready'
    <3>1. PICK q : j = [scan |-> t, query |-> q, depth |-> 0, split |-> FALSE,
                        page |-> IF q \in DOMAIN scan[t].pages THEN scan[t].pages[q] + 1
                                 ELSE ResumePageFor(t, q)]
      BY <1>2 DEF Roots
    <3>2. j.scan = t /\ t = s /\ j.query = q
      BY <2>5, <3>1
    <3>3. CASE q \in DOMAIN scan[s].pages
      <4>1. scan[s].pages[q] \in Nat /\ j.page = scan[s].pages[q] + 1
        BY <1>3, <2>1, <3>1, <3>2, <3>3 DEF ScanSound, PagesDone
      <4>2. j.page - 1 = scan[s].pages[q]
        BY <4>1
      <4>3. NamedTo(s, q, scan[s].pages[q])
        BY <2>1, <3>3 DEF NamingSound, AllNamed
      <4>4. NamedTo(s, j.query, j.page - 1)
        BY <3>2, <4>2, <4>3
      <4>5. QED
        BY <1>2, <2>2, <4>4, NamedToGrows
    <3>4. CASE q \notin DOMAIN scan[s].pages
      <4>1. j.page = 1
        BY <2>1, <3>1, <3>2, <3>4 DEF ResumePageFor
      <4>2. 1 .. (j.page - 1) = {}
        BY <4>1
      <4>3. QED
        BY <1>2, <4>2 DEF NamedTo
    <3>5. QED
      BY <3>3, <3>4
  <2>6. \A j \in added : Pending(j) => Pending(j)'
    BY <1>1, <1>2, PendingStays
  <2>7. QED
    BY <1>1, <2>1, <2>2, <2>3, <2>4, <2>5, <2>6, NamingAfter
<1>5. FirstKnown' /\ Fresh' = Fresh
  BY <1>1, NamingParts DEF FirstKnown, Fresh
<1>6. QED
  BY <1>4, <1>5 DEF NamingInv, FirstKnown, Fresh

LEMMA CancelNaming ==
  ASSUME AllSound, Onward, NamingInv, NEW t \in Scan, Cancel(t) \/ Analyse(t)
  PROVE  NamingInv'
<1>1. /\ UNCHANGED <<plan, credit, added, ready, job, cut, raced>> /\ known \subseteq known'
      /\ \/ scan' = [scan EXCEPT ![t].status = "cancelled"]
         \/ \E r \in scan[t].handed : scan' = [scan EXCEPT ![t].handed = @ \ {r}]
  BY DEF Cancel, Analyse
<1>2. plan \in Plans /\ \A s \in Scan : ScanTyped(s) /\ DOMAIN scan = Scan
  BY DEF AllSound, HistorySound, ScansSound
<1>3. ASSUME NEW s \in Fresh PROVE NamingSound(s)'
  <2>1. s \in Scan /\ NamingSound(s)
    BY <1>2, FreshAre, NamingParts
  <2>2. NamesGrow(s)
    BY <1>1, NamesKept
  <2>3. scan'[s].claims = scan[s].claims /\ scan'[s].pages = scan[s].pages
    BY <1>1, <1>2, <2>1 DEF ScanTyped
  <2>4. AllNamed(s, scan[s].pages)'
    BY <2>1, <2>2, <2>3, CheckpointNamed
  <2>5. \A j \in added : Pending(j) => Pending(j)'
    BY <1>1, PendingStays
  <2>6. QED
    BY <1>1, <2>1, <2>2, <2>3, <2>4, <2>5, NamingAfter
<1>4. FirstKnown' /\ Fresh' = Fresh
  BY <1>1, NamingParts DEF FirstKnown, Fresh
<1>5. QED
  BY <1>3, <1>4 DEF NamingInv, FirstKnown, Fresh

LEMMA BeginNaming ==
  ASSUME AllSound, Onward, NamingInv, NEW w \in Worker, Begin(w)
  PROVE  NamingInv'
<1>1. PICK j, work :
        /\ j \in ready
        /\ work = [at |-> "answer", job |-> j, before |-> scan[j.scan].count, pages |-> scan[j.scan].pages,
                   todo |-> OnPage(j.query, j.page), took |-> 0, split |-> FALSE]
        /\ job[w].at = "idle" /\ ready' = ready \ {j}
        /\ \/ (scan[j.scan].status = "cancelled" \/ scan[j.scan].count >= plan.maxRepos) /\ job' = job
           \/ ~CanBeHad(j.page) /\ job' = job
           \/ job' = [job EXCEPT ![w] = work]
        /\ UNCHANGED <<plan, known, credit, scan, added, faults, cut, raced>>
  BY DEF Begin
<1>2. /\ plan \in Plans /\ j \in added /\ JobTyped(j) /\ j.scan \in Scan /\ DOMAIN job = Worker
      /\ j.page \in Nat \ {0}
  BY <1>1 DEF AllSound, HistorySound, QueueSound, JobTyped, WorkersSound, Asked
<1>3. /\ work.at = "answer" /\ work.job = j /\ work.pages = scan[j.scan].pages
      /\ work.todo = OnPage(j.query, j.page)
  BY <1>1
<1>4. ASSUME NEW s \in Fresh PROVE NamingSound(s)'
  <2>1. s \in Scan /\ NamingSound(s)
    BY <1>2, FreshAre, NamingParts
  <2>2. NamesGrow(s)
    <3>1. \A u \in Worker : job[u].at = "record" => job'[u] = job[u]
      BY <1>1, <1>2
    <3>2. QED
      BY <1>1, <3>1, NamesKept
  <2>3. AllNamed(s, scan[s].pages)'
    BY <1>1, <2>1, <2>2, CheckpointNamed
  <2>4. ASSUME j.scan = s
        PROVE  Pending(j)' \/ ~Clean(s)' \/ OnPage(j.query, j.page) \subseteq Named(s)'
    <3>1. CASE scan[j.scan].status = "cancelled"
      BY <1>1, <2>4, <3>1 DEF Clean
    <3>2. CASE scan[j.scan].count >= plan.maxRepos
      <4>1. scan[j.scan].count \in Nat /\ scan[j.scan].count >= scan[j.scan].count
        BY <1>2, CountIs DEF AllSound, ScansSound
      <4>2. ~Clean(j.scan)
        BY <1>2, <3>2, <4>1, FullIsUnclean
      <4>3. QED
        BY <1>2, <2>4, <4>2 DEF Onward
    <3>3. CASE ~CanBeHad(j.page)
      BY <1>2, <3>3, PastIsEmpty
    <3>4. CASE job' = [job EXCEPT ![w] = work]
      BY <1>2, <1>3, <3>4 DEF Pending
    <3>5. QED
      BY <1>1, <3>1, <3>2, <3>3, <3>4
  <2>5. \A i \in added : Pending(i) => i = j \/ Pending(i)'
    BY <1>1, <1>2 DEF Pending
  <2>6. WorkNamed(s, work)'
    <3>1. SUFFICES ASSUME j.scan = s
                   PROVE  /\ AllNamed(s, work.pages)'
                          /\ OnPage(j.query, j.page)' \ work.todo \subseteq Named(s)'
      BY <1>3 DEF WorkNamed
    <3>2. AllNamed(s, work.pages)
      BY <1>3, <2>1, <3>1 DEF NamingSound
    <3>3. AllNamed(s, work.pages)'
      BY <2>2, <3>2, AllNamedGrows
    <3>4. OnPage(j.query, j.page)' = work.todo
      BY <1>1, <1>3 DEF OnPage
    <3>5. QED
      BY <3>3, <3>4
  <2>7. \A u \in Worker : job'[u] = job[u] \/ WorkNamed(s, job[u])'
    BY <1>1, <1>2, <2>6
  <2>8. QED
    BY <1>1, <2>1, <2>2, <2>3, <2>4, <2>5, <2>7, NamingAfter
<1>5. FirstKnown' /\ Fresh' = Fresh
  BY <1>1, NamingParts DEF FirstKnown, Fresh
<1>6. QED
  BY <1>4, <1>5 DEF NamingInv, FirstKnown, Fresh

LEMMA SplitNaming ==
  ASSUME AllSound, Onward, NamingInv, NEW w \in Worker, Split(w)
  PROVE  NamingInv'
<1>1. PICK j, kids, js :
        j = job[w].job /\ kids = Children(j)
        /\ js = {[k EXCEPT !.page = ResumePageFor(k.scan, k.query)] : k \in kids}
  OBVIOUS
<1>2. /\ job[w].at = "answer" /\ Enqueue(js)
      /\ job' = [job EXCEPT ![w].at = "item", ![w].split = kids # {}]
      /\ UNCHANGED <<plan, known, credit, cursor, scan, faults, cut, raced>>
  BY <1>1 DEF Split
<1>3. /\ plan \in Plans /\ JobTyped(j) /\ DOMAIN job = Worker
      /\ DOMAIN job[w] = {"at", "job", "before", "pages", "todo", "took", "split"}
  BY <1>1, <1>2, WorkIs DEF AllSound, HistorySound, WorkersSound
<1>4. PICK work : work = job'[w]
  OBVIOUS
<1>5. /\ StepsTo(w, work) /\ work.at = "item" /\ work.job = j
      /\ work.pages = job[w].pages /\ work.todo = job[w].todo
  BY <1>1, <1>2, <1>3, <1>4 DEF StepsTo
<1>6. added \subseteq added' /\ ready \subseteq ready' /\ \A i \in added' \ added : i \in js /\ i \in ready'
  BY <1>2, Enqueued
<1>7. ASSUME NEW i \in js, i.scan \notin Continue PROVE i.page = 1
  <2>1. PICK k \in kids : i = [k EXCEPT !.page = ResumePageFor(k.scan, k.query)]
    BY <1>1
  <2>2. DOMAIN k = {"scan", "query", "depth", "split", "page"}
    BY <1>1, <1>3 DEF Children, JobTyped
  <2>3. i.scan = k.scan /\ i.page = ResumePageFor(k.scan, k.query)
    BY <2>1, <2>2
  <2>4. QED
    BY <1>7, <2>3 DEF ResumePageFor
<1>8. ASSUME NEW s \in Fresh PROVE NamingSound(s)'
  <2>1. s \in Scan /\ s \notin Continue /\ NamingSound(s)
    BY <1>3, FreshAre, NamingParts
  <2>2. NamesGrow(s)
    <3>1. \A u \in Worker : job[u].at = "record" => job'[u] = job[u]
      BY <1>2, <1>3
    <3>2. QED
      BY <1>2, <3>1, NamesKept
  <2>3. AllNamed(s, scan[s].pages)'
    BY <1>2, <2>1, <2>2, CheckpointNamed
  <2>4. ASSUME NEW i \in added' \ added, i.scan = s
        PROVE  NamedTo(s, i.query, i.page - 1)' /\ i \in ready'
    <3>1. i.page = 1
      BY <1>6, <1>7, <2>1, <2>4
    <3>2. 1 .. (i.page - 1) = {}
      BY <3>1
    <3>3. QED
      BY <1>6, <3>2 DEF NamedTo
  <2>5. \A i \in added : Pending(i) => Pending(i)'
    BY <1>1, <1>5, <1>6, PendingStays DEF StepsTo
  <2>6. WorkNamed(s, work)'
    <3>1. WorkNamed(s, work)
      BY <1>1, <1>2, <1>5, <2>1, WorksNamed DEF WorkNamed
    <3>2. QED
      BY <2>2, <3>1, WorkNamedGrows
  <2>7. \A u \in Worker : job'[u] = job[u] \/ WorkNamed(s, job[u])'
    BY <1>5, <2>6 DEF StepsTo
  <2>8. QED
    BY <1>2, <2>1, <2>2, <2>3, <2>4, <2>5, <2>7, NamingAfter
<1>9. FirstKnown' /\ Fresh' = Fresh
  BY <1>2, NamingParts DEF FirstKnown, Fresh
<1>10. QED
  BY <1>8, <1>9 DEF NamingInv, FirstKnown, Fresh

LEMMA LookNaming ==
  ASSUME AllSound, Onward, NamingInv, NEW w \in Worker, Look(w)
  PROVE  NamingInv'
<1>1. PICK t, r : t = job[w].job.scan /\ r = Item(w)
  OBVIOUS
<1>2. /\ job[w].at = "item" /\ job[w].todo # {}
      /\ \/ job' = [job EXCEPT ![w].todo = {}] /\ cut' = cut \cup job[w].todo /\ UNCHANGED credit
         \/ r \in Outside /\ Drop(w) /\ UNCHANGED <<credit, cut>>
         \/ t \in plan.only /\ Noted(t, r) /\ Drop(w) /\ UNCHANGED cut
         \/ job' = [job EXCEPT ![w].at = "claim"] /\ cut \subseteq cut' /\ UNCHANGED credit
         \/ /\ ~MayClaim(t, r) /\ Drop(w) /\ UNCHANGED credit
            /\ cut' = IF Capped(t, r) THEN cut \cup {r} ELSE cut
      /\ UNCHANGED <<plan, known, cursor, scan, added, ready, faults, raced>>
  BY <1>1 DEF Look
<1>3. /\ plan \in Plans /\ DOMAIN job = Worker /\ t \in Scan
      /\ DOMAIN job[w] = {"at", "job", "before", "pages", "todo", "took", "split"}
      /\ credit \in [Repo -> [first : Brands \cup {"none"}, also : SUBSET Brands]]
  BY <1>1, <1>2, WorkIs DEF AllSound, HistorySound, WorkersSound, JobTyped
<1>4. r \in job[w].todo /\ r \in Repo
  BY <1>1, <1>2, ItemIs DEF AllSound
<1>5. PICK work : work = job'[w]
  OBVIOUS
<1>6. /\ StepsTo(w, work) /\ work.at \in {"item", "claim"} /\ work.job = job[w].job
      /\ work.pages = job[w].pages
      /\ \/ work.todo = {} /\ cut' = cut \cup job[w].todo
         \/ /\ work.todo = job[w].todo \ {r}
            /\ \/ r \in Outside
               \/ t \in plan.only /\ Noted(t, r)
               \/ ~MayClaim(t, r) /\ cut' = IF Capped(t, r) THEN cut \cup {r} ELSE cut
         \/ work.todo = job[w].todo
  BY <1>2, <1>3, <1>5 DEF StepsTo, Drop
<1>7. cut \subseteq cut' /\ (UNCHANGED credit \/ Noted(t, r))
  BY <1>2
<1>8. \A x \in Repo : credit'[x].first = credit[x].first /\ credit[x].also \subseteq credit'[x].also
  <2>1. CASE UNCHANGED credit
    BY <2>1
  <2>2. CASE Noted(t, r)
    <3>1. PICK also : also = IF credit[r].first = t THEN credit[r].also ELSE credit[r].also \cup {t}
      OBVIOUS
    <3>2. credit' = [credit EXCEPT ![r].also = also]
      BY <2>2, <3>1 DEF Noted
    <3>3. QED
      BY <1>3, <3>1, <3>2
  <2>3. QED
    BY <1>7, <2>1, <2>2
<1>9. ASSUME Noted(t, r) PROVE Names(t, r)'
  <2>1. PICK also : also = IF credit[r].first = t THEN credit[r].also ELSE credit[r].also \cup {t}
    OBVIOUS
  <2>2. credit' = [credit EXCEPT ![r].also = also]
    BY <1>9, <2>1 DEF Noted
  <2>3. credit'[r].first = credit[r].first /\ credit'[r].also = also
    BY <1>3, <1>4, <2>2
  <2>4. QED
    BY <2>1, <2>3 DEF Names
<1>10. ASSUME NEW s \in Fresh PROVE NamingSound(s)'
  <2>1. s \in Scan /\ NamingSound(s)
    BY <1>3, FreshAre, NamingParts
  <2>2. NamesGrow(s)
    <3>1. \A u \in Worker : job[u].at = "record" => job'[u] = job[u]
      BY <1>2, <1>6 DEF StepsTo
    <3>2. \A x \in Repo : Names(s, x) => Names(s, x)'
      BY <1>8 DEF Names
    <3>3. QED
      BY <1>2, <1>7, <3>1, <3>2, NamesStay
  <2>3. AllNamed(s, scan[s].pages)'
    BY <1>2, <2>1, <2>2, CheckpointNamed
  <2>4. ASSUME t = s PROVE job[w].todo \ work.todo \subseteq Named(s)'
    <3>1. cut' \cup Outside \subseteq Named(s)' /\ Named(s) \subseteq Named(s)'
      BY <2>2 DEF Named, NamesGrow
    <3>2. CASE work.todo = {} /\ cut' = cut \cup job[w].todo
      BY <3>1, <3>2
    <3>3. CASE Noted(t, r) /\ work.todo = job[w].todo \ {r}
      <4>1. r \in Named(s)'
        BY <1>4, <1>9, <2>4, <3>3 DEF Names, Named
      <4>2. QED
        BY <3>3, <4>1
    <3>4. CASE /\ work.todo = job[w].todo \ {r} /\ ~MayClaim(t, r)
               /\ cut' = IF Capped(t, r) THEN cut \cup {r} ELSE cut
      <4>1. CASE Capped(t, r)
        BY <3>1, <3>4, <4>1
      <4>2. CASE ~Capped(t, r)
        <5>1. scan[t].claims \in SUBSET Repo
          BY <1>3 DEF AllSound, ScansSound, ScanTyped
        <5>2. Cardinality(scan[t].claims) \in Nat /\ plan.maxRepos \in Nat
          BY <1>3, <5>1, Repos, PlanOK
        <5>3. r \in scan[t].claims
          BY <3>4, <4>2, <5>2 DEF Capped, MayClaim
        <5>4. r \in Named(s)
          BY <2>1, <2>4, <5>3 DEF NamingSound
        <5>5. QED
          BY <3>1, <3>4, <5>4
      <4>3. QED
        BY <4>1, <4>2
    <3>5. CASE r \in Outside /\ work.todo = job[w].todo \ {r}
      BY <3>1, <3>5
    <3>6. CASE work.todo = job[w].todo
      BY <3>6
    <3>7. QED
      BY <1>6, <3>2, <3>3, <3>4, <3>5, <3>6
  <2>5. QED
    BY <1>1, <1>2, <1>6, <2>1, <2>2, <2>3, <2>4, PageNaming
<1>11. FirstKnown' /\ Fresh' = Fresh
  BY <1>2, <1>8, NamingParts DEF FirstKnown, Fresh
<1>12. QED
  BY <1>10, <1>11 DEF NamingInv, FirstKnown, Fresh

LEMMA ClaimNaming ==
  ASSUME AllSound, Onward, NamingInv, NEW w \in Worker, Claim(w)
  PROVE  NamingInv'
<1>1. PICK t, r : t = job[w].job.scan /\ r = Item(w)
  OBVIOUS
<1>2. /\ job[w].at = "claim"
      /\ \/ r \in scan[t].claims /\ job' = [job EXCEPT ![w].at = "item", ![w].todo = @ \ {r}] /\ scan' = scan
         \/ job' = [job EXCEPT ![w].at = "record"] /\ scan' = [scan EXCEPT ![t].claims = @ \cup {r}]
      /\ UNCHANGED <<plan, known, credit, cursor, added, ready, faults, cut, raced>>
  BY <1>1 DEF Claim, Drop
<1>3. /\ plan \in Plans /\ DOMAIN job = Worker /\ t \in Scan
      /\ DOMAIN job[w] = {"at", "job", "before", "pages", "todo", "took", "split"}
      /\ \A s \in Scan : ScanTyped(s) /\ DOMAIN scan = Scan
  BY <1>1, <1>2, WorkIs DEF AllSound, HistorySound, WorkersSound, JobTyped, ScansSound
<1>4. PICK work : work = job'[w]
  OBVIOUS
<1>5. /\ StepsTo(w, work) /\ work.at \in {"item", "record"} /\ work.job = job[w].job
      /\ work.pages = job[w].pages
      /\ \/ r \in scan[t].claims /\ work.todo = job[w].todo \ {r} /\ scan' = scan
         \/ /\ work.at = "record" /\ work.todo = job[w].todo
            /\ scan' = [scan EXCEPT ![t].claims = @ \cup {r}]
  BY <1>2, <1>3, <1>4 DEF StepsTo
<1>6. ASSUME NEW s \in Fresh PROVE NamingSound(s)'
  <2>1. s \in Scan /\ NamingSound(s)
    BY <1>3, FreshAre, NamingParts
  <2>2. NamesGrow(s)
    <3>1. \A u \in Worker : job[u].at = "record" => job'[u] = job[u]
      BY <1>2, <1>5 DEF StepsTo
    <3>2. QED
      BY <1>2, <3>1, NamesKept
  <2>3. /\ scan'[s].pages = scan[s].pages
        /\ scan'[s].claims = scan[s].claims \/ (t = s /\ scan'[s].claims = scan[s].claims \cup {r}
                                                /\ work.at = "record" /\ work.todo = job[w].todo)
    BY <1>3, <1>5, <2>1 DEF ScanTyped
  <2>4. AllNamed(s, scan[s].pages)'
    BY <2>1, <2>2, <2>3, CheckpointNamed
  <2>5. ASSUME t = s, work.at = "record", work.todo = job[w].todo PROVE r \in Named(s)'
    <3>1. Item(w)' = r
      BY <1>1, <1>4, <2>5, SameItem
    <3>2. w \in At("record", s)'
      BY <1>1, <1>4, <1>5, <2>5 DEF At
    <3>3. Item(w)' \in Named(s)'
      BY <3>2 DEF Named
    <3>4. QED
      BY <3>1, <3>3
  <2>6. scan'[s].claims \subseteq scan[s].claims \cup Named(s)'
    BY <2>3, <2>5
  <2>7. t = s => job[w].todo \ work.todo \subseteq Named(s)'
    <3>1. CASE r \in scan[t].claims /\ work.todo = job[w].todo \ {r}
      BY <2>1, <2>2, <3>1 DEF NamingSound, NamesGrow
    <3>2. CASE work.todo = job[w].todo
      BY <3>2
    <3>3. QED
      BY <1>5, <3>1, <3>2
  <2>8. QED
    BY <1>1, <1>2, <1>5, <2>1, <2>2, <2>4, <2>6, <2>7, PageNaming
<1>7. FirstKnown' /\ Fresh' = Fresh
  BY <1>2, NamingParts DEF FirstKnown, Fresh
<1>8. QED
  BY <1>6, <1>7 DEF NamingInv, FirstKnown, Fresh

LEMMA RecordNaming ==
  ASSUME AllSound, Onward, NamingInv, NEW w \in Worker, Record(w)
  PROVE  NamingInv'
<1>1. PICK t, r, handed :
        t = job[w].job.scan /\ r = Item(w)
        /\ handed = IF t \in plan.only THEN scan[t].handed ELSE scan[t].handed \cup {r}
  OBVIOUS
<1>2. /\ job[w].at = "record"
      /\ \/ /\ t \in plan.only /\ known' = known \cup {r}
            /\ credit' = [credit EXCEPT ![r].first = t]
            /\ raced' = IF r \in known THEN raced \cup {r} ELSE raced
         \/ t \notin plan.only /\ UNCHANGED <<known, credit, raced>>
      /\ scan' = [scan EXCEPT ![t].count = @ + 1, ![t].found = @ \cup {r}, ![t].handed = handed]
      /\ job' = [job EXCEPT ![w].at = "item", ![w].todo = @ \ {r}, ![w].took = @ + 1]
      /\ UNCHANGED <<plan, cursor, added, ready, faults, cut>>
  <2>1. scan' = [scan EXCEPT ![t].count = @ + 1, ![t].found = @ \cup {r}, ![t].handed = handed]
    BY <1>1 DEF Record
  <2>2. QED
    BY <1>1, <2>1 DEF Record
<1>3. /\ plan \in Plans /\ DOMAIN job = Worker /\ t \in Scan
      /\ DOMAIN job[w] = {"at", "job", "before", "pages", "todo", "took", "split"}
      /\ credit \in [Repo -> [first : Brands \cup {"none"}, also : SUBSET Brands]]
      /\ \A s \in Scan : ScanTyped(s) /\ DOMAIN scan = Scan
  BY <1>1, <1>2, WorkIs DEF AllSound, HistorySound, WorkersSound, JobTyped, ScansSound
<1>4. r \in Repo
  <2>1. job[w].todo # {}
    BY <1>2, WorkIs DEF WorkSound
  <2>2. QED
    BY <1>1, <1>2, <2>1, ItemIs DEF AllSound
<1>5. PICK work : work = job'[w]
  OBVIOUS
<1>6. /\ StepsTo(w, work) /\ work.at = "item" /\ work.job = job[w].job
      /\ work.pages = job[w].pages /\ work.todo = job[w].todo \ {r}
  BY <1>2, <1>3, <1>5 DEF StepsTo
<1>7. raced \subseteq raced' /\ known \subseteq known'
  BY <1>2
<1>8. ASSUME t \in plan.only
      PROVE  /\ credit'[r].first = t /\ r \in known' /\ (r \in known => r \in raced')
             /\ \A x \in Repo : credit'[x].also = credit[x].also
             /\ \A x \in Repo \ {r} : credit'[x].first = credit[x].first
  BY <1>2, <1>3, <1>4, <1>8
<1>9. FirstKnown
  BY NamingParts
<1>10. ASSUME NEW s \in Fresh PROVE NamingSound(s)'
  <2>1. s \in Scan /\ NamingSound(s) /\ s # "none" /\ s \in plan.only
    BY <1>3, FreshAre, NamingParts
  <2>2. t = s => r \in Named(s)'
    BY <1>4, <1>8, <2>1 DEF Named
  <2>3. NamesGrow(s)
    <3>1. ASSUME NEW x \in Repo, Names(s, x) PROVE Names(s, x)' \/ x \in raced'
      <4>1. CASE t \notin plan.only
        BY <1>2, <3>1, <4>1 DEF Names
      <4>2. CASE t \in plan.only /\ x # r
        BY <1>8, <3>1, <4>2 DEF Names
      <4>3. CASE t \in plan.only /\ x = r /\ credit[x].first = s
        <5>1. r \in known
          BY <1>4, <1>9, <2>1, <4>3 DEF FirstKnown
        <5>2. QED
          BY <1>8, <4>3, <5>1
      <4>4. CASE t \in plan.only /\ x = r /\ s \in credit[x].also
        BY <1>8, <4>4 DEF Names
      <4>5. QED
        BY <3>1, <4>1, <4>2, <4>3, <4>4 DEF Names
    <3>2. ASSUME NEW u \in Worker, job[u].at = "record", job[u].job.scan = s
          PROVE  job'[u] = job[u] \/ Item(u) \in Named(s)'
      BY <1>1, <1>6, <2>2, <3>2 DEF StepsTo
    <3>3. QED
      BY <1>2, <1>7, <3>1, <3>2, NamesStay
  <2>4. scan'[s].claims = scan[s].claims /\ scan'[s].pages = scan[s].pages
    BY <1>2, <1>3, <2>1 DEF ScanTyped
  <2>5. AllNamed(s, scan[s].pages)'
    BY <2>1, <2>3, <2>4, CheckpointNamed
  <2>6. t = s => job[w].todo \ work.todo \subseteq Named(s)'
    BY <1>6, <2>2
  <2>7. QED
    BY <1>1, <1>2, <1>6, <2>1, <2>3, <2>4, <2>5, <2>6, PageNaming
<1>11. FirstKnown'
  <2>1. ASSUME NEW x \in Repo, credit'[x].first # "none" PROVE x \in known'
    BY <1>2, <1>7, <1>8, <1>9, <2>1 DEF FirstKnown
  <2>2. QED
    BY <2>1 DEF FirstKnown
<1>12. Fresh' = Fresh
  BY <1>2 DEF Fresh
<1>13. QED
  BY <1>10, <1>11, <1>12 DEF NamingInv, FirstKnown, Fresh

\* A job through with its page has named what is on it.
LEMMA PageNamed ==
  ASSUME AllSound, NEW s, NamingSound(s), NEW w \in Worker, job[w].at # "idle", job[w].todo = {},
         NEW j, j = job[w].job, j.scan = s
  PROVE  j.page \in Nat \ {0} /\ NamedTo(s, j.query, j.page) /\ OnPage(j.query, j.page) \subseteq Named(s)
<1>1. j.page \in Nat \ {0} /\ j \in added
  BY WorkIs DEF JobTyped, Asked
<1>2. NamedTo(s, j.query, j.page - 1) /\ OnPage(j.query, j.page) \subseteq Named(s)
  BY <1>1 DEF NamingSound
<1>3. \A page \in 1 .. j.page : page = j.page \/ page \in 1 .. (j.page - 1)
  BY <1>1
<1>4. QED
  BY <1>1, <1>2, <1>3 DEF NamedTo

LEMMA BookmarkNaming ==
  ASSUME AllSound, Onward, NamingInv, NEW w \in Worker, Bookmark(w)
  PROVE  NamingInv'
<1>1. PICK j, t, pages : j = job[w].job /\ t = j.scan /\ pages = Put(job[w].pages, j.query, j.page)
  OBVIOUS
<1>2. /\ job[w].at = "item" /\ job[w].todo = {} /\ job' = [job EXCEPT ![w].at = "next"]
      /\ scan' = [scan EXCEPT ![t].pages = pages]
      /\ UNCHANGED <<plan, known, credit, added, ready, faults, cut, raced>>
  BY <1>1 DEF Bookmark
<1>3. /\ plan \in Plans /\ DOMAIN job = Worker /\ t \in Scan
      /\ DOMAIN job[w] = {"at", "job", "before", "pages", "todo", "took", "split"}
      /\ \A s \in Scan : ScanTyped(s) /\ DOMAIN scan = Scan
  BY <1>1, <1>2, WorkIs DEF AllSound, HistorySound, WorkersSound, JobTyped, ScansSound
<1>4. PICK work : work = job'[w]
  OBVIOUS
<1>5. /\ StepsTo(w, work) /\ work.at = "next" /\ work.job = j
      /\ work.pages = job[w].pages /\ work.todo = job[w].todo
  BY <1>1, <1>2, <1>3, <1>4 DEF StepsTo
<1>6. ASSUME NEW s \in Fresh PROVE NamingSound(s)'
  <2>1. s \in Scan /\ NamingSound(s)
    BY <1>3, FreshAre, NamingParts
  <2>2. NamesGrow(s)
    <3>1. \A u \in Worker : job[u].at = "record" => job'[u] = job[u]
      BY <1>2, <1>5 DEF StepsTo
    <3>2. QED
      BY <1>2, <3>1, NamesKept
  <2>3. /\ scan'[s].claims = scan[s].claims
        /\ scan'[s].pages = IF s = t THEN pages ELSE scan[s].pages
    BY <1>2, <1>3, <2>1 DEF ScanTyped
  <2>4. AllNamed(s, scan[s].pages)'
    <3>1. CASE s # t
      BY <2>1, <2>2, <2>3, <3>1, CheckpointNamed
    <3>2. CASE s = t
      <4>1. NamedTo(s, j.query, j.page) /\ AllNamed(s, job[w].pages)
        BY <1>1, <1>2, <2>1, <3>2, PageNamed DEF NamingSound
      <4>2. /\ DOMAIN pages = DOMAIN job[w].pages \cup {j.query} /\ pages[j.query] = j.page
            /\ \A x \in DOMAIN job[w].pages : x # j.query => pages[x] = job[w].pages[x]
        BY <1>1 DEF Put
      <4>3. AllNamed(s, pages)
        BY <4>1, <4>2 DEF AllNamed
      <4>4. AllNamed(s, pages)'
        BY <2>2, <4>3, AllNamedGrows
      <4>5. QED
        BY <2>3, <3>2, <4>4
    <3>3. QED
      BY <3>1, <3>2
  <2>5. QED
    BY <1>1, <1>2, <1>5, <2>1, <2>2, <2>3, <2>4, PageNaming
<1>7. FirstKnown' /\ Fresh' = Fresh
  BY <1>2, NamingParts DEF FirstKnown, Fresh
<1>8. QED
  BY <1>6, <1>7 DEF NamingInv, FirstKnown, Fresh

LEMMA NextPageNaming ==
  ASSUME AllSound, Onward, NamingInv, NEW w \in Worker, NextPage(w)
  PROVE  NamingInv'
<1>1. PICK j, next : j = job[w].job /\ next = [j EXCEPT !.page = @ + 1]
  OBVIOUS
<1>2. /\ job[w].at = "next" /\ job' = [job EXCEPT ![w] = Idle]
      /\ Enqueue({next}) \/ UNCHANGED <<added, ready>>
      /\ UNCHANGED <<plan, known, credit, cursor, scan, faults, cut, raced>>
  BY <1>1 DEF NextPage, Done
<1>3. /\ plan \in Plans /\ JobTyped(j) /\ DOMAIN job = Worker /\ job[w].todo = {}
  BY <1>1, <1>2, WorkIs DEF AllSound, HistorySound, WorkersSound, WorkSound
<1>4. next.scan = j.scan /\ next.query = j.query /\ next.page = j.page + 1
  BY <1>1, <1>3 DEF JobTyped
<1>5. added \subseteq added' /\ ready \subseteq ready' /\ \A i \in added' \ added : i = next /\ i \in ready'
  <2>1. CASE Enqueue({next})
    BY <2>1, Enqueued
  <2>2. CASE UNCHANGED <<added, ready>>
    BY <2>2
  <2>3. QED
    BY <1>2, <2>1, <2>2
<1>6. ASSUME NEW s \in Fresh PROVE NamingSound(s)'
  <2>1. s \in Scan /\ NamingSound(s)
    BY <1>3, FreshAre, NamingParts
  <2>2. NamesGrow(s)
    <3>1. \A u \in Worker : job[u].at = "record" => job'[u] = job[u]
      BY <1>2, <1>3
    <3>2. QED
      BY <1>2, <3>1, NamesKept
  <2>3. AllNamed(s, scan[s].pages)'
    BY <1>2, <2>1, <2>2, CheckpointNamed
  <2>4. ASSUME j.scan = s
        PROVE  /\ j.page \in Nat /\ NamedTo(s, j.query, j.page)'
               /\ OnPage(j.query, j.page) \subseteq Named(s)'
    <3>1. j.page \in Nat /\ NamedTo(s, j.query, j.page) /\ OnPage(j.query, j.page) \subseteq Named(s)
      BY <1>1, <1>2, <1>3, <2>1, <2>4, PageNamed
    <3>2. QED
      BY <2>2, <3>1, NamedToGrows DEF NamesGrow
  <2>5. ASSUME NEW i \in added' \ added, i.scan = s
        PROVE  NamedTo(s, i.query, i.page - 1)' /\ i \in ready'
    <3>1. i.query = j.query /\ i.page = j.page + 1 /\ j.scan = s /\ i \in ready'
      BY <1>4, <1>5, <2>5
    <3>2. i.page - 1 = j.page
      BY <2>4, <3>1
    <3>3. QED
      BY <2>4, <3>1, <3>2 DEF NamedTo
  <2>6. \A i \in added : Pending(i) => i = j \/ Pending(i)'
    BY <1>1, <1>2, <1>3, <1>5 DEF Pending
  <2>7. \A u \in Worker : job'[u] = job[u] \/ WorkNamed(s, job[u])'
    BY <1>2, <1>3 DEF WorkNamed, Idle
  <2>8. QED
    BY <1>2, <2>1, <2>2, <2>3, <2>4, <2>5, <2>6, <2>7, NamingAfter
<1>7. FirstKnown' /\ Fresh' = Fresh
  BY <1>2, NamingParts DEF FirstKnown, Fresh
<1>8. QED
  BY <1>6, <1>7 DEF NamingInv, FirstKnown, Fresh

LEMMA FailNaming ==
  ASSUME AllSound, Onward, NamingInv, NEW w \in Worker, Fail(w)
  PROVE  NamingInv'
<1>1. PICK j : j = job[w].job
  OBVIOUS
<1>2. /\ job[w].at # "idle" /\ job' = [job EXCEPT ![w] = Idle]
      /\ \/ ready' = ready \cup {j} /\ UNCHANGED scan
         \/ scan' = [scan EXCEPT ![j.scan].hurt = TRUE] /\ UNCHANGED ready
      /\ cut' = IF job[w].at = "record" THEN cut \cup {Item(w)} ELSE cut
      /\ UNCHANGED <<plan, known, credit, cursor, added, raced>>
  BY <1>1 DEF Fail, Done
<1>3. /\ plan \in Plans /\ DOMAIN job = Worker /\ j.scan \in Scan
      /\ \A s \in Scan : ScanTyped(s) /\ DOMAIN scan = Scan
  BY <1>1, <1>2, WorkIs DEF AllSound, HistorySound, WorkersSound, ScansSound, JobTyped
<1>4. Pending(j)' \/ ~Clean(j.scan)'
  <2>1. CASE ready' = ready \cup {j}
    BY <2>1 DEF Pending
  <2>2. CASE scan' = [scan EXCEPT ![j.scan].hurt = TRUE]
    BY <1>3, <2>2 DEF Clean, ScanTyped
  <2>3. QED
    BY <1>2, <2>1, <2>2
<1>5. ASSUME NEW s \in Fresh PROVE NamingSound(s)'
  <2>1. s \in Scan /\ NamingSound(s)
    BY <1>3, FreshAre, NamingParts
  <2>2. NamesGrow(s)
    <3>1. ASSUME NEW u \in Worker, job[u].at = "record", job[u].job.scan = s
          PROVE  job'[u] = job[u] \/ Item(u) \in Named(s)'
      <4>1. CASE u = w
        BY <1>2, <3>1, <4>1 DEF Named
      <4>2. CASE u # w
        BY <1>2, <1>3, <4>2
      <4>3. QED
        BY <4>1, <4>2
    <3>2. \A x \in Repo : Names(s, x) => Names(s, x)'
      BY <1>2 DEF Names
    <3>3. cut \subseteq cut' /\ raced' = raced
      BY <1>2
    <3>4. QED
      BY <1>2, <3>1, <3>2, <3>3, NamesStay
  <2>3. scan'[s].claims = scan[s].claims /\ scan'[s].pages = scan[s].pages
    BY <1>2, <1>3, <2>1 DEF ScanTyped
  <2>4. AllNamed(s, scan[s].pages)'
    BY <2>1, <2>2, <2>3, CheckpointNamed
  <2>5. \A i \in added : Pending(i) => i = j \/ Pending(i)'
    BY <1>1, <1>2, <1>3 DEF Pending
  <2>6. \A u \in Worker : job'[u] = job[u] \/ WorkNamed(s, job[u])'
    BY <1>2, <1>3 DEF WorkNamed, Idle
  <2>7. QED
    BY <1>2, <1>4, <2>1, <2>2, <2>3, <2>4, <2>5, <2>6, NamingAfter
<1>6. FirstKnown' /\ Fresh' = Fresh
  BY <1>2, NamingParts DEF FirstKnown, Fresh
<1>7. QED
  BY <1>5, <1>6 DEF NamingInv, FirstKnown, Fresh

LEMMA StutterNaming ==
  ASSUME AllSound, Onward, NamingInv, UNCHANGED vars
  PROVE  NamingInv'
<1>1. UNCHANGED <<plan, known, credit, cursor, scan, added, ready, job, faults, cut, raced>>
  BY DEF vars
<1>2. plan \in Plans
  BY DEF AllSound, HistorySound
<1>3. ASSUME NEW s \in Fresh PROVE NamingSound(s)'
  <2>1. s \in Scan /\ NamingSound(s)
    BY <1>2, FreshAre, NamingParts
  <2>2. NamesGrow(s)
    BY <1>1, NamesKept
  <2>3. AllNamed(s, scan[s].pages)'
    BY <1>1, <2>1, <2>2, CheckpointNamed
  <2>4. \A j \in added : Pending(j) => Pending(j)'
    BY <1>1, PendingStays
  <2>5. QED
    BY <1>1, <2>1, <2>2, <2>3, <2>4, NamingAfter
<1>4. FirstKnown' /\ Fresh' = Fresh
  BY <1>1, NamingParts DEF FirstKnown, Fresh
<1>5. QED
  BY <1>3, <1>4 DEF NamingInv, FirstKnown, Fresh

LEMMA NextNaming ==
  ASSUME AllSound, PagingInv, NamingInv, [Next]_vars
  PROVE  NamingInv'
<1>1. Onward
  BY NextPaging
<1>2. ASSUME NEW s \in Scan, Start(s) \/ Restart(s) \/ Cancel(s) \/ Analyse(s)
      PROVE  NamingInv'
  BY <1>1, <1>2, StartNaming, CancelNaming
<1>3. ASSUME NEW w \in Worker,
             \/ Begin(w) \/ Split(w) \/ Look(w) \/ Claim(w)
             \/ Record(w) \/ Bookmark(w) \/ NextPage(w) \/ Fail(w)
      PROVE  NamingInv'
  BY <1>1, <1>3, BeginNaming, SplitNaming, LookNaming, ClaimNaming, RecordNaming, BookmarkNaming,
     NextPageNaming, FailNaming
<1>4. QED
  BY <1>1, <1>2, <1>3, StutterNaming DEF Next

LEMMA InitNaming ==
  ASSUME Init
  PROVE  NamingInv
<1>1. plan \in Plans
  BY DEF Init
<1>2. ASSUME NEW s \in Fresh PROVE NamingSound(s)
  <2>1. s \in Scan
    BY <1>1, FreshAre
  <2>2. scan[s].claims = {} /\ scan[s].pages = <<>> /\ added = {}
    BY <2>1 DEF Init
  <2>3. \A w \in Worker : job[w].at = "idle"
    BY DEF Init, Idle
  <2>4. QED
    BY <2>2, <2>3 DEF NamingSound, AllNamed
<1>3. FirstKnown
  BY DEF Init, FirstKnown, Nobody
<1>4. QED
  BY <1>2, <1>3, NamingParts

LEMMA RestNamesAll ==
  ASSUME AllSound, PagingInv, NamingInv
  PROVE  EveryBrandNamed
<1>1. SUFFICES ASSUME AtRest, NEW s \in Fresh, scan[s].status # "new", Clean(s),
                      NEW q \in plan.root[s],
                      NEW r \in Hits(q) \ (cut \cup raced \cup Outside \cup OutOfReach(s)),
                      ~Names(s, r)
               PROVE  FALSE
  BY DEF EveryBrandNamed, Fresh, Names
<1>2. plan \in Plans /\ \A j \in added : Asked(j.page) /\ j.page \in Nat \ {0}
  BY DEF AllSound, HistorySound, QueueSound, JobTyped, Asked
<1>3. s \in Scan /\ NamingSound(s)
  BY <1>2, FreshAre, NamingParts
<1>4. r \notin Named(s)
  <2>1. At("record", s) = {}
    BY <1>1 DEF At, AtRest
  <2>2. QED
    BY <1>1, <2>1 DEF Named, Names
<1>5. PICK root \in added : root.scan = s /\ root.query = q
  BY <1>1, <1>3 DEF PagingInv, RootsAsked
<1>6. ASSUME NEW j \in added, j.scan = s, NEW page \in 1 .. j.page
      PROVE  r \notin OnPage(j.query, page)
  <2>1. ~Pending(j)
    BY <1>1 DEF Pending, AtRest
  <2>2. NamedTo(s, j.query, j.page - 1) /\ OnPage(j.query, j.page) \subseteq Named(s)
    BY <1>1, <1>3, <1>6, <2>1 DEF NamingSound
  <2>3. page = j.page \/ page \in 1 .. (j.page - 1)
    BY <1>2, <1>6
  <2>4. QED
    BY <1>4, <2>2, <2>3 DEF NamedTo
<1>7. \A j \in added : j.scan = s => QuerySound(j) /\ Followed(j)
  BY <1>1, RestIsSettled
<1>8. PICK kind : kind = q.kind
  OBVIOUS
<1>9. \A j \in added : j.scan = s /\ j.query.kind = kind => r \notin Hits(j.query)
  BY <1>1, <1>2, <1>6, <1>7, NoneUnseen
<1>10. QED
  BY <1>1, <1>5, <1>8, <1>9

\* recordAdditionalBrandMatch: when no search job is left, every repository that such a scan's
\* queries match names the scan's brand, also those that other scans had found before it, but
\* for the ones that a cap, a failure or a race of two scans for a new repository passed over.
THEOREM EveryBrandIsNamed == Spec => []EveryBrandNamed
<1>1. Init => AllSound /\ PagingInv /\ NamingInv
  BY InitSound, InitPaging, InitNaming
<1>2. AllSound /\ PagingInv /\ NamingInv /\ [Next]_vars => AllSound' /\ PagingInv' /\ NamingInv'
  BY NextKeeps, NextPaging, NextNaming
<1>3. AllSound /\ PagingInv /\ NamingInv => EveryBrandNamed
  BY RestNamesAll
<1>4. QED
  BY <1>1, <1>2, <1>3, PTL DEF Spec
=============================================================================
