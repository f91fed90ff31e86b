------------------------------ MODULE QuotaProofs ------------------------------
(***************************************************************************)
(* The quota of a token is kept for any number of jobs, processes,         *)
(* workspaces and resources, whatever GitHub answers: types, the counters  *)
(* of running requests, the daily budget, the distance between requests    *)
(* and the time for which a pause can be missed.                           *)
(***************************************************************************)
EXTENDS GitHubQuota, FiniteSetTheorems, TLAPS

StoreTyped ==
  /\ redis \in [Key -> Nat] /\ leftover \subseteq Key
  /\ pace \in [Quota -> [slot : Int, ttl : Nat]]
  /\ budget \in [Workspace -> Nat]
  /\ running \in [Workspace \cup {Everyone} -> [count : Nat, ttl : Nat]]
  /\ DOMAIN scanMark = {ScanOf[j] : j \in Job} \ {NoScan}

ProcsTyped ==
  /\ cache \in [Proc -> [Key -> CacheEntry]]
  /\ pending \in [Proc -> SUBSET Quota]
  /\ own \subseteq Workspace

JobsTyped == pc \in [Job -> Label] /\ job \in [Job -> Knowledge]

HistoryTyped ==
  /\ handed \in [Quota -> Int] /\ age \in [Key -> 0 .. CacheTtl]
  /\ lapsed \in BOOLEAN /\ faults \in 0 .. MaxFaults

LEMMA TypeParts == TypeOK <=> StoreTyped /\ ProcsTyped /\ JobsTyped /\ HistoryTyped
BY DEF TypeOK, StoreTyped, ProcsTyped, JobsTyped, HistoryTyped

-----------------------------------------------------------------------------
(* Keys, requests and what a job knows.                                     *)

LEMMA NumbersOK ==
  /\ MinInterval \in Nat \ {0} /\ RunTtl \in Nat \ {0} /\ MaxAttempts \in Nat \ {0}
  /\ DailyBudget \in Nat
  /\ MaxInlineWait \in Nat /\ CacheTtl \in Nat /\ Backoff \in Nat /\ ShortDelay \in Nat
  /\ DefaultDelay \in Nat /\ MaxWorkspace \in Nat /\ MaxGlobal \in Nat /\ MaxFaults \in Nat
BY QuotaConstantsOK DEF QuotaConstantsOK

LEMMA KeysApart ==
  ASSUME NEW s \in Scope, NEW r \in Resource
  PROVE  /\ PauseOf(s, r) \in Key /\ SnapshotOf(s, r) \in Key /\ SecondaryOf(s) \in Key
         /\ \A t \in Scope : \A q \in Resource : PauseOf(s, r) # SnapshotOf(t, q)
         /\ \A t \in Scope : PauseOf(s, r) # SecondaryOf(t)
<1>1. PauseOf(s, r) \in Key /\ SnapshotOf(s, r) \in Key /\ SecondaryOf(s) \in Key
  BY DEF Key
<1>2. \A t \in Scope : \A q \in Resource : PauseOf(s, r) # SnapshotOf(t, q)
  BY DEF PauseOf, SnapshotOf
<1>3. \A t \in Scope : PauseOf(s, r) # SecondaryOf(t)
  BY DEF PauseOf, SecondaryOf
<1>4. QED
  BY <1>1, <1>2, <1>3

LEMMA NoRequestTyped == NoRequest \in Request
<1>1. \E r \in Request : TRUE
  <2>1. PICK q \in Resource : TRUE
    BY QuotaConstantsOK DEF QuotaConstantsOK
  <2>2. [workspace |-> Everyone, resource |-> q] \in Request
    BY DEF Request
  <2>3. QED
    BY <2>2
<1>2. QED
  BY <1>1 DEF NoRequest

LEMMA BlankTyped ==
  ASSUME NEW req \in Request, NEW s \in Scope
  PROVE  Blank(req, s) \in Knowledge
<1>1. NoAnswer \in Answer /\ "idle" \in Label /\ 0 \in 0 .. MaxAttempts
  BY NumbersOK DEF NoAnswer, Answer, Label
<1>2. QED
  BY <1>1 DEF Blank, Knowledge

LEMMA DoneTyped == Done \in Knowledge
BY NoRequestTyped, BlankTyped DEF Done, Scope

\* What a job's record leads to.
LEMMA JobKeys ==
  ASSUME JobsTyped, NEW j \in Job
  PROVE  /\ job[j] \in Knowledge /\ job[j].req \in Request /\ ScopeOf(j) \in Scope
         /\ job[j].req.resource \in Resource
         /\ job[j].req.workspace \in Workspace \cup {Everyone}
         /\ MyPause(j) \in Key /\ MyQuota(j) \in Quota /\ ProcOf[j] \in Proc
         /\ Fresh(j) \in Knowledge
<1>1. job[j] \in Knowledge
  BY DEF JobsTyped
<1>2. /\ job[j].req \in Request /\ ScopeOf(j) \in Scope
      /\ job[j].req.resource \in Resource
      /\ job[j].req.workspace \in Workspace \cup {Everyone}
  BY <1>1 DEF Knowledge, Request, ScopeOf
<1>3. ProcOf[j] \in Proc
  BY QuotaConstantsOK DEF QuotaConstantsOK
<1>4. MyPause(j) \in Key /\ MyQuota(j) \in Quota
  BY <1>2, KeysApart DEF MyPause, MyQuota, Quota
<1>5. Fresh(j) \in Knowledge
  BY <1>2, BlankTyped DEF Fresh, ScopeOf
<1>6. QED
  BY <1>1, <1>2, <1>3, <1>4, <1>5

\* A job moves, and no other.
Moves(j) == \A i \in Job : i # j => pc'[i] = pc[i] /\ job'[i] = job[i]

LEMMA GoTyped ==
  ASSUME JobsTyped, NEW j \in Job, NEW l \in Label, NEW f \in Knowledge, Go(j, l, f)
  PROVE  JobsTyped' /\ Moves(j) /\ pc'[j] = l /\ job'[j] = f
BY DEF JobsTyped, Go, Moves

LEMMA ThrowTyped ==
  ASSUME JobsTyped, NEW j \in Job, NEW until \in Nat, NEW retry \in Nat,
         ThrowQuota(j, until, retry)
  PROVE  /\ JobsTyped' /\ Moves(j) /\ pc'[j] = "delay"
         /\ job'[j].req = job[j].req /\ job'[j].scope = job[j].scope
<1>1. [Fresh(j) EXCEPT !.until = until, !.retry = retry] \in Knowledge
  BY JobKeys DEF Knowledge
<1>2. /\ [Fresh(j) EXCEPT !.until = until, !.retry = retry].req = job[j].req
      /\ [Fresh(j) EXCEPT !.until = until, !.retry = retry].scope = job[j].scope
  BY DEF Fresh, Blank
<1>3. QED
  BY <1>1, <1>2, GoTyped DEF ThrowQuota, Label

LEMMA MarkTyped ==
  ASSUME StoreTyped, NEW j \in Job, NEW left, Mark(j, left) \/ UNCHANGED scanMark
  PROVE  DOMAIN scanMark' = DOMAIN scanMark
BY DEF StoreTyped, Mark

LEMMA CachedTyped ==
  ASSUME StoreTyped, ProcsTyped, NEW p \in Proc, NEW k \in Key
  PROVE  Cached(p, k) \in Nat
BY DEF StoreTyped, ProcsTyped, Cached, CacheEntry

\* A short wait is slept through, a long one is thrown.
LEMMA WaitTyped ==
  ASSUME StoreTyped, JobsTyped, NEW j \in Job, NEW left \in Nat,
         NEW next \in {"pause", "pace", "budget"}, DelayOrThrow(j, left, next)
  PROVE  /\ JobsTyped' /\ Moves(j) /\ DOMAIN scanMark' = DOMAIN scanMark
         /\ job'[j].req = job[j].req /\ job'[j].scope = job[j].scope
         /\ \/ left = 0 /\ pc'[j] = next
            \/ left > 0 /\ pc'[j] = "sleep" /\ job'[j].then = next
            \/ left > 0 /\ pc'[j] = "delay"
<1>1. CASE left = 0 /\ Step(j, next) /\ UNCHANGED scanMark
  BY <1>1, GoTyped, JobKeys DEF Step, Label
<1>2. CASE /\ left \in 1 .. MaxInlineWait /\ Mark(j, left)
           /\ Go(j, "sleep", [job[j] EXCEPT !.wait = left, !.then = next])
  <2>1. [job[j] EXCEPT !.wait = left, !.then = next] \in Knowledge
    BY JobKeys DEF Knowledge, Label
  <2>2. /\ JobsTyped' /\ Moves(j) /\ pc'[j] = "sleep"
        /\ job'[j] = [job[j] EXCEPT !.wait = left, !.then = next]
    BY <1>2, <2>1, GoTyped DEF Label
  <2>3. job[j] \in Knowledge
    BY JobKeys
  <2>4. QED
    BY <1>2, <2>2, <2>3, MarkTyped, NumbersOK DEF Knowledge
<1>3. CASE left > MaxInlineWait /\ ThrowQuota(j, left, 0) /\ Mark(j, left)
  BY <1>3, ThrowTyped, MarkTyped, NumbersOK
<1>4. QED
  BY <1>1, <1>2, <1>3 DEF DelayOrThrow

-----------------------------------------------------------------------------
(* The store and the caches.                                                *)

LEMMA LessTyped == \A n \in Nat : Less(n) \in Nat /\ Less(n) <= n
BY DEF Less

LEMMA RememberTyped ==
  ASSUME StoreTyped, ProcsTyped, NEW p \in Proc, NEW k \in Key, Remember(p, k)
  PROVE  cache' \in [Proc -> [Key -> CacheEntry]]
<1>1. Entry(redis[k]) \in CacheEntry
  BY NumbersOK DEF Entry, CacheEntry, StoreTyped
<1>2. QED
  BY <1>1 DEF Remember, ProcsTyped

LEMMA AgeTyped ==
  ASSUME HistoryTyped, NEW k \in Key, NEW left, AgeAfter(k, left)
  PROVE  age' \in [Key -> 0 .. CacheTtl]
<1>1. age[k] \in 0 .. CacheTtl /\ 0 \in 0 .. CacheTtl
  BY NumbersOK DEF HistoryTyped
<1>2. PICK n \in 0 .. CacheTtl : age' = [age EXCEPT ![k] = n]
  BY <1>1 DEF AgeAfter
<1>3. QED
  BY <1>2 DEF HistoryTyped

LEMMA PauseTyped ==
  ASSUME StoreTyped, HistoryTyped, NEW k \in Key, NEW left \in Nat, SetPause(k, left)
  PROVE  redis' \in [Key -> Nat] /\ leftover' \subseteq Key /\ age' \in [Key -> 0 .. CacheTtl]
BY AgeTyped DEF StoreTyped, SetPause

LEMMA IngestTyped ==
  ASSUME StoreTyped, ProcsTyped, JobsTyped, HistoryTyped, NEW j \in Job, Ingest(j),
         UNCHANGED own
  PROVE  /\ redis' \in [Key -> Nat] /\ leftover' \subseteq Key
         /\ age' \in [Key -> 0 .. CacheTtl] /\ ProcsTyped'
<1>1. /\ ProcOf[j] \in Proc /\ MyQuota(j) \in Quota /\ MyPause(j) \in Key
      /\ MySnapshot(j) \in Key /\ job[j].answer.reset \in Nat
  BY JobKeys, KeysApart DEF Knowledge, Answer, MySnapshot
<1>2. \A left \in Nat : Entry(left) \in CacheEntry
  BY NumbersOK DEF Entry, CacheEntry
<1>3. [ttl |-> 0, left |-> 0] \in CacheEntry
  BY NumbersOK DEF CacheEntry
<1>4. \A left \in Nat : Seen(j, left) \in [Proc -> [Key -> CacheEntry]]
  BY <1>1, <1>2 DEF ProcsTyped, Seen
<1>5. Written(j) \in [Proc -> SUBSET Quota]
  BY <1>1 DEF ProcsTyped, Written
<1>6. CASE UNCHANGED <<redis, leftover, age, cache, pending>>
  BY <1>6 DEF StoreTyped, ProcsTyped, HistoryTyped
<1>7. CASE Exhausted(j, job[j].answer.reset)
  <2>1. redis' \in [Key -> Nat] /\ leftover' \subseteq Key
    BY <1>1, <1>7 DEF StoreTyped, Exhausted
  <2>2. age' \in [Key -> 0 .. CacheTtl]
    BY <1>1, <1>7, AgeTyped DEF Exhausted
  <2>3. ProcsTyped'
    BY <1>1, <1>4, <1>5, <1>7 DEF ProcsTyped, Exhausted
  <2>4. QED
    BY <2>1, <2>2, <2>3
<1>8. CASE /\ redis' = [redis EXCEPT ![MySnapshot(j)] = 0]
           /\ cache' = Seen(j, 0) /\ pending' = Written(j)
           /\ UNCHANGED <<leftover, age>>
  BY <1>1, <1>4, <1>5, <1>8 DEF StoreTyped, ProcsTyped, HistoryTyped
<1>9. ASSUME NEW later \in BOOLEAN, Plenty(j, later)
      PROVE  /\ redis' \in [Key -> Nat] /\ leftover' \subseteq Key
             /\ age' \in [Key -> 0 .. CacheTtl] /\ ProcsTyped'
  <2>1. redis' \in [Key -> Nat] /\ leftover' \subseteq Key
    BY <1>1, <1>9 DEF StoreTyped, Plenty
  <2>2. cache' \in [Proc -> [Key -> CacheEntry]]
    BY <1>1, <1>2, <1>3, <1>4, <1>9 DEF Plenty
  <2>3. pending' \in [Proc -> SUBSET Quota]
    BY <1>1, <1>5, <1>9 DEF ProcsTyped, Plenty
  <2>4. QED
    BY <1>9, <2>1, <2>2, <2>3 DEF ProcsTyped, HistoryTyped, Plenty
<1>10. QED
  BY <1>6, <1>7, <1>8, <1>9 DEF Ingest

-----------------------------------------------------------------------------
(* What a step of a job does: types, where it may lead, what it counts.     *)

WayOut(j) ==
  /\ pc[j] = "sleep" => job[j].then \in {"pause", "pace", "quota", "budget"}
  /\ pc[j] = "release" => job[j].then \in {"served", "failed", "delay"}

Keeps(j) == job'[j].req = job[j].req /\ job'[j].scope = job[j].scope

\* Nothing is counted, and the job is not between two things that are.
Quiet(j) ==
  /\ UNCHANGED <<budget, running, lapsed>>
  /\ Holding(j)' <=> Holding(j)
  /\ Holding(j) => Keeps(j)
  /\ pc'[j] \in {"acquire", "count"} => pc'[j] = pc[j] /\ Keeps(j)

\* What is shown of every quiet step.
Tame(j) == TypeOK' /\ Moves(j) /\ WayOut(j)' /\ Quiet(j)

LEMMA BeginTame ==
  ASSUME TypeOK, NEW j \in Job, Begin(j)
  PROVE  Tame(j) /\ UNCHANGED <<pace, handed>>
<1>1. StoreTyped /\ ProcsTyped /\ JobsTyped /\ HistoryTyped
  BY TypeParts
<1>2. PICK r \in Requests[j] : /\ pc[j] \in {"idle", "delayed"}
                               /\ Go(j, "secondary", Blank(r, ScopeNow(r.workspace)))
  BY DEF Begin
<1>3. r \in Request /\ ScopeNow(r.workspace) \in Scope
  BY <1>1, QuotaConstantsOK DEF QuotaConstantsOK, ProcsTyped, ScopeNow, Scope
<1>4. JobsTyped' /\ Moves(j) /\ pc'[j] = "secondary"
  BY <1>1, <1>2, <1>3, BlankTyped, GoTyped DEF Label
<1>5. UNCHANGED <<store, cache, pending, handed, age, lapsed, faults, own>>
  BY DEF Begin
<1>6. TypeOK'
  BY <1>1, <1>4, <1>5, TypeParts DEF store, TypeOK, JobsTyped
<1>7. QED
  BY <1>2, <1>4, <1>5, <1>6 DEF Tame, WayOut, Quiet, Holding, store

LEMMA GateTame ==
  ASSUME TypeOK, NEW j \in Job,
         SecondaryGate(j) \/ PauseGate(j) \/ ClearExpired(j) \/ QuotaGate(j)
  PROVE  Tame(j) /\ UNCHANGED <<pace, handed>>
<1>1. StoreTyped /\ ProcsTyped /\ JobsTyped /\ HistoryTyped
  BY TypeParts
<1>2. /\ ProcOf[j] \in Proc /\ MyPause(j) \in Key /\ SecondaryOf(ScopeOf(j)) \in Key
      /\ MySnapshot(j) \in Key /\ job[j] \in Knowledge
  BY <1>1, JobKeys, KeysApart DEF MySnapshot
<1>3. \A k \in Key : Cached(ProcOf[j], k) \in Nat
  BY <1>1, <1>2, CachedTyped
<1>4. CASE SecondaryGate(j)
  <2>1. cache' \in [Proc -> [Key -> CacheEntry]]
    BY <1>1, <1>2, <1>4, RememberTyped DEF SecondaryGate
  <2>2. DelayOrThrow(j, Cached(ProcOf[j], SecondaryOf(ScopeOf(j))), "pause")
    BY <1>4 DEF SecondaryGate
  <2>3. /\ JobsTyped' /\ Moves(j) /\ DOMAIN scanMark' = DOMAIN scanMark /\ Keeps(j)
        /\ \/ pc'[j] \in {"pause", "delay"}
           \/ pc'[j] = "sleep" /\ job'[j].then = "pause"
    BY <1>1, <1>2, <1>3, <2>2, WaitTyped DEF Keeps
  <2>4. TypeOK' /\ UNCHANGED <<pace, handed, budget, running, lapsed>>
    BY <1>1, <1>4, <2>1, <2>3 DEF SecondaryGate, TypeOK, JobsTyped
  <2>5. QED
    BY <1>4, <2>3, <2>4 DEF SecondaryGate, Tame, WayOut, Quiet, Holding
<1>5. CASE PauseGate(j)
  <2>1. /\ UNCHANGED <<redis, leftover, pace, budget, running, pending, handed, age,
                       lapsed, faults, own>>
        /\ pc[j] = "pause"
    BY <1>5 DEF PauseGate
  <2>2. CASE Step(j, "clearExpired") /\ UNCHANGED <<cache, scanMark>>
    <3>1. JobsTyped' /\ Moves(j) /\ pc'[j] = "clearExpired"
      BY <1>1, <1>2, <2>2, GoTyped DEF Step, Label
    <3>2. TypeOK'
      BY <1>1, <2>1, <2>2, <3>1 DEF TypeOK, JobsTyped
    <3>3. QED
      BY <2>1, <3>1, <3>2 DEF Tame, WayOut, Quiet, Holding
  <2>3. CASE /\ Remember(ProcOf[j], MyPause(j))
             /\ DelayOrThrow(j, Cached(ProcOf[j], MyPause(j)), "pace")
    <3>1. cache' \in [Proc -> [Key -> CacheEntry]]
      BY <1>1, <1>2, <2>3, RememberTyped
    <3>2. /\ JobsTyped' /\ Moves(j) /\ DOMAIN scanMark' = DOMAIN scanMark /\ Keeps(j)
          /\ \/ pc'[j] \in {"pace", "delay"}
             \/ pc'[j] = "sleep" /\ job'[j].then = "pace"
      BY <1>1, <1>2, <1>3, <2>3, WaitTyped DEF Keeps
    <3>3. TypeOK'
      BY <1>1, <2>1, <3>1, <3>2 DEF TypeOK, JobsTyped
    <3>4. QED
      BY <2>1, <3>2, <3>3 DEF Tame, WayOut, Quiet, Holding
  <2>4. QED
    BY <1>5, <2>2, <2>3 DEF PauseGate
<1>6. CASE ClearExpired(j)
  <2>1. JobsTyped' /\ Moves(j) /\ pc'[j] = "pace"
    BY <1>1, <1>2, <1>6, GoTyped DEF ClearExpired, Step, Label
  <2>2. Entry(0) \in CacheEntry
    BY NumbersOK DEF Entry, CacheEntry
  <2>3. redis' \in [Key -> Nat] /\ cache' \in [Proc -> [Key -> CacheEntry]]
    BY <1>1, <1>2, <1>6, <2>2 DEF ClearExpired, StoreTyped, ProcsTyped
  <2>4. TypeOK' /\ UNCHANGED <<pace, handed, budget, running, lapsed>> /\ pc[j] = "clearExpired"
    BY <1>1, <1>6, <2>1, <2>3 DEF ClearExpired, TypeOK, JobsTyped
  <2>5. QED
    BY <2>1, <2>4 DEF Tame, WayOut, Quiet, Holding
<1>7. CASE QuotaGate(j)
  <2>1. cache' \in [Proc -> [Key -> CacheEntry]]
    BY <1>1, <1>2, <1>7, RememberTyped DEF QuotaGate, MySnapshot
  <2>2. /\ DelayOrThrow(j, Cached(ProcOf[j], MySnapshot(j)), "budget")
        /\ \/ SetPause(MyPause(j), Cached(ProcOf[j], MySnapshot(j)))
           \/ UNCHANGED <<redis, leftover, age>>
    BY <1>7 DEF QuotaGate, MySnapshot
  <2>3. /\ JobsTyped' /\ Moves(j) /\ DOMAIN scanMark' = DOMAIN scanMark /\ Keeps(j)
        /\ \/ pc'[j] \in {"budget", "delay"}
           \/ pc'[j] = "sleep" /\ job'[j].then = "budget"
    BY <1>1, <1>2, <1>3, <2>2, WaitTyped DEF Keeps
  <2>4. redis' \in [Key -> Nat] /\ leftover' \subseteq Key /\ age' \in [Key -> 0 .. CacheTtl]
    BY <1>1, <1>2, <1>3, <2>2, PauseTyped DEF StoreTyped, HistoryTyped
  <2>5. /\ UNCHANGED <<pace, budget, running, pending, handed, lapsed, faults, own>>
        /\ pc[j] = "quota"
    BY <1>7 DEF QuotaGate
  <2>6. TypeOK'
    BY <1>1, <2>1, <2>3, <2>4, <2>5 DEF TypeOK, JobsTyped
  <2>7. QED
    BY <2>3, <2>5, <2>6 DEF Tame, WayOut, Quiet, Holding
<1>8. QED
  BY <1>4, <1>5, <1>6, <1>7

LEMMA PaceTame ==
  ASSUME TypeOK, NEW j \in Job, PaceRequest(j)
  PROVE  /\ Tame(j)
         /\ \/ pc'[j] = "delay" /\ UNCHANGED <<pace, handed>>
            \/ job[j].req.resource \notin Paced /\ UNCHANGED <<pace, handed>>
            \/ /\ Slot(MyQuota(j)) <= MaxInlineWait
               /\ pace' = [pace EXCEPT ![MyQuota(j)] =
                             [slot |-> Slot(MyQuota(j)), ttl |-> 4 * MinInterval]]
               /\ handed' = [handed EXCEPT ![MyQuota(j)] = Slot(MyQuota(j))]
<1>1. StoreTyped /\ ProcsTyped /\ JobsTyped /\ HistoryTyped
  BY TypeParts
<1>2. MyQuota(j) \in Quota /\ job[j] \in Knowledge /\ pc[j] = "pace"
  BY <1>1, JobKeys DEF PaceRequest
<1>3. Slot(MyQuota(j)) \in Nat
  BY <1>1, <1>2, NumbersOK DEF StoreTyped, Slot, MaxOf
<1>4. UNCHANGED <<redis, leftover, budget, running, scanMark, cache, pending, age, lapsed,
                  faults, own>>
  BY DEF PaceRequest
<1>5. CASE Step(j, "quota") /\ UNCHANGED <<pace, handed>> /\ job[j].req.resource \notin Paced
  <2>1. JobsTyped' /\ Moves(j) /\ pc'[j] = "quota"
    BY <1>1, <1>2, <1>5, GoTyped DEF Step, Label
  <2>2. TypeOK'
    BY <1>1, <1>4, <1>5, <2>1 DEF TypeOK, JobsTyped
  <2>3. QED
    BY <1>2, <1>4, <1>5, <2>1, <2>2 DEF Tame, WayOut, Quiet, Holding
<1>6. CASE ThrowQuota(j, Slot(MyQuota(j)), 0) /\ UNCHANGED <<pace, handed>>
  <2>1. JobsTyped' /\ Moves(j) /\ pc'[j] = "delay"
    BY <1>1, <1>3, <1>6, ThrowTyped
  <2>2. TypeOK'
    BY <1>1, <1>4, <1>6, <2>1 DEF TypeOK, JobsTyped
  <2>3. QED
    BY <1>2, <1>4, <1>6, <2>1, <2>2 DEF Tame, WayOut, Quiet, Holding
<1>7. CASE /\ Slot(MyQuota(j)) <= MaxInlineWait
           /\ pace' = [pace EXCEPT ![MyQuota(j)] =
                         [slot |-> Slot(MyQuota(j)), ttl |-> 4 * MinInterval]]
           /\ handed' = [handed EXCEPT ![MyQuota(j)] = Slot(MyQuota(j))]
           /\ \/ Step(j, "quota")
              \/ Go(j, "sleep", [job[j] EXCEPT !.wait = Slot(MyQuota(j)), !.then = "quota"])
  <2>1. [job[j] EXCEPT !.wait = Slot(MyQuota(j)), !.then = "quota"] \in Knowledge
    BY <1>2, <1>3 DEF Knowledge, Label
  <2>2. [job[j] EXCEPT !.wait = Slot(MyQuota(j)), !.then = "quota"].then = "quota"
    BY <1>2 DEF Knowledge
  <2>3. /\ JobsTyped' /\ Moves(j)
        /\ pc'[j] = "quota" \/ (pc'[j] = "sleep" /\ job'[j].then = "quota")
    BY <1>1, <1>2, <1>7, <2>1, <2>2, GoTyped DEF Step, Label
  <2>4. [slot |-> Slot(MyQuota(j)), ttl |-> 4 * MinInterval] \in [slot : Int, ttl : Nat]
    BY <1>3, NumbersOK
  <2>5. pace' \in [Quota -> [slot : Int, ttl : Nat]] /\ handed' \in [Quota -> Int]
    BY <1>1, <1>3, <1>7, <2>4 DEF StoreTyped, HistoryTyped
  <2>6. TypeOK'
    BY <1>1, <1>4, <2>3, <2>5 DEF TypeOK, JobsTyped
  <2>7. QED
    BY <1>2, <1>4, <1>7, <2>3, <2>6 DEF Tame, WayOut, Quiet, Holding
<1>8. QED
  BY <1>5, <1>6, <1>7 DEF PaceRequest

LEMMA WakeTame ==
  ASSUME TypeOK, NEW j \in Job, WayOut(j), Wake(j)
  PROVE  Tame(j) /\ UNCHANGED <<pace, handed>>
<1>1. StoreTyped /\ ProcsTyped /\ JobsTyped /\ HistoryTyped
  BY TypeParts
<1>2. pc[j] = "sleep" /\ job[j].then \in {"pause", "pace", "quota", "budget"}
  BY DEF Wake, WayOut
<1>3. JobsTyped' /\ Moves(j) /\ pc'[j] = job[j].then
  BY <1>1, <1>2, JobKeys, GoTyped DEF Wake, Label
<1>4. /\ DOMAIN scanMark' = DOMAIN scanMark
      /\ UNCHANGED <<redis, leftover, pace, budget, running, cache, pending, handed, age,
                     lapsed, faults, own>>
  BY <1>1, MarkTyped DEF Wake
<1>5. TypeOK'
  BY <1>1, <1>3, <1>4 DEF TypeOK, JobsTyped
<1>6. QED
  BY <1>2, <1>3, <1>4, <1>5 DEF Tame, WayOut, Quiet, Holding

LEMMA RespondTame ==
  ASSUME TypeOK, NEW j \in Job, Respond(j)
  PROVE  Tame(j) /\ UNCHANGED <<pace, handed>>
<1>1. StoreTyped /\ ProcsTyped /\ JobsTyped /\ HistoryTyped
  BY TypeParts
<1>2. PICK a \in Answers :
        /\ pc[j] = "send" /\ faults' \in {faults, faults + 1} /\ faults' <= MaxFaults
        /\ \E l \in {"react", "ingest"} : Go(j, l, [job[j] EXCEPT !.answer = a])
        /\ UNCHANGED <<store, cache, pending, handed, age, lapsed, own>>
  BY DEF Respond
<1>3. job[j] \in Knowledge /\ a \in Answer
  BY <1>1, JobKeys, QuotaConstantsOK DEF QuotaConstantsOK
<1>4. /\ [job[j] EXCEPT !.answer = a] \in Knowledge
      /\ [job[j] EXCEPT !.answer = a].req = job[j].req
      /\ [job[j] EXCEPT !.answer = a].scope = job[j].scope
  BY <1>3 DEF Knowledge
<1>5. JobsTyped' /\ Moves(j) /\ pc'[j] \in {"react", "ingest"} /\ Keeps(j)
  <2>1. PICK l, f : /\ l \in {"react", "ingest"} /\ f = [job[j] EXCEPT !.answer = a]
                    /\ Go(j, l, f)
    BY <1>2
  <2>2. l \in Label /\ f \in Knowledge
    BY <1>4, <2>1 DEF Label
  <2>3. JobsTyped' /\ Moves(j) /\ pc'[j] = l /\ job'[j] = f
    BY <1>1, <2>1, <2>2, GoTyped
  <2>4. f.req = job[j].req /\ f.scope = job[j].scope
    BY <1>4, <2>1
  <2>5. QED
    BY <2>1, <2>3, <2>4 DEF Keeps
<1>6. faults' \in 0 .. MaxFaults
  BY <1>1, <1>2, NumbersOK DEF HistoryTyped
<1>7. TypeOK'
  BY <1>1, <1>2, <1>5, <1>6 DEF TypeOK, JobsTyped, store
<1>8. QED
  BY <1>2, <1>5, <1>7 DEF Tame, WayOut, Quiet, Holding, store

\* The job gives its slot back, whatever the outcome.
LEMMA FinishTyped ==
  ASSUME JobsTyped, NEW j \in Job, NEW out \in {"served", "failed", "delay"},
         NEW until \in Nat, Finish(j, out, until)
  PROVE  /\ JobsTyped' /\ Moves(j) /\ pc'[j] = "release" /\ job'[j].then = out /\ Keeps(j)
<1>1. Fresh(j) \in Knowledge /\ Fresh(j).req = job[j].req /\ Fresh(j).scope = job[j].scope
  BY JobKeys DEF Fresh, Blank
<1> DEFINE f == [Fresh(j) EXCEPT !.then = out, !.until = until]
<1>2. f \in Knowledge
  BY <1>1 DEF Knowledge, Label
<1>3. f.then = out /\ f.req = job[j].req /\ f.scope = job[j].scope
  BY <1>1 DEF Knowledge
<1>4. Go(j, "release", f)
  BY DEF Finish
<1> HIDE DEF f
<1>5. QED
  BY <1>2, <1>3, <1>4, GoTyped DEF Label, Keeps

LEMMA AnswerTame ==
  ASSUME TypeOK, NEW j \in Job,
         IngestAnswer(j) \/ React(j) \/ ReactLimited(j) \/ IngestAgain(j) \/ Retry(j)
  PROVE  Tame(j) /\ UNCHANGED <<pace, handed>>
<1>1. StoreTyped /\ ProcsTyped /\ JobsTyped /\ HistoryTyped
  BY TypeParts
<1>2. /\ job[j] \in Knowledge /\ MyPause(j) \in Key /\ SecondaryOf(ScopeOf(j)) \in Key
      /\ job[j].answer \in Answer /\ job[j].until \in Nat
  BY <1>1, JobKeys, KeysApart DEF Knowledge
<1>3. CASE IngestAnswer(j)
  <2>1. JobsTyped' /\ Moves(j) /\ pc'[j] = "react" /\ Keeps(j)
    BY <1>1, <1>2, <1>3, GoTyped DEF IngestAnswer, Step, Label, Keeps
  <2>2. /\ redis' \in [Key -> Nat] /\ leftover' \subseteq Key
        /\ age' \in [Key -> 0 .. CacheTtl] /\ ProcsTyped'
    BY <1>1, <1>3, IngestTyped DEF IngestAnswer
  <2>3. /\ pc[j] = "ingest"
        /\ UNCHANGED <<pace, budget, running, scanMark, handed, lapsed, faults, own>>
    BY <1>3 DEF IngestAnswer
  <2>4. TypeOK'
    BY <1>1, <2>1, <2>2, <2>3 DEF TypeOK, JobsTyped, ProcsTyped
  <2>5. QED
    BY <2>1, <2>3, <2>4 DEF Tame, WayOut, Quiet, Holding
<1>4. CASE React(j)
  <2>1. pc[j] = "react" /\ UNCHANGED <<store, cache, pending, handed, age, lapsed, faults, own>>
    BY <1>4 DEF React
  <2>2. CASE \E out \in {"served", "failed"} : Finish(j, out, 0)
    <3>1. /\ JobsTyped' /\ Moves(j) /\ pc'[j] = "release" /\ Keeps(j)
          /\ job'[j].then \in {"served", "failed"}
      BY <1>1, <2>2, FinishTyped
    <3>2. TypeOK'
      BY <1>1, <2>1, <3>1 DEF TypeOK, JobsTyped, store
    <3>3. QED
      BY <2>1, <3>1, <3>2 DEF Tame, WayOut, Quiet, Holding, store
  <2>3. CASE /\ job[j].tries + 1 < MaxAttempts
             /\ Go(j, "backoff", [Fresh(j) EXCEPT !.tries = job[j].tries + 1, !.wait = Backoff])
    <3> DEFINE f == [Fresh(j) EXCEPT !.tries = job[j].tries + 1, !.wait = Backoff]
    <3>1. Fresh(j) \in Knowledge /\ Fresh(j).req = job[j].req /\ Fresh(j).scope = job[j].scope
      BY <1>1, JobKeys DEF Fresh, Blank
    <3>2. job[j].tries + 1 \in 0 .. MaxAttempts
      BY <1>2, <2>3, NumbersOK DEF Knowledge
    <3>3. f \in Knowledge /\ f.req = job[j].req /\ f.scope = job[j].scope
      BY <3>1, <3>2, NumbersOK DEF Knowledge
    <3>4. Go(j, "backoff", f)
      BY <2>3
    <3> HIDE DEF f
    <3>5. JobsTyped' /\ Moves(j) /\ pc'[j] = "backoff" /\ Keeps(j)
      BY <1>1, <3>3, <3>4, GoTyped DEF Label, Keeps
    <3>6. TypeOK'
      BY <1>1, <2>1, <3>5 DEF TypeOK, JobsTyped, store
    <3>7. QED
      BY <2>1, <3>5, <3>6 DEF Tame, WayOut, Quiet, Holding, store
  <2>4. QED
    BY <1>4, <2>2, <2>3 DEF React
<1>5. CASE ReactLimited(j)
  <2> DEFINE a == job[j].answer
             until == IF a.remaining # "unknown" THEN MaxOf(a.reset, a.retry)
                      ELSE IF a.retry > 0 THEN a.retry ELSE DefaultDelay
             f == [job[j] EXCEPT !.until = until]
  <2>1. until \in Nat
    BY <1>2, NumbersOK DEF Answer, MaxOf
  <2>2. /\ Go(j, "reingest", f) /\ pc[j] = "react"
        /\ UNCHANGED <<pace, budget, running, scanMark, cache, pending, handed, lapsed,
                       faults, own>>
        /\ \/ SetPause(MyPause(j), until)
           \/ /\ redis' = [redis EXCEPT ![SecondaryOf(ScopeOf(j))] = until]
              /\ UNCHANGED <<leftover, age>>
    BY <1>5 DEF ReactLimited
  <2> HIDE DEF until
  <2>3. f \in Knowledge /\ f.req = job[j].req /\ f.scope = job[j].scope
    BY <1>2, <2>1 DEF Knowledge
  <2> HIDE DEF f
  <2>4. JobsTyped' /\ Moves(j) /\ pc'[j] = "reingest" /\ Keeps(j)
    BY <1>1, <2>2, <2>3, GoTyped DEF Label, Keeps
  <2>5. redis' \in [Key -> Nat] /\ leftover' \subseteq Key /\ age' \in [Key -> 0 .. CacheTtl]
    BY <1>1, <1>2, <2>1, <2>2, PauseTyped DEF StoreTyped, HistoryTyped
  <2>6. TypeOK'
    BY <1>1, <2>2, <2>4, <2>5 DEF TypeOK, JobsTyped
  <2>7. QED
    BY <2>2, <2>4, <2>6 DEF Tame, WayOut, Quiet, Holding
<1>6. CASE IngestAgain(j)
  <2>1. /\ pc[j] = "reingest" /\ Ingest(j) /\ Finish(j, "delay", job[j].until)
        /\ UNCHANGED <<pace, budget, running, scanMark, handed, lapsed, faults, own>>
    BY <1>6 DEF IngestAgain
  <2>2. JobsTyped' /\ Moves(j) /\ pc'[j] = "release" /\ job'[j].then = "delay" /\ Keeps(j)
    BY <1>1, <1>2, <2>1, FinishTyped
  <2>3. /\ redis' \in [Key -> Nat] /\ leftover' \subseteq Key
        /\ age' \in [Key -> 0 .. CacheTtl] /\ ProcsTyped'
    BY <1>1, <2>1, IngestTyped
  <2>4. TypeOK'
    BY <1>1, <2>1, <2>2, <2>3 DEF TypeOK, JobsTyped, ProcsTyped
  <2>5. QED
    BY <2>1, <2>2, <2>4 DEF Tame, WayOut, Quiet, Holding
<1>7. CASE Retry(j)
  <2>1. JobsTyped' /\ Moves(j) /\ pc'[j] = "send" /\ Keeps(j)
    BY <1>1, <1>2, <1>7, GoTyped DEF Retry, Step, Label, Keeps
  <2>2. pc[j] = "backoff" /\ UNCHANGED <<store, cache, pending, handed, age, lapsed, faults, own>>
    BY <1>7 DEF Retry
  <2>3. TypeOK'
    BY <1>1, <2>1, <2>2 DEF TypeOK, JobsTyped, store
  <2>4. QED
    BY <2>1, <2>2, <2>3 DEF Tame, WayOut, Quiet, Holding, store
<1>8. QED
  BY <1>3, <1>4, <1>5, <1>6, <1>7

LEMMA DelayTame ==
  ASSUME TypeOK, NEW j \in Job, Delay(j)
  PROVE  Tame(j) /\ UNCHANGED <<pace, handed>>
<1>1. StoreTyped /\ ProcsTyped /\ JobsTyped /\ HistoryTyped
  BY TypeParts
<1> DEFINE p == ProcOf[j]
           s == ScopeNow(job[j].req.workspace)
<1>2. job[j] \in Knowledge /\ job[j].req \in Request /\ p \in Proc
  BY <1>1, JobKeys
<1>3. s \in Scope
  BY <1>1, <1>2 DEF ScopeNow, Scope, ProcsTyped
<1>4. pc[j] = "delay" /\ UNCHANGED <<redis, pace, budget, running, pending, handed, age,
                                     lapsed, faults, own>>
  BY DEF Delay
<1>5. AnyPause(p, s) \cup {Cached(p, SecondaryOf(s))} \subseteq Nat
  <2>1. \A r \in Resource : Cached(p, PauseOf(s, r)) \in Nat
    BY <1>1, <1>2, <1>3, KeysApart, CachedTyped
  <2>2. \E r \in Resource : TRUE
    BY QuotaConstantsOK DEF QuotaConstantsOK
  <2>3. Cached(p, SecondaryOf(s)) \in Nat
    BY <1>1, <1>2, <1>3, <2>2, KeysApart, CachedTyped
  <2>4. QED
    BY <2>1, <2>3 DEF AnyPause
<1>6. \E left \in Nat :
        /\ Go(j, "delayed", [Blank(job[j].req, Shared) EXCEPT !.wait = left]) /\ Mark(j, left)
  <2>1. job[j].until \in Nat /\ job[j].retry \in Nat
    BY <1>2 DEF Knowledge
  <2>2. QED
    BY <1>5, <2>1 DEF Delay
<1>7. PICK left \in Nat :
        /\ Go(j, "delayed", [Blank(job[j].req, Shared) EXCEPT !.wait = left]) /\ Mark(j, left)
  BY <1>6
<1>8. [Blank(job[j].req, Shared) EXCEPT !.wait = left] \in Knowledge
  BY <1>2, BlankTyped DEF Knowledge, Scope
<1>9. JobsTyped' /\ Moves(j) /\ pc'[j] = "delayed" /\ DOMAIN scanMark' = DOMAIN scanMark
  BY <1>1, <1>7, <1>8, GoTyped, MarkTyped DEF Label
<1>10. cache' \in [Proc -> [Key -> CacheEntry]] /\ leftover' \subseteq Key
  <2>1. \A k \in Key : Entry(redis[k]) \in CacheEntry
    BY <1>1, NumbersOK DEF Entry, CacheEntry, StoreTyped
  <2>2. UNCHANGED <<cache, leftover>> \/ \E asked : ReadAll(p, asked)
    BY DEF Delay
  <2>3. ASSUME NEW asked, ReadAll(p, asked)
        PROVE  cache' \in [Proc -> [Key -> CacheEntry]] /\ leftover' \subseteq Key
    BY <1>1, <1>2, <2>1, <2>3 DEF ReadAll, StoreTyped, ProcsTyped
  <2>4. QED
    BY <1>1, <2>2, <2>3 DEF StoreTyped, ProcsTyped
<1>11. TypeOK'
  BY <1>1, <1>4, <1>9, <1>10 DEF TypeOK, JobsTyped
<1>12. QED
  BY <1>4, <1>9, <1>11 DEF Tame, WayOut, Quiet, Holding

LEMMA AbortTame ==
  ASSUME TypeOK, NEW j \in Job, Abort(j)
  PROVE  Tame(j) /\ UNCHANGED <<pace, handed>>
<1>1. StoreTyped /\ ProcsTyped /\ JobsTyped /\ HistoryTyped
  BY TypeParts
<1>2. /\ faults < MaxFaults /\ faults' = faults + 1
      /\ UNCHANGED <<store, cache, pending, handed, age, lapsed, own>>
  BY DEF Abort
<1>3. faults' \in 0 .. MaxFaults
  BY <1>1, <1>2, NumbersOK DEF HistoryTyped
<1>4. CASE pc[j] = "sleep" /\ Go(j, "failed", Done)
  <2>1. JobsTyped' /\ Moves(j) /\ pc'[j] = "failed"
    BY <1>1, <1>4, DoneTyped, GoTyped DEF Label
  <2>2. TypeOK'
    BY <1>1, <1>2, <1>3, <2>1 DEF TypeOK, JobsTyped, store
  <2>3. QED
    BY <1>2, <1>4, <2>1, <2>2 DEF Tame, WayOut, Quiet, Holding, store
<1>5. CASE pc[j] \in {"backoff", "send"} /\ Finish(j, "failed", 0)
  <2>1. JobsTyped' /\ Moves(j) /\ pc'[j] = "release" /\ job'[j].then = "failed" /\ Keeps(j)
    BY <1>1, <1>5, FinishTyped
  <2>2. TypeOK'
    BY <1>1, <1>2, <1>3, <2>1 DEF TypeOK, JobsTyped, store
  <2>3. QED
    BY <1>2, <1>5, <2>1, <2>2 DEF Tame, WayOut, Quiet, Holding, store
<1>6. QED
  BY <1>4, <1>5 DEF Abort

-----------------------------------------------------------------------------
(* The counters of running requests and the budget.                         *)

Counts == ~lapsed =>
  /\ \A w \in Workspace : running[w].count = Cardinality(Runners(w))
                          /\ Cardinality(Runners(w)) <= MaxWorkspace
  /\ running[Everyone].count = Cardinality({j \in Job : Holding(j)})
                               + Cardinality(Runners(Everyone))
  /\ running[Everyone].count <= MaxGlobal

LEMMA SomeOfJobs ==
  ASSUME NEW S \in SUBSET Job
  PROVE  /\ IsFiniteSet(S) /\ Cardinality(S) \in Nat /\ Cardinality(S) <= Cardinality(Job)
         /\ Cardinality(Job) \in Nat
         /\ \A T \in SUBSET S : Cardinality(T) <= Cardinality(S)
         /\ \A j \in Job \ S : Cardinality(S \cup {j}) = Cardinality(S) + 1
         /\ \A j \in S : Cardinality(S \ {j}) = Cardinality(S) - 1
<1>1. IsFiniteSet(Job) /\ IsFiniteSet(S)
  BY QuotaConstantsOK, FS_Subset DEF QuotaConstantsOK
<1>2. \A T \in SUBSET S : Cardinality(T) <= Cardinality(S)
  BY <1>1, FS_Subset
<1>3. Cardinality(S) <= Cardinality(Job)
  BY <1>1, FS_Subset
<1>4. Cardinality(S) \in Nat /\ Cardinality(Job) \in Nat
  BY <1>1, FS_CardinalityType
<1>5. \A j \in Job \ S : Cardinality(S \cup {j}) = Cardinality(S) + 1
  BY <1>1, FS_AddElement
<1>6. \A j \in S : Cardinality(S \ {j}) = Cardinality(S) - 1
  BY <1>1, FS_RemoveElement
<1>7. QED
  BY <1>1, <1>2, <1>3, <1>4, <1>5, <1>6

LEMMA QuietCounts ==
  ASSUME TypeOK, NEW j \in Job, Moves(j), Quiet(j), Counts, CountersLive, BudgetBounded
  PROVE  Counts' /\ CountersLive' /\ BudgetBounded'
<1>1. \A i \in Job : /\ Holding(i)' <=> Holding(i)
                     /\ Holding(i) => job'[i].req = job[i].req
  BY DEF Moves, Quiet, Keeps, Holding
<1>2. /\ \A w \in Workspace \cup {Everyone} : Runners(w)' = Runners(w)
      /\ {i \in Job : Holding(i)}' = {i \in Job : Holding(i)}
  BY <1>1 DEF Runners
<1>3. Counts' /\ CountersLive'
  BY <1>2 DEF Counts, CountersLive, Quiet
<1>4. \A w \in Workspace : Between(w)' \subseteq Between(w)
  BY DEF Between, Budgeted, ScopeOf, Moves, Quiet, Keeps
<1>5. ASSUME NEW w \in Workspace
      PROVE  budget'[w] + Cardinality(Between(w)') <= DailyBudget + Cardinality(Job) - 1
  <2>1. Between(w) \in SUBSET Job /\ Between(w)' \in SUBSET Between(w)
    BY <1>4 DEF Between
  <2>2. /\ Cardinality(Between(w)') <= Cardinality(Between(w))
        /\ Cardinality(Between(w)') \in Nat /\ Cardinality(Between(w)) \in Nat
        /\ Cardinality(Job) \in Nat
    BY <2>1, SomeOfJobs
  <2>3. budget'[w] = budget[w] /\ budget[w] \in Nat
    BY DEF Quiet, TypeOK
  <2>4. QED
    BY <2>2, <2>3, NumbersOK DEF BudgetBounded
<1>6. QED
  BY <1>3, <1>5 DEF BudgetBounded

\* What is shown of every step of a job.
StepKeeps(j) == TypeOK' /\ Moves(j) /\ WayOut(j)' /\ Counts' /\ CountersLive' /\ BudgetBounded'

\* The check lets a job through only below the budget, so the jobs that have
\* passed it and not been counted are over it by fewer than all of them.
LEMMA BudgetGateKeeps ==
  ASSUME TypeOK, NEW j \in Job, BudgetGate(j), Counts, CountersLive, BudgetBounded
  PROVE  StepKeeps(j)
<1>1. StoreTyped /\ ProcsTyped /\ JobsTyped /\ HistoryTyped
  BY TypeParts
<1>2. /\ pc[j] = "budget" /\ UNCHANGED <<store, cache, pending, handed, age, lapsed, faults, own>>
      /\ job[j] \in Knowledge
  BY <1>1, JobKeys DEF BudgetGate
<1>3. CASE ThrowQuota(j, 0, DefaultDelay)
  <2>1. JobsTyped' /\ Moves(j) /\ pc'[j] = "delay"
    BY <1>1, <1>3, ThrowTyped, NumbersOK
  <2>2. TypeOK'
    BY <1>1, <1>2, <2>1 DEF TypeOK, JobsTyped, store
  <2>3. Quiet(j) /\ WayOut(j)'
    BY <1>2, <2>1 DEF WayOut, Quiet, Holding, store
  <2>4. QED
    BY <2>1, <2>2, <2>3, QuietCounts DEF StepKeeps
<1>4. CASE /\ Step(j, "acquire")
           /\ ~(Budgeted(j) /\ budget[job[j].req.workspace] >= DailyBudget)
  <2>1. JobsTyped' /\ Moves(j) /\ pc'[j] = "acquire" /\ job'[j] = job[j]
    BY <1>1, <1>2, <1>4, GoTyped DEF Step, Label
  <2>2. TypeOK'
    BY <1>1, <1>2, <2>1 DEF TypeOK, JobsTyped, store
  <2>3. \A i \in Job : job'[i] = job[i] /\ (Holding(i)' <=> Holding(i))
    BY <1>2, <2>1 DEF Moves, Holding
  <2>4. /\ \A w \in Workspace \cup {Everyone} : Runners(w)' = Runners(w)
        /\ {i \in Job : Holding(i)}' = {i \in Job : Holding(i)}
    BY <2>3 DEF Runners
  <2>5. Counts' /\ CountersLive'
    BY <1>2, <2>4 DEF Counts, CountersLive, store
  <2>6. ASSUME NEW w \in Workspace
        PROVE  budget'[w] + Cardinality(Between(w)') <= DailyBudget + Cardinality(Job) - 1
    <3>1. /\ Between(w) \in SUBSET Job /\ Between(w)' \in SUBSET Job
          /\ budget'[w] = budget[w] /\ budget[w] \in Nat
      BY <1>1, <1>2 DEF Between, store, StoreTyped
    <3>2. /\ Cardinality(Between(w)) \in Nat /\ Cardinality(Between(w)') \in Nat
          /\ Cardinality(Between(w)') <= Cardinality(Job) /\ Cardinality(Job) \in Nat
      BY <3>1, SomeOfJobs
    <3>3. CASE Budgeted(j) /\ job[j].req.workspace = w
      <4>1. budget[w] <= DailyBudget - 1
        BY <1>4, <3>1, <3>3, NumbersOK
      <4>2. QED
        BY <3>1, <3>2, <4>1, NumbersOK
    <3>4. CASE ~(Budgeted(j) /\ job[j].req.workspace = w)
      <4>1. Between(w)' = Between(w)
        BY <2>1, <2>3, <3>4 DEF Between, Budgeted, ScopeOf, Moves
      <4>2. QED
        BY <3>1, <4>1 DEF BudgetBounded
    <3>5. QED
      BY <3>3, <3>4
  <2>7. BudgetBounded'
    BY <2>6 DEF BudgetBounded
  <2>8. WayOut(j)'
    BY <2>1 DEF WayOut
  <2>9. QED
    BY <2>1, <2>2, <2>5, <2>7, <2>8 DEF StepKeeps
<1>5. QED
  BY <1>3, <1>4 DEF BudgetGate

Names == Workspace \cup {Everyone}
Counters == [Names -> [count : Nat, ttl : Nat]]
Live(r) == \A v \in Names : r[v].count > 0 => r[v].ttl > 0

LEMMA IncrIs ==
  ASSUME NEW r \in Counters, NEW w \in Names
  PROVE  /\ Incr(r, w) \in Counters
         /\ Incr(r, w)[w].count = r[w].count + 1
         /\ \A v \in Names : v # w => Incr(r, w)[v] = r[v]
         /\ Live(r) => Live(Incr(r, w))
BY NumbersOK DEF Incr, Counters, Live

LEMMA DecrIs ==
  ASSUME NEW r \in Counters, NEW w \in Names
  PROVE  /\ Decr(r, w) \in Counters
         /\ Decr(r, w)[w].count = Less(r[w].count)
         /\ \A v \in Names : v # w => Decr(r, w)[v] = r[v]
         /\ Live(r) => Live(Decr(r, w))
BY DEF Decr, Less, Counters, Live

\* The script counts a request that is let through under both names, or
\* refuses it and counts nothing.
LEMMA AcquireKeeps ==
  ASSUME TypeOK, NEW j \in Job, Acquire(j), Counts, CountersLive, BudgetBounded
  PROVE  StepKeeps(j)
<1>1. StoreTyped /\ ProcsTyped /\ JobsTyped /\ HistoryTyped
  BY TypeParts
<1>2. /\ pc[j] = "acquire" /\ job[j] \in Knowledge
      /\ job[j].req.workspace \in Workspace \cup {Everyone}
      /\ UNCHANGED <<redis, leftover, pace, budget, scanMark, cache, pending, handed, age,
                     lapsed, faults, own>>
  BY <1>1, JobKeys DEF Acquire
<1>3. CASE UNCHANGED running /\ ThrowQuota(j, 0, ShortDelay)
  <2>1. JobsTyped' /\ Moves(j) /\ pc'[j] = "delay"
    BY <1>1, <1>3, ThrowTyped, NumbersOK
  <2>2. TypeOK'
    BY <1>1, <1>2, <1>3, <2>1 DEF TypeOK, JobsTyped
  <2>3. Quiet(j) /\ WayOut(j)'
    BY <1>2, <1>3, <2>1 DEF WayOut, Quiet, Holding
  <2>4. QED
    BY <2>1, <2>2, <2>3, QuietCounts DEF StepKeeps
<1>4. CASE /\ Incr(running, job[j].req.workspace)[job[j].req.workspace].count
                <= (IF job[j].req.workspace = Everyone THEN MaxGlobal ELSE MaxWorkspace)
           /\ running'[Everyone].count <= MaxGlobal
           /\ running' = Incr(Incr(running, job[j].req.workspace), Everyone)
           /\ Step(j, "count")
  <2>0. PICK w \in Names : w = job[j].req.workspace
    BY <1>2 DEF Names
  <2> DEFINE mine == Incr(running, w)
  <2>1. JobsTyped' /\ Moves(j) /\ pc'[j] = "count" /\ job'[j] = job[j]
    BY <1>1, <1>2, <1>4, GoTyped DEF Step, Label
  <2>2. /\ running \in Counters /\ Everyone \in Names /\ Everyone \notin Workspace
        /\ mine[w].count <= (IF w = Everyone THEN MaxGlobal ELSE MaxWorkspace)
        /\ running'[Everyone].count <= MaxGlobal /\ running' = Incr(mine, Everyone)
    BY <1>1, <1>4, <2>0, QuotaConstantsOK DEF StoreTyped, QuotaConstantsOK, Counters, Names
  <2>15. w \in Names /\ Live(running)
    BY <2>0 DEF CountersLive, Live, Names
  <2>3. /\ mine \in Counters /\ mine[w].count = running[w].count + 1
        /\ \A v \in Names : v # w => mine[v] = running[v]
        /\ Live(mine)
    BY <2>2, <2>15, IncrIs
  <2> HIDE DEF mine
  <2>4. /\ running' \in Counters
        /\ running'[Everyone].count = mine[Everyone].count + 1
        /\ \A v \in Names : v # Everyone => running'[v] = mine[v]
        /\ Live(running')
    BY <2>2, <2>3, IncrIs
  <2>5. TypeOK'
    BY <1>1, <1>2, <2>1, <2>4 DEF TypeOK, JobsTyped, Counters, Names
  <2>6. \A i \in Job : /\ job'[i] = job[i]
                       /\ Holding(i)' <=> Holding(i) \/ i = j
    BY <1>2, <2>1 DEF Moves, Holding
  <2>7. /\ ~Holding(j)
        /\ Runners(w)' = Runners(w) \cup {j} /\ Runners(w) \in SUBSET Job /\ j \notin Runners(w)
        /\ \A v \in Names : v # w => Runners(v)' = Runners(v)
        /\ {i \in Job : Holding(i)}' = {i \in Job : Holding(i)} \cup {j}
    BY <1>2, <2>0, <2>6 DEF Runners, Holding
  <2>8. Cardinality(Runners(w)') = Cardinality(Runners(w)) + 1 /\ Cardinality(Runners(w)) \in Nat
    BY <2>7, SomeOfJobs
  <2>9. /\ Cardinality({i \in Job : Holding(i)}') = Cardinality({i \in Job : Holding(i)}) + 1
        /\ Cardinality({i \in Job : Holding(i)}) \in Nat
    <3> DEFINE H == {i \in Job : Holding(i)}
    <3>1. H \in SUBSET Job /\ j \in Job \ H /\ H' = H \cup {j}
      BY <2>7
    <3> HIDE DEF H
    <3>2. Cardinality(H') = Cardinality(H) + 1 /\ Cardinality(H) \in Nat
      BY <3>1, SomeOfJobs
    <3>3. QED
      BY <3>2 DEF H
  <2>10. Counts'
    <3>1. SUFFICES ASSUME ~lapsed PROVE Counts'
      BY <1>2 DEF Counts
    <3>2. ASSUME NEW v \in Workspace
          PROVE  /\ running'[v].count = Cardinality(Runners(v)')
                 /\ Cardinality(Runners(v)') <= MaxWorkspace
      <4>1. v # Everyone /\ v \in Names /\ running'[v] = mine[v]
        BY <2>2, <2>4 DEF Names
      <4>2. CASE v = w
        BY <2>2, <2>3, <2>8, <3>1, <4>1, <4>2 DEF Counts
      <4>3. CASE v # w
        BY <2>3, <2>7, <3>1, <4>1, <4>3 DEF Counts
      <4>4. QED
        BY <4>2, <4>3
    <3>3. running'[Everyone].count
            = Cardinality({i \in Job : Holding(i)}') + Cardinality(Runners(Everyone)')
      <4>1. running[Everyone].count
              = Cardinality({i \in Job : Holding(i)}) + Cardinality(Runners(Everyone))
        BY <3>1 DEF Counts
      <4>2. Cardinality(Runners(Everyone)) \in Nat
        BY SomeOfJobs DEF Runners
      <4>3. CASE w = Everyone
        BY <2>2, <2>3, <2>4, <2>8, <2>9, <4>1, <4>2, <4>3 DEF Counters
      <4>4. CASE w # Everyone
        BY <2>2, <2>3, <2>4, <2>7, <2>9, <4>1, <4>2, <4>4 DEF Counters
      <4>5. QED
        BY <4>3, <4>4
    <3>4. QED
      BY <2>2, <3>2, <3>3 DEF Counts
  <2>11. CountersLive'
    BY <2>4 DEF CountersLive, Live, Names
  <2>12. \A v \in Workspace : Between(v)' = Between(v)
    BY <1>2, <2>1, <2>6 DEF Between, Budgeted, ScopeOf, Moves
  <2>13. BudgetBounded'
    BY <1>2, <2>12 DEF BudgetBounded
  <2>14. QED
    BY <2>1, <2>5, <2>10, <2>11, <2>13 DEF StepKeeps, WayOut
<1>5. QED
  BY <1>3, <1>4 DEF Acquire

\* A request that is counted is no longer between the check and the count.
LEMMA CountKeeps ==
  ASSUME TypeOK, NEW j \in Job, Count(j), Counts, CountersLive, BudgetBounded
  PROVE  StepKeeps(j)
<1>1. StoreTyped /\ ProcsTyped /\ JobsTyped /\ HistoryTyped
  BY TypeParts
<1>2. /\ pc[j] = "count" /\ job[j] \in Knowledge
      /\ job[j].req.workspace \in Workspace \cup {Everyone}
      /\ UNCHANGED <<redis, leftover, pace, running, scanMark, cache, pending, handed, age,
                     lapsed, faults, own>>
  BY <1>1, JobKeys DEF Count
<1>3. JobsTyped' /\ Moves(j) /\ pc'[j] = "send" /\ job'[j] = job[j]
  BY <1>1, <1>2, GoTyped DEF Count, Step, Label
<1>4. /\ Budgeted(j) => budget' = [budget EXCEPT ![job[j].req.workspace] = @ + 1]
      /\ ~Budgeted(j) => budget' = budget
  BY DEF Count
<1>5. budget \in [Workspace -> Nat] /\ budget' \in [Workspace -> Nat]
  BY <1>1, <1>4 DEF StoreTyped
<1>6. TypeOK'
  BY <1>1, <1>2, <1>3, <1>5 DEF TypeOK, JobsTyped
<1>7. \A i \in Job : job'[i] = job[i] /\ (Holding(i)' <=> Holding(i))
  BY <1>2, <1>3 DEF Moves, Holding
<1>8. /\ \A w \in Workspace \cup {Everyone} : Runners(w)' = Runners(w)
      /\ {i \in Job : Holding(i)}' = {i \in Job : Holding(i)}
  BY <1>7 DEF Runners
<1>9. Counts' /\ CountersLive'
  BY <1>2, <1>8 DEF Counts, CountersLive
<1>10. ASSUME NEW w \in Workspace
       PROVE  budget'[w] + Cardinality(Between(w)') <= DailyBudget + Cardinality(Job) - 1
  <2>1. Between(w) \in SUBSET Job
    BY DEF Between
  <2>2. CASE Budgeted(j) /\ job[j].req.workspace = w
    <3>1. j \in Between(w) /\ Between(w)' = Between(w) \ {j}
      BY <1>2, <1>3, <1>7, <2>2 DEF Between, Budgeted, ScopeOf, Moves
    <3>2. /\ Cardinality(Between(w)') = Cardinality(Between(w)) - 1
          /\ Cardinality(Between(w)) \in Nat /\ Cardinality(Job) \in Nat
      BY <2>1, <3>1, SomeOfJobs
    <3>3. budget'[w] = budget[w] + 1 /\ budget[w] \in Nat
      BY <1>4, <1>5, <2>2
    <3>4. QED
      BY <3>2, <3>3, NumbersOK DEF BudgetBounded
  <2>3. CASE ~(Budgeted(j) /\ job[j].req.workspace = w)
    <3>1. Between(w)' = Between(w)
      BY <1>2, <1>3, <1>7, <2>3 DEF Between, Budgeted, ScopeOf, Moves
    <3>2. budget'[w] = budget[w]
      BY <1>4, <1>5, <2>3
    <3>3. QED
      BY <3>1, <3>2 DEF BudgetBounded
  <2>4. QED
    BY <2>2, <2>3
<1>11. BudgetBounded'
  BY <1>10 DEF BudgetBounded
<1>12. QED
  BY <1>3, <1>6, <1>9, <1>11 DEF StepKeeps, WayOut

\* A release takes off both names what the acquisition had put on them.
LEMMA ReleaseKeeps ==
  ASSUME TypeOK, NEW j \in Job, Release(j), WayOut(j), Counts, CountersLive, BudgetBounded
  PROVE  StepKeeps(j)
<1>1. StoreTyped /\ ProcsTyped /\ JobsTyped /\ HistoryTyped
  BY TypeParts
<1>2. /\ pc[j] = "release" /\ job[j] \in Knowledge
      /\ job[j].req.workspace \in Names /\ job[j].then \in {"served", "failed", "delay"}
      /\ UNCHANGED <<redis, leftover, pace, budget, scanMark, cache, pending, handed, age,
                     lapsed, faults, own>>
  BY <1>1, JobKeys DEF Release, WayOut, Names
<1>3. JobsTyped' /\ Moves(j) /\ pc'[j] = job[j].then
  <2>1. [job[j] EXCEPT !.then = "idle"] \in Knowledge
    BY <1>2 DEF Knowledge, Label
  <2>2. \E f \in Knowledge : Go(j, job[j].then, f)
    BY <2>1, DoneTyped DEF Release
  <2>3. job[j].then \in Label
    BY <1>2 DEF Knowledge
  <2>4. QED
    BY <1>1, <2>2, <2>3, GoTyped
<1>0. PICK w \in Names : w = job[j].req.workspace
  BY <1>2
<1> DEFINE less == Decr(running, w)
<1>4. /\ running \in Counters /\ Everyone \in Names /\ Everyone \notin Workspace
      /\ w \in Names /\ Live(running) /\ running' = Decr(less, Everyone)
  BY <1>0, <1>1, QuotaConstantsOK
     DEF StoreTyped, QuotaConstantsOK, Counters, Names, Release, CountersLive, Live
<1>5. /\ less \in Counters /\ less[w].count = Less(running[w].count)
      /\ \A v \in Names : v # w => less[v] = running[v]
      /\ Live(less)
  BY <1>4, DecrIs
<1> HIDE DEF less
<1>6. /\ running' \in Counters
      /\ running'[Everyone].count = Less(less[Everyone].count)
      /\ \A v \in Names : v # Everyone => running'[v] = less[v]
      /\ Live(running')
  BY <1>4, <1>5, DecrIs
<1>7. TypeOK'
  BY <1>1, <1>2, <1>3, <1>6 DEF TypeOK, JobsTyped, Counters, Names
<1>8. \A i \in Job : /\ Holding(i)' <=> Holding(i) /\ i # j
                     /\ i # j => job'[i] = job[i]
  BY <1>2, <1>3 DEF Moves, Holding
<1>9. /\ Holding(j) /\ Runners(w) \in SUBSET Job
      /\ Runners(w)' = Runners(w) \ {j} /\ j \in Runners(w)
      /\ \A v \in Names : v # w => Runners(v)' = Runners(v)
      /\ {i \in Job : Holding(i)}' = {i \in Job : Holding(i)} \ {j}
  BY <1>0, <1>2, <1>8 DEF Runners, Holding
<1>10. /\ Cardinality(Runners(w)') = Cardinality(Runners(w)) - 1
       /\ Cardinality(Runners(w)') \in Nat /\ Cardinality(Runners(w)) \in Nat
  <2>1. Runners(w)' \in SUBSET Job
    BY <1>9
  <2>2. QED
    BY <1>9, <2>1, SomeOfJobs
<1>11. /\ Cardinality({i \in Job : Holding(i)}') = Cardinality({i \in Job : Holding(i)}) - 1
       /\ Cardinality({i \in Job : Holding(i)}') \in Nat
       /\ Cardinality({i \in Job : Holding(i)}) \in Nat
  <2> DEFINE H == {i \in Job : Holding(i)}
  <2>1. H \in SUBSET Job /\ j \in H /\ H' = H \ {j} /\ H' \in SUBSET Job
    BY <1>9
  <2> HIDE DEF H
  <2>2. Cardinality(H') = Cardinality(H) - 1 /\ Cardinality(H) \in Nat /\ Cardinality(H') \in Nat
    BY <2>1, SomeOfJobs
  <2>3. QED
    BY <2>2 DEF H
<1>12. Counts'
  <2>1. SUFFICES ASSUME ~lapsed PROVE Counts'
    BY <1>2 DEF Counts
  <2>2. ASSUME NEW v \in Workspace
        PROVE  /\ running'[v].count = Cardinality(Runners(v)')
               /\ Cardinality(Runners(v)') <= MaxWorkspace
    <3>1. v # Everyone /\ v \in Names /\ running'[v] = less[v]
      BY <1>4, <1>6 DEF Names
    <3>2. /\ running[v].count = Cardinality(Runners(v))
          /\ Cardinality(Runners(v)) <= MaxWorkspace
      BY <2>1 DEF Counts
    <3>3. CASE v = w
      BY <1>5, <1>10, <3>1, <3>2, <3>3, NumbersOK DEF Less
    <3>4. CASE v # w
      BY <1>5, <1>9, <3>1, <3>2, <3>4
    <3>5. QED
      BY <3>3, <3>4
  <2>3. /\ running'[Everyone].count
             = Cardinality({i \in Job : Holding(i)}') + Cardinality(Runners(Everyone)')
        /\ running'[Everyone].count <= MaxGlobal
    <3>1. /\ running[Everyone].count
               = Cardinality({i \in Job : Holding(i)}) + Cardinality(Runners(Everyone))
          /\ running[Everyone].count <= MaxGlobal
      BY <2>1 DEF Counts
    <3>2. Cardinality(Runners(Everyone)) \in Nat
      BY SomeOfJobs DEF Runners
    <3>3. CASE w = Everyone
      BY <1>5, <1>6, <1>10, <1>11, <3>1, <3>3, NumbersOK DEF Less
    <3>4. CASE w # Everyone
      BY <1>4, <1>5, <1>6, <1>9, <1>11, <3>1, <3>2, <3>4, NumbersOK DEF Less
    <3>5. QED
      BY <3>3, <3>4
  <2>4. QED
    BY <2>2, <2>3 DEF Counts
<1>13. CountersLive'
  BY <1>6 DEF CountersLive, Live, Names
<1>14. \A v \in Workspace : Between(v)' = Between(v)
  BY <1>2, <1>3, <1>8 DEF Between, Budgeted, ScopeOf, Moves
<1>15. BudgetBounded'
  BY <1>2, <1>14 DEF BudgetBounded
<1>16. QED
  BY <1>2, <1>3, <1>7, <1>12, <1>13, <1>15 DEF StepKeeps, WayOut

\* Every step of a job.
LEMMA WorkKeeps ==
  ASSUME TypeOK, NEW j \in Job, WayOut(j), Counts, CountersLive, BudgetBounded,
         Work(j) \/ Abort(j)
  PROVE  StepKeeps(j) /\ (PaceRequest(j) \/ UNCHANGED <<pace, handed>>)
<1>1. ASSUME Tame(j) PROVE StepKeeps(j)
  BY <1>1, QuietCounts DEF Tame, StepKeeps
<1>2. CASE Begin(j)
  BY <1>1, <1>2, BeginTame
<1>3. CASE SecondaryGate(j) \/ PauseGate(j) \/ ClearExpired(j) \/ QuotaGate(j)
  BY <1>1, <1>3, GateTame
<1>4. CASE PaceRequest(j)
  BY <1>1, <1>4, PaceTame
<1>5. CASE Wake(j)
  BY <1>1, <1>5, WakeTame
<1>6. CASE BudgetGate(j)
  BY <1>6, BudgetGateKeeps DEF BudgetGate, store
<1>7. CASE Acquire(j)
  BY <1>7, AcquireKeeps DEF Acquire
<1>8. CASE Count(j)
  BY <1>8, CountKeeps DEF Count
<1>9. CASE Respond(j)
  BY <1>1, <1>9, RespondTame
<1>10. CASE IngestAnswer(j) \/ React(j) \/ ReactLimited(j) \/ IngestAgain(j) \/ Retry(j)
  BY <1>1, <1>10, AnswerTame
<1>11. CASE Release(j)
  BY <1>11, ReleaseKeeps DEF Release
<1>12. CASE Delay(j)
  BY <1>1, <1>12, DelayTame
<1>13. CASE Abort(j)
  BY <1>1, <1>13, AbortTame
<1>14. QED
  BY <1>2, <1>3, <1>4, <1>5, <1>6, <1>7, <1>8, <1>9, <1>10, <1>11, <1>12, <1>13 DEF Work

-----------------------------------------------------------------------------
(* What may happen at any time.                                             *)

\* What is shown of every step of the environment.
RestKeeps == TypeOK' /\ WaysOut' /\ Counts' /\ CountersLive' /\ BudgetBounded'

\* The jobs are where they were, and so is what is counted of them.
LEMMA SameJobs ==
  ASSUME UNCHANGED <<pc, running, budget, own>>,
         \A j \in Job : /\ job'[j].req = job[j].req /\ job'[j].scope = job[j].scope
                        /\ job'[j].then = job[j].then,
         lapsed => lapsed', WaysOut, Counts, CountersLive, BudgetBounded
  PROVE  WaysOut' /\ Counts' /\ CountersLive' /\ BudgetBounded'
<1>1. /\ \A w \in Workspace \cup {Everyone} : Runners(w)' = Runners(w)
      /\ {i \in Job : Holding(i)}' = {i \in Job : Holding(i)}
      /\ \A w \in Workspace : Between(w)' = Between(w)
  BY DEF Runners, Holding, Between, Budgeted, ScopeOf
<1>2. CountersLive' /\ BudgetBounded'
  BY <1>1 DEF CountersLive, BudgetBounded
<1>3. Counts'
  <2>1. SUFFICES ASSUME ~lapsed' PROVE Counts'
    BY DEF Counts
  <2>2. ~lapsed
    BY <2>1
  <2>3. UNCHANGED running
    OBVIOUS
  <2>4. QED
    BY <1>1, <2>2, <2>3 DEF Counts
<1>4. QED
  BY <1>2, <1>3 DEF WaysOut

LEMMA FlushKeeps ==
  ASSUME TypeOK, NEW p \in Proc, Flush(p), WaysOut, Counts, CountersLive, BudgetBounded
  PROVE  RestKeeps
<1>1. TypeOK'
  BY DEF TypeOK, Flush
<1>2. WaysOut' /\ Counts' /\ CountersLive' /\ BudgetBounded'
  BY SameJobs DEF Flush
<1>3. QED
  BY <1>1, <1>2 DEF RestKeeps

LEMMA NewTokenKeeps ==
  ASSUME TypeOK, NEW p \in Proc, NEW w \in Workspace, NewToken(p, w),
         WaysOut, Counts, CountersLive, BudgetBounded
  PROVE  RestKeeps
<1>1. Entry(0) \in CacheEntry /\ [ttl |-> 0, left |-> 0] \in CacheEntry
  BY NumbersOK DEF Entry, CacheEntry
<1>2. cache' \in [Proc -> [Key -> CacheEntry]]
  BY <1>1 DEF TypeOK, NewToken
<1>3. /\ redis' \in [Key -> Nat] /\ leftover' \subseteq Key /\ own' \subseteq Workspace
      /\ pending' \in [Proc -> SUBSET Quota] /\ faults' \in 0 .. MaxFaults
  BY NumbersOK DEF TypeOK, NewToken
<1>4. UNCHANGED <<pace, budget, running, scanMark, pc, job, handed, age, lapsed>>
  BY DEF NewToken
<1>5. TypeOK'
  BY <1>2, <1>3, <1>4 DEF TypeOK
<1>6. /\ \A v \in Workspace \cup {Everyone} : Runners(v)' = Runners(v)
      /\ {i \in Job : Holding(i)}' = {i \in Job : Holding(i)}
      /\ \A v \in Workspace : Between(v)' = Between(v)
  BY <1>4 DEF Runners, Holding, Between, Budgeted, ScopeOf
<1>7. Counts' /\ CountersLive' /\ BudgetBounded' /\ WaysOut'
  BY <1>4, <1>6 DEF Counts, CountersLive, BudgetBounded, WaysOut
<1>8. QED
  BY <1>5, <1>7 DEF RestKeeps

LEMMA NewDayKeeps ==
  ASSUME TypeOK, NewDay, WaysOut, Counts, CountersLive, BudgetBounded
  PROVE  RestKeeps
<1>1. TypeOK'
  BY DEF TypeOK, NewDay
<1>2. UNCHANGED <<running, pc, job, lapsed>> /\ budget' = [w \in Workspace |-> 0]
  BY DEF NewDay
<1>3. /\ \A v \in Workspace \cup {Everyone} : Runners(v)' = Runners(v)
      /\ {i \in Job : Holding(i)}' = {i \in Job : Holding(i)}
  BY <1>2 DEF Runners, Holding
<1>4. Counts' /\ CountersLive' /\ WaysOut'
  BY <1>2, <1>3 DEF Counts, CountersLive, WaysOut
<1>5. ASSUME NEW w \in Workspace
      PROVE  budget'[w] + Cardinality(Between(w)') <= DailyBudget + Cardinality(Job) - 1
  <2>1. Between(w)' = Between(w)
    BY DEF NewDay, Between, Budgeted, ScopeOf
  <2>2. Cardinality(Between(w)) \in Nat /\ Cardinality(Job) \in Nat
    BY SomeOfJobs DEF Between
  <2>3. budget[w] \in Nat /\ budget[w] + Cardinality(Between(w)) <= DailyBudget + Cardinality(Job) - 1
    BY DEF TypeOK, BudgetBounded
  <2>4. QED
    BY <1>2, <2>1, <2>2, <2>3, NumbersOK
<1>6. QED
  BY <1>1, <1>4, <1>5 DEF RestKeeps, BudgetBounded

\* A counter that expires takes what it counted with it, and says so.
LEMMA TickKeeps ==
  ASSUME TypeOK, Tick, WaysOut, Counts, CountersLive, BudgetBounded
  PROVE  RestKeeps
<1>1. StoreTyped /\ ProcsTyped /\ JobsTyped /\ HistoryTyped
  BY TypeParts
<1>2. /\ redis' \in [Key -> Nat] /\ DOMAIN scanMark' = DOMAIN scanMark
      /\ age' \in [Key -> 0 .. CacheTtl]
  <2>1. redis' \in [Key -> Nat] /\ DOMAIN scanMark' = DOMAIN scanMark
    BY <1>1, LessTyped DEF StoreTyped, Tick
  <2>2. \A k \in Key : age[k] \in 0 .. CacheTtl
    BY <1>1 DEF HistoryTyped
  <2>3. age' = [k \in Key |-> IF redis[k] <= 1 THEN 0
                             ELSE IF age[k] < CacheTtl THEN age[k] + 1 ELSE CacheTtl]
    BY DEF Tick
  <2>4. age' \in [Key -> 0 .. CacheTtl]
    BY <2>2, <2>3, NumbersOK
  <2>5. QED
    BY <2>1, <2>4
<1>3. pace' \in [Quota -> [slot : Int, ttl : Nat]] /\ handed' \in [Quota -> Int]
  <2>1. \A q \in Quota : pace[q].slot \in Int /\ pace[q].ttl \in Nat /\ handed[q] \in Int
    BY <1>1 DEF StoreTyped, HistoryTyped
  <2>2. \A q \in Quota : /\ MaxOf(pace[q].slot - 1, -MinInterval) \in Int
                         /\ MaxOf(handed[q] - 1, -MinInterval) \in Int /\ -MinInterval \in Int
                         /\ Less(pace[q].ttl) \in Nat
    BY <2>1, NumbersOK, LessTyped DEF MaxOf
  <2>3. QED
    BY <2>2 DEF Tick
<1>4. cache' \in [Proc -> [Key -> CacheEntry]]
  <2>1. \A p \in Proc : \A k \in Key :
          /\ cache[p][k].ttl > 1 =>
                [ttl |-> cache[p][k].ttl - 1, left |-> Less(cache[p][k].left)] \in CacheEntry
          /\ [ttl |-> 0, left |-> 0] \in CacheEntry
          /\ cache[p][k].ttl \in Nat
    BY <1>1, LessTyped, NumbersOK DEF ProcsTyped, CacheEntry
  <2> DEFINE entry(p, k) == IF cache[p][k].ttl <= 1 THEN [ttl |-> 0, left |-> 0]
               ELSE [ttl |-> cache[p][k].ttl - 1, left |-> Less(cache[p][k].left)]
  <2>2. \A p \in Proc : \A k \in Key : entry(p, k) \in CacheEntry
    BY <2>1
  <2>3. cache' = [p \in Proc |-> [k \in Key |-> entry(p, k)]]
    BY DEF Tick
  <2> HIDE DEF entry
  <2>4. QED
    BY <2>2, <2>3
<1>5. /\ job' \in [Job -> Knowledge]
      /\ \A j \in Job : /\ job'[j].req = job[j].req /\ job'[j].scope = job[j].scope
                        /\ job'[j].then = job[j].then
  <2>1. ASSUME NEW j \in Job
        PROVE  /\ job'[j] \in Knowledge
               /\ job'[j].req = job[j].req /\ job'[j].scope = job[j].scope
               /\ job'[j].then = job[j].then
    <3>1. job[j] \in Knowledge /\ job[j].answer \in Answer
      BY <1>1 DEF JobsTyped, Knowledge
    <3>2. /\ Less(job[j].wait) \in Nat /\ Less(job[j].until) \in Nat
          /\ Less(job[j].answer.reset) \in Nat
      BY <3>1, LessTyped DEF Knowledge, Answer
    <3>3. [job[j].answer EXCEPT !.reset = Less(@)] \in Answer
      BY <3>1, <3>2 DEF Answer
    <3>4. job'[j] = [job[j] EXCEPT !.wait = Less(@), !.until = Less(@),
                                   !.answer.reset = Less(@)]
      BY DEF Tick
    <3>5. QED
      BY <3>1, <3>2, <3>3, <3>4 DEF Knowledge
  <2>2. QED
    BY <2>1 DEF Tick
<1>6. /\ running \in Counters /\ DOMAIN running = Names
      /\ running' = [w \in Names |->
           IF running[w].ttl <= 1 THEN [count |-> 0, ttl |-> 0]
           ELSE [running[w] EXCEPT !.ttl = @ - 1]]
      /\ lapsed' = (lapsed \/ \E w \in Names : running[w].ttl = 1)
  BY <1>1 DEF Tick, StoreTyped, Names, Counters
<1>7. running' \in Counters /\ Live(running') /\ lapsed' \in BOOLEAN
  <2>1. \A w \in Names : running[w] \in [count : Nat, ttl : Nat]
    BY <1>6 DEF Counters
  <2>2. QED
    BY <1>6, <2>1 DEF Counters, Live
<1>8. UNCHANGED <<leftover, budget, pending, pc, faults, own>>
  BY DEF Tick
<1>9. TypeOK'
  BY <1>1, <1>2, <1>3, <1>4, <1>5, <1>7, <1>8 DEF TypeOK, Counters, Names
<1>10. ~lapsed' => ~lapsed /\ \A w \in Names : running'[w].count = running[w].count
  <2>1. SUFFICES ASSUME ~lapsed', NEW w \in Names
                 PROVE  ~lapsed /\ running'[w].count = running[w].count
    BY <1>6
  <2>2. /\ running[w] \in [count : Nat, ttl : Nat] /\ running[w].ttl # 1 /\ ~lapsed
        /\ running[w].count > 0 => running[w].ttl > 0
    BY <1>6, <2>1 DEF Counters, CountersLive, Names
  <2>3. CASE running[w].ttl = 0
    BY <1>6, <2>2, <2>3
  <2>4. CASE running[w].ttl > 1
    BY <1>6, <2>2, <2>4
  <2>5. QED
    BY <2>2, <2>3, <2>4
<1>11. /\ \A w \in Workspace \cup {Everyone} : Runners(w)' = Runners(w)
       /\ {i \in Job : Holding(i)}' = {i \in Job : Holding(i)}
       /\ \A w \in Workspace : Between(w)' = Between(w)
  BY <1>5, <1>8 DEF Runners, Holding, Between, Budgeted, ScopeOf
<1>12. Counts'
  BY <1>10, <1>11 DEF Counts, Names
<1>13. CountersLive' /\ BudgetBounded' /\ WaysOut'
  BY <1>5, <1>7, <1>8, <1>11 DEF CountersLive, Live, Names, BudgetBounded, WaysOut
<1>14. QED
  BY <1>9, <1>12, <1>13 DEF RestKeeps

\* A process that dies holding nothing leaves the counters right; one that holds a slot
\* says so.
LEMMA CrashKeeps ==
  ASSUME TypeOK, NEW p \in Proc, Crash(p), WaysOut, Counts, CountersLive, BudgetBounded
  PROVE  RestKeeps
<1> DEFINE lost == {j \in Job : ProcOf[j] = p /\ ~Ended(j) /\ pc[j] # "delayed"}
<1>1. /\ faults < MaxFaults /\ faults' = faults + 1
      /\ pc' = [j \in Job |-> IF j \in lost THEN "idle" ELSE pc[j]]
      /\ job' = [j \in Job |-> IF j \in lost THEN Done ELSE job[j]]
      /\ cache' = [cache EXCEPT ![p] = [k \in Key |-> [ttl |-> 0, left |-> 0]]]
      /\ pending' = [pending EXCEPT ![p] = {}]
      /\ lapsed' = (lapsed \/ \E j \in lost : Holding(j))
      /\ UNCHANGED <<redis, leftover, pace, budget, running, scanMark, handed, age, own>>
  BY DEF Crash, store
<1>2. lost \subseteq Job
  OBVIOUS
<1> HIDE DEF lost
<1>3. pc' \in [Job -> Label] /\ job' \in [Job -> Knowledge]
  BY <1>1, DoneTyped DEF TypeOK, Label
<1>4. [ttl |-> 0, left |-> 0] \in CacheEntry
  BY NumbersOK DEF CacheEntry
<1>5. /\ cache' \in [Proc -> [Key -> CacheEntry]] /\ pending' \in [Proc -> SUBSET Quota]
      /\ faults' \in 0 .. MaxFaults /\ lapsed' \in BOOLEAN
  BY <1>1, <1>4, NumbersOK DEF TypeOK
<1>6. TypeOK'
  BY <1>1, <1>3, <1>5 DEF TypeOK
<1>7. /\ \A j \in lost : pc'[j] = "idle"
      /\ \A j \in Job \ lost : pc'[j] = pc[j] /\ job'[j] = job[j]
  BY <1>1, <1>2
<1>8. WaysOut'
  BY <1>7 DEF WaysOut
<1>9. Counts'
  <2>1. SUFFICES ASSUME ~lapsed' PROVE Counts'
    BY DEF Counts
  <2>2. ~lapsed /\ \A j \in lost : ~Holding(j)
    BY <1>1, <2>1
  <2>3. /\ \A w \in Workspace \cup {Everyone} : Runners(w)' = Runners(w)
        /\ {i \in Job : Holding(i)}' = {i \in Job : Holding(i)}
    BY <1>7, <2>2 DEF Runners, Holding
  <2>4. QED
    BY <1>1, <2>2, <2>3 DEF Counts
<1>10. ASSUME NEW w \in Workspace
       PROVE  budget'[w] + Cardinality(Between(w)') <= DailyBudget + Cardinality(Job) - 1
  <2>1. Between(w) \in SUBSET Job /\ Between(w)' \in SUBSET Between(w)
    BY <1>1, <1>7 DEF Between, Budgeted, ScopeOf
  <2>2. /\ Cardinality(Between(w)') <= Cardinality(Between(w))
        /\ Cardinality(Between(w)') \in Nat /\ Cardinality(Between(w)) \in Nat
        /\ Cardinality(Job) \in Nat
    BY <2>1, SomeOfJobs
  <2>3. budget'[w] = budget[w] /\ budget[w] \in Nat
    BY <1>1 DEF TypeOK
  <2>4. QED
    BY <2>2, <2>3, NumbersOK DEF BudgetBounded
<1>11. CountersLive'
  BY <1>1 DEF CountersLive
<1>12. QED
  BY <1>6, <1>8, <1>9, <1>10, <1>11 DEF RestKeeps, BudgetBounded

-----------------------------------------------------------------------------
(* The pace: the slot last used is remembered until it is an interval old.  *)

PaceKept(q) == handed[q] <= pace[q].slot /\ handed[q] <= pace[q].ttl - MinInterval

LEMMA PaceKeeps ==
  ASSUME TypeOK, PaceRemembers,
         UNCHANGED <<pace, handed>> \/ (\E j \in Job : PaceRequest(j)) \/ Tick
  PROVE  PaceRemembers'
<1>1. SUFFICES ASSUME PaceOutlivesWait, NEW q \in Quota PROVE PaceKept(q)'
  BY DEF PaceRemembers, PaceKept
<1>2. /\ PaceKept(q) /\ pace \in [Quota -> [slot : Int, ttl : Nat]]
      /\ handed \in [Quota -> Int]
  BY <1>1 DEF PaceRemembers, PaceKept, TypeOK
<1>3. CASE UNCHANGED <<pace, handed>>
  BY <1>2, <1>3 DEF PaceKept
<1>4. ASSUME NEW j \in Job, PaceRequest(j) PROVE PaceKept(q)'
  <2>1. CASE UNCHANGED <<pace, handed>>
    BY <1>2, <2>1 DEF PaceKept
  <2>2. CASE /\ Slot(MyQuota(j)) <= MaxInlineWait
             /\ pace' = [pace EXCEPT ![MyQuota(j)] =
                           [slot |-> Slot(MyQuota(j)), ttl |-> 4 * MinInterval]]
             /\ handed' = [handed EXCEPT ![MyQuota(j)] = Slot(MyQuota(j))]
    <3>1. CASE q = MyQuota(j)
      <4>1. pace'[q].slot = Slot(q) /\ pace'[q].ttl = 4 * MinInterval /\ handed'[q] = Slot(q)
        BY <1>2, <2>2, <3>1
      <4>2. Slot(q) \in Int
        BY <1>2, NumbersOK DEF Slot, MaxOf
      <4>3. Slot(q) <= 3 * MinInterval
        BY <1>1, <2>2, <3>1, <4>2, NumbersOK DEF PaceOutlivesWait
      <4>4. QED
        BY <4>1, <4>2, <4>3, NumbersOK DEF PaceKept
    <3>2. CASE q # MyQuota(j)
      BY <1>2, <2>2, <3>2 DEF PaceKept
    <3>3. QED
      BY <3>1, <3>2
  <2>3. QED
    BY <1>4, <2>1, <2>2, PaceTame
<1>5. CASE Tick
  <2>1. /\ pace'[q].slot = IF pace[q].ttl <= 1 THEN -MinInterval
                           ELSE MaxOf(pace[q].slot - 1, -MinInterval)
        /\ pace'[q].ttl = Less(pace[q].ttl)
        /\ handed'[q] = MaxOf(handed[q] - 1, -MinInterval)
    BY <1>1, <1>5 DEF Tick
  <2>2. pace[q].slot \in Int /\ pace[q].ttl \in Nat /\ handed[q] \in Int
    BY <1>2
  <2>3. CASE pace[q].ttl <= 1
    BY <1>2, <2>1, <2>2, <2>3, NumbersOK DEF PaceKept, MaxOf, Less
  <2>4. CASE pace[q].ttl > 1
    BY <1>2, <2>1, <2>2, <2>4, NumbersOK DEF PaceKept, MaxOf, Less
  <2>5. QED
    BY <2>2, <2>3, <2>4
<1>6. QED
  BY <1>3, <1>4, <1>5

-----------------------------------------------------------------------------
(* The caches: a pause that a process does not know of came after it looked. *)

Young(p, k) == cache[p][k].ttl > 0 /\ cache[p][k].left < redis[k]
                 => age[k] + cache[p][k].ttl <= CacheTtl

LEMMA YoungParts == CacheIsYoung <=> \A p \in Proc : \A s \in Scope : \A r \in Resource :
                                       Young(p, PauseOf(s, r))
BY DEF CacheIsYoung, Young

\* A pause is left, shortened or begun; a process has read it before, or now, or not at all.
PauseAfter(k) == (redis'[k] <= redis[k] /\ age'[k] = age[k]) \/ age'[k] = 0
ReadAfter(p, k) == \/ cache'[p][k] = cache[p][k] \/ cache'[p][k].ttl = 0
                   \/ cache'[p][k].left >= redis'[k]

LEMMA StaysYoung ==
  ASSUME TypeOK, TypeOK', CacheIsYoung,
         \A s \in Scope : \A r \in Resource :
            /\ PauseAfter(PauseOf(s, r))
            /\ \A p \in Proc : ReadAfter(p, PauseOf(s, r))
  PROVE  CacheIsYoung'
<1>1. SUFFICES ASSUME NEW p \in Proc, NEW s \in Scope, NEW r \in Resource
               PROVE  Young(p, PauseOf(s, r))'
  BY DEF CacheIsYoung, Young
<1>2. PICK k \in Key : k = PauseOf(s, r)
  BY KeysApart
<1>3. /\ redis[k] \in Nat /\ redis'[k] \in Nat /\ age[k] \in Nat /\ age'[k] \in Nat
      /\ cache[p][k].ttl \in 0 .. CacheTtl /\ cache[p][k].left \in Nat
      /\ cache'[p][k].ttl \in 0 .. CacheTtl /\ cache'[p][k].left \in Nat
  BY <1>2, NumbersOK DEF TypeOK, CacheEntry
<1>4. Young(p, k) /\ PauseAfter(k) /\ ReadAfter(p, k)
  BY <1>2, YoungParts
<1>5. Young(p, k)'
  BY <1>3, <1>4, NumbersOK DEF Young, PauseAfter, ReadAfter
<1>6. QED
  BY <1>2, <1>5

LEMMA TickStaysYoung ==
  ASSUME TypeOK, CacheIsYoung, Tick
  PROVE  CacheIsYoung'
<1>1. SUFFICES ASSUME NEW p \in Proc, NEW s \in Scope, NEW r \in Resource
               PROVE  Young(p, PauseOf(s, r))'
  BY DEF CacheIsYoung, Young
<1>2. PICK k \in Key : k = PauseOf(s, r)
  BY KeysApart
<1>3. /\ redis[k] \in Nat /\ age[k] \in 0 .. CacheTtl
      /\ cache[p][k].ttl \in 0 .. CacheTtl /\ cache[p][k].left \in Nat
  BY <1>2 DEF TypeOK, CacheEntry
<1>4. /\ redis'[k] = Less(redis[k])
      /\ age'[k] = IF redis[k] <= 1 THEN 0 ELSE IF age[k] < CacheTtl THEN age[k] + 1
                                              ELSE CacheTtl
      /\ cache'[p][k] = IF cache[p][k].ttl <= 1 THEN [ttl |-> 0, left |-> 0]
           ELSE [ttl |-> cache[p][k].ttl - 1, left |-> Less(cache[p][k].left)]
  BY <1>2 DEF Tick
<1>5. Young(p, k)
  BY <1>2, YoungParts
<1>9. SUFFICES Young(p, k)'
  BY <1>2
<1>6. CASE cache[p][k].ttl <= 1
  BY <1>4, <1>6 DEF Young
<1>7. CASE cache[p][k].ttl > 1
  <2>1. cache'[p][k].ttl = cache[p][k].ttl - 1 /\ cache'[p][k].left = Less(cache[p][k].left)
    BY <1>4, <1>7, <1>3
  <2>2. QED
    BY <1>3, <1>4, <1>5, <1>7, <2>1, NumbersOK DEF Young, Less
<1>8. QED
  BY <1>3, <1>6, <1>7

LEMMA WorkStaysYoung ==
  ASSUME TypeOK, TypeOK', CacheIsYoung, NEW j \in Job, Work(j) \/ Abort(j)
  PROVE  CacheIsYoung'
<1>1. SUFFICES ASSUME NEW s \in Scope, NEW r \in Resource
               PROVE  /\ PauseAfter(PauseOf(s, r))
                      /\ \A p \in Proc : ReadAfter(p, PauseOf(s, r))
  BY StaysYoung
<1>2. PICK k \in Key : k = PauseOf(s, r)
  BY KeysApart
<1>3. SUFFICES PauseAfter(k) /\ \A p \in Proc : ReadAfter(p, k)
  BY <1>2
<1>4. StoreTyped /\ ProcsTyped /\ JobsTyped /\ HistoryTyped
  BY TypeParts
<1>5. /\ ProcOf[j] \in Proc /\ MyPause(j) \in Key /\ MySnapshot(j) \in Key
      /\ SecondaryOf(ScopeOf(j)) \in Key
  BY <1>4, JobKeys, KeysApart DEF MySnapshot
<1>6. k # MySnapshot(j) /\ k # SecondaryOf(ScopeOf(j))
  BY <1>2, <1>4, JobKeys, KeysApart DEF MySnapshot
<1>7. /\ redis \in [Key -> Nat] /\ cache \in [Proc -> [Key -> CacheEntry]]
      /\ age \in [Key -> 0 .. CacheTtl]
      /\ \A p \in Proc : cache[p][k].ttl \in Nat /\ cache[p][k].left \in Nat
  BY <1>4 DEF StoreTyped, ProcsTyped, HistoryTyped, CacheEntry
<1>8. /\ redis'[k] \in Nat
      /\ \A p \in Proc : cache'[p][k].ttl \in Nat /\ cache'[p][k].left \in Nat
  BY DEF TypeOK, CacheEntry
<1>9. ASSUME UNCHANGED <<redis, age>> PROVE PauseAfter(k)
  BY <1>7, <1>9 DEF PauseAfter
<1>10. ASSUME UNCHANGED cache PROVE \A p \in Proc : ReadAfter(p, k)
  BY <1>10 DEF ReadAfter
<1>11. ASSUME NEW key \in Key, NEW left \in Nat, AgeAfter(key, left),
              redis'[k] = IF k = key THEN left ELSE redis[k]
       PROVE  PauseAfter(k)
  <2>1. k # key => age'[k] = age[k]
    BY <1>7, <1>11 DEF AgeAfter
  <2>2. k = key => age'[k] = IF left > redis[k] THEN 0 ELSE age[k]
    BY <1>7, <1>11 DEF AgeAfter
  <2>3. redis[k] \in Nat
    BY <1>7
  <2>4. QED
    BY <1>11, <2>1, <2>2, <2>3 DEF PauseAfter
<1>12. ASSUME NEW p \in Proc, NEW key \in Key, Remember(p, key), redis'[k] <= redis[k]
       PROVE  \A q \in Proc : ReadAfter(q, k)
  <2>1. SUFFICES ASSUME NEW q \in Proc PROVE ReadAfter(q, k)
    OBVIOUS
  <2>2. \/ cache'[q][k] = cache[q][k]
        \/ cache'[q][k] = [ttl |-> CacheTtl, left |-> redis[k]]
    BY <1>7, <1>12 DEF Remember, Entry
  <2>3. CASE cache'[q][k] = cache[q][k]
    BY <2>3 DEF ReadAfter
  <2>4. CASE cache'[q][k] = [ttl |-> CacheTtl, left |-> redis[k]]
    BY <1>12, <1>7, <1>8, <2>4 DEF ReadAfter
  <2>5. QED
    BY <2>2, <2>3, <2>4
<1>13. CASE UNCHANGED <<redis, age, cache>>
  BY <1>9, <1>10, <1>13
<1>14. CASE SecondaryGate(j)
  BY <1>5, <1>7, <1>9, <1>12, <1>14 DEF SecondaryGate
<1>15. CASE PauseGate(j)
  <2>1. UNCHANGED <<redis, age>> /\ (UNCHANGED cache \/ Remember(ProcOf[j], MyPause(j)))
    BY <1>15 DEF PauseGate
  <2>2. QED
    BY <1>5, <1>7, <1>9, <1>10, <1>12, <2>1
<1>16. CASE ClearExpired(j)
  <2>1. /\ redis' = [redis EXCEPT ![MyPause(j)] = 0] /\ UNCHANGED age
        /\ cache' = [cache EXCEPT ![ProcOf[j]][MyPause(j)] = Entry(0)]
    BY <1>16 DEF ClearExpired
  <2>2. PauseAfter(k)
    BY <1>5, <1>7, <2>1 DEF PauseAfter
  <2>3. \A p \in Proc : ReadAfter(p, k)
    BY <1>5, <1>7, <1>8, <2>1 DEF ReadAfter, Entry
  <2>4. QED
    BY <2>2, <2>3
<1>17. CASE QuotaGate(j)
  <2>1. /\ Remember(ProcOf[j], MySnapshot(j))
        /\ \/ SetPause(MyPause(j), Cached(ProcOf[j], MySnapshot(j)))
           \/ UNCHANGED <<redis, age>>
    BY <1>17 DEF QuotaGate, MySnapshot
  <2>2. PauseAfter(k)
    <3>1. Cached(ProcOf[j], MySnapshot(j)) \in Nat
      BY <1>4, <1>5, CachedTyped
    <3>2. QED
      BY <1>5, <1>7, <1>9, <1>11, <2>1, <3>1 DEF SetPause
  <2>3. \A p \in Proc : cache'[p][k] = cache[p][k]
    BY <1>5, <1>6, <1>7, <2>1 DEF Remember
  <2>4. QED
    BY <2>2, <2>3 DEF ReadAfter
<1>18. ASSUME Ingest(j) PROVE PauseAfter(k) /\ \A p \in Proc : ReadAfter(p, k)
  <2>1. \A left : \A p \in Proc : Seen(j, left)[p][k] = cache[p][k]
    BY <1>5, <1>6, <1>7 DEF Seen
  <2>2. CASE UNCHANGED <<redis, leftover, age, cache, pending>>
    BY <1>13, <2>2
  <2>3. ASSUME NEW left \in Nat, Exhausted(j, left)
        PROVE  PauseAfter(k) /\ \A p \in Proc : ReadAfter(p, k)
    <3>1. PauseAfter(k)
      BY <1>5, <1>6, <1>7, <1>11, <2>3 DEF Exhausted
    <3>2. QED
      BY <2>1, <2>3, <3>1 DEF Exhausted, ReadAfter
  <2>4. CASE /\ redis' = [redis EXCEPT ![MySnapshot(j)] = 0]
             /\ cache' = Seen(j, 0) /\ UNCHANGED age
    <3>1. PauseAfter(k)
      BY <1>6, <1>7, <2>4 DEF PauseAfter
    <3>2. QED
      BY <2>1, <2>4, <3>1 DEF ReadAfter
  <2>5. ASSUME NEW later \in BOOLEAN, Plenty(j, later)
        PROVE  PauseAfter(k) /\ \A p \in Proc : ReadAfter(p, k)
    <3>1. /\ redis' = [redis EXCEPT ![MySnapshot(j)] = IF later THEN @ ELSE 0,
                                    ![MyPause(j)] = IF Cached(ProcOf[j], MyPause(j)) > 0
                                                    THEN 0 ELSE @]
          /\ UNCHANGED age
          /\ cache' = [Seen(j, 0) EXCEPT ![ProcOf[j]][MyPause(j)] =
                         IF Cached(ProcOf[j], MyPause(j)) > 0 THEN [ttl |-> 0, left |-> 0]
                         ELSE IF @.ttl > 0 THEN @ ELSE Entry(0)]
      BY <2>5 DEF Plenty
    <3>2. PauseAfter(k)
      BY <1>5, <1>6, <1>7, <3>1 DEF PauseAfter
    <3>3. CASE k # MyPause(j)
      <4>1. \A p \in Proc : cache'[p][k] = Seen(j, 0)[p][k]
        BY <1>5, <1>7, <3>1, <3>3 DEF Seen
      <4>2. QED
        BY <2>1, <3>2, <4>1 DEF ReadAfter
    <3>4. CASE k = MyPause(j)
      <4>1. Seen(j, 0) \in [Proc -> [Key -> CacheEntry]]
        BY <1>5, <1>7, NumbersOK DEF Seen, Entry, CacheEntry
      <4>2. ASSUME NEW p \in Proc, p # ProcOf[j] PROVE ReadAfter(p, k)
        BY <2>1, <3>1, <4>1, <4>2 DEF ReadAfter
      <4>3. cache'[ProcOf[j]][k] =
              IF Cached(ProcOf[j], k) > 0 THEN [ttl |-> 0, left |-> 0]
              ELSE IF cache[ProcOf[j]][k].ttl > 0 THEN cache[ProcOf[j]][k] ELSE Entry(0)
        BY <1>5, <2>1, <3>1, <3>4, <4>1
      <4>4. redis'[k] = IF Cached(ProcOf[j], k) > 0 THEN 0 ELSE redis[k]
        BY <1>5, <1>6, <1>7, <3>1, <3>4
      <4>5. ReadAfter(ProcOf[j], k)
        <5>1. CASE Cached(ProcOf[j], k) > 0
          BY <4>3, <5>1 DEF ReadAfter
        <5>2. CASE ~(Cached(ProcOf[j], k) > 0) /\ cache[ProcOf[j]][k].ttl > 0
          BY <4>3, <5>2 DEF ReadAfter
        <5>3. CASE ~(Cached(ProcOf[j], k) > 0) /\ ~(cache[ProcOf[j]][k].ttl > 0)
          <6>1. redis[k] = 0
            BY <1>7, <5>3 DEF Cached
          <6>2. cache'[ProcOf[j]][k].left = 0 /\ redis'[k] = 0
            BY <4>3, <4>4, <5>3, <6>1 DEF Entry
          <6>3. QED
            BY <6>2 DEF ReadAfter
        <5>4. QED
          BY <5>1, <5>2, <5>3
      <4>6. QED
        BY <3>2, <4>2, <4>5
    <3>5. QED
      BY <3>3, <3>4
  <2>6. QED
    <3>1. job[j].answer.reset \in Nat
      BY <1>4, JobKeys DEF Knowledge, Answer
    <3>2. QED
      BY <1>18, <2>2, <2>3, <2>4, <2>5, <3>1 DEF Ingest
<1>19. CASE IngestAnswer(j) \/ IngestAgain(j)
  BY <1>18, <1>19 DEF IngestAnswer, IngestAgain
<1>20. CASE ReactLimited(j)
  <2>1. /\ UNCHANGED cache
        /\ \/ \E left \in Nat : SetPause(MyPause(j), left)
           \/ \E left : redis' = [redis EXCEPT ![SecondaryOf(ScopeOf(j))] = left] /\ UNCHANGED age
    <3>1. job[j].answer.reset \in Nat /\ job[j].answer.retry \in Nat
      BY <1>4, JobKeys DEF Knowledge, Answer
    <3>2. MaxOf(job[j].answer.reset, job[j].answer.retry) \in Nat
      BY <3>1 DEF MaxOf
    <3>3. QED
      BY <1>20, <3>1, <3>2, NumbersOK DEF ReactLimited
  <2>2. CASE \E left : redis' = [redis EXCEPT ![SecondaryOf(ScopeOf(j))] = left] /\ UNCHANGED age
    <3>1. redis'[k] = redis[k] /\ UNCHANGED age
      BY <1>6, <1>7, <2>2
    <3>2. QED
      BY <1>7, <1>10, <2>1, <3>1 DEF PauseAfter
  <2>3. CASE \E left \in Nat : SetPause(MyPause(j), left)
    BY <1>5, <1>7, <1>10, <1>11, <2>1, <2>3 DEF SetPause
  <2>4. QED
    BY <2>1, <2>2, <2>3
<1>21. CASE Delay(j)
  <2>1. /\ UNCHANGED <<redis, age>>
        /\ UNCHANGED cache \/ \E asked : ReadAll(ProcOf[j], asked)
    BY <1>21 DEF Delay
  <2>2. ASSUME NEW asked, ReadAll(ProcOf[j], asked), NEW p \in Proc, UNCHANGED redis
        PROVE  ReadAfter(p, k)
    <3>1. cache'[p][k] = cache[p][k] \/ cache'[p][k] = Entry(redis[k])
      BY <1>5, <1>7, <2>2 DEF ReadAll
    <3>2. QED
      BY <1>7, <2>2, <3>1 DEF ReadAfter, Entry
  <2>3. QED
    BY <1>9, <1>10, <2>1, <2>2
<1>22. QED
  <2>1. ASSUME Begin(j) \/ BudgetGate(j) \/ Respond(j) \/ React(j) \/ Retry(j) \/ Abort(j)
        PROVE  UNCHANGED <<redis, age, cache>>
    BY <2>1 DEF Begin, BudgetGate, Respond, React, Retry, Abort, store
  <2>2. ASSUME PaceRequest(j) \/ Wake(j) \/ Acquire(j) \/ Count(j) \/ Release(j)
        PROVE  UNCHANGED <<redis, age, cache>>
    BY <2>2 DEF PaceRequest, Wake, Acquire, Count, Release
  <2>3. QED
    BY <1>13, <1>14, <1>15, <1>16, <1>17, <1>19, <1>20, <1>21, <2>1, <2>2 DEF Work

LEMMA RestStaysYoung ==
  ASSUME TypeOK, TypeOK', CacheIsYoung,
         \/ NewDay
         \/ \E p \in Proc : Flush(p) \/ Crash(p) \/ \E w \in Workspace : NewToken(p, w)
  PROVE  CacheIsYoung'
<1>1. SUFFICES ASSUME NEW s \in Scope, NEW r \in Resource
               PROVE  /\ PauseAfter(PauseOf(s, r))
                      /\ \A p \in Proc : ReadAfter(p, PauseOf(s, r))
  BY StaysYoung
<1>2. PICK k \in Key : /\ k = PauseOf(s, r)
                       /\ \A t \in Scope : \A q \in Resource : k # SnapshotOf(t, q)
  BY KeysApart
<1>3. SUFFICES PauseAfter(k) /\ \A p \in Proc : ReadAfter(p, k)
  BY <1>2
<1>4. /\ redis \in [Key -> Nat] /\ cache \in [Proc -> [Key -> CacheEntry]]
  BY DEF TypeOK
<1>5. CASE UNCHANGED <<redis, age, cache>>
  BY <1>4, <1>5 DEF PauseAfter, ReadAfter
<1>6. ASSUME NEW p \in Proc, Flush(p)
      PROVE  PauseAfter(k) /\ \A q \in Proc : ReadAfter(q, k)
  <2>1. \A q \in pending[p] : k # SnapshotOf(q[1], q[2])
    BY <1>2 DEF TypeOK, Quota
  <2>2. redis'[k] = redis[k] /\ UNCHANGED <<age, cache>>
    BY <1>6, <2>1 DEF Flush
  <2>3. QED
    BY <1>4, <2>2 DEF PauseAfter, ReadAfter
<1>7. ASSUME NEW p \in Proc, Crash(p)
      PROVE  PauseAfter(k) /\ \A q \in Proc : ReadAfter(q, k)
  <2>1. /\ UNCHANGED <<redis, age>>
        /\ cache' = [cache EXCEPT ![p] = [key \in Key |-> [ttl |-> 0, left |-> 0]]]
    BY <1>7 DEF Crash, store
  <2>2. QED
    BY <1>4, <2>1 DEF PauseAfter, ReadAfter
<1>8. ASSUME NEW p \in Proc, NEW w \in Workspace, NewToken(p, w)
      PROVE  PauseAfter(k) /\ \A q \in Proc : ReadAfter(q, k)
  <2> DEFINE gone == {PauseOf(w, x) : x \in Resource} \cup {SecondaryOf(w)}
             told == {SnapshotOf(w, x) : x \in Reported}
  <2>1. k \notin told
    BY <1>2, QuotaConstantsOK DEF QuotaConstantsOK, Scope
  <2>2. /\ redis' = [key \in Key |-> IF key \in gone \cup told THEN 0 ELSE redis[key]]
        /\ cache' = [cache EXCEPT ![p] = [key \in Key |-> IF key \in told THEN Entry(0)
                       ELSE IF key \in gone THEN [ttl |-> 0, left |-> 0] ELSE @[key]]]
        /\ UNCHANGED age
    BY <1>8 DEF NewToken
  <2> HIDE DEF gone, told
  <2>3. redis'[k] = (IF k \in gone THEN 0 ELSE redis[k]) /\ PauseAfter(k)
    BY <1>4, <2>1, <2>2 DEF PauseAfter
  <2>4. cache'[p][k] = IF k \in gone THEN [ttl |-> 0, left |-> 0] ELSE cache[p][k]
    BY <1>4, <2>1, <2>2
  <2>5. \A q \in Proc : q # p => cache'[q][k] = cache[q][k]
    BY <1>4, <2>2
  <2>6. QED
    BY <2>3, <2>4, <2>5 DEF ReadAfter
<1>9. QED
  BY <1>5, <1>6, <1>7, <1>8 DEF NewDay

-----------------------------------------------------------------------------
(* The invariant, and what follows from it.                                 *)

LEMMA InvariantParts ==
  /\ SlotsCounted <=> TypeOK /\ Counts
  /\ WaysOut <=> \A j \in Job : WayOut(j)
BY DEF SlotsCounted, Counts, WaysOut, WayOut

LEMMA InitQInv == ASSUME Init PROVE QInv
<1>1. TypeOK
  <2>1. -MinInterval \in Int /\ 0 \in 0 .. CacheTtl /\ 0 \in 0 .. MaxFaults
    BY NumbersOK
  <2>2. [ttl |-> 0, left |-> 0] \in CacheEntry /\ "idle" \in Label
    BY <2>1 DEF CacheEntry, Label
  <2>3. QED
    BY <2>1, <2>2, DoneTyped DEF Init, TypeOK
<1>2. \A j \in Job : pc[j] = "idle"
  BY DEF Init
<1>3. /\ \A w \in Workspace \cup {Everyone} : Runners(w) = {}
      /\ {j \in Job : Holding(j)} = {}
      /\ \A w \in Workspace : Between(w) = {}
  BY <1>2 DEF Runners, Holding, Between
<1>4. Cardinality({}) = 0
  BY FS_EmptySet
<1>5. Counts
  <2>1. \A w \in Workspace \cup {Everyone} : running[w].count = 0
    BY DEF Init
  <2>2. /\ \A w \in Workspace \cup {Everyone} : Cardinality(Runners(w)) = 0
        /\ Cardinality({j \in Job : Holding(j)}) = 0
    BY <1>3, <1>4
  <2>3. QED
    BY <2>1, <2>2, NumbersOK DEF Counts
<1>6. BudgetBounded
  <2>1. SUFFICES ASSUME NEW w \in Workspace
                 PROVE  0 <= DailyBudget + Cardinality(Job) - 1
    <3>1. \A w \in Workspace : budget[w] = 0 /\ Cardinality(Between(w)) = 0
      BY <1>3, <1>4 DEF Init
    <3>2. QED
      BY <3>1 DEF BudgetBounded
  <2>2. Cardinality(Job) \in Nat \ {0}
    BY FS_CardinalityType, FS_EmptySet, QuotaConstantsOK DEF QuotaConstantsOK
  <2>3. QED
    BY <2>2, NumbersOK
<1>7. WaysOut /\ CountersLive
  BY <1>2 DEF WaysOut, CountersLive, Init
<1>8. PaceRemembers
  BY NumbersOK DEF Init, PaceRemembers
<1>9. CacheIsYoung
  BY KeysApart DEF Init, CacheIsYoung
<1>10. QED
  BY <1>1, <1>5, <1>6, <1>7, <1>8, <1>9, InvariantParts DEF QInv

LEMMA NextQInv == ASSUME QInv, [Next]_vars PROVE QInv'
<1>1. /\ TypeOK /\ Counts /\ BudgetBounded /\ WaysOut /\ CountersLive /\ PaceRemembers
      /\ CacheIsYoung /\ \A j \in Job : WayOut(j)
  BY InvariantParts DEF QInv
<1>2. SUFFICES /\ TypeOK' /\ Counts' /\ BudgetBounded' /\ WaysOut' /\ CountersLive'
               /\ PaceRemembers' /\ CacheIsYoung'
  BY DEF QInv, SlotsCounted, Counts
<1>3. ASSUME NEW j \in Job, Work(j) \/ Abort(j)
      PROVE  /\ TypeOK' /\ Counts' /\ BudgetBounded' /\ WaysOut' /\ CountersLive'
             /\ PaceRemembers' /\ CacheIsYoung'
  <2>1. StepKeeps(j) /\ (PaceRequest(j) \/ UNCHANGED <<pace, handed>>)
    BY <1>1, <1>3, WorkKeeps
  <2>2. WaysOut'
    BY <1>1, <2>1 DEF StepKeeps, Moves, WaysOut, WayOut
  <2>3. PaceRemembers'
    BY <1>1, <2>1, PaceKeeps
  <2>4. CacheIsYoung'
    BY <1>1, <1>3, <2>1, WorkStaysYoung DEF StepKeeps
  <2>5. QED
    BY <2>1, <2>2, <2>3, <2>4 DEF StepKeeps
<1>4. ASSUME RestKeeps, UNCHANGED <<pace, handed>>,
             \/ NewDay
             \/ \E p \in Proc : Flush(p) \/ Crash(p) \/ \E w \in Workspace : NewToken(p, w)
      PROVE  /\ TypeOK' /\ Counts' /\ BudgetBounded' /\ WaysOut' /\ CountersLive'
             /\ PaceRemembers' /\ CacheIsYoung'
  <2>1. PaceRemembers'
    BY <1>1, <1>4, PaceKeeps
  <2>2. CacheIsYoung'
    BY <1>1, <1>4, RestStaysYoung DEF RestKeeps
  <2>3. QED
    BY <1>4, <2>1, <2>2 DEF RestKeeps
<1>5. ASSUME NEW p \in Proc, Flush(p) PROVE RestKeeps /\ UNCHANGED <<pace, handed>>
  BY <1>1, <1>5, FlushKeeps DEF Flush
<1>6. ASSUME NEW p \in Proc, Crash(p) PROVE RestKeeps /\ UNCHANGED <<pace, handed>>
  BY <1>1, <1>6, CrashKeeps DEF Crash, store
<1>7. ASSUME NEW p \in Proc, NEW w \in Workspace, NewToken(p, w)
      PROVE  RestKeeps /\ UNCHANGED <<pace, handed>>
  BY <1>1, <1>7, NewTokenKeeps DEF NewToken
<1>8. ASSUME NewDay PROVE RestKeeps /\ UNCHANGED <<pace, handed>>
  BY <1>1, <1>8, NewDayKeeps DEF NewDay
<1>9. CASE Tick
  BY <1>1, <1>9, TickKeeps, TickStaysYoung, PaceKeeps DEF RestKeeps
<1>10. CASE UNCHANGED vars
  <2>1. UNCHANGED <<redis, leftover, pace, budget, running, scanMark, cache, pending, own, pc,
                    job, handed, age, lapsed, faults>>
    BY <1>10 DEF vars
  <2>2. TypeOK' /\ WaysOut' /\ CountersLive' /\ PaceRemembers' /\ CacheIsYoung'
    BY <1>1, <2>1 DEF TypeOK, WaysOut, CountersLive, PaceRemembers, CacheIsYoung
  <2>3. /\ \A w \in Workspace \cup {Everyone} : Runners(w)' = Runners(w)
        /\ {i \in Job : Holding(i)}' = {i \in Job : Holding(i)}
        /\ \A w \in Workspace : Between(w)' = Between(w)
    BY <2>1 DEF Runners, Holding, Between, Budgeted, ScopeOf
  <2>4. Counts' /\ BudgetBounded'
    BY <1>1, <2>1, <2>3 DEF Counts, BudgetBounded
  <2>5. QED
    BY <2>2, <2>4
<1>11. QED
  BY <1>3, <1>4, <1>5, <1>6, <1>7, <1>8, <1>9, <1>10 DEF Next

\* The whole invariant holds of every behaviour: types, counters, budget, what the key
\* of the pace remembers and how old a cached pause can be (quota.store, http.client).
THEOREM QuotaHolds == Spec => []QInv
<1>1. Init => QInv
  BY InitQInv
<1>2. QInv /\ [Next]_vars => QInv'
  BY NextQInv
<1>3. QED
  BY <1>1, <1>2, PTL DEF Spec

\* Until a counter expires or a process dies with a slot, the two counters of running
\* requests are the requests that run, and within their limits
\* (acquireConcurrency, releaseConcurrency).
THEOREM SlotsAreCounted == Spec => []SlotsCounted
<1>1. QInv => SlotsCounted
  BY DEF QInv
<1>2. QED
  BY <1>1, QuotaHolds, PTL

\* However the checks and the counts of the jobs interleave, a workspace goes over its
\* daily budget by fewer requests than there are jobs
\* (assertUnderDailyBudget, incrementDailyUsage).
THEOREM BudgetIsBounded == Spec => []BudgetBounded
<1>1. QInv => BudgetBounded
  BY DEF QInv
<1>2. QED
  BY <1>1, QuotaHolds, PTL

\* Two requests of a paced resource that take a slot take slots an interval apart,
\* in whatever processes they run, as long as the key of the pace outlives the longest
\* sleep (reserveNextSlot, paceRequest).
THEOREM SlotsAreSpaced == Spec => SlotsSpaced
<1>1. ASSUME QInv, [Next]_vars, PaceOutlivesWait, NEW j \in Job,
             pc[j] = "pace", pc'[j] \in {"quota", "sleep"}, job[j].req.resource \in Paced
      PROVE  handed'[MyQuota(j)] >= handed[MyQuota(j)] + MinInterval
  <2>1. TypeOK /\ PaceRemembers
    BY <1>1 DEF QInv, SlotsCounted
  <2>2. PaceRequest(j)
    <3>1. ASSUME NEW i \in Job, Work(i) \/ Abort(i), i # j PROVE FALSE
      <4>1. Moves(i)
        BY <1>1, <3>1, WorkKeeps, InvariantParts DEF QInv, StepKeeps
      <4>2. QED
        BY <1>1, <3>1, <4>1 DEF Moves
    <3>2. ASSUME Work(j) \/ Abort(j) PROVE PaceRequest(j)
      BY <1>1, <3>2 DEF Work, Abort, Begin, SecondaryGate, PauseGate, ClearExpired, QuotaGate,
         Wake, BudgetGate, Acquire, Count, Respond, IngestAnswer, React, ReactLimited,
         IngestAgain, Retry, Release, Delay
    <3>3. ASSUME NEW p \in Proc, Crash(p) PROVE FALSE
      BY <1>1, <3>3 DEF Crash
    <3>4. ASSUME Tick \/ NewDay \/ UNCHANGED vars PROVE FALSE
      BY <1>1, <3>4 DEF Tick, NewDay, vars
    <3>5. ASSUME NEW p \in Proc, Flush(p) \/ \E w \in Workspace : NewToken(p, w) PROVE FALSE
      BY <1>1, <3>5 DEF Flush, NewToken
    <3>6. QED
      BY <1>1, <3>1, <3>2, <3>3, <3>4, <3>5 DEF Next
  <2>3. MyQuota(j) \in Quota
    BY <2>1, TypeParts, JobKeys
  <2>4. handed' = [handed EXCEPT ![MyQuota(j)] = Slot(MyQuota(j))]
    BY <1>1, <2>1, <2>2, PaceTame
  <2>5. handed'[MyQuota(j)] = Slot(MyQuota(j))
    BY <2>1, <2>3, <2>4 DEF TypeOK
  <2>6. /\ handed[MyQuota(j)] <= pace[MyQuota(j)].slot
        /\ handed[MyQuota(j)] \in Int /\ pace[MyQuota(j)].slot \in Int
    BY <1>1, <2>1, <2>3 DEF PaceRemembers, TypeOK
  <2>7. QED
    BY <2>5, <2>6, NumbersOK DEF Slot, MaxOf
<1>2. QInv /\ [Next]_vars =>
        [PaceOutlivesWait => \A j \in Job :
           (pc[j] = "pace" /\ pc'[j] \in {"quota", "sleep"} /\ job[j].req.resource \in Paced)
             => handed'[MyQuota(j)] >= handed[MyQuota(j)] + MinInterval]_vars
  BY <1>1
<1>3. QED
  BY <1>2, QuotaHolds, PTL DEF Spec, SlotsSpaced

\* A request that passes the gate of the pauses without waiting either meets no pause or
\* one that came into force less than the time of the cache ago, whatever the other
\* processes set or lift (getPause, setPause, clearPause).
THEOREM PauseIsSeen == Spec => PauseSeenInTime
<1>1. ASSUME QInv, [Next]_vars, NEW j \in Job, pc[j] = "pause", pc'[j] = "pace"
      PROVE  redis[MyPause(j)] = 0 \/ age[MyPause(j)] < CacheTtl
  <2>1. TypeOK /\ CacheIsYoung
    BY <1>1 DEF QInv, SlotsCounted
  <2>2. PauseGate(j)
    <3>1. ASSUME NEW i \in Job, Work(i) \/ Abort(i), i # j PROVE FALSE
      <4>1. Moves(i)
        BY <1>1, <3>1, WorkKeeps, InvariantParts DEF QInv, StepKeeps
      <4>2. QED
        BY <1>1, <3>1, <4>1 DEF Moves
    <3>2. ASSUME Work(j) \/ Abort(j) PROVE PauseGate(j)
      BY <1>1, <3>2 DEF Work, Abort, Begin, SecondaryGate, PaceRequest, ClearExpired, QuotaGate,
         Wake, BudgetGate, Acquire, Count, Respond, IngestAnswer, React, ReactLimited,
         IngestAgain, Retry, Release, Delay
    <3>3. ASSUME NEW p \in Proc, Crash(p) PROVE FALSE
      BY <1>1, <3>3 DEF Crash
    <3>4. ASSUME Tick \/ NewDay \/ UNCHANGED vars PROVE FALSE
      BY <1>1, <3>4 DEF Tick, NewDay, vars
    <3>5. ASSUME NEW p \in Proc, Flush(p) \/ \E w \in Workspace : NewToken(p, w) PROVE FALSE
      BY <1>1, <3>5 DEF Flush, NewToken
    <3>6. QED
      BY <1>1, <3>1, <3>2, <3>3, <3>4, <3>5 DEF Next
  <2>3. StoreTyped /\ ProcsTyped /\ JobsTyped /\ HistoryTyped
    BY <2>1, TypeParts
  <2>4. PICK s \in Scope, r \in Resource, k \in Key, p \in Proc :
          s = ScopeOf(j) /\ r = job[j].req.resource /\ k = PauseOf(s, r) /\ k = MyPause(j)
          /\ p = ProcOf[j]
    BY <2>3, JobKeys DEF MyPause
  <2>5. Cached(p, k) = 0
    <3>1. pc'[j] \notin {"clearExpired", "sleep", "delay"}
      BY <1>1
    <3>2. \A l, f : Go(j, l, f) => pc'[j] = l
      BY <2>3 DEF Go, JobsTyped
    <3>3. DelayOrThrow(j, Cached(p, k), "pace")
      BY <2>2, <2>4, <3>1, <3>2 DEF PauseGate, Step
    <3>4. QED
      BY <3>1, <3>2, <3>3 DEF DelayOrThrow, ThrowQuota
  <2>6. /\ redis[k] \in Nat /\ age[k] \in Nat /\ cache[p][k].ttl \in Nat
    BY <2>1, NumbersOK DEF TypeOK, CacheEntry
  <2>7. Young(p, k)
    BY <2>1, <2>4, YoungParts
  <2>8. QED
    BY <2>4, <2>5, <2>6, <2>7, NumbersOK DEF Cached, Young
<1>2. QInv /\ [Next]_vars =>
        [\A j \in Job : (pc[j] = "pause" /\ pc'[j] = "pace") =>
           redis[MyPause(j)] = 0 \/ age[MyPause(j)] < CacheTtl]_vars
  BY <1>1
<1>3. QED
  BY <1>2, QuotaHolds, PTL DEF Spec, PauseSeenInTime
=============================================================================
