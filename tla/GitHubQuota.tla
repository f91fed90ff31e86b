----------------------------- MODULE GitHubQuota -----------------------------
(***************************************************************************)
(* One GitHub token shared by the jobs of several worker processes: the    *)
(* gates a request passes, what its answer does to the quota state kept in *)
(* Redis, and the delay of a job that must wait.                           *)
(*                                                                         *)
(* A job makes one request at a time; a step is what the client does       *)
(* between two awaits.  Every date is kept as the time left until it, so a *)
(* Tick is one unit of time for all of them, and an expired key is 0.      *)
(*                                                                         *)
(* Abstracted: the caches of answers (search results, ETags), metrics, the *)
(* random part of a sleep, and the amounts of quota: of a snapshot only    *)
(* whether it is at the pause threshold, and until when, is ever compared. *)
(***************************************************************************)
EXTENDS Integers, FiniteSets

CONSTANTS
  Job,                \* jobs that call GitHub, one request at a time
  Proc, ProcOf,       \* worker processes, each with its own short cache
  Workspace,          \* workspaces
  Requests,           \* what each job may ask: for which workspace (or Everyone), what
  ScanOf,             \* the scan whose job it is, or NoScan
  Resource,           \* GitHub's separate quotas: core, search, code_search
  Paced,              \* those with a minimum interval
  Reported,           \* those refreshed from /rate_limit: core and search
  MinInterval,        \* codeSearchMinIntervalMs, searchMinIntervalMs
  MaxInlineWait,      \* maxInlineWaitMs
  CacheTtl,           \* shortCacheTtlMs
  RunTtl,             \* the 600 seconds of a counter of running requests
  Backoff,            \* computeBackoffMs
  ShortDelay,         \* retryAfterMs of a refused slot (2 s)
  DefaultDelay,       \* the delay when no date is known (60 s)
  MaxAttempts,        \* GITHUB_RETRY_ATTEMPTS
  DailyBudget, MaxWorkspace, MaxGlobal,
  Answers,            \* what GitHub may answer, see Answer
  MaxFaults,          \* bound: bad answers, crashes, aborts
  Everyone, Shared, NoScan

Label == {"idle", "sleep", "secondary", "pause", "clearExpired", "pace", "quota", "budget",
          "acquire", "count", "send", "ingest", "react", "reingest", "backoff", "release", "delay",
          "delayed", "served", "failed"}

\* remaining: is what is left at the pause threshold, below the low one, or above?
\* reset, retry: x-ratelimit-reset and retry-after, as time left.
Answer == [kind : {"ok", "denied", "limited", "secondary", "broken", "lost"},
           remaining : {"exhausted", "low", "plenty", "unknown"}, reset : Nat, retry : Nat]
NoAnswer == [kind |-> "lost", remaining |-> "unknown", reset |-> 0, retry |-> 0]

Request == [workspace : Workspace \cup {Everyone}, resource : Resource]

ASSUME QuotaConstantsOK ==
  /\ IsFiniteSet(Job) /\ Job # {} /\ Resource # {}
  /\ ProcOf \in [Job -> Proc] /\ Paced \cup Reported \subseteq Resource
  /\ Everyone \notin Workspace
  /\ Requests \in [Job -> SUBSET Request]
  /\ Shared \notin Workspace
  /\ Answers \subseteq Answer
  /\ {MinInterval, RunTtl, MaxAttempts} \subseteq Nat \ {0}
  /\ {MaxInlineWait, CacheTtl, Backoff, ShortDelay, DefaultDelay, DailyBudget, MaxWorkspace,
      MaxGlobal, MaxFaults} \subseteq Nat

VARIABLES
  redis,       \* time left of a pause, a secondary limit, an exhausted snapshot
  leftover,    \* pause keys that have not been deleted
  pace,        \* the last slot reserved, and the time its key has left
  budget,      \* requests of each workspace today
  running,     \* requests counted as running, and the time the counter has left
  scanMark,    \* time left of the pause shown for a scan
  cache,       \* each process' short cache of what it read in redis
  pending,     \* each process' snapshots that are not written yet
  own,         \* workspaces that have a token of their own
  pc, job,     \* where each job is, and what it knows
  handed,      \* history: the last slot really handed out, relative to now
  age,         \* history: how long a pause has been in force as it is, up to CacheTtl
  lapsed,      \* history: has a counter expired or a process died holding a slot?
  faults

store == <<redis, leftover, pace, budget, running, scanMark>>
vars == <<redis, leftover, pace, budget, running, scanMark, cache, pending, own, pc, job,
          handed, age, lapsed, faults>>

\* scopeFor: everything about quota is kept per token.  A request keeps the one it began
\* with (resolveToken).
Scope == Workspace \cup {Shared}
ScopeNow(w) == IF w \in own THEN w ELSE Shared
ScopeOf(j) == job[j].scope
Quota == Scope \X Resource
PauseOf(s, r) == <<"pause", s, r>>
SnapshotOf(s, r) == <<"snapshot", s, r>>
SecondaryOf(s) == <<"secondary", s>>
Key == {PauseOf(s, r) : s \in Scope, r \in Resource}
       \cup {SnapshotOf(s, r) : s \in Scope, r \in Resource} \cup {SecondaryOf(s) : s \in Scope}
MyPause(j) == PauseOf(ScopeOf(j), job[j].req.resource)
MyQuota(j) == <<ScopeOf(j), job[j].req.resource>>

MaxOf(a, b) == IF a > b THEN a ELSE b
Less(n) == IF n > 0 THEN n - 1 ELSE 0      \* a timer after one unit of time

Blank(req, scope) == [req |-> req, scope |-> scope, wait |-> 0, then |-> "idle", tries |-> 0,
                 answer |-> NoAnswer, until |-> 0, retry |-> 0]
Fresh(j) == Blank(job[j].req, job[j].scope)
NoRequest == CHOOSE r \in Request : TRUE
Done == Blank(NoRequest, Shared)

CacheEntry == [ttl : 0 .. CacheTtl, left : Nat]
Knowledge == [req : Request, scope : Scope, wait : Nat, then : Label,
              tries : 0 .. MaxAttempts, answer : Answer, until : Nat, retry : Nat]

TypeOK ==
  /\ redis \in [Key -> Nat] /\ leftover \subseteq Key
  /\ pace \in [Quota -> [slot : Int, ttl : Nat]]
  /\ budget \in [Workspace -> Nat]
  /\ running \in [Workspace \cup {Everyone} -> [count : Nat, ttl : Nat]]
  /\ DOMAIN scanMark = {ScanOf[j] : j \in Job} \ {NoScan}
  /\ cache \in [Proc -> [Key -> CacheEntry]]
  /\ pending \in [Proc -> SUBSET Quota]
  /\ pc \in [Job -> Label]
  /\ own \subseteq Workspace
  /\ job \in [Job -> Knowledge]
  /\ handed \in [Quota -> Int] /\ age \in [Key -> 0 .. CacheTtl]
  /\ lapsed \in BOOLEAN /\ faults \in 0 .. MaxFaults

Init ==
  /\ redis = [k \in Key |-> 0] /\ leftover = {}
  /\ pace = [q \in Quota |-> [slot |-> -MinInterval, ttl |-> 0]]
  /\ budget = [w \in Workspace |-> 0]
  /\ running = [w \in Workspace \cup {Everyone} |-> [count |-> 0, ttl |-> 0]]
  /\ scanMark = [s \in {ScanOf[j] : j \in Job} \ {NoScan} |-> 0]
  /\ cache = [p \in Proc |-> [k \in Key |-> [ttl |-> 0, left |-> 0]]]
  /\ pending = [p \in Proc |-> {}]
  /\ pc = [j \in Job |-> "idle"] /\ job = [j \in Job |-> Done]
  /\ own = {}
  /\ handed = [q \in Quota |-> -MinInterval] /\ age = [k \in Key |-> 0]
  /\ lapsed = FALSE /\ faults = 0

-----------------------------------------------------------------------------
(* The store: what it reads through the cache, and what it writes.         *)

Cached(p, k) == IF cache[p][k].ttl > 0 THEN cache[p][k].left ELSE redis[k]

\* Kept for longer than shortCacheTtlMs says.
EntryLong(left) == [ttl |-> 2 * CacheTtl, left |-> left]
Entry(left) == [ttl |-> CacheTtl, left |-> left]

Remember(p, k) ==
  cache' = [cache EXCEPT ![p][k] = IF @.ttl > 0 THEN @ ELSE Entry(redis[k])]

\* A pause that lasts longer than the one it replaces is a new one.
AgeAfter(k, left) == age' = [age EXCEPT ![k] = IF left > redis[k] THEN 0 ELSE @]

\* setPause overwrites whatever pause there is; no process' cache hears of it.
SetPause(k, left) ==
  /\ redis' = [redis EXCEPT ![k] = left]
  /\ leftover' = leftover \cup {k}
  /\ AgeAfter(k, left)

\* getPausedUntil: the latest date of any pause of the token.
AnyPause(p, s) == {Cached(p, PauseOf(s, r)) : r \in Resource}
PausedUntil(p, s, latest) ==
  LET dates == AnyPause(p, s) \cup {Cached(p, SecondaryOf(s))}
  IN latest \in dates /\ \A d \in dates : d <= latest

Go(j, label, f) == pc' = [pc EXCEPT ![j] = label] /\ job' = [job EXCEPT ![j] = f]
Step(j, label) == Go(j, label, job[j])

Mark(j, left) == scanMark' = IF ScanOf[j] = NoScan THEN scanMark
                             ELSE [scanMark EXCEPT ![ScanOf[j]] = left]

\* A quota error thrown before a slot is held: the worker's catch block delays the job.
ThrowQuota(j, until, retry) ==
  Go(j, "delay", [Fresh(j) EXCEPT !.until = until, !.retry = retry])

\* delayOrThrow: a short wait is slept through, a long one is thrown.
DelayOrThrow(j, left, next) ==
  \/ left = 0 /\ Step(j, next) /\ UNCHANGED scanMark
  \/ left \in 1 .. MaxInlineWait
     /\ Go(j, "sleep", [job[j] EXCEPT !.wait = left, !.then = next]) /\ Mark(j, left)
  \/ left > MaxInlineWait /\ ThrowQuota(j, left, 0) /\ Mark(j, left)

-----------------------------------------------------------------------------
(* The gates: enforcePauseAndQuota, then the budget and a slot.            *)

\* A job that was delayed makes the request it could not make; a new one makes any.
Begin(j) == \E r \in Requests[j] :
  /\ pc[j] = "delayed" => r = job[j].req
  /\ pc[j] \in {"idle", "delayed"} /\ (pc[j] = "delayed" => job[j].wait = 0)
  /\ Go(j, "secondary", Blank(r, ScopeNow(r.workspace)))
  /\ UNCHANGED <<store, cache, pending, handed, age, lapsed, faults, own>>

SecondaryGate(j) ==
  LET p == ProcOf[j]  k == SecondaryOf(ScopeOf(j))
  IN /\ pc[j] = "secondary"
     /\ Remember(p, k) /\ DelayOrThrow(j, Cached(p, k), "pause")
     /\ UNCHANGED <<redis, leftover, pace, budget, running, pending, handed, age, lapsed,
                    faults, own>>

\* A key whose date has passed is deleted, after it was read.
PauseGate(j) ==
  LET p == ProcOf[j]  k == MyPause(j)
  IN /\ pc[j] = "pause"
     /\ \/ /\ cache[p][k].ttl = 0 /\ k \in leftover /\ redis[k] = 0
           /\ Step(j, "clearExpired") /\ UNCHANGED <<cache, scanMark>>
        \/ /\ cache[p][k].ttl > 0 \/ k \notin leftover \/ redis[k] > 0
           /\ Remember(p, k) /\ DelayOrThrow(j, Cached(p, k), "pace")
     /\ UNCHANGED <<redis, leftover, pace, budget, running, pending, handed, age, lapsed,
                    faults, own>>

ClearExpired(j) ==
  LET p == ProcOf[j]  k == MyPause(j)
  IN /\ pc[j] = "clearExpired" /\ Step(j, "pace")
     /\ redis' = [redis EXCEPT ![k] = 0] /\ leftover' = leftover \ {k}
     /\ cache' = [cache EXCEPT ![p][k] = Entry(0)]
     /\ UNCHANGED <<pace, budget, running, scanMark, pending, handed, age, lapsed,
                    faults, own>>

\* reserveNextSlot, one Lua script: the slot is kept only by a caller that will use it.
Slot(q) == MaxOf(pace[q].slot + MinInterval, 0)

\* As it would be if the key lived for one interval.
PaceShortLived(j) ==
  LET q == MyQuota(j)
  IN /\ pc[j] = "pace" /\ job[j].req.resource \in Paced /\ Slot(q) <= MaxInlineWait
     /\ pace' = [pace EXCEPT ![q] = [slot |-> Slot(q), ttl |-> MinInterval]]
     /\ handed' = [handed EXCEPT ![q] = Slot(q)]
     /\ Go(j, "sleep", [job[j] EXCEPT !.wait = Slot(q), !.then = "quota"])
     /\ UNCHANGED <<redis, leftover, budget, running, scanMark, cache, pending, age, lapsed,
                    faults, own>>

PaceRequest(j) ==
  LET q == MyQuota(j)
  IN /\ pc[j] = "pace"
     /\ \/ job[j].req.resource \notin Paced /\ Step(j, "quota") /\ UNCHANGED <<pace, handed>>
        \/ /\ job[j].req.resource \in Paced /\ Slot(q) > MaxInlineWait
           /\ ThrowQuota(j, Slot(q), 0) /\ UNCHANGED <<pace, handed>>
        \/ /\ job[j].req.resource \in Paced /\ Slot(q) <= MaxInlineWait
           /\ pace' = [pace EXCEPT ![q] = [slot |-> Slot(q), ttl |-> 4 * MinInterval]]
           /\ handed' = [handed EXCEPT ![q] = Slot(q)]
           /\ IF Slot(q) = 0 THEN Step(j, "quota")
              ELSE Go(j, "sleep", [job[j] EXCEPT !.wait = Slot(q), !.then = "quota"])
     /\ UNCHANGED <<redis, leftover, budget, running, scanMark, cache, pending, age,
                    lapsed, faults, own>>

QuotaGate(j) ==
  LET p == ProcOf[j]
      k == SnapshotOf(ScopeOf(j), job[j].req.resource)
  IN /\ pc[j] = "quota" /\ Remember(p, k)
     /\ DelayOrThrow(j, Cached(p, k), "budget")
     /\ IF Cached(p, k) > 0 THEN SetPause(MyPause(j), Cached(p, k))
                            ELSE UNCHANGED <<redis, leftover, age>>
     /\ UNCHANGED <<pace, budget, running, pending, handed, lapsed, faults, own>>

\* A sleep ends, and with it the mark on the scan, whoever set it last.  A sleep of
\* the pace leaves no mark to clear.
Wake(j) ==
  /\ pc[j] = "sleep" /\ job[j].wait = 0
  /\ Go(j, job[j].then, Fresh(j))
  /\ IF job[j].then = "quota" THEN UNCHANGED scanMark ELSE Mark(j, 0)
  /\ UNCHANGED <<redis, leftover, pace, budget, running, cache, pending, handed, age,
                 lapsed, faults, own>>

Budgeted(j) == job[j].req.workspace # Everyone /\ ScopeOf(j) = Shared

\* As it would be with > for >=.
BudgetGateLate(j) ==
  /\ pc[j] = "budget"
  /\ IF Budgeted(j) /\ budget[job[j].req.workspace] > DailyBudget
     THEN ThrowQuota(j, 0, DefaultDelay) ELSE Step(j, "acquire")
  /\ UNCHANGED <<store, cache, pending, handed, age, lapsed, faults, own>>

BudgetGate(j) ==
  /\ pc[j] = "budget"
  /\ IF Budgeted(j) /\ budget[job[j].req.workspace] >= DailyBudget
     THEN ThrowQuota(j, 0, DefaultDelay) ELSE Step(j, "acquire")
  /\ UNCHANGED <<store, cache, pending, handed, age, lapsed, faults, own>>

Incr(r, w) == [r EXCEPT ![w] = [count |-> @.count + 1,
                                ttl |-> IF @.count = 0 THEN RunTtl ELSE @.ttl]]
Decr(r, w) == [r EXCEPT ![w] = [count |-> Less(@.count),
                                ttl |-> IF @.count <= 1 THEN 0 ELSE @.ttl]]

\* acquireConcurrency.  A job of no workspace counts under the name "global", whose
\* key is the key of the global counter: it is counted there twice.
Acquire(j) ==
  LET w == job[j].req.workspace
      mine == Incr(running, w)
      both == Incr(mine, Everyone)
      granted == /\ mine[w].count <= (IF w = Everyone THEN MaxGlobal ELSE MaxWorkspace)
                 /\ both[Everyone].count <= MaxGlobal
  IN /\ pc[j] = "acquire"
     /\ \/ granted /\ running' = both /\ Step(j, "count")
        \/ ~granted /\ UNCHANGED running /\ ThrowQuota(j, 0, ShortDelay)
     /\ UNCHANGED <<redis, leftover, pace, budget, scanMark, cache, pending, handed, age,
                    lapsed, faults, own>>

Count(j) ==
  /\ pc[j] = "count" /\ Step(j, "send")
  /\ budget' = IF Budgeted(j) THEN [budget EXCEPT ![job[j].req.workspace] = @ + 1] ELSE budget
  /\ UNCHANGED <<redis, leftover, pace, running, scanMark, cache, pending, handed, age,
                 lapsed, faults, own>>

-----------------------------------------------------------------------------
(* The request and its answer.                                             *)

\* GitHub answers, in its own time and in any order.
Respond(j) == \E a \in Answers :
  /\ pc[j] = "send"
  /\ faults' = IF a.kind = "ok" /\ a.remaining = "plenty" THEN faults ELSE faults + 1
  /\ faults' <= MaxFaults
  /\ Go(j, IF a.kind = "lost" THEN "react" ELSE "ingest", [job[j] EXCEPT !.answer = a])
  /\ UNCHANGED <<store, cache, pending, handed, age, lapsed, own>>

\* ingestRateLimitHeaders.  A snapshot with little left is written at once, another is
\* written now or, when one was just written, later; the process itself sees both.
MySnapshot(j) == SnapshotOf(ScopeOf(j), job[j].req.resource)
Seen(j, left) == [cache EXCEPT ![ProcOf[j]][MySnapshot(j)] = Entry(left)]
Written(j) == [pending EXCEPT ![ProcOf[j]] = @ \ {MyQuota(j)}]

Exhausted(j, left) ==
  /\ redis' = [redis EXCEPT ![MySnapshot(j)] = left, ![MyPause(j)] = left]
  /\ leftover' = leftover \cup {MyPause(j)}
  /\ AgeAfter(MyPause(j), left)
  /\ cache' = Seen(j, left) /\ pending' = Written(j)

\* With plenty left, a pause that the process knows of is lifted.
Plenty(j, later) ==
  LET p == ProcOf[j]  k == MyPause(j)
      clear == Cached(p, k) > 0
  IN /\ pending' = IF later THEN [pending EXCEPT ![p] = @ \cup {MyQuota(j)}] ELSE Written(j)
     /\ redis' = [redis EXCEPT ![MySnapshot(j)] = IF later THEN @ ELSE 0,
                               ![k] = IF clear THEN 0 ELSE @]
     /\ leftover' = IF cache[p][k].ttl = 0 \/ clear THEN leftover \ {k} ELSE leftover
     /\ cache' = [Seen(j, 0) EXCEPT ![p][k] = IF clear THEN [ttl |-> 0, left |-> 0]
                                              ELSE IF @.ttl > 0 THEN @ ELSE Entry(0)]
     /\ UNCHANGED age

Ingest(j) ==
  LET a == job[j].answer
  IN \/ a.remaining = "unknown" /\ UNCHANGED <<redis, leftover, age, cache, pending>>
     \/ a.remaining = "exhausted" /\ Exhausted(j, a.reset)
     \/ /\ a.remaining = "low"
        /\ redis' = [redis EXCEPT ![MySnapshot(j)] = 0]
        /\ cache' = Seen(j, 0) /\ pending' = Written(j)
        /\ UNCHANGED <<leftover, age>>
     \/ a.remaining = "plenty" /\ \E later \in BOOLEAN : Plenty(j, later)

IngestAnswer(j) ==
  /\ pc[j] = "ingest" /\ Step(j, "react") /\ Ingest(j)
  /\ UNCHANGED <<pace, budget, running, scanMark, handed, lapsed, faults, own>>

\* The catch of delayJobForGitHubQuota, or of the job itself, comes after the finally.
Finish(j, out, until) == Go(j, "release", [Fresh(j) EXCEPT !.then = out, !.until = until])

\* Only these are tried again in the process; a quota error is left to the queue.
Retryable(a) == a.kind \in {"broken", "lost"}

\* A retry goes straight back to GitHub: no gate, no slot of the pace.
React(j) ==
  LET a == job[j].answer
  IN /\ pc[j] = "react"
     /\ \/ a.kind = "ok" /\ Finish(j, "served", 0)
        \/ a.kind = "denied" /\ Finish(j, "failed", 0)
        \/ /\ Retryable(a) /\ job[j].tries + 1 < MaxAttempts
           /\ Go(j, "backoff", [Fresh(j) EXCEPT !.tries = job[j].tries + 1, !.wait = Backoff])
        \/ /\ Retryable(a) /\ job[j].tries + 1 >= MaxAttempts
           /\ Finish(j, "failed", 0)
     /\ UNCHANGED <<store, cache, pending, handed, age, lapsed, faults, own>>

\* handleRateLimitResponse: the pause, and then the headers once more, which may
\* write over it.  A secondary limit is kept apart; its pause key is read by nobody.
ReactLimited(j) ==
  LET a == job[j].answer
      until == IF a.remaining # "unknown" THEN MaxOf(a.reset, a.retry)
               ELSE IF a.retry > 0 THEN a.retry ELSE DefaultDelay
  IN /\ pc[j] = "react"
     /\ \/ a.kind = "limited" /\ SetPause(MyPause(j), until)
        \/ /\ a.kind = "secondary"
           /\ redis' = [redis EXCEPT ![SecondaryOf(ScopeOf(j))] = until]
           /\ UNCHANGED <<leftover, age>>
     /\ Go(j, "reingest", [job[j] EXCEPT !.until = until])
     /\ UNCHANGED <<pace, budget, running, scanMark, cache, pending, handed, lapsed,
                    faults, own>>

IngestAgain(j) ==
  /\ pc[j] = "reingest" /\ Ingest(j) /\ Finish(j, "delay", job[j].until)
  /\ UNCHANGED <<pace, budget, running, scanMark, handed, lapsed, faults, own>>

Retry(j) ==
  /\ pc[j] = "backoff" /\ job[j].wait = 0 /\ Step(j, "send")
  /\ UNCHANGED <<store, cache, pending, handed, age, lapsed, faults, own>>

Release(j) ==
  /\ pc[j] = "release"
  /\ running' = Decr(Decr(running, job[j].req.workspace), Everyone)
  /\ Go(j, job[j].then, IF job[j].then = "delay" THEN [job[j] EXCEPT !.then = "idle"]
                        ELSE Done)
  /\ UNCHANGED <<redis, leftover, pace, budget, scanMark, cache, pending, handed, age,
                 lapsed, faults, own>>

\* Each key is read through the cache, and an expired one is deleted.
ReadAll(p, asked) ==
  /\ cache' = [cache EXCEPT ![p] = [k \in Key |->
                 IF k \in asked /\ @[k].ttl = 0 THEN Entry(redis[k]) ELSE @[k]]]
  /\ leftover' = {k \in leftover : k \notin asked \/ cache[p][k].ttl > 0 \/ redis[k] > 0}

\* delayJobForGitHubQuota: until the date of the error, or else the latest date of any
\* pause of the token, or else a delay.  The pauses are read through the cache.
Delay(j) ==
  LET p == ProcOf[j]  s == ScopeNow(job[j].req.workspace)
      asked == {PauseOf(s, r) : r \in Resource} \cup {SecondaryOf(s)}
      later(left) == Go(j, "delayed", [Blank(job[j].req, Shared) EXCEPT !.wait = left])
                     /\ Mark(j, left)
  IN /\ pc[j] = "delay"
     /\ \/ job[j].retry = 0 /\ later(job[j].until)
        \/ /\ job[j].retry > 0
           /\ \E latest \in AnyPause(p, s) \cup {Cached(p, SecondaryOf(s))} :
                /\ PausedUntil(p, s, latest)
                /\ later(IF latest > 0 THEN latest ELSE job[j].retry)
     /\ IF job[j].retry = 0 THEN UNCHANGED <<cache, leftover>> ELSE ReadAll(p, asked)
     /\ UNCHANGED <<redis, pace, budget, running, pending, handed, age, lapsed, faults,
                    own>>

-----------------------------------------------------------------------------
(* Time, and what may happen at any time.                                  *)

Holding(j) == pc[j] \in {"count", "send", "ingest", "react", "reingest", "backoff", "release"}
Ended(j) == pc[j] \in {"served", "failed"}

Tick ==
  /\ redis' = [k \in Key |-> Less(redis[k])]
  /\ pace' = [q \in Quota |->
       [slot |-> IF pace[q].ttl <= 1 THEN -MinInterval ELSE MaxOf(pace[q].slot - 1, -MinInterval),
        ttl |-> Less(pace[q].ttl)]]
  /\ running' = [w \in DOMAIN running |->
       IF running[w].ttl <= 1 THEN [count |-> 0, ttl |-> 0]
       ELSE [running[w] EXCEPT !.ttl = @ - 1]]
  /\ lapsed' = (lapsed \/ \E w \in DOMAIN running : running[w].ttl = 1)
  /\ scanMark' = [s \in DOMAIN scanMark |-> Less(scanMark[s])]
  /\ cache' = [p \in Proc |-> [k \in Key |->
       IF cache[p][k].ttl <= 1 THEN [ttl |-> 0, left |-> 0]
       ELSE [ttl |-> cache[p][k].ttl - 1, left |-> Less(cache[p][k].left)]]]
  /\ job' = [j \in Job |-> [job[j] EXCEPT !.wait = Less(@), !.until = Less(@),
                                          !.answer.reset = Less(@)]]
  /\ handed' = [q \in Quota |-> MaxOf(handed[q] - 1, -MinInterval)]
  /\ age' = [k \in Key |-> IF redis[k] <= 1 THEN 0 ELSE IF age[k] < CacheTtl THEN age[k] + 1
                                                      ELSE CacheTtl]
  /\ UNCHANGED <<leftover, budget, pending, pc, faults, own>>

\* The budget is counted under the date.
NewDay ==
  /\ \E w \in Workspace : budget[w] > 0
  /\ budget' = [w \in Workspace |-> 0]
  /\ UNCHANGED <<redis, leftover, pace, running, scanMark, cache, pending, pc, job,
                 handed, age, lapsed, faults, own>>

\* flushSnapshots: the timer writes what was put off.
Flush(p) ==
  /\ pending[p] # {}
  /\ redis' = [k \in Key |->
       IF \E q \in pending[p] : k = SnapshotOf(q[1], q[2]) THEN 0 ELSE redis[k]]
  /\ pending' = [pending EXCEPT ![p] = {}]
  /\ UNCHANGED <<leftover, pace, budget, running, scanMark, cache, pc, job, handed, age,
                 lapsed, faults, own>>

\* refreshRateLimitSnapshot: a user saved a token, and the pauses of the old one go.
\* What the old one had left is replaced for the resources that /rate_limit is asked for.
NewToken(p, w) ==
  LET gone == {PauseOf(w, r) : r \in Resource} \cup {SecondaryOf(w)}
      told == {SnapshotOf(w, r) : r \in Reported}
  IN /\ faults < MaxFaults /\ faults' = faults + 1
     /\ own' = own \cup {w}
     /\ redis' = [k \in Key |-> IF k \in gone \cup told THEN 0 ELSE redis[k]]
     /\ leftover' = leftover \ gone
     /\ cache' = [cache EXCEPT ![p] = [k \in Key |-> IF k \in told THEN Entry(0)
                    ELSE IF k \in gone THEN [ttl |-> 0, left |-> 0] ELSE @[k]]]
     /\ pending' = [pending EXCEPT ![p] = @ \ ({w} \X Reported)]
     /\ UNCHANGED <<pace, budget, running, scanMark, pc, job, handed, age, lapsed>>

\* As it would be without the finally.
AbortLeaking(j) ==
  /\ faults < MaxFaults /\ faults' = faults + 1
  /\ pc[j] \in {"sleep", "backoff", "send"} /\ Go(j, "failed", Done)
  /\ UNCHANGED <<store, cache, pending, handed, age, lapsed, own>>

\* The job's signal aborts what it waits for.
Abort(j) ==
  /\ faults < MaxFaults /\ faults' = faults + 1
  /\ \/ pc[j] = "sleep" /\ Go(j, "failed", Done)
     \/ pc[j] \in {"backoff", "send"} /\ Finish(j, "failed", 0)
  /\ UNCHANGED <<store, cache, pending, handed, age, lapsed, own>>

\* A process dies with its cache and the slots it holds; BullMQ gives its jobs to another
\* worker.
Crash(p) ==
  LET lost == {j \in Job : ProcOf[j] = p /\ ~Ended(j) /\ pc[j] # "delayed"}
  IN /\ lost # {} /\ faults < MaxFaults /\ faults' = faults + 1
     /\ pc' = [j \in Job |-> IF j \in lost THEN "idle" ELSE pc[j]]
     /\ job' = [j \in Job |-> IF j \in lost THEN Done ELSE job[j]]
     /\ cache' = [cache EXCEPT ![p] = [k \in Key |-> [ttl |-> 0, left |-> 0]]]
     /\ pending' = [pending EXCEPT ![p] = {}]
     /\ lapsed' = (lapsed \/ \E j \in lost : Holding(j))
     /\ UNCHANGED <<store, handed, age, own>>

Work(j) ==
  \/ Begin(j) \/ SecondaryGate(j) \/ PauseGate(j) \/ ClearExpired(j) \/ PaceRequest(j)
  \/ QuotaGate(j) \/ Wake(j) \/ BudgetGate(j) \/ Acquire(j) \/ Count(j) \/ Respond(j)
  \/ IngestAnswer(j) \/ React(j) \/ ReactLimited(j) \/ IngestAgain(j) \/ Retry(j)
  \/ Release(j) \/ Delay(j)

Next ==
  \/ \E j \in Job : Work(j) \/ Abort(j)
  \/ \E p \in Proc : Flush(p) \/ Crash(p) \/ \E w \in Workspace : NewToken(p, w)
  \/ Tick \/ NewDay

Spec == Init /\ [][Next]_vars

-----------------------------------------------------------------------------
(* Properties.                                                             *)

\* The key of the pace lives for four intervals, so its slot, at most MaxInlineWait
\* away when it is taken, is an interval old when the key goes only if
PaceOutlivesWait == MaxInlineWait <= 3 * MinInterval
\* True of the defaults for code_search (15 s and 6.2 s), not of those for search (2.1 s).

\* Requests of one paced resource are a minimum interval apart: whoever takes a slot,
\* in whatever process, takes it an interval after the last one that was used
\* (reserveNextSlot; paceRequest sleeps until it).
SlotsSpaced == [][PaceOutlivesWait => \A j \in Job :
  (pc[j] = "pace" /\ pc'[j] \in {"quota", "sleep"} /\ job[j].req.resource \in Paced)
    => handed'[MyQuota(j)] >= handed[MyQuota(j)] + MinInterval]_vars

\* Until a counter expires or a process dies with a slot, the counters are exactly the
\* requests that are running, and so never above the limits
\* (acquireConcurrency, the finally of request, releaseConcurrency).  (With the type of
\* every variable.)
Runners(w) == {j \in Job : Holding(j) /\ job[j].req.workspace = w}
SlotsCounted == TypeOK /\ (~lapsed =>
  /\ \A w \in Workspace : running[w].count = Cardinality(Runners(w))
                          /\ Cardinality(Runners(w)) <= MaxWorkspace
  /\ running[Everyone].count = Cardinality({j \in Job : Holding(j)})
                               + Cardinality(Runners(Everyone))
  /\ running[Everyone].count <= MaxGlobal)

\* The check of the daily budget and its increment are two calls: a workspace goes over
\* its budget by less than the number of jobs that can be between the two.
Between(w) == {j \in Job : Budgeted(j) /\ job[j].req.workspace = w
                           /\ pc[j] \in {"acquire", "count"}}
BudgetBounded == \A w \in Workspace :
  budget[w] + Cardinality(Between(w)) <= DailyBudget + Cardinality(Job) - 1

\* A pause is missed only while the cached "no pause" is younger than the cache allows:
\* a request that passes the gate without waiting does so at the latest CacheTtl after
\* the pause came into force or was extended (getPause, cached, setPause).
PauseSeenInTime == [][\A j \in Job :
  (pc[j] = "pause" /\ pc'[j] = "pace") =>
     redis[MyPause(j)] = 0 \/ age[MyPause(j)] < CacheTtl]_vars

-----------------------------------------------------------------------------
(* The inductive invariant that shows them.                                *)

\* Where a sleep and a release lead.
WaysOut == \A j \in Job :
  /\ pc[j] = "sleep" => job[j].then \in {"pause", "pace", "quota", "budget"}
  /\ pc[j] = "release" => job[j].then \in {"served", "failed", "delay"}

\* A counter that counts something has not expired.
CountersLive == \A w \in Workspace \cup {Everyone} :
  running[w].count > 0 => running[w].ttl > 0

\* The slot last used is remembered until it is an interval old.
PaceRemembers == PaceOutlivesWait => \A q \in Quota :
  handed[q] <= pace[q].slot /\ handed[q] <= pace[q].ttl - MinInterval

\* A cached pause that ends before the real one was read before that came into force.
CacheIsYoung == \A p \in Proc : \A s \in Scope : \A r \in Resource :
  LET k == PauseOf(s, r)
  IN cache[p][k].ttl > 0 /\ cache[p][k].left < redis[k] => age[k] + cache[p][k].ttl <= CacheTtl

QInv == SlotsCounted /\ BudgetBounded /\ WaysOut /\ CountersLive /\ PaceRemembers
        /\ CacheIsYoung
=============================================================================
