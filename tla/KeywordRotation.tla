--------------------------- MODULE KeywordRotation ---------------------------
(***************************************************************************)
(* The keyword scheduler of one workspace: a queue of timed slots that     *)
(* take turns, one discovery scan at a time.                               *)
(*                                                                         *)
(* The rotation is one document.  User requests, the delayed job that ends *)
(* a turn, and the watchdog all load it, work on their copy and save the   *)
(* paths they modified.  A step of a handler is what it does up to its     *)
(* next await, so handlers of several processes interleave as they may.    *)
(*                                                                         *)
(* Abstracted: durations and dates (a timer may fire at any time), the     *)
(* company of a keyword, search options, cycle counts and messages.        *)
(***************************************************************************)
EXTENDS Naturals, FiniteSets, SequencesExt

CONSTANTS
  Handler,         \* handlers that can be in flight at the same time
  Keyword,         \* keywords that can be queued
  Queues,          \* queues a user may start: sequences of Slot
  MaxExtensions,   \* MAX_SLOT_QUOTA_EXTENSIONS
  MaxLen,          \* bound: slots in a queue
  MaxRequests,     \* bound: user requests
  Ids,             \* bound: scan ids, and tokens, in use at once
  Faults           \* what may go wrong: "throw" (an await fails), "crash"

Slot == [kw : Keyword, paused : BOOLEAN]

ASSUME RotationConstantsOK ==
  /\ Queues \subseteq Seq(Slot) \ {<<>>}
  /\ MaxExtensions \in Nat /\ MaxLen \in Nat /\ MaxRequests \in Nat
  /\ Ids \subseteq Nat \ {0}
  /\ Faults \subseteq {"throw", "crash"}

VARIABLES
  rotation,    \* the KeywordRotation document
  live,        \* scans of the rotation that are QUEUED or RUNNING
  timers,      \* tokens of the delayed 'advance' jobs
  pc,          \* where each handler is
  my,          \* what it knows: its copy of the document, and what it is doing
  requests,    \* user requests so far
  disturbed    \* history: have two handlers overlapped, or has one failed?

vars == <<rotation, live, timers, pc, my, requests, disturbed>>

None == 0      \* an undefined currentScanJobId or pendingAdvanceToken

Doc == [enabled : BOOLEAN, slots : Seq(Slot), index : Nat, scan : Ids \cup {None},
        token : Ids \cup {None}, ext : 0 .. MaxExtensions]
Scan == [id : Ids, kw : Keyword]

SaveLabel == {"save", "saveThenTry", "saveTurn", "saveExtension", "disable"}
Label == {"idle", "quota", "cancel", "try", "create", "push", "addTimer"} \cup SaveLabel

\* doc, dirty, stale: the copy, its modified paths, and whether the slots have
\* been saved by another since it was loaded.  scan, token: what it is to
\* cancel.  then: where it goes from there.  at, left: startSlot's lap.
Job == [op : {"none", "start", "stop", "add", "pause", "resume", "restart", "remove",
              "advance", "watchdog"},
        kws : SUBSET Keyword, doc : Doc, dirty : SUBSET DOMAIN rotation,
        stale : BOOLEAN, scan : Ids \cup {None}, token : Ids \cup {None},
        then : Label, at : Nat, left : Nat]

TypeOK ==
  /\ rotation \in Doc /\ live \subseteq Scan /\ timers \subseteq Ids
  /\ pc \in [Handler -> Label] /\ my \in [Handler -> Job]
  /\ requests \in 0 .. MaxRequests /\ disturbed \in BOOLEAN

Blank == [enabled |-> FALSE, slots |-> <<>>, index |-> 0, scan |-> None,
          token |-> None, ext |-> 0]

Load(op, kws, doc) ==
  [op |-> op, kws |-> kws, doc |-> doc, dirty |-> {}, stale |-> FALSE, scan |-> None,
   token |-> None, then |-> "idle", at |-> 0, left |-> 0]

NoJob == Load("none", {}, Blank)

Init ==
  /\ rotation = Blank /\ live = {} /\ timers = {}
  /\ pc = [h \in Handler |-> "idle"] /\ my = [h \in Handler |-> NoJob]
  /\ requests = 0 /\ disturbed = FALSE

-----------------------------------------------------------------------------
(* A handler and its copy of the document.                                 *)

Idle(h) == pc[h] = "idle"

Begin(h, job, label) ==
  /\ Idle(h)
  /\ pc' = [pc EXCEPT ![h] = label]
  /\ my' = [my EXCEPT ![h] = job]
  /\ disturbed' = (disturbed \/ \E u \in Handler \ {h} : ~Idle(u))

Move(h, job, label) ==
  /\ pc' = [pc EXCEPT ![h] = label]
  /\ my' = [my EXCEPT ![h] = IF label = "idle" THEN NoJob ELSE job]

\* Assigning a path a new value, or markModified, makes it part of the save.
Edit(job, doc, marked) ==
  [job EXCEPT !.doc = doc,
              !.dirty = @ \cup marked \cup {f \in DOMAIN doc : doc[f] # job.doc[f]}]

Cancelling(job, then) ==
  [job EXCEPT !.scan = rotation.scan, !.token = rotation.token, !.then = then]

\* startSlot(fromIndex): one lap over the slots, from fromIndex modulo their number.
FromSlot(job, i) ==
  LET total == Len(job.doc.slots)
  IN [job EXCEPT !.at = IF total = 0 THEN 0 ELSE i % total, !.left = total]

NextSlot(job) == [job EXCEPT !.at = (@ + 1) % Len(job.doc.slots), !.left = @ - 1]

Cleared(doc) == [doc EXCEPT !.enabled = FALSE, !.scan = None, !.token = None]

Queued(doc) == {doc.slots[i].kw : i \in DOMAIN doc.slots}
IndexOf(doc, k) == SelectInSeq(doc.slots, LAMBDA s : s.kw = k) - 1

SetPaused(doc, i, p) == [doc EXCEPT !.slots[i + 1].paused = p]

Stalled(doc) == doc.enabled /\ doc.scan = None /\ doc.token = None

\* An id or a token that nothing refers to: ObjectIds and UUIDs are unique.
Used == {rotation.scan, rotation.token} \cup {l.id : l \in live} \cup timers
        \cup UNION {{my[h].doc.scan, my[h].doc.token, my[h].scan, my[h].token} :
                      h \in Handler}
Fresh == CHOOSE i \in Ids \ Used : TRUE

-----------------------------------------------------------------------------
(* User requests.                                                          *)

start(h) == \E q \in Queues :
  LET doc == [rotation EXCEPT !.enabled = TRUE, !.slots = q, !.index = 0]
      job == Edit(Load("start", {}, rotation), doc, {"slots"})
  IN Begin(h, FromSlot(Cancelling(job, "saveThenTry"), 0), "cancel")

stop(h) ==
  /\ rotation.enabled
  /\ LET job == Edit(Load("stop", {}, rotation), [Cleared(rotation) EXCEPT !.ext = 0], {})
     IN Begin(h, Cancelling(job, "save"), "cancel")

\* Keywords already queued are dropped from the request.
addSlots(h) == \E k \in Keyword \ Queued(rotation) :
  /\ rotation.enabled
  /\ Len(rotation.slots) < MaxLen
  /\ LET doc == [rotation EXCEPT !.slots = Append(@, [kw |-> k, paused |-> FALSE])]
     IN Begin(h, Edit(Load("add", {k}, rotation), doc, {"slots"}), "push")

pauseSlot(h) == \E k \in Queued(rotation) :
  LET i == IndexOf(rotation, k)
      job == Edit(Load("pause", {k}, rotation), SetPaused(rotation, i, TRUE), {"slots"})
  IN IF rotation.enabled /\ rotation.index = i
       THEN Begin(h, FromSlot(Cancelling(job, "try"), i + 1),
                  "cancel")
       ELSE Begin(h, job, "save")

\* Also the way out of a stalled rotation.
resumeSlot(h) == \E k \in Queued(rotation) :
  LET i == IndexOf(rotation, k)
      doc == SetPaused(rotation, i, FALSE)
      job == Load("resume", {k}, rotation)
  IN IF ~rotation.enabled \/ Stalled(rotation)
       THEN Begin(h, FromSlot(Edit(job, [doc EXCEPT !.enabled = TRUE], {"slots"}), i),
                  "saveThenTry")
       ELSE Begin(h, Edit(job, doc, {"slots"}), "save")

\* setSlotSearchScope and setSlotContinueDiscovery: the option is abstracted.
setSlotOption(h) == \E k \in Queued(rotation) :
  LET i == IndexOf(rotation, k)
      job == Edit(Load("restart", {k}, rotation), rotation, {"slots"})
  IN IF rotation.enabled /\ rotation.index = i
       THEN Begin(h, FromSlot(Cancelling(job, "try"), i), "cancel")
       ELSE Begin(h, job, "save")

\* Mutant: the index of the running slot is not shifted.
removeSlotUnshifted(h) == \E k \in Queued(rotation) :
  LET i == IndexOf(rotation, k)
      current == rotation.enabled /\ rotation.index = i
      doc == [rotation EXCEPT !.slots = RemoveAt(@, i + 1)]
      job == Edit(Load("remove", {k}, rotation),
                  IF doc.slots = <<>> THEN Cleared(doc) ELSE doc, {"slots"})
  IN IF ~current THEN Begin(h, job, "save")
     ELSE IF doc.slots = <<>> THEN Begin(h, Cancelling(job, "save"), "cancel")
     ELSE Begin(h, FromSlot(Cancelling(job, "try"), i), "cancel")

\* The slots behind the removed one move up, and with them the running one.
removeSlot(h) == \E k \in Queued(rotation) :
  LET i == IndexOf(rotation, k)
      current == rotation.enabled /\ rotation.index = i
      doc == [rotation EXCEPT
                !.slots = RemoveAt(@, i + 1),
                !.index = IF rotation.enabled /\ i < @ THEN @ - 1 ELSE @]
      job == Edit(Load("remove", {k}, rotation),
                  IF doc.slots = <<>> THEN [Cleared(doc) EXCEPT !.index = rotation.index]
                                      ELSE doc, {"slots"})
  IN IF ~current THEN Begin(h, job, "save")
     ELSE IF doc.slots = <<>> THEN Begin(h, Cancelling(job, "save"), "cancel")
     ELSE Begin(h, FromSlot(Cancelling(job, "try"), i), "cancel")

Request(h) ==
  /\ requests < MaxRequests /\ requests' = requests + 1
  /\ start(h) \/ stop(h) \/ addSlots(h) \/ pauseSlot(h) \/ resumeSlot(h)
     \/ setSlotOption(h) \/ removeSlot(h)
  /\ UNCHANGED <<rotation, live, timers>>

-----------------------------------------------------------------------------
(* The end of a turn, and the watchdog.                                    *)

\* A timer of a rotation that was stopped, or of a turn that is over.
StaleTimer(t) ==
  /\ t \in timers
  /\ ~rotation.enabled \/ rotation.token # t
  /\ timers' = timers \ {t}
  /\ UNCHANGED <<rotation, live, pc, my, requests, disturbed>>

advance(h, t) ==
  /\ t \in timers
  /\ rotation.enabled /\ rotation.token = t
  /\ timers' = timers \ {t}
  /\ Begin(h, Cancelling(Load("advance", {}, rotation), "try"), "quota")
  /\ UNCHANGED <<rotation, live, requests>>

\* tryExtendSlotForQuotaPause: the scan is paused for GitHub quota right now.
Extend(h) ==
  /\ pc[h] = "quota"
  /\ my[h].doc.scan # None /\ my[h].doc.ext < MaxExtensions
  /\ Ids \ Used # {}
  /\ Move(h, Edit(my[h], [my[h].doc EXCEPT !.token = Fresh, !.ext = @ + 1], {}),
          "saveExtension")
  /\ UNCHANGED <<rotation, live, timers, requests, disturbed>>

\* Mutant: the slot whose turn is over stays in the cycle.
HandOffUnpaused(h) ==
  /\ pc[h] = "quota"
  /\ LET doc == my[h].doc
     IN Move(h, FromSlot(my[h], doc.index + 1), "cancel")
  /\ UNCHANGED <<rotation, live, timers, requests, disturbed>>

\* The slot whose turn is over is paused: a duration is a one-shot run.
HandOff(h) ==
  /\ pc[h] = "quota"
  /\ LET doc == my[h].doc
         job == IF doc.index < Len(doc.slots)
                  THEN Edit(my[h], SetPaused(doc, doc.index, TRUE), {"slots"})
                  ELSE my[h]
     IN Move(h, FromSlot(job, doc.index + 1), "cancel")
  /\ UNCHANGED <<rotation, live, timers, requests, disturbed>>

\* A handler that has saved the document and goes on to startSlot: its save is
\* less than the watchdog's grace period ago.
HasJustSaved(h) == my[h].op \in {"start", "resume"}
                   /\ pc[h] \in {"try", "create", "saveTurn", "disable"}

\* Mutant: the watchdog looks for a rotation that is off.
recoverStalledRotationsOff(h) ==
  /\ ~rotation.enabled /\ rotation.scan = None /\ rotation.token = None
  /\ Begin(h, FromSlot(Load("watchdog", {}, rotation), rotation.index), "try")
  /\ UNCHANGED <<rotation, live, timers, requests>>

recoverStalledRotations(h) ==
  /\ Stalled(rotation)
  /\ \A u \in Handler : ~HasJustSaved(u)
  /\ Begin(h, FromSlot(Load("watchdog", {}, rotation), rotation.index), "try")
  /\ UNCHANGED <<rotation, live, timers, requests>>

-----------------------------------------------------------------------------
(* Steps of a handler in flight.                                           *)

\* cancelCurrentSlot: cancelScan ends the scan at once, whatever its jobs do.
\* A timer that has fired is locked by its worker and cannot be removed.
cancelCurrentSlot(h) ==
  /\ pc[h] = "cancel"
  /\ live' = {l \in live : l.id # my[h].scan}
  /\ timers' = timers \ {my[h].token}
  /\ Move(h, my[h], my[h].then)
  /\ UNCHANGED <<rotation, requests, disturbed>>

\* startSlot goes over a slot that is paused, whose keyword has an active scan
\* (of the rotation or of the user's own), or that cannot be started.
SkipSlot(h) ==
  /\ pc[h] = "try" /\ my[h].left > 0
  /\ Move(h, NextSlot(my[h]), "try")
  /\ UNCHANGED <<rotation, live, timers, requests, disturbed>>

\* enqueueManualScan: findActiveDuplicate finds none ...
TrySlot(h) ==
  /\ pc[h] = "try" /\ my[h].left > 0
  /\ LET s == my[h].doc.slots[my[h].at + 1]
     IN ~s.paused /\ \A l \in live : l.kw # s.kw
  /\ Move(h, my[h], "create")
  /\ UNCHANGED <<rotation, live, timers, requests, disturbed>>

\* ... and the scan is created.
CreateScan(h) ==
  /\ pc[h] = "create"
  /\ Ids \ Used # {}
  /\ live' = live \cup {[id |-> Fresh, kw |-> my[h].doc.slots[my[h].at + 1].kw]}
  /\ Move(h, Edit(my[h], [my[h].doc EXCEPT !.index = my[h].at, !.scan = Fresh,
                                           !.token = Fresh, !.ext = 0], {}),
          "saveTurn")
  /\ UNCHANGED <<rotation, timers, requests, disturbed>>

NothingToRun(h) ==
  /\ pc[h] = "try" /\ my[h].left = 0
  /\ Move(h, Edit(my[h], Cleared(my[h].doc), {}), "disable")
  /\ UNCHANGED <<rotation, live, timers, requests, disturbed>>

AfterSave(label) == IF label = "saveThenTry" THEN "try"
                    ELSE IF label \in {"saveTurn", "saveExtension"} THEN "addTimer"
                    ELSE "idle"

\* Saved slots make every other copy of them stale.
Saved(h, slotsToo, label) ==
  /\ pc' = [pc EXCEPT ![h] = label]
  /\ my' = [u \in Handler |->
              IF u = h THEN IF label = "idle" THEN NoJob ELSE [my[h] EXCEPT !.dirty = {}]
              ELSE [my[u] EXCEPT !.stale = @ \/ (slotsToo /\ ~Idle(u))]]
  /\ UNCHANGED <<live, timers, requests, disturbed>>

VersionConflict(h) == "slots" \in my[h].dirty /\ my[h].stale

\* Mutant: the copy of the slots is written back whatever its version.
SaveUnversioned(h) ==
  /\ pc[h] \in SaveLabel
  /\ rotation' = [f \in DOMAIN rotation |->
                    IF f \in my[h].dirty THEN my[h].doc[f] ELSE rotation[f]]
  /\ Saved(h, "slots" \in my[h].dirty, AfterSave(pc[h]))

\* document.save(): the modified paths are written; a whole array only if the
\* document's version is still the one loaded.
Save(h) ==
  /\ pc[h] \in SaveLabel
  /\ ~VersionConflict(h)
  /\ rotation' = [f \in DOMAIN rotation |->
                    IF f \in my[h].dirty THEN my[h].doc[f] ELSE rotation[f]]
  /\ Saved(h, "slots" \in my[h].dirty, AfterSave(pc[h]))

\* A push is written as a $push, which asks for no version.
Push(h) ==
  /\ pc[h] = "push"
  /\ rotation' = [rotation EXCEPT !.slots = Append(@, Last(my[h].doc.slots))]
  /\ Saved(h, TRUE, "idle")

\* What throws inside startSlot's loop is caught there and the next slot is
\* tried; anything else ends the handler (the processor swallows the error).
Fail(h) == IF pc[h] \in {"saveTurn", "addTimer"} /\ my[h].left > 0
             THEN Move(h, NextSlot(my[h]), "try")
             ELSE Move(h, my[h], "idle")

VersionError(h) ==
  /\ pc[h] \in SaveLabel
  /\ VersionConflict(h)
  /\ Fail(h)
  /\ UNCHANGED <<rotation, live, timers, requests, disturbed>>

AddTimer(h) ==
  /\ pc[h] = "addTimer"
  /\ timers' = timers \cup {my[h].doc.token}
  /\ Move(h, my[h], "idle")
  /\ UNCHANGED <<rotation, live, requests, disturbed>>

Step(h) ==
  \/ Extend(h) \/ HandOff(h) \/ cancelCurrentSlot(h) \/ SkipSlot(h) \/ TrySlot(h)
  \/ CreateScan(h) \/ NothingToRun(h) \/ Save(h) \/ Push(h) \/ VersionError(h)
  \/ AddTimer(h)

-----------------------------------------------------------------------------
(* What is not the handlers' doing.                                        *)

ScanEnds(l) ==
  /\ live' = live \ {l}
  /\ UNCHANGED <<rotation, timers, pc, my, requests, disturbed>>

\* A failed cancelScan is only logged; a failed save or add throws.  (Bound,
\* here and in Crash: one failure, and none once handlers have overlapped.)
Throw(h) ==
  /\ "throw" \in Faults /\ ~disturbed
  /\ \/ pc[h] = "cancel" /\ Move(h, my[h], my[h].then)
     \/ pc[h] \in SaveLabel \cup {"push", "addTimer"} /\ Fail(h)
  /\ disturbed' = TRUE
  /\ UNCHANGED <<rotation, live, timers, requests>>

\* The process dies: a request is lost, an 'advance' job is found stalled and
\* delivered once more.
Crash(h) ==
  /\ "crash" \in Faults /\ ~disturbed
  /\ ~Idle(h)
  /\ timers' = timers \cup (IF my[h].op = "advance" THEN {my[h].token} ELSE {})
  /\ Move(h, my[h], "idle")
  /\ disturbed' = TRUE
  /\ UNCHANGED <<rotation, live, requests>>

Next ==
  \/ \E h \in Handler : Request(h) \/ recoverStalledRotations(h) \/ Step(h)
                        \/ Throw(h) \/ Crash(h) \/ (\E t \in Ids : advance(h, t))
  \/ \E t \in Ids : StaleTimer(t)
  \/ \E l \in live : ScanEnds(l)

Spec == Init /\ [][Next]_vars

\* Handlers run on, delayed jobs fire, the watchdog comes round.  Users need
\* not ask for anything, scans need not end, nothing need fail.
Fairness ==
  /\ \A h \in Handler : WF_vars(Step(h))
  /\ \A t \in Ids : WF_vars(StaleTimer(t) \/ \E h \in Handler : advance(h, t))
  /\ WF_vars(\E h \in Handler : recoverStalledRotations(h))

FairSpec == Spec /\ Fairness

-----------------------------------------------------------------------------
Quiet == \A h \in Handler : Idle(h)

\* "This instead runs exactly ONE keyword's discovery scan at a time" (keyword-
\* rotation.schema.ts): as long as requests and timers come one after another,
\* no second scan is ever live, the live one is the current slot's, and at rest
\* exactly the turn that is on has a timer: none can outlive its turn, none can be
\* without an end.  (With the type of every variable.)
OneTimedTurn ==
  /\ TypeOK
  /\ ~disturbed =>
       /\ Cardinality(live) <= 1
       /\ Quiet =>
            /\ \A l \in live :
                 /\ rotation.enabled /\ rotation.scan = l.id
                 /\ rotation.index < Len(rotation.slots)
                 /\ rotation.slots[rotation.index + 1] = [kw |-> l.kw, paused |-> FALSE]
            /\ timers = IF rotation.enabled THEN {rotation.token} ELSE {}

Resting(doc) == {k \in Queued(doc) :
                   \A i \in DOMAIN doc.slots : doc.slots[i].kw = k => doc.slots[i].paused}

\* The step is that of a handler whose request names k, or of start.
Asked(k, ops) == \E h \in Handler :
  pc[h] # pc'[h] /\ (my[h].op = "start" \/ (my[h].op \in ops /\ k \in my[h].kws))

\* Handlers work on copies, and no save undoes another's change to the queue: a
\* keyword comes, goes or runs again only by a request that names it (or by
\* start).  This is what Mongoose's version check of whole arrays is for.
NoSlotChangeUndone ==
  [][\A k \in Keyword :
       /\ k \in Queued(rotation') \ Queued(rotation) => Asked(k, {"add"})
       /\ k \in Queued(rotation) \ Queued(rotation') => Asked(k, {"remove"})
       /\ k \in (Resting(rotation) \cap Queued(rotation')) \ Resting(rotation')
            => Asked(k, {"resume", "add"})]_vars

\* Every turn ends and a rotation that is left alone winds down: extensions are
\* bounded and a slot whose turn is over is paused.
WindsDown == rotation.enabled /\ ~disturbed ~> ~rotation.enabled \/ disturbed

\* A rotation saved as enabled, with neither a scan nor a timer, is started
\* again, whatever crashed or failed on the way (recoverStalledRotations).
StallIsRecovered == Stalled(rotation) ~> ~Stalled(rotation)
-----------------------------------------------------------------------------
(* The inductive invariant that shows both.                                *)

\* A lap of startSlot stays within the slots; what is pushed ends its copy; what is
\* to be a timer is a token.
Sound(job, label) ==
  /\ job.left > 0 => job.at < Len(job.doc.slots)
  /\ label \in {"quota", "cancel"} => job.then \in {"try", "saveThenTry", "save"}
  /\ job.op = "advance" => job.token \in Ids
  /\ label \in {"saveTurn", "saveExtension", "addTimer"} => job.doc.token \in Ids
  /\ label = "create" => job.left > 0
  /\ label = "push" => job.op = "add" /\ job.doc.slots # <<>>
                       /\ Last(job.doc.slots).kw \in job.kws

\* From one queue to another by what may be asked of a copy that is saved.
MayBecome(old, new, job) == job.op = "start" \/ \A k \in Keyword :
  /\ k \notin Queued(new) \ Queued(old)
  /\ k \in Queued(old) \ Queued(new) => job.op = "remove" /\ k \in job.kws
  /\ k \in (Resting(old) \cap Queued(new)) \ Resting(new) => job.op = "resume" /\ k \in job.kws

\* A copy whose slots nobody has saved since differs from the document by what its
\* own request asked for, and by nothing that it does not mean to save.
CopyOf(job, label) == ~job.stale =>
  IF "slots" \in job.dirty THEN label # "push" => MayBecome(rotation, job.doc, job)
                           ELSE job.doc.slots = rotation.slots

\* The scan is the one of doc's slot; the timer is the one of doc's turn.
Runs(doc) == \A l \in live :
  /\ doc.enabled /\ doc.scan = l.id /\ doc.index < Len(doc.slots)
  /\ doc.slots[doc.index + 1] = [kw |-> l.kw, paused |-> FALSE]
Placed(doc) == doc.enabled => doc.index < Len(doc.slots)
Timed(doc) == timers = IF doc.enabled THEN {doc.token} ELSE {}
TurnIs(doc) == Runs(doc) /\ Placed(doc) /\ Timed(doc)

Nothing == live = {} /\ timers = {}

\* What a handler that runs alone has made of the turn, step by step.
Phase(job, label) ==
  /\ label = "quota" => /\ Runs(rotation) /\ rotation.enabled /\ Placed(rotation)
                        /\ timers = {} /\ job.doc = rotation
                        /\ job.scan = rotation.scan /\ job.then = "try"
  /\ label = "cancel" => /\ Runs(rotation) /\ job.scan = rotation.scan
                         /\ timers \subseteq {job.token}
                         /\ job.doc.enabled <=> job.then # "save"
  /\ label \in {"saveThenTry", "try", "create"} => Nothing /\ job.doc.enabled
  /\ label = "create" => ~job.doc.slots[job.at + 1].paused
  /\ label \in {"save", "disable"} =>
       /\ TurnIs(job.doc)
       /\ job.doc.enabled => rotation.enabled /\ rotation.token = job.doc.token
  /\ label = "push" => TurnIs(rotation)
  /\ label \in {"saveTurn", "saveExtension", "addTimer"} =>
       Runs(job.doc) /\ Placed(job.doc) /\ job.doc.enabled /\ timers = {}
  /\ label = "addTimer" => job.doc = rotation

\* Until handlers overlap or one fails, there is one at work, and its copy is the
\* document but for what it has modified.
Alone(job, label) ==
  /\ ~job.stale /\ Phase(job, label)
  /\ \A f \in DOMAIN rotation \ job.dirty : job.doc[f] = rotation[f]

RotationInv ==
  /\ TypeOK
  /\ \A h \in Handler : Sound(my[h], pc[h]) /\ (~Idle(h) => CopyOf(my[h], pc[h]))
  /\ ~disturbed =>
       /\ \A h, u \in Handler : ~Idle(h) /\ ~Idle(u) => h = u
       /\ Quiet => TurnIs(rotation)
       /\ \A h \in Handler : ~Idle(h) => Alone(my[h], pc[h])
=============================================================================
