------------------------------ MODULE Findings ------------------------------
(***************************************************************************)
(* What the scans of a workspace make of one repository: the detection     *)
(* jobs that store its findings and their evidence, the alerts, the        *)
(* verdicts of users, and the marks on the repository's document.          *)
(*                                                                         *)
(* A step is what a worker does between two awaits on the database.  An    *)
(* attempt of a job that is timed out goes on beside the next one: Node    *)
(* cannot stop it (withJobTimeout only stops waiting).                     *)
(*                                                                         *)
(* Abstracted: what a detection says (a rule id stands for it, with its    *)
(* multiplicity), the score beyond "high or not", operator fingerprints    *)
(* and contributors, which are replaced as a whole like the evidence, and  *)
(* Mongoose's version check of an array, whose failure is a throw.         *)
(***************************************************************************)
EXTENDS Integers, FiniteSets

CONSTANTS
  Scan,               \* scans that analyse the repository, each once
  BranchOf, Default,  \* the branch a scan asks for, Default for whatever is checked out
  Rule, High,         \* rules, and those that make a finding HIGH or CRITICAL
  LiveRules,          \* the rules of a destination found to be reachable
  Shows, BranchShows, \* what the rules find in a version of the repository, and in the branch
  MaxAttempts,        \* QUEUE_JOB_ATTEMPTS
  MaxVersion, MaxRuleset,    \* bounds on the repository's versions and rulesets
  MaxFaults, MaxVerdicts,    \* bounds on failures and users' verdicts
  Stoppable,          \* bound: the scans a user may stop
  NoVerdict

ASSUME FindingsConstantsOK ==
  /\ High \subseteq Rule /\ LiveRules \subseteq Rule
  /\ Shows \in [1 .. MaxVersion -> [1 .. MaxRuleset -> SUBSET (Rule \ LiveRules)]]
  /\ BranchShows \subseteq Rule \ LiveRules
  /\ MaxAttempts \in Nat \ {0} /\ MaxVersion \in Nat \ {0} /\ MaxRuleset \in Nat \ {0}
  /\ MaxFaults \in Nat

Status == {"open", "acknowledged", "resolved", "falsePositive"}
Branches == {BranchOf[s] : s \in Scan} \cup {Default}

\* fingerprint: a finding is identified by the rules that fired, and by its branch.
Fingerprint == [rules : (SUBSET Rule) \ {{}}, branch : Branches]

Attempt == 1 .. MaxAttempts
Run == Scan \X Attempt                       \* an attempt of a scan's detection job
Version == 0 .. MaxVersion                   \* 0: unknown
Label == {"none", "lookup", "save", "insert", "prune", "list", "resolve", "mark", "complete",
          "alert", "over"}

VARIABLES
  repo,        \* the repository's document
  job,         \* the detection job of each scan, and the content it carries
  unit,        \* is the scan's unit of work open, completed or failed?
  run,         \* where each attempt is, and what it knows
  finding,     \* status of every finding that exists
  evidence,    \* by which attempts its detections were inserted
  alerts,      \* alerts of a finding
  queue,       \* alert jobs waiting, and those ever added
  creating,    \* alert jobs that found no alert and are about to create one
  verdict,     \* a user's verdict between its read and its save
  cancelled,   \* scans the user has stopped
  ruleset,     \* the rules the workers run
  faults,      \* history: failures so far
  touched,     \* history: findings a user has judged
  newest,      \* history: the newest version an attempt began to store
  disorder,    \* history: did two attempts store at once, or an older version after a newer?
  doubled      \* history: have two alert jobs of one finding overlapped?

findingVars == <<repo, job, unit, run, finding, evidence, alerts, queue, creating, verdict,
                 cancelled, ruleset, faults, touched, newest, disorder, doubled>>

Idle == [at |-> "none", rules |-> {}, known |-> "none", closing |-> {}, news |-> FALSE]
NoJob == [state |-> "none", attempt |-> 1, content |-> 0, sha |-> 0, dates |-> 0, ruleset |-> 0]

Repository == [known : BOOLEAN, pending : BOOLEAN, success : BOOLEAN, failed : BOOLEAN,
               sha : Version, dates : Version, ruleset : 0 .. MaxRuleset]

FindingsTypeOK ==
  /\ repo \in Repository
  /\ job \in [Scan -> [state : {"none", "queued", "running", "failing", "ended"},
                       attempt : Attempt, content : Version, sha : Version,
                       dates : Version, ruleset : 0 .. MaxRuleset]]
  /\ unit \in [Scan -> {"open", "completed", "failed"}]
  /\ run \in [Run -> [at : Label, rules : SUBSET Rule, known : Status \cup {"none"},
                      closing : SUBSET Fingerprint, news : BOOLEAN]]
  /\ finding \in [Fingerprint -> Status \cup {"none"}]
  /\ evidence \in [Fingerprint -> SUBSET Run]
  /\ alerts \in [Fingerprint -> Nat] /\ creating \in [Fingerprint -> Nat]
  /\ queue \in [waiting : SUBSET (Scan \X Fingerprint), added : SUBSET (Scan \X Fingerprint)]
  /\ verdict \in [finding : Fingerprint, read : Status, want : Status] \cup {NoVerdict}
  /\ ruleset \in 1 .. MaxRuleset /\ cancelled \subseteq Scan /\ faults \in 0 .. MaxFaults /\ touched \subseteq Fingerprint
  /\ newest \in Version /\ disorder \in BOOLEAN /\ doubled \in BOOLEAN

FindingsInit ==
  /\ repo = [known |-> FALSE, pending |-> FALSE, success |-> FALSE, failed |-> FALSE,
             sha |-> 0, dates |-> 0, ruleset |-> 0]
  /\ job = [s \in Scan |-> NoJob] /\ unit = [s \in Scan |-> "open"]
  /\ run = [r \in Run |-> Idle]
  /\ finding = [f \in Fingerprint |-> "none"] /\ evidence = [f \in Fingerprint |-> {}]
  /\ alerts = [f \in Fingerprint |-> 0] /\ creating = [f \in Fingerprint |-> 0]
  /\ queue = [waiting |-> {}, added |-> {}] /\ verdict = NoVerdict
  /\ ruleset = 1 /\ cancelled = {} /\ faults = 0 /\ touched = {} /\ newest = 0 /\ disorder = FALSE /\ doubled = FALSE

-----------------------------------------------------------------------------
(* The job and its attempts.                                               *)

Current(s) == <<s, job[s].attempt>>
IsCurrent(r) == r = Current(r[1]) /\ job[r[1]].state = "running"
Fp(r) == [rules |-> run[r].rules, branch |-> BranchOf[r[1]]]
OnDefault(r) == BranchOf[r[1]] = Default
IsHigh(f) == f.rules \cap High # {}

\* An attempt between its first read of a finding and its last write.
Storing(r) == run[r].at \in {"save", "insert", "prune", "list", "resolve", "mark"}

BeginsToStore(s) ==
  IF BranchOf[s] # Default THEN UNCHANGED <<newest, disorder>>
  ELSE /\ newest' = IF job[s].content > newest THEN job[s].content ELSE newest
       /\ disorder' = (disorder \/ job[s].content < newest \/ \E r \in Run : Storing(r))

GoTo(r, label) == run' = [run EXCEPT ![r].at = label]

\* An attempt returns: its job ends, unless the job had given up waiting for it.
Finish(r) ==
  /\ run' = [run EXCEPT ![r] = [Idle EXCEPT !.at = "over"]]
  /\ job' = IF IsCurrent(r) THEN [job EXCEPT ![r[1]].state = "ended"] ELSE job

\* BullMQ after an attempt that failed: the next one, or the last resort.
Again(s) ==
  IF job[s].attempt < MaxAttempts
    THEN [job EXCEPT ![s].attempt = @ + 1, ![s].state = "queued"]
    ELSE [job EXCEPT ![s].state = "failing"]

Fail(r) ==
  /\ run' = [run EXCEPT ![r] = [Idle EXCEPT !.at = "over"]]
  /\ job' = IF IsCurrent(r) THEN Again(r[1]) ELSE job

\* upsertRepository, by an analysis: every such call clears pendingAnalysis.
Upsert(dates) == [repo EXCEPT !.known = TRUE, !.pending = FALSE, !.dates = dates]
MarkSuccess(sha, rules, dates) ==
  [Upsert(dates) EXCEPT !.success = TRUE, !.failed = FALSE,
                        !.sha = IF sha # 0 THEN sha ELSE @, !.ruleset = rules]
MarkFailedForgotten(dates) == Upsert(dates)
MarkFailed(dates) == [Upsert(dates) EXCEPT !.failed = TRUE]

-----------------------------------------------------------------------------
(* runDetectionAndPersist.                                                 *)

\* detectionEngine.analyze of the content a job carries, with the rules of this worker;
\* content 0 is none: the requests for it failed.  The brands, their keywords and the
\* reference corpus, which decide too, are taken not to change.
Found(s) ==
  IF job[s].content = 0 THEN {}
  ELSE IF BranchOf[s] = Default THEN Shows[job[s].content][ruleset] ELSE BranchShows

\* The entry checks, the rules, and the check of what is reachable right now.
Detect(s) ==
  /\ job[s].state = "queued"
  /\ LET r == Current(s) IN
     \/ /\ s \in cancelled
        /\ unit' = [unit EXCEPT ![s] = "completed"]
        /\ run' = [run EXCEPT ![r].at = "over"] /\ job' = [job EXCEPT ![s].state = "ended"]
     \/ /\ s \notin cancelled /\ Found(s) # {}
        /\ \E live \in SUBSET LiveRules :
             run' = [run EXCEPT ![r].at = "lookup", ![r].rules = Found(s) \cup live]
        /\ job' = [job EXCEPT ![s].state = "running"]
        /\ UNCHANGED unit
     \/ /\ s \notin cancelled /\ Found(s) = {}
        /\ run' = [run EXCEPT ![r].at = IF OnDefault(r) THEN "list" ELSE "mark"]
        /\ job' = [job EXCEPT ![s].state = "running"]
        /\ UNCHANGED unit
  /\ IF s \notin cancelled /\ Found(s) = {} THEN BeginsToStore(s) ELSE UNCHANGED <<newest, disorder>>
  /\ UNCHANGED <<ruleset, repo, finding, evidence, alerts, queue, creating, verdict, cancelled, faults,
                 touched, doubled>>

Lookup(r) ==
  /\ run[r].at = "lookup"
  /\ run' = [run EXCEPT ![r].at = "save", ![r].known = finding[Fp(r)]]
  /\ BeginsToStore(r[1])
  /\ UNCHANGED <<ruleset, repo, job, unit, finding, evidence, alerts, queue, creating, verdict, cancelled,
                 faults, touched, doubled>>

\* A finding that was RESOLVED is opened again; a FALSE_POSITIVE keeps its verdict.
ReopensAny(status) == status \in {"resolved", "falsePositive"}
Reopens(status) == status = "resolved"

\* Mongoose writes the status only if it was changed; a second create of one
\* fingerprint fails on the unique index.
Save(r) ==
  /\ run[r].at = "save"
  /\ LET f == Fp(r)
         new == run[r].known = "none"
         opens == new \/ Reopens(run[r].known)
     IN IF new /\ finding[f] # "none"
          THEN Fail(r) /\ UNCHANGED finding
          ELSE /\ finding' = IF opens THEN [finding EXCEPT ![f] = "open"] ELSE finding
               /\ run' = [run EXCEPT ![r].at = "insert", ![r].news = opens]
               /\ UNCHANGED job
  /\ UNCHANGED <<ruleset, repo, unit, evidence, alerts, queue, creating, verdict, cancelled, faults,
                 touched, newest, disorder, doubled>>

Insert(r) ==
  /\ run[r].at = "insert" /\ GoTo(r, "prune")
  /\ evidence' = [evidence EXCEPT ![Fp(r)] = @ \cup {r}]
  /\ UNCHANGED <<ruleset, repo, job, unit, finding, alerts, queue, creating, verdict, cancelled, faults,
                 touched, newest, disorder, doubled>>

\* deleteMany of every detection of the finding that this attempt did not insert.
PruneEverything(r) ==
  /\ run[r].at = "prune"
  /\ GoTo(r, IF OnDefault(r) THEN "list" ELSE "mark")
  /\ evidence' = [evidence EXCEPT ![Fp(r)] = {}]
  /\ UNCHANGED <<ruleset, repo, job, unit, finding, alerts, queue, creating, verdict, cancelled, faults,
                 touched, newest, disorder, doubled>>

PruneThenResolve(r) ==
  /\ run[r].at = "prune" /\ GoTo(r, "list")
  /\ evidence' = [evidence EXCEPT ![Fp(r)] = @ \cap {r}]
  /\ UNCHANGED <<ruleset, repo, job, unit, finding, alerts, queue, creating, verdict, cancelled, faults,
                 touched, newest, disorder, doubled>>

Prune(r) ==
  /\ run[r].at = "prune"
  /\ GoTo(r, IF OnDefault(r) THEN "list" ELSE "mark")
  /\ evidence' = [evidence EXCEPT ![Fp(r)] = @ \cap {r}]
  /\ UNCHANGED <<ruleset, repo, job, unit, finding, alerts, queue, creating, verdict, cancelled, faults,
                 touched, newest, disorder, doubled>>

\* resolveMissingFindings: the open and acknowledged findings of the repository, of
\* whatever branch, that this attempt did not see ...
List(r) ==
  /\ run[r].at = "list"
  /\ LET closing == {f \in Fingerprint : finding[f] \in {"open", "acknowledged"} /\ f # Fp(r)}
     IN run' = [run EXCEPT ![r].closing = closing,
                           ![r].at = IF closing = {} THEN "mark" ELSE "resolve"]
  /\ UNCHANGED <<ruleset, repo, job, unit, finding, evidence, alerts, queue, creating, verdict, cancelled,
                 faults, touched, newest, disorder, doubled>>

\* ... each saved on its own, whatever has become of it since.
Resolve(r, f) ==
  /\ run[r].at = "resolve" /\ f \in run[r].closing
  /\ finding' = [finding EXCEPT ![f] = "resolved"]
  /\ run' = [run EXCEPT ![r].closing = @ \ {f},
                        ![r].at = IF run[r].closing = {f} THEN "mark" ELSE "resolve"]
  /\ UNCHANGED <<ruleset, repo, job, unit, evidence, alerts, queue, creating, verdict, cancelled, faults,
                 touched, newest, disorder, doubled>>

\* The processor marks the repository; a branch analysis only takes it off the backlog.
Mark(r) ==
  /\ run[r].at = "mark" /\ GoTo(r, "complete")
  /\ LET j == job[r[1]] IN
     repo' = IF OnDefault(r) THEN MarkSuccess(j.sha, j.ruleset, j.dates)
                             ELSE [repo EXCEPT !.pending = FALSE]
  /\ UNCHANGED <<ruleset, job, unit, finding, evidence, alerts, queue, creating, verdict, cancelled, faults,
                 touched, newest, disorder, doubled>>

\* An alert for what is reopened, none for what is new.
CompleteReopened(r) ==
  /\ run[r].at = "complete"
  /\ unit' = [unit EXCEPT ![r[1]] = IF @ = "open" THEN "completed" ELSE @]
  /\ IF run[r].news /\ run[r].known = "resolved" /\ OnDefault(r) /\ IsHigh(Fp(r))
       THEN GoTo(r, "alert") /\ UNCHANGED job
       ELSE Finish(r)
  /\ UNCHANGED <<ruleset, repo, finding, evidence, alerts, queue, creating, verdict, cancelled, faults,
                 touched, newest, disorder, doubled>>

Complete(r) ==
  /\ run[r].at = "complete"
  /\ unit' = [unit EXCEPT ![r[1]] = IF @ = "open" THEN "completed" ELSE @]
  /\ IF run[r].news /\ OnDefault(r) /\ IsHigh(Fp(r))
       THEN GoTo(r, "alert") /\ UNCHANGED job
       ELSE Finish(r)
  /\ UNCHANGED <<ruleset, repo, finding, evidence, alerts, queue, creating, verdict, cancelled, faults,
                 touched, newest, disorder, doubled>>

\* A job id BullMQ already knows is not added twice.
EnqueueAlert(r) ==
  /\ run[r].at = "alert"
  /\ LET a == <<r[1], Fp(r)>> IN
     queue' = IF a \in queue.added THEN queue
              ELSE [waiting |-> queue.waiting \cup {a}, added |-> queue.added \cup {a}]
  /\ Finish(r)
  /\ UNCHANGED <<ruleset, repo, unit, finding, evidence, alerts, creating, verdict, cancelled, faults,
                 touched, newest, disorder, doubled>>

\* The catch of the last attempt: markFailed and then the unit's report, taken together.
GiveUp(s) ==
  /\ job[s].state = "failing"
  /\ repo' = IF BranchOf[s] = Default THEN MarkFailed(job[s].dates) ELSE repo
  /\ unit' = [unit EXCEPT ![s] = IF @ = "open" THEN "failed" ELSE @]
  /\ job' = [job EXCEPT ![s].state = "ended"]
  /\ UNCHANGED <<ruleset, run, finding, evidence, alerts, queue, creating, verdict, cancelled, faults,
                 touched, newest, disorder, doubled>>

-----------------------------------------------------------------------------
(* Alerts, users, failures.                                                *)

Dispatch(a) ==
  /\ a \in queue.waiting
  /\ queue' = [queue EXCEPT !.waiting = @ \ {a}]
  /\ creating' = IF alerts[a[2]] = 0 THEN [creating EXCEPT ![a[2]] = @ + 1] ELSE creating
  /\ doubled' = (doubled \/ (alerts[a[2]] = 0 /\ creating[a[2]] > 0))
  /\ UNCHANGED <<ruleset, repo, job, unit, run, finding, evidence, alerts, verdict, cancelled, faults,
                 touched, newest, disorder>>

\* ... and creates one if it found none.
CreateAlert(f) ==
  /\ creating[f] > 0
  /\ creating' = [creating EXCEPT ![f] = @ - 1] /\ alerts' = [alerts EXCEPT ![f] = @ + 1]
  /\ UNCHANGED <<ruleset, repo, job, unit, run, finding, evidence, queue, verdict, cancelled, faults,
                 touched, newest, disorder, doubled>>

\* updateStatus reads the finding ...
Judge(f, want) ==
  /\ verdict = NoVerdict /\ finding[f] # "none" /\ Cardinality(touched) < MaxVerdicts
  /\ f \notin touched
  /\ verdict' = [finding |-> f, read |-> finding[f], want |-> want]
  /\ UNCHANGED <<ruleset, repo, job, unit, run, finding, evidence, alerts, queue, creating, cancelled,
                 faults, touched, newest, disorder, doubled>>

\* ... and saves the verdict; a status that is what was read is not written.
SaveVerdict ==
  /\ verdict # NoVerdict
  /\ finding' = IF verdict.want # verdict.read
                  THEN [finding EXCEPT ![verdict.finding] = verdict.want] ELSE finding
  /\ touched' = touched \cup {verdict.finding} /\ verdict' = NoVerdict
  /\ UNCHANGED <<ruleset, repo, job, unit, run, evidence, alerts, queue, creating, cancelled, faults,
                 newest, disorder, doubled>>

Cancel(s) ==
  /\ s \in Stoppable \ cancelled /\ unit[s] = "open" /\ cancelled' = cancelled \cup {s}
  /\ UNCHANGED <<ruleset, repo, job, unit, run, finding, evidence, alerts, queue, creating, verdict,
                 faults, touched, newest, disorder, doubled>>

\* A database error, or the death of the worker: the attempt stops where it is.
Throw(r) ==
  /\ run[r].at \notin {"none", "over"} /\ faults < MaxFaults /\ faults' = faults + 1
  /\ Fail(r)
  /\ UNCHANGED <<ruleset, repo, unit, finding, evidence, alerts, queue, creating, verdict, cancelled,
                 touched, newest, disorder, doubled>>

\* The job stops waiting for its attempt, which goes on.
TimeOut(s) ==
  /\ job[s].state = "running" /\ faults < MaxFaults /\ faults' = faults + 1
  /\ job' = Again(s)
  /\ UNCHANGED <<ruleset, repo, unit, run, finding, evidence, alerts, queue, creating, verdict, cancelled,
                 touched, newest, disorder, doubled>>

\* A stalled alert job is handed to another worker, while the first goes on.
RedeliverAlert(a) ==
  /\ a \in queue.added \ queue.waiting /\ creating[a[2]] > 0
  /\ faults < MaxFaults /\ faults' = faults + 1
  /\ queue' = [queue EXCEPT !.waiting = @ \cup {a}]
  /\ UNCHANGED <<ruleset, repo, job, unit, run, finding, evidence, alerts, creating, verdict, cancelled,
                 touched, newest, disorder, doubled>>

Working(r) ==
  \/ Lookup(r) \/ Save(r) \/ Insert(r) \/ Prune(r) \/ List(r)
  \/ \E f \in run[r].closing : Resolve(r, f)
  \/ Mark(r) \/ Complete(r) \/ EnqueueAlert(r)

FindingsWork(s) == Detect(s) \/ GiveUp(s) \/ \E n \in Attempt : Working(<<s, n>>)
AlertWork == (\E a \in queue.waiting : Dispatch(a)) \/ (\E f \in Fingerprint : CreateAlert(f))

FindingsNext ==
  \/ \E s \in Scan : FindingsWork(s) \/ Cancel(s) \/ TimeOut(s)
  \/ AlertWork
  \/ \E r \in Run : Throw(r)
  \/ \E f \in Fingerprint, want \in Status : Judge(f, want)
  \/ SaveVerdict
  \/ \E a \in queue.added : RedeliverAlert(a)
=============================================================================
