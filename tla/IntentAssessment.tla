-------------------------- MODULE IntentAssessment --------------------------
(* The second opinion on a finding (intelligence/intelligence.service.ts): a  *)
(* model is asked what the repository is for, and its score takes the place   *)
(* of the rules'. A finding is assessed by the job that its discovery put in   *)
(* the queue, or by a user's request, and both may be at it at once, beside     *)
(* the scans of DetectionPipeline. A provider's answer is                      *)
(* [readable, intent, score, conf, cites, deep]: whether it holds JSON, the     *)
(* verdict, its score and confidence in percent, the evidence it cites and      *)
(* whether it wants to see more.                                               *)
EXTENDS DetectionPipeline

CONSTANTS Answers,       \* what a provider may answer
          NumProviders,  \* providers that are configured, tried one after the other
          CONFIDENCE_THRESHOLD,  \* INTELLIGENCE_DEEP_REVIEW_CONFIDENCE_THRESHOLD (50)
          MAX_FLAGGED_FILES,     \* INTELLIGENCE_DEEP_REVIEW_MAX_FILES (3)
          MAX_BACKFILL           \* findings per backfill (50, at most 500)

ASSUME ProvidersAssumption == NumProviders \in Nat \ {0} /\ MAX_FLAGGED_FILES \in Nat

VARIABLES assessments,  \* the completed assessments, in the order they were recorded
          assessors,    \* the worker of the queue and a user's request
          asked,        \* bound: how often the providers were asked
          disturbed     \* history: findings two were at, or one was interrupted over

vars == <<plan, queries, jobs, prints, findings, tasks, faults, verdicts,
          corpus, ingests, begun, assessments, assessors, asked, disturbed>>
intentVars == <<assessments, assessors, asked, disturbed>>

Unoccupied == [stage |-> "idle"]

Init ==
  /\ PipelineInit
  /\ assessments = <<>>
  /\ assessors = [a \in {"job", "user"} |-> Unoccupied]
  /\ asked = 0
  /\ disturbed = {}

\* A finding is known by its repository and its rules; it is never deleted.
Finding(id) == CHOOSE f \in findings[id[1]] : f.rules = id[2]

Busy(id) == {a \in DOMAIN assessors : assessors[a].stage # "idle" /\ assessors[a].id = id}

-----------------------------------------------------------------------------
\* As in GetOperatorContext and GetCrossIdentityContext, but by the contacts
\* that are stored for the repository.
OperatorSignals(r) ==
  [otherBrandsHit |-> Cardinality(GetOperatorContext(r)),
   linkedIdentityOwners |->
     Cardinality({Now(q).owner : q \in {q \in DOMAIN Repo \ {r} :
                    Now(q).owner # Now(r).owner /\ prints[q] \cap prints[r] # {} /\ Stands(q)}})]

IsTrustedOwner(f, r) == \E b \in ToSet(Brands) : b.name = f.brand /\ Now(r).owner \in b.owners

\* What the model is given, and what the hash that stands for it is made of: the
\* score in force is part of it.
BuildContext(id) ==
  LET f == Finding(id)
  IN [rules |-> DOMAIN f.rules, brand |-> f.brand, severity |-> f.severity, score |-> f.score,
      classes |-> f.classes, signals |-> OperatorSignals(id[1]),
      trusted |-> IsTrustedOwner(f, id[1]), deployed |-> Now(id[1]).deployed]

\* What an answer may cite: parts of that context, and of what a deep review
\* has fetched as well.
CollectValidReferences(ctx, deepPaths) ==
  ctx.rules \cup {"repository", "finding", "operatorSignals", ctx.severity, ctx.brand}
  \cup (IF ctx.deployed THEN {"deployment"} ELSE {})
  \cup (IF ctx.trusted THEN {"trustedOwner"} ELSE {})
  \cup deepPaths

\* The README, the root directory and the first of the files the rules pointed
\* to, each left out if it cannot be fetched.
BuildDeepContext(id, reachable) ==
  LET files == Now(id[1]).files
      flagged == ToSet(UpTo(SetToSortSeq(Finding(id).files, <), MAX_FLAGGED_FILES))
  IN {"readme"} \cup
     (IF reachable THEN {files[i].kind : i \in {i \in DOMAIN files : files[i].root \/ i \in flagged}}
      ELSE {})

REPOSITORY_INTENTS == {"malicious_operation", "impersonation", "credential_harvesting",
                       "phishing_active", "benign", "inconclusive"}

Clamp(n) == Max({0, Min({100, n})})

\* Nothing of an answer is taken as it comes.
ParseIntentPayload(raw) ==
  [raw EXCEPT !.intent = IF @ \in REPOSITORY_INTENTS THEN @ ELSE "inconclusive",
              !.score = Clamp(@), !.conf = Clamp(@)]

\* Evidence that was never given is struck out, and costs confidence.
ValidateCitations(result, valid) ==
  IF result.cites \subseteq valid THEN result
  ELSE [result EXCEPT !.cites = @ \cap valid, !.conf = (7 * @ + 5) \div 10]

\* The first provider whose answer can be read; none, if there is none.
AttemptChain(answers, valid) ==
  LET read == {i \in DOMAIN answers : answers[i].readable}
  IN IF read = {} THEN {} ELSE {ValidateCitations(ParseIntentPayload(answers[Min(read)]), valid)}

ShouldDeepReview(result) ==
  result.deep \/ result.intent = "inconclusive" \/ result.conf < CONFIDENCE_THRESHOLD

-----------------------------------------------------------------------------
\* History: two who are at one finding may apply their verdicts in another order
\* than they recorded them.
Occupy(a, id) ==
  /\ assessors[a].stage = "idle"
  /\ assessors' = [assessors EXCEPT ![a] = [stage |-> "build", id |-> id]]
  /\ disturbed' = IF Busy(id) = {} THEN disturbed ELSE disturbed \cup {id}

TakeTask(id) ==
  /\ id \in tasks.waiting
  /\ Occupy("job", id)
  /\ tasks' = [tasks EXCEPT !.waiting = @ \ {id}]
  /\ UNCHANGED <<plan, queries, jobs, prints, findings, faults, verdicts, assessments, asked>>

\* A user asks again about a repository, that is about its riskiest finding.
Reanalyze(r) ==
  /\ asked < plan.calls
  /\ \E f \in findings[r] : /\ \A g \in findings[r] : g.score <= f.score
                            /\ Occupy("user", <<r, f.rules>>)
  /\ UNCHANGED <<pipelineVars, assessments, asked>>

\* The findings that the rules still score, but for dismissed and internal ones.
Unassessed ==
  IF plan.audit THEN {}
  ELSE UNION {{<<r, f.rules>> : f \in {f \in findings[r] : /\ f.source # "ai"
                                                           /\ f.status # "false_positive"}} :
                r \in DOMAIN findings}

BackfillIntentAssessments ==
  /\ asked < plan.calls
  /\ \E some \in SUBSET Unassessed :
       /\ Cardinality(some) = Min({Cardinality(Unassessed), MAX_BACKFILL})
       /\ tasks' = Enqueue(some)
  /\ UNCHANGED <<plan, queries, jobs, prints, findings, faults, verdicts, intentVars>>

\* The queue keeps its last hundred finished jobs, and their ids.
ForgetTask(id) ==
  /\ id \in tasks.ids \ tasks.waiting
  /\ ~(assessors["job"].stage # "idle" /\ assessors["job"].id = id)
  /\ asked < plan.calls
  /\ tasks' = [tasks EXCEPT !.ids = @ \ {id}]
  /\ UNCHANGED <<plan, queries, jobs, prints, findings, faults, verdicts, intentVars>>

\* What has been answered before is not asked again; nor is it applied again.
Build(a) ==
  /\ assessors[a].stage = "build"
  /\ LET id == assessors[a].id
         ctx == BuildContext(id)
         existing == {i \in DOMAIN assessments : assessments[i].id = id /\ assessments[i].ctx = ctx}
     IN assessors' = [assessors EXCEPT ![a] =
          IF existing # {} THEN Unoccupied
          ELSE [stage |-> "ask", id |-> id, ctx |-> ctx, tier |-> "first", paths |-> {}]]
  /\ UNCHANGED <<pipelineVars, assessments, asked, disturbed>>

\* Mutant: a deep review that fails is written to the finding as inconclusive.
FailedOutcome(job) ==
  IF job.tier = "first" THEN Unoccupied
  ELSE [stage |-> "apply", id |-> job.id, ctx |-> job.ctx, tier |-> "deep",
        result |-> [intent |-> "inconclusive", score |-> 0, deep |-> FALSE, conf |-> 100]]

\* What all providers fail at is recorded as failed, and left at that.
Failed(job) == Unoccupied

Ask(a, answers) ==
  /\ assessors[a].stage = "ask" /\ asked < plan.calls
  /\ asked' = asked + 1
  /\ LET job == assessors[a]
         outcome == AttemptChain(answers, CollectValidReferences(job.ctx, job.paths))
     IN assessors' = [assessors EXCEPT ![a] =
          IF outcome = {} THEN Failed(job)
          ELSE [stage |-> "record", id |-> job.id, ctx |-> job.ctx, tier |-> job.tier,
                result |-> CHOOSE x \in outcome : TRUE]]
  /\ UNCHANGED <<pipelineVars, assessments, disturbed>>

\* Verdicts only: the record of a failed request decides nothing later.
Record(a) ==
  /\ assessors[a].stage = "record"
  /\ LET job == assessors[a]
     IN assessments' = Append(assessments,
          [id |-> job.id, ctx |-> job.ctx, tier |-> job.tier, intent |-> job.result.intent,
           score |-> job.result.score, deep |-> job.result.deep])
  /\ assessors' = [assessors EXCEPT ![a].stage = "apply"]
  /\ UNCHANGED <<pipelineVars, asked, disturbed>>

\* The verdict's score replaces the rules', and a first verdict that is uncertain
\* is followed by a deep review.
Apply(a) ==
  /\ assessors[a].stage = "apply"
  /\ LET job == assessors[a]
         f == Finding(job.id)
         judged == [f EXCEPT !.score = job.result.score,
                             !.severity = SeverityFromScore(job.result.score),
                             !.source = "ai", !.intent = job.result.intent, !.deep = job.result.deep]
     IN /\ findings' = [findings EXCEPT ![job.id[1]] = (@ \ {f}) \cup {judged}]
        /\ assessors' = [assessors EXCEPT ![a] =
             IF job.tier = "first" /\ ShouldDeepReview(job.result)
             THEN [stage |-> "fetch", id |-> job.id, ctx |-> job.ctx, tier |-> "deep"]
             ELSE Unoccupied]
  /\ UNCHANGED <<plan, queries, jobs, prints, tasks, faults, verdicts, assessments, asked, disturbed>>

RunDeepReview(a, reachable) ==
  /\ assessors[a].stage = "fetch"
  /\ LET job == assessors[a]
     IN assessors' = [assessors EXCEPT ![a] =
          [stage |-> "ask", id |-> job.id, ctx |-> job.ctx, tier |-> "deep",
           paths |-> BuildDeepContext(job.id, reachable)]]
  /\ UNCHANGED <<pipelineVars, assessments, asked, disturbed>>

\* The process dies: the queue delivers its job again, a request is just gone.
CrashAssessor(a) ==
  /\ assessors[a].stage # "idle" /\ faults < MaxFaults
  /\ faults' = faults + 1
  /\ tasks' = IF a = "job" THEN [tasks EXCEPT !.waiting = @ \cup {assessors[a].id}] ELSE tasks
  /\ disturbed' = disturbed \cup {assessors[a].id}
  /\ assessors' = [assessors EXCEPT ![a] = Unoccupied]
  /\ UNCHANGED <<plan, queries, jobs, prints, findings, verdicts, assessments, asked>>

AssessmentNext ==
  \/ \E id \in tasks.ids : TakeTask(id) \/ ForgetTask(id)
  \/ \E r \in DOMAIN Repo : Reanalyze(r)
  \/ BackfillIntentAssessments
  \/ \E a \in DOMAIN assessors :
       \/ Build(a) \/ Record(a) \/ Apply(a) \/ CrashAssessor(a)
       \/ \E answers \in [1..NumProviders -> Answers] : Ask(a, answers)
       \/ \E reachable \in BOOLEAN : RunDeepReview(a, reachable)

Next ==
  \/ PipelineNext /\ UNCHANGED intentVars
  \/ plan.calls > 0 /\ AssessmentNext /\ UNCHANGED corpusVars

Spec == Init /\ [][Next]_vars

-----------------------------------------------------------------------------
\* The verdict a finding shows is one that is on record for it, never that of an
\* attempt that failed; and unless two were at the finding at once or one was
\* interrupted, it is the latest on record, and the score in force is that
\* verdict's or what the rules of a later scan have made of it
\* (persistCompleted; "Denormalized from the latest completed IntentAssessment").
VerdictOnRecord ==
  \A r \in DOMAIN Repo : \A f \in findings[r] :
    LET id == <<r, f.rules>>
        own == {i \in DOMAIN assessments : assessments[i].id = id}
        Shown(x) == f.intent = x.intent /\ f.deep = x.deep
        latest == assessments[Max(own)]
    IN /\ f.source = "ai" => \E i \in own : Shown(assessments[i])
       /\ own # {} /\ Busy(id) = {} /\ id \notin disturbed =>
            f.source = "ai" /\ Shown(latest) /\ f.score \in {latest.score, f.ruled}
=============================================================================
