---------------------------- MODULE PipelineProofs ----------------------------
(* The analysis of repositories, the ingest of the reference and the second   *)
(* opinions, for any repositories, brands, answers and bounds: a finding       *)
(* shows a verdict that is on record for it, an ingest that was not crossed    *)
(* leaves its commit, a brand that the repository names is preferred, what the *)
(* sample showed is not reported again of the whole tree, and repeats of a      *)
(* weak rule do not make a score critical.                                     *)
EXTENDS IntentAssessment, SequenceTheorems, FiniteSetTheorems, FunctionTheorems, WellFoundedInduction,
        TLAPS

-----------------------------------------------------------------------------
(* Verdicts on record: the inductive invariant.                              *)

FindingFields == {"rules", "brand", "score", "ruled", "severity", "classes", "status", "source",
                  "intent", "deep", "files"}

\* A repository has one finding for the rules that fired.
Listed(all) ==
  \A f \in all : DOMAIN f = FindingFields /\ \A g \in all : g.rules = f.rules => g = f

FindingsSound == DOMAIN findings = DOMAIN Repo /\ \A r \in DOMAIN Repo : Listed(findings[r])

Known(id) == \E r \in DOMAIN Repo : \E f \in findings[r] : id = <<r, f.rules>>

TasksSound ==
  DOMAIN tasks = {"waiting", "ids"} /\ \A id \in tasks.waiting \cup tasks.ids : Known(id)

AssessorSound(x) ==
  \/ x = Unoccupied
  \/ /\ {"stage", "id"} \subseteq DOMAIN x
     /\ x.stage \in {"build", "ask", "record", "apply", "fetch"}
     /\ x.stage = "record" => "result" \in DOMAIN x
     /\ Known(x.id)

AssessorsSound ==
  DOMAIN assessors = {"job", "user"} /\ \A a \in DOMAIN assessors : AssessorSound(assessors[a])

RecordsSound ==
  /\ assessments \in Seq(ToSet(assessments))
  /\ \A i \in DOMAIN assessments : Known(assessments[i].id)

Own(id) == {i \in DOMAIN assessments : assessments[i].id = id}
Agrees(x, y) == x.intent = y.intent /\ x.deep = y.deep

ShownSound ==
  \A r \in DOMAIN Repo : \A f \in findings[r] :
    f.source = "ai" => \E i \in Own(<<r, f.rules>>) : Agrees(f, assessments[i])

\* What is about to be applied has been recorded.
AppliesRecorded ==
  \A a \in DOMAIN assessors : assessors[a].stage = "apply" =>
    \E i \in Own(assessors[a].id) : Agrees(assessors[a].result, assessments[i])

Applying(id) == {a \in Busy(id) : assessors[a].stage = "apply"}
Latest(i, id) == i \in Own(id) /\ \A j \in Own(id) : j <= i

\* The latest verdict on a finding is the one that its only assessor is about to
\* apply, or the finding shows it.
InForce(f, id) ==
  /\ \A a, b \in Busy(id) : a = b
  /\ \A i \in DOMAIN assessments : Latest(i, id) =>
       \/ \E a \in Applying(id) : /\ Agrees(assessors[a].result, assessments[i])
                                  /\ assessors[a].result.score = assessments[i].score
       \/ /\ Applying(id) = {} /\ f.source = "ai" /\ Agrees(f, assessments[i])
          /\ f.score \in {assessments[i].score, f.ruled}

Settled ==
  \A r \in DOMAIN Repo : \A f \in findings[r] :
    <<r, f.rules>> \notin disturbed => InForce(f, <<r, f.rules>>)

VerdictInv ==
  /\ FindingsSound /\ TasksSound /\ AssessorsSound /\ RecordsSound
  /\ ShownSound /\ AppliesRecorded /\ Settled

-----------------------------------------------------------------------------
(* What the scans do to the findings.                                        *)

\* f as a later scan or a user leaves it: its verdict is the same, and its score is
\* what it was or what the rules now say.
Kept(f, g) ==
  /\ g.rules = f.rules /\ g.source = f.source /\ Agrees(f, g)
  /\ \/ g.score = f.score /\ g.ruled = f.ruled
     \/ g.score = g.ruled

\* A finding nobody has had a verdict on.
Fresh(g, old) == g.source = "rules" /\ \A f \in old : f.rules # g.rules

Rewritten(old, new) ==
  /\ Listed(new)
  /\ \A g \in new : Fresh(g, old) \/ \E f \in old : Kept(f, g)
  /\ \A f \in old : \E g \in new : g.rules = f.rules

LEMMA SameRewritten ==
  ASSUME FindingsSound, NEW r \in DOMAIN Repo
  PROVE  Rewritten(findings[r], findings[r])
BY DEF FindingsSound, Rewritten, Kept, Agrees

LEMMA RewrittenKnown ==
  ASSUME FindingsSound, DOMAIN findings' = DOMAIN Repo,
         \A r \in DOMAIN Repo : Rewritten(findings[r], findings'[r]), NEW id, Known(id)
  PROVE  Known(id)'
<1>0. PICK r \in DOMAIN Repo : \E f \in findings[r] : id = <<r, f.rules>>
  BY DEF Known
<1>1. PICK f \in findings[r] : id = <<r, f.rules>>
  BY <1>0
<1>2. PICK g \in findings'[r] : g.rules = f.rules
  BY <1>1 DEF Rewritten
<1>3. QED
  BY <1>1, <1>2 DEF Known

\* A finding whose repository's other findings alone are changed, or none.
LEMMA OneRewritten ==
  ASSUME FindingsSound, NEW r \in DOMAIN Repo, NEW new, Rewritten(findings[r], new),
         findings' = [findings EXCEPT ![r] = new]
  PROVE  /\ DOMAIN findings' = DOMAIN Repo
         /\ \A q \in DOMAIN Repo : Rewritten(findings[q], findings'[q])
BY SameRewritten DEF FindingsSound

LEMMA UntouchedRewritten ==
  ASSUME FindingsSound, findings' = findings
  PROVE  /\ DOMAIN findings' = DOMAIN Repo
         /\ \A q \in DOMAIN Repo : Rewritten(findings[q], findings'[q])
BY SameRewritten DEF FindingsSound

\* Such a step keeps the invariant.
LEMMA ScanKeeps ==
  ASSUME VerdictInv, UNCHANGED intentVars, DOMAIN findings' = DOMAIN Repo,
         \A r \in DOMAIN Repo : Rewritten(findings[r], findings'[r]), TasksSound'
  PROVE  VerdictInv'
<1> USE DEF VerdictInv
<1>1. UNCHANGED <<assessments, assessors, disturbed>>
  BY DEF intentVars
<1>2. \A id : Known(id) => Known(id)'
  BY RewrittenKnown
<1>3. FindingsSound'
  BY DEF FindingsSound, Rewritten
<1>4. AssessorsSound' /\ RecordsSound'
  BY <1>1, <1>2 DEF AssessorsSound, AssessorSound, RecordsSound
<1>5. AppliesRecorded'
  BY <1>1 DEF AppliesRecorded, Own
<1>6. ASSUME NEW r \in DOMAIN Repo, NEW g \in findings'[r], Fresh(g, findings[r])
      PROVE  Own(<<r, g.rules>>) = {} /\ Busy(<<r, g.rules>>) = {}
  <2>1. ~Known(<<r, g.rules>>)
    BY <1>6 DEF Known, Fresh
  <2>2. QED
    BY <2>1 DEF Own, Busy, RecordsSound, AssessorsSound, AssessorSound, Unoccupied
<1>7. ShownSound'
  <2> SUFFICES ASSUME NEW r \in DOMAIN Repo, NEW g \in findings'[r], g.source = "ai"
               PROVE  \E i \in Own(<<r, g.rules>>) : Agrees(g, assessments[i])
    BY <1>1 DEF ShownSound, Own
  <2>1. PICK f \in findings[r] : Kept(f, g)
    BY DEF Rewritten, Fresh
  <2>2. QED
    BY <2>1 DEF ShownSound, Kept, Agrees
<1>8. ASSUME NEW g, NEW id, InForce(g, id) PROVE InForce(g, id)'
  <2>1. Busy(id)' = Busy(id) /\ Applying(id)' = Applying(id)
    BY <1>1 DEF Busy, Applying
  <2>2. \A i : Latest(i, id)' = Latest(i, id)
    BY <1>1 DEF Latest, Own
  <2>3. QED
    BY <1>8, <1>1, <2>1, <2>2 DEF InForce
<1>9. Settled'
  <2> SUFFICES ASSUME NEW r \in DOMAIN Repo, NEW g \in findings'[r], <<r, g.rules>> \notin disturbed
               PROVE  InForce(g, <<r, g.rules>>)
    BY <1>1, <1>8 DEF Settled
  <2>1. CASE Fresh(g, findings[r])
    BY <2>1, <1>6 DEF InForce, Latest
  <2>2. CASE \E f \in findings[r] : Kept(f, g)
    <3>1. PICK f \in findings[r] : Kept(f, g)
      BY <2>2
    <3>2. InForce(f, <<r, f.rules>>)
      BY <3>1 DEF Settled, Kept
    <3>3. QED
      BY <3>1, <3>2 DEF InForce, Kept, Agrees
  <2>3. QED
    BY <2>1, <2>2 DEF Rewritten
<1>10. QED
  BY <1>3, <1>4, <1>5, <1>7, <1>9

LEMMA RewrittenTwice ==
  ASSUME NEW old, NEW mid, NEW new, Rewritten(old, mid), Rewritten(mid, new)
  PROVE  Rewritten(old, new)
<1> USE DEF Rewritten
<1>1. Listed(new)
  OBVIOUS
<1>2. ASSUME NEW h \in new PROVE Fresh(h, old) \/ \E f \in old : Kept(f, h)
  <2>1. CASE Fresh(h, mid)
    BY <2>1 DEF Fresh
  <2>2. CASE \E g \in mid : Kept(g, h)
    <3>1. PICK g \in mid : Kept(g, h)
      BY <2>2
    <3>2. CASE Fresh(g, old)
      BY <3>1, <3>2 DEF Fresh, Kept
    <3>3. CASE \E f \in old : Kept(f, g)
      BY <3>1, <3>3 DEF Kept, Agrees
    <3>4. QED
      BY <3>2, <3>3
  <2>3. QED
    BY <2>1, <2>2
<1>3. ASSUME NEW f \in old PROVE \E h \in new : h.rules = f.rules
  OBVIOUS
<1>4. QED
  BY <1>1, <1>2, <1>3

LEMMA ResolvedRewritten ==
  ASSUME NEW all, Listed(all), NEW seen
  PROVE  Rewritten(all, ResolveMissing(all, seen))
<1> USE DEF Listed, FindingFields, Rewritten, Kept, Agrees
<1>1. CASE plan.branch
  BY <1>1 DEF ResolveMissing
<1>2. CASE ~plan.branch
  <2> DEFINE Now2(f) == [f EXCEPT !.status = IF @ = "open" /\ f.rules \notin seen THEN "resolved" ELSE @]
  <2>1. ResolveMissing(all, seen) = {Now2(f) : f \in all}
    BY <1>2 DEF ResolveMissing
  <2>2. \A f \in all : DOMAIN Now2(f) = FindingFields /\ Kept(f, Now2(f))
    OBVIOUS
  <2> HIDE DEF Now2
  <2>3. QED
    BY <2>1, <2>2
<1>3. QED
  BY <1>1, <1>2

LEMMA DismissedRewritten ==
  ASSUME NEW all, Listed(all), NEW f \in all
  PROVE  Rewritten(all, (all \ {f}) \cup {[f EXCEPT !.status = "false_positive"]})
<1> USE DEF Listed, FindingFields, Rewritten, Kept, Agrees
<1> DEFINE g == [f EXCEPT !.status = "false_positive"]
<1>1. DOMAIN g = FindingFields /\ Kept(f, g)
  OBVIOUS
<1>2. ASSUME NEW h, DOMAIN h = FindingFields, Kept(f, h)
      PROVE  Rewritten(all, (all \ {f}) \cup {h})
  BY <1>2
<1>3. QED
  BY <1>1, <1>2

\* A repository's findings once a job's are saved.
Saved(all, job, brand) ==
  LET existing == {f \in all : f.rules = Fingerprint(job.detections)}
  IN (all \ existing) \cup (IF existing = {} THEN {Created(job, brand)}
                             ELSE {Refreshed(f, job, brand) : f \in existing})

LEMMA SavedRewritten ==
  ASSUME NEW all, Listed(all), NEW job, NEW brand
  PROVE  /\ Rewritten(all, Saved(all, job, brand))
         /\ \E f \in Saved(all, job, brand) : f.rules = Fingerprint(job.detections)
<1> USE DEF Listed, FindingFields, Rewritten, Kept, Agrees
<1> DEFINE rules == Fingerprint(job.detections)
           existing == {f \in all : f.rules = rules}
<1>1. CASE existing = {}
  <2> DEFINE g == Created(job, brand)
  <2>1. DOMAIN g = FindingFields /\ g.rules = rules /\ g.source = "rules"
    BY DEF Created
  <2>2. Saved(all, job, brand) = all \cup {g}
    BY <1>1 DEF Saved
  <2> HIDE DEF g, rules
  <2>3. Fresh(g, all)
    BY <1>1, <2>1 DEF Fresh, rules
  <2>4. QED
    BY <1>1, <2>1, <2>2, <2>3 DEF rules
<1>2. CASE existing # {}
  <2> DEFINE G(f) == Refreshed(f, job, brand)
  <2>1. \A f \in existing : DOMAIN G(f) = FindingFields /\ Kept(f, G(f))
    BY DEF Refreshed
  <2>2. Saved(all, job, brand) = (all \ existing) \cup {G(f) : f \in existing}
    BY <1>2 DEF Saved
  <2> HIDE DEF G
  <2>3. PICK f \in existing : existing = {f}
    BY <1>2
  <2>4. QED
    BY <2>1, <2>2, <2>3
<1>3. QED
  BY <1>1, <1>2

\* The steps that leave the findings and the queue of assessments alone.
LEMMA QuietStep ==
  ASSUME AnalysisNext \/ IngestNext,
         ~(\E q \in DOMAIN Repo : PruneFingerprints(q) \/ Persist(q) \/ Dismiss(q))
  PROVE  UNCHANGED <<findings, tasks>>
<1>1. CASE IngestNext
  BY <1>1 DEF IngestNext, pipelineVars
<1>2. CASE AnalysisNext
  BY <1>2 DEF AnalysisNext, BuildSearchQueries, Find, Enumerate, AskForBranch, Start, Clone, FetchOverRest,
              ReadHistory, Detect, StoreFingerprints, Score, Crash, Again
<1>3. QED
  BY <1>1, <1>2

LEMMA PipelineKeeps ==
  ASSUME VerdictInv, PipelineNext, UNCHANGED intentVars
  PROVE  VerdictInv'
<1>1. FindingsSound /\ TasksSound
  BY DEF VerdictInv
<1>2. SUFFICES /\ DOMAIN findings' = DOMAIN Repo
               /\ \A q \in DOMAIN Repo : Rewritten(findings[q], findings'[q])
               /\ TasksSound'
  BY ScanKeeps
<1>3. ASSUME tasks' = tasks, DOMAIN findings' = DOMAIN Repo,
             \A q \in DOMAIN Repo : Rewritten(findings[q], findings'[q])
      PROVE  TasksSound'
  BY <1>1, <1>3, RewrittenKnown DEF TasksSound
<1>4. ASSUME NEW r \in DOMAIN Repo, PruneFingerprints(r)
      PROVE  /\ tasks' = tasks /\ DOMAIN findings' = DOMAIN Repo
             /\ \A q \in DOMAIN Repo : Rewritten(findings[q], findings'[q])
  <2>1. tasks' = tasks
    BY <1>4 DEF PruneFingerprints
  <2>2. CASE findings' = findings
    BY <1>1, <2>1, <2>2, UntouchedRewritten
  <2>3. CASE findings' = [findings EXCEPT ![r] = ResolveMissing(@, {})]
    BY <1>1, <2>1, <2>3, OneRewritten, ResolvedRewritten DEF FindingsSound
  <2>4. QED
    BY <1>4, <2>2, <2>3 DEF PruneFingerprints
<1>5. ASSUME NEW r \in DOMAIN Repo, Dismiss(r)
      PROVE  /\ tasks' = tasks /\ DOMAIN findings' = DOMAIN Repo
             /\ \A q \in DOMAIN Repo : Rewritten(findings[q], findings'[q])
  <2>1. PICK f \in findings[r] :
          findings' = [findings EXCEPT ![r] = (@ \ {f}) \cup {[f EXCEPT !.status = "false_positive"]}]
    BY <1>5 DEF Dismiss
  <2>2. Rewritten(findings[r], (findings[r] \ {f}) \cup {[f EXCEPT !.status = "false_positive"]})
    BY <1>1, DismissedRewritten DEF FindingsSound
  <2>3. tasks' = tasks
    BY <1>5 DEF Dismiss
  <2>4. QED
    BY <1>1, <2>1, <2>2, <2>3, OneRewritten
<1>6. ASSUME NEW r \in DOMAIN Repo, Persist(r)
      PROVE  /\ DOMAIN findings' = DOMAIN Repo
             /\ \A q \in DOMAIN Repo : Rewritten(findings[q], findings'[q])
             /\ TasksSound'
  <2> DEFINE rules == Fingerprint(jobs[r].detections)
             brand == BrandOf(jobs[r].brand).name
             mid == Saved(findings[r], jobs[r], brand)
             new == ResolveMissing(mid, {rules})
  <2>1. /\ findings' = [findings EXCEPT ![r] = new]
        /\ tasks' = tasks \/ tasks' = Enqueue({<<r, rules>>})
    BY <1>6 DEF Persist, Saved
  <2> HIDE DEF brand
  <2>2. Rewritten(findings[r], mid) /\ \E f \in mid : f.rules = rules
    BY <1>1, SavedRewritten DEF FindingsSound
  <2> HIDE DEF rules, mid
  <2>3. Rewritten(mid, new)
    BY <2>2, ResolvedRewritten DEF Rewritten
  <2> HIDE DEF new
  <2>4. Rewritten(findings[r], new)
    BY <2>2, <2>3, RewrittenTwice
  <2>5. /\ DOMAIN findings' = DOMAIN Repo
        /\ \A q \in DOMAIN Repo : Rewritten(findings[q], findings'[q])
    BY <1>1, <2>1, <2>4, OneRewritten
  <2>6. \A k : k = rules => Known(<<r, k>>)'
    <3> SUFFICES ASSUME NEW k, k = rules PROVE Known(<<r, k>>)'
      OBVIOUS
    <3>1. \E g \in new : g.rules = k
      BY <2>2, <2>3 DEF Rewritten
    <3>2. findings'[r] = new
      BY <1>1, <2>1 DEF FindingsSound
    <3>3. QED
      BY <3>1, <3>2 DEF Known
  <2>7. TasksSound'
    <3>1. CASE tasks' = tasks
      BY <1>3, <2>5, <3>1
    <3>2. CASE tasks' = Enqueue({<<r, rules>>})
      <4>1. PICK k : k = rules
        OBVIOUS
      <4>2. /\ DOMAIN tasks' = {"waiting", "ids"}
            /\ tasks'.waiting \cup tasks'.ids \subseteq tasks.waiting \cup tasks.ids \cup {<<r, k>>}
        BY <1>1, <3>2, <4>1 DEF TasksSound, Enqueue
      <4>3. \A id \in tasks.waiting \cup tasks.ids \cup {<<r, k>>} : Known(id)'
        BY <1>1, <2>5, <2>6, <4>1, RewrittenKnown DEF TasksSound
      <4>4. QED
        BY <4>2, <4>3 DEF TasksSound
    <3>3. QED
      BY <2>1, <3>1, <3>2
  <2>8. QED
    BY <2>5, <2>7
<1>7. CASE \E q \in DOMAIN Repo : PruneFingerprints(q) \/ Persist(q) \/ Dismiss(q)
  BY <1>3, <1>4, <1>5, <1>6, <1>7
<1>8. CASE ~(\E q \in DOMAIN Repo : PruneFingerprints(q) \/ Persist(q) \/ Dismiss(q))
  <2>1. UNCHANGED <<findings, tasks>>
    BY <1>8, QuietStep DEF PipelineNext
  <2>2. QED
    BY <1>1, <1>3, <2>1, UntouchedRewritten
<1>9. QED
  BY <1>7, <1>8

-----------------------------------------------------------------------------
(* What the assessors do.                                                    *)

\* Without a change of the findings, what is known is what was.
LEMMA SameKnown ==
  ASSUME findings' = findings
  PROVE  \A id : Known(id)' <=> Known(id)
BY DEF Known

\* An assessor goes on with its finding, takes one on, or stops, with nothing
\* recorded or applied by that.
LEMMA AssessorMoves ==
  ASSUME VerdictInv, TasksSound', UNCHANGED <<findings, assessments>>,
         NEW a \in DOMAIN assessors, NEW x, assessors' = [assessors EXCEPT ![a] = x],
         AssessorSound(x), x.stage # "apply",
         disturbed \subseteq disturbed',
         assessors[a].stage = "apply" => assessors[a].id \in disturbed',
         \/ x = Unoccupied
         \/ assessors[a].stage # "idle" /\ x.id = assessors[a].id
         \/ Busy(x.id) = {}
         \/ x.id \in disturbed'
  PROVE  VerdictInv'
<1> USE DEF VerdictInv
<1>1. \A id : Known(id)' <=> Known(id)
  BY SameKnown
<1>2. FindingsSound' /\ RecordsSound' /\ ShownSound'
  BY <1>1 DEF FindingsSound, RecordsSound, ShownSound, Own
<1>3. /\ DOMAIN assessors' = DOMAIN assessors /\ assessors'[a] = x
      /\ \A b \in DOMAIN assessors : b # a => assessors'[b] = assessors[b]
  OBVIOUS
<1>4. AssessorsSound'
  BY <1>1, <1>3 DEF AssessorsSound, AssessorSound
<1>5. AppliesRecorded'
  BY <1>3 DEF AppliesRecorded, Own
<1>6. Settled'
  <2> SUFFICES ASSUME NEW r \in DOMAIN Repo, NEW f \in findings[r], NEW id, id = <<r, f.rules>>,
                      id \notin disturbed'
               PROVE  InForce(f, id)'
    BY DEF Settled
  <2>1. InForce(f, id)
    BY DEF Settled
  <2>2. \A i : Latest(i, id)' <=> Latest(i, id)
    BY DEF Latest, Own
  <2>3. Applying(id)' = Applying(id)
    BY <1>3 DEF Applying, Busy
  <2>4. \A b \in Applying(id) : assessors'[b] = assessors[b]
    BY <1>3 DEF Applying, Busy
  <2>5. \A b, c \in Busy(id)' : b = c
    BY <1>3, <2>1 DEF InForce, Busy, Unoccupied
  <2>6. QED
    BY <2>1, <2>2, <2>3, <2>4, <2>5 DEF InForce
<1>7. QED
  BY <1>2, <1>4, <1>5, <1>6

LEMMA QueueKeeps ==
  ASSUME VerdictInv, TasksSound', UNCHANGED <<findings, intentVars>>
  PROVE  VerdictInv'
<1>1. FindingsSound
  BY DEF VerdictInv
<1>2. QED
  BY <1>1, ScanKeeps, UntouchedRewritten

LEMMA TasksKept ==
  ASSUME TasksSound, findings' = findings, DOMAIN tasks' = DOMAIN tasks,
         \A id \in tasks'.waiting \cup tasks'.ids : Known(id)
  PROVE  TasksSound'
BY SameKnown DEF TasksSound

LEMMA OccupyKeeps ==
  ASSUME VerdictInv, TasksSound', NEW a \in DOMAIN assessors, NEW id, Known(id), Occupy(a, id),
         UNCHANGED <<findings, assessments>>
  PROVE  VerdictInv'
<1> DEFINE x == [stage |-> "build", id |-> id]
<1>1. AssessorSound(x) /\ x.stage = "build" /\ x.id = id
  BY DEF AssessorSound
<1>2. assessors' = [assessors EXCEPT ![a] = x] /\ assessors[a].stage = "idle"
  BY DEF Occupy
<1>3. disturbed \subseteq disturbed' /\ (Busy(id) = {} \/ id \in disturbed')
  BY DEF Occupy
<1> HIDE DEF x
<1>4. QED
  BY <1>1, <1>2, <1>3, AssessorMoves

LEMMA RecordKeeps ==
  ASSUME VerdictInv, NEW a \in DOMAIN assessors, Record(a)
  PROVE  VerdictInv'
<1> USE DEF VerdictInv
<1> DEFINE job == assessors[a]
           e == [id |-> job.id, ctx |-> job.ctx, tier |-> job.tier, intent |-> job.result.intent,
                 score |-> job.result.score, deep |-> job.result.deep]
           n == Len(assessments) + 1
<1>1. /\ job.stage = "record" /\ {"stage", "id", "result"} \subseteq DOMAIN job /\ Known(job.id)
      /\ UNCHANGED <<findings, tasks, disturbed>>
  BY DEF Record, AssessorsSound, AssessorSound, Unoccupied, pipelineVars
<1>2. /\ DOMAIN assessors' = DOMAIN assessors
      /\ assessors'[a].stage = "apply" /\ assessors'[a].id = job.id /\ assessors'[a].result = job.result
      /\ {"stage", "id"} \subseteq DOMAIN assessors'[a]
      /\ \A b \in DOMAIN assessors : b # a => assessors'[b] = assessors[b]
  BY <1>1 DEF Record
<1>3. /\ assessments' \in Seq(ToSet(assessments')) /\ n \in Nat \ {0}
      /\ DOMAIN assessments = 1 .. (n - 1) /\ DOMAIN assessments' = 1 .. n
      /\ assessments'[n] = e /\ \A i \in DOMAIN assessments : assessments'[i] = assessments[i]
  <2>1. assessments' = Append(assessments, e)
    BY DEF Record
  <2>2. assessments \in Seq(ToSet(assessments) \cup {e})
    BY DEF RecordsSound
  <2> HIDE DEF e
  <2>3. /\ assessments' \in Seq(ToSet(assessments) \cup {e}) /\ n \in Nat \ {0}
        /\ DOMAIN assessments = 1 .. (n - 1) /\ DOMAIN assessments' = 1 .. n
        /\ assessments'[n] = e /\ \A i \in DOMAIN assessments : assessments'[i] = assessments[i]
    BY <2>1, <2>2
  <2>4. ToSet(assessments') = ToSet(assessments) \cup {e}
    BY <2>3 DEF ToSet
  <2>5. QED
    BY <2>3, <2>4
<1>4. e.id = job.id /\ Agrees(job.result, e) /\ job.result.score = e.score
  BY DEF Agrees
<1> HIDE DEF e, n
<1>5. \A id : Known(id)' <=> Known(id)
  BY <1>1, SameKnown
<1>6. FindingsSound' /\ TasksSound' /\ AssessorsSound'
  BY <1>1, <1>2, <1>5 DEF FindingsSound, TasksSound, AssessorsSound, AssessorSound
<1>7. RecordsSound'
  BY <1>1, <1>3, <1>4, <1>5 DEF RecordsSound
<1>8. \A id : Own(id)' = IF id = job.id THEN Own(id) \cup {n} ELSE Own(id)
  BY <1>3, <1>4 DEF Own
<1>13. \A id : Own(id) \subseteq DOMAIN assessments
  BY DEF Own
<1>9. ShownSound'
  <2> SUFFICES ASSUME NEW r \in DOMAIN Repo, NEW f \in findings[r], f.source = "ai", NEW id, id = <<r, f.rules>>
               PROVE  \E i \in Own(id)' : Agrees(f, assessments'[i])
    BY <1>1 DEF ShownSound
  <2>1. PICK i \in Own(id) : Agrees(f, assessments[i])
    BY DEF ShownSound
  <2>2. QED
    BY <1>3, <1>8, <1>13, <2>1
<1>10. AppliesRecorded'
  <2> SUFFICES ASSUME NEW b \in DOMAIN assessors, assessors'[b].stage = "apply"
               PROVE  \E i \in Own(assessors[b].id)' : Agrees(assessors'[b].result, assessments'[i])
    BY <1>2 DEF AppliesRecorded, Own
  <2>1. CASE b = a
    BY <1>2, <1>3, <1>4, <1>8, <2>1
  <2>2. CASE b # a
    BY <1>2, <1>3, <1>8, <2>2 DEF AppliesRecorded, Own
  <2>3. QED
    BY <2>1, <2>2
<1>11. Settled'
  <2> SUFFICES ASSUME NEW r \in DOMAIN Repo, NEW f \in findings[r], NEW id, id = <<r, f.rules>>,
                      id \notin disturbed
               PROVE  InForce(f, id)'
    BY <1>1 DEF Settled
  <2>1. InForce(f, id)
    BY DEF Settled
  <2>2. Busy(id)' = Busy(id)
    BY <1>1, <1>2 DEF Busy
  <2>3. CASE id = job.id
    <3>1. \A i : Latest(i, id)' => i = n
      <4>1. n \in Own(id)' /\ \A i \in Own(id)' : i \in 1 .. n
        <5>1. Own(id)' = Own(id) \cup {n}
          BY <1>8, <2>3
        <5>2. \A i \in Own(id) : i \in 1 .. (n - 1)
          BY <1>3, <1>13
        <5>3. QED
          BY <1>3, <5>1, <5>2
      <4>2. ASSUME NEW i, Latest(i, id)' PROVE i \in 1 .. n /\ n <= i
        BY <4>1, <4>2 DEF Latest
      <4>3. QED
        BY <1>3, <4>2
    <3>2. a \in Applying(id)'
      BY <1>2, <2>3 DEF Applying, Busy
    <3>3. QED
      BY <1>2, <1>3, <1>4, <2>1, <2>2, <3>1, <3>2 DEF InForce
  <2>4. CASE id # job.id
    <3>1. \A i : Latest(i, id)' <=> Latest(i, id)
      BY <1>8, <2>4 DEF Latest
    <3>2. Applying(id)' = Applying(id) /\ \A b \in Applying(id) : assessors'[b] = assessors[b]
      BY <1>2, <2>2, <2>4 DEF Applying, Busy
    <3>3. \A i : Latest(i, id) => i \in DOMAIN assessments /\ assessments'[i] = assessments[i]
      BY <1>3 DEF Latest, Own
    <3>4. QED
      BY <2>1, <2>2, <3>1, <3>2, <3>3 DEF InForce
  <2>5. QED
    BY <2>3, <2>4
<1>12. QED
  BY <1>6, <1>7, <1>9, <1>10, <1>11

LEMMA ApplyKeeps ==
  ASSUME VerdictInv, NEW a \in DOMAIN assessors, Apply(a)
  PROVE  VerdictInv'
<1> USE DEF VerdictInv
<1> DEFINE job == assessors[a]
<1>1. job.stage = "apply" /\ Known(job.id) /\ UNCHANGED <<tasks, assessments, disturbed>>
  BY DEF Apply, AssessorsSound, AssessorSound, Unoccupied
<1>2. PICK q \in DOMAIN Repo : \E g \in findings[q] : job.id = <<q, g.rules>>
  BY <1>1 DEF Known
<1>3. PICK f \in findings[q] : job.id = <<q, f.rules>>
  BY <1>2
<1>4. Finding(job.id) = f /\ job.id[1] = q
  BY <1>3 DEF Finding, FindingsSound, Listed
<1>5. PICK result, score, id : result = job.result /\ score = result.score /\ id = job.id
  OBVIOUS
<1> DEFINE g == [f EXCEPT !.score = score, !.severity = SeverityFromScore(score),
                          !.source = "ai", !.intent = result.intent, !.deep = result.deep]
<1>6. findings' = [findings EXCEPT ![q] = (@ \ {f}) \cup {g}]
  BY <1>4, <1>5 DEF Apply
<1>7. /\ DOMAIN g = FindingFields /\ g.rules = f.rules /\ g.source = "ai" /\ Agrees(g, result)
      /\ g.score = score
  BY DEF FindingsSound, Listed, FindingFields, Agrees
<1> HIDE DEF g
<1>8. /\ DOMAIN findings' = DOMAIN Repo /\ findings'[q] = (findings[q] \ {f}) \cup {g}
      /\ \A r \in DOMAIN Repo : r # q => findings'[r] = findings[r]
  BY <1>6 DEF FindingsSound
<1>9. FindingsSound'
  BY <1>7, <1>8 DEF FindingsSound, Listed
<1>10. \A k : Known(k) => Known(k)'
  BY <1>7, <1>8 DEF Known
<1>11. /\ DOMAIN assessors' = DOMAIN assessors
       /\ assessors'[a] = Unoccupied \/ /\ {"stage", "id"} \subseteq DOMAIN assessors'[a]
                                        /\ assessors'[a].stage = "fetch" /\ assessors'[a].id = id
       /\ \A b \in DOMAIN assessors : b # a => assessors'[b] = assessors[b]
  BY <1>5 DEF Apply
<1>12. TasksSound' /\ AssessorsSound' /\ RecordsSound'
  <2>1. TasksSound'
    BY <1>1, <1>10 DEF TasksSound
  <2>2. AssessorsSound'
    BY <1>1, <1>5, <1>10, <1>11 DEF AssessorsSound, AssessorSound
  <2>3. RecordsSound'
    BY <1>1, <1>10 DEF RecordsSound
  <2>4. QED
    BY <2>1, <2>2, <2>3
<1>13. \A k : Own(k)' = Own(k) /\ assessments' = assessments
  BY <1>1 DEF Own
<1>14. AppliesRecorded'
  BY <1>11, <1>13 DEF AppliesRecorded, Unoccupied
<1>15. ASSUME NEW r \in DOMAIN Repo, NEW h \in findings'[r]
       PROVE  \/ h = g /\ <<r, h.rules>> = id
              \/ h \in findings[r] /\ <<r, h.rules>> # id
  BY <1>3, <1>5, <1>7, <1>8, <1>15 DEF FindingsSound, Listed
<1>16. ShownSound'
  <2> SUFFICES ASSUME NEW r \in DOMAIN Repo, NEW h \in findings'[r], h.source = "ai",
                      NEW k, k = <<r, h.rules>>
               PROVE  \E i \in Own(k) : Agrees(h, assessments[i])
    BY <1>13 DEF ShownSound
  <2>1. CASE h = g /\ k = id
    BY <1>1, <1>5, <1>7, <2>1 DEF AppliesRecorded, Agrees
  <2>2. CASE h \in findings[r]
    BY <2>2 DEF ShownSound
  <2>3. QED
    BY <1>15, <2>1, <2>2
<1>17. Settled'
  <2> SUFFICES ASSUME NEW r \in DOMAIN Repo, NEW h \in findings'[r], NEW k, k = <<r, h.rules>>,
                      k \notin disturbed
               PROVE  InForce(h, k)'
    BY <1>1 DEF Settled
  <2>1. \A i : Latest(i, k)' <=> Latest(i, k)
    BY <1>13 DEF Latest
  <2>2. Busy(k)' \subseteq Busy(k)
    BY <1>1, <1>5, <1>11 DEF Busy, Unoccupied
  <2>3. CASE h = g /\ k = id
    <3>1. InForce(f, k)
      BY <1>3, <1>5, <2>3 DEF Settled
    <3>2. a \in Applying(k)
      BY <1>1, <1>5, <2>3 DEF Applying, Busy
    <3>3. Applying(k)' = {}
      BY <1>11, <2>2, <3>1, <3>2 DEF Applying, InForce, Unoccupied
    <3>4. ASSUME NEW i \in DOMAIN assessments, Latest(i, k)
          PROVE  Agrees(result, assessments[i]) /\ score = assessments[i].score
      BY <1>5, <3>1, <3>2, <3>4 DEF InForce, Applying
    <3>5. QED
      BY <1>7, <1>13, <2>1, <2>2, <2>3, <3>1, <3>3, <3>4 DEF InForce, Agrees
  <2>4. CASE h \in findings[r] /\ k # id
    <3>1. InForce(h, k)
      BY <2>4 DEF Settled
    <3>2. a \notin Busy(k) /\ a \notin Busy(k)'
      BY <1>1, <1>5, <1>11, <2>4 DEF Busy, Unoccupied
    <3>3. /\ Busy(k)' = Busy(k) /\ Applying(k)' = Applying(k)
          /\ \A b \in Applying(k) : assessors'[b] = assessors[b]
      BY <1>11, <3>2 DEF Busy, Applying
    <3>4. QED
      BY <1>13, <2>1, <3>1, <3>3 DEF InForce
  <2>5. QED
    BY <1>15, <2>3, <2>4
<1>18. QED
  BY <1>9, <1>12, <1>14, <1>16, <1>17

-----------------------------------------------------------------------------
(* The theorem.                                                              *)

LEMMA AssessmentKeeps ==
  ASSUME VerdictInv, AssessmentNext
  PROVE  VerdictInv'
<1> USE DEF VerdictInv
<1>1. ASSUME NEW id \in tasks.ids, TakeTask(id) PROVE VerdictInv'
  <2>1. Known(id) /\ findings' = findings /\ assessments' = assessments
    BY <1>1 DEF TasksSound, TakeTask
  <2>2. TasksSound'
    BY <1>1, <2>1, TasksKept DEF TasksSound, TakeTask
  <2>3. "job" \in DOMAIN assessors /\ Occupy("job", id)
    BY <1>1 DEF AssessorsSound, TakeTask
  <2>4. QED
    BY <2>1, <2>2, <2>3, OccupyKeeps
<1>2. ASSUME NEW id \in tasks.ids, ForgetTask(id) PROVE VerdictInv'
  <2>1. findings' = findings /\ UNCHANGED intentVars
    BY <1>2 DEF ForgetTask
  <2>2. TasksSound'
    BY <1>2, <2>1, TasksKept DEF TasksSound, ForgetTask
  <2>3. QED
    BY <2>1, <2>2, QueueKeeps
<1>3. ASSUME NEW r \in DOMAIN Repo, Reanalyze(r) PROVE VerdictInv'
  <2>1. PICK f \in findings[r] : Occupy("user", <<r, f.rules>>)
    BY <1>3 DEF Reanalyze
  <2>2. PICK id : id = <<r, f.rules>>
    OBVIOUS
  <2>3. UNCHANGED <<findings, tasks, assessments>>
    BY <1>3 DEF Reanalyze, pipelineVars
  <2>4. Known(id) /\ "user" \in DOMAIN assessors
    BY <2>2 DEF Known, AssessorsSound
  <2>5. TasksSound'
    BY <2>3, TasksKept DEF TasksSound
  <2>6. QED
    BY <2>1, <2>2, <2>3, <2>4, <2>5, OccupyKeeps
<1>4. CASE BackfillIntentAssessments
  <2>1. PICK some \in SUBSET Unassessed : tasks' = Enqueue(some)
    BY <1>4 DEF BackfillIntentAssessments
  <2>2. UNCHANGED <<findings, intentVars>>
    BY <1>4 DEF BackfillIntentAssessments
  <2>3. \A id \in Unassessed : Known(id)
    BY DEF Unassessed, Known, FindingsSound
  <2>4. TasksSound'
    BY <2>1, <2>2, <2>3, TasksKept DEF TasksSound, Enqueue
  <2>5. QED
    BY <2>2, <2>4, QueueKeeps
<1>5. ASSUME NEW a \in DOMAIN assessors PROVE AssessorSound(assessors[a])
  BY DEF AssessorsSound
<1>6. ASSUME NEW a \in DOMAIN assessors, Build(a) PROVE VerdictInv'
  <2>1. UNCHANGED <<findings, tasks, assessments, disturbed>> /\ assessors[a].stage = "build" /\ Known(assessors[a].id)
    BY <1>5, <1>6 DEF Build, pipelineVars, AssessorSound, Unoccupied
  <2>2. TasksSound'
    BY <2>1, TasksKept DEF TasksSound
  <2>3. PICK ctx : \/ assessors' = [assessors EXCEPT ![a] = Unoccupied]
                  \/ assessors' = [assessors EXCEPT ![a] =
                       [stage |-> "ask", id |-> assessors[a].id, ctx |-> ctx, tier |-> "first", paths |-> {}]]
    BY <1>6 DEF Build
  <2>4. PICK x : /\ assessors' = [assessors EXCEPT ![a] = x]
                /\ (x = Unoccupied \/ x.id = assessors[a].id)
                /\ AssessorSound(x) /\ x.stage # "apply"
    BY <2>1, <2>3 DEF AssessorSound, Unoccupied
  <2>5. QED
    BY <2>1, <2>2, <2>4, AssessorMoves
<1>7. ASSUME NEW a \in DOMAIN assessors, NEW answers, Ask(a, answers) PROVE VerdictInv'
  <2>1. UNCHANGED <<findings, tasks, assessments, disturbed>> /\ assessors[a].stage = "ask" /\ Known(assessors[a].id)
    BY <1>5, <1>7 DEF Ask, pipelineVars, AssessorSound, Unoccupied
  <2>2. TasksSound'
    BY <2>1, TasksKept DEF TasksSound
  <2>3. PICK y : \/ assessors' = [assessors EXCEPT ![a] = Unoccupied]
                \/ assessors' = [assessors EXCEPT ![a] =
                       [stage |-> "record", id |-> assessors[a].id, ctx |-> assessors[a].ctx,
                        tier |-> assessors[a].tier, result |-> y]]
    BY <1>7 DEF Ask, Failed
  <2>4. PICK x : /\ assessors' = [assessors EXCEPT ![a] = x]
                /\ (x = Unoccupied \/ x.id = assessors[a].id)
                /\ AssessorSound(x) /\ x.stage # "apply"
    BY <2>1, <2>3 DEF AssessorSound, Unoccupied
  <2>5. QED
    BY <2>1, <2>2, <2>4, AssessorMoves
<1>8. ASSUME NEW a \in DOMAIN assessors, NEW reachable, RunDeepReview(a, reachable) PROVE VerdictInv'
  <2>1. UNCHANGED <<findings, tasks, assessments, disturbed>> /\ assessors[a].stage = "fetch" /\ Known(assessors[a].id)
    BY <1>5, <1>8 DEF RunDeepReview, pipelineVars, AssessorSound, Unoccupied
  <2>2. TasksSound'
    BY <2>1, TasksKept DEF TasksSound
  <2>3. PICK y : assessors' = [assessors EXCEPT ![a] =
                   [stage |-> "ask", id |-> assessors[a].id, ctx |-> assessors[a].ctx, tier |-> "deep",
                    paths |-> y]]
    BY <1>8 DEF RunDeepReview
  <2> DEFINE x == [stage |-> "ask", id |-> assessors[a].id, ctx |-> assessors[a].ctx, tier |-> "deep",
                   paths |-> y]
  <2>4. /\ assessors' = [assessors EXCEPT ![a] = x]
        /\ x.id = assessors[a].id /\ AssessorSound(x) /\ x.stage # "apply"
    BY <2>1, <2>3 DEF AssessorSound
  <2> HIDE DEF x
  <2>5. QED
    BY <2>1, <2>2, <2>4, AssessorMoves
<1>9. ASSUME NEW a \in DOMAIN assessors, CrashAssessor(a) PROVE VerdictInv'
  <2>1. /\ UNCHANGED <<findings, assessments>> /\ Known(assessors[a].id)
        /\ disturbed' = disturbed \cup {assessors[a].id} /\ assessors' = [assessors EXCEPT ![a] = Unoccupied]
    BY <1>5, <1>9 DEF CrashAssessor, AssessorSound, Unoccupied
  <2>2. /\ DOMAIN tasks' = DOMAIN tasks
        /\ tasks'.waiting \cup tasks'.ids \subseteq tasks.waiting \cup tasks.ids \cup {assessors[a].id}
    BY <1>9 DEF CrashAssessor, TasksSound
  <2>3. TasksSound'
    BY <2>1, <2>2, TasksKept DEF TasksSound
  <2>4. AssessorSound(Unoccupied) /\ Unoccupied.stage # "apply"
    BY DEF AssessorSound, Unoccupied
  <2>5. QED
    BY <2>1, <2>3, <2>4, AssessorMoves
<1>10. QED
  BY <1>1, <1>2, <1>3, <1>4, <1>6, <1>7, <1>8, <1>9, RecordKeeps, ApplyKeeps DEF AssessmentNext

LEMMA VerdictInit == Init => VerdictInv
<1> SUFFICES ASSUME Init PROVE VerdictInv
  OBVIOUS
<1>1. /\ findings = [r \in DOMAIN Repo |-> {}] /\ tasks = [waiting |-> {}, ids |-> {}]
      /\ assessments = <<>> /\ assessors = [a \in {"job", "user"} |-> Unoccupied]
  BY DEF Init, PipelineInit
<1>2. FindingsSound /\ TasksSound /\ AssessorsSound
  BY <1>1 DEF FindingsSound, Listed, TasksSound, AssessorsSound, AssessorSound
<1>3. RecordsSound
  BY <1>1 DEF RecordsSound
<1>4. ShownSound /\ AppliesRecorded /\ Settled
  BY <1>1 DEF ShownSound, AppliesRecorded, Settled, Unoccupied
<1>5. QED
  BY <1>2, <1>3, <1>4 DEF VerdictInv

LEMMA VerdictStep == VerdictInv /\ [Next]_vars => VerdictInv'
<1> SUFFICES ASSUME VerdictInv, [Next]_vars PROVE VerdictInv'
  OBVIOUS
<1>1. CASE UNCHANGED vars
  <2>1. UNCHANGED <<findings, tasks, intentVars>>
    BY <1>1 DEF vars, intentVars
  <2>2. TasksSound'
    BY <2>1, TasksKept DEF VerdictInv, TasksSound
  <2>3. QED
    BY <2>1, <2>2, QueueKeeps
<1>2. CASE PipelineNext /\ UNCHANGED intentVars
  BY <1>2, PipelineKeeps
<1>3. CASE AssessmentNext
  BY <1>3, AssessmentKeeps
<1>4. QED
  BY <1>1, <1>2, <1>3 DEF Next

\* The greatest of some of the natural numbers up to n.
LEMMA LatestIs ==
  ASSUME NEW n \in Nat, NEW S \in SUBSET (1 .. n), S # {}
  PROVE  Max(S) \in S /\ \A j \in S : j <= Max(S)
<1> DEFINE B == {k \in Nat : \A j \in S : j <= k}
<1>1. n \in B
  OBVIOUS
<1>2. PICK k \in B : \A m \in B : ~(m < k)
  <2>1. IsWellFoundedOn(OpToRel(<, Nat), Nat)
    BY NatLessThanWellFounded
  <2>2. \E k \in B : \A m \in B : <<m, k>> \notin OpToRel(<, Nat)
    BY <1>1, <2>1, WFMin, B \subseteq Nat
  <2>3. QED
    BY <2>2 DEF OpToRel
<1>3. k \in S
  <2>1. k # 0
    <3>1. PICK j \in S : TRUE
      OBVIOUS
    <3>2. j \in 1 .. n /\ j <= k
      BY <1>2, <3>1
    <3>3. QED
      BY <3>2
  <2>2. CASE k \notin S
    <3>1. k - 1 \in Nat /\ \A j \in S : j <= k - 1
      BY <1>2, <2>1, <2>2
    <3>2. QED
      BY <1>2, <3>1
  <2>3. QED
    BY <2>1, <2>2
<1>4. \E x \in S : \A y \in S : x >= y
  BY <1>2, <1>3
<1>5. QED
  BY <1>4 DEF Max

\* A finding never shows a verdict that is not on record for it, and with nobody and
\* nothing interrupted over it shows the latest (persistCompleted), for any number of
\* repositories, rescans, requests, answers and crashes.
THEOREM VerdictsAreOnRecord == Spec => []VerdictOnRecord
<1>1. VerdictInv => VerdictOnRecord
  <2> SUFFICES ASSUME VerdictInv, NEW r \in DOMAIN Repo, NEW f \in findings[r],
                      NEW id, id = <<r, f.rules>>
               PROVE  /\ f.source = "ai" => \E i \in Own(id) : Agrees(f, assessments[i])
                      /\ Own(id) # {} /\ Busy(id) = {} /\ id \notin disturbed =>
                           /\ f.source = "ai" /\ Agrees(f, assessments[Max(Own(id))])
                           /\ f.score \in {assessments[Max(Own(id))].score, f.ruled}
    BY DEF VerdictOnRecord, Own, Agrees
  <2>1. f.source = "ai" => \E i \in Own(id) : Agrees(f, assessments[i])
    BY DEF VerdictInv, ShownSound
  <2>2. ASSUME Own(id) # {}, Busy(id) = {}, id \notin disturbed
        PROVE  /\ f.source = "ai" /\ Agrees(f, assessments[Max(Own(id))])
               /\ f.score \in {assessments[Max(Own(id))].score, f.ruled}
    <3>1. Len(assessments) \in Nat /\ Own(id) \in SUBSET (1 .. Len(assessments))
      BY DEF VerdictInv, RecordsSound, Own
    <3>2. Latest(Max(Own(id)), id) /\ Max(Own(id)) \in DOMAIN assessments
      BY <2>2, <3>1, LatestIs DEF Latest, Own
    <3>3. InForce(f, id) /\ Applying(id) = {}
      BY <2>2 DEF VerdictInv, Settled, Applying
    <3>4. QED
      BY <3>2, <3>3 DEF InForce
  <2>3. QED
    BY <2>1, <2>2
<1>2. QED
  BY <1>1, VerdictInit, VerdictStep, PTL DEF Spec

-----------------------------------------------------------------------------
(* The corpus of the reference: the inductive invariant.                     *)

\* What a request goes through: a commit's files, or none for a removal.
Commits == {ReferenceFiles(Repo[Reference][v]) : v \in DOMAIN Repo[Reference]} \cup {<<>>}

RowOf(f) == [path |-> Path(f), hash |-> HashContent(f)]
PhraseOf(f, t) == [path |-> Path(f), text |-> t]

InPlace(f) == RowOf(f) \in corpus.files /\ \A x \in corpus.files : x.path = Path(f) => x = RowOf(f)
RightPhrases(f) == \A p \in corpus.phrases : p.path = Path(f) => p.text \in PhrasesOf(f)
AllPhrases(f) == \A t \in PhrasesOf(f) : PhraseOf(f, t) \in corpus.phrases
KnownSecrets(f) == ExtractSecretValueHashes(f) \subseteq corpus.secrets
FilesPruned(F) == \A x \in corpus.files : \E f \in ToSet(F) : x.path = Path(f)
PhrasesPruned(F) == \A p \in corpus.phrases : \E f \in ToSet(F) : p.path = Path(f)

\* Only content files ever had phrases.
CorpusSound ==
  /\ DOMAIN corpus = {"files", "phrases", "secrets"}
  /\ \A p \in corpus.phrases :
       /\ p = [path |-> p.path, text |-> p.text]
       /\ \E F \in Commits : \E f \in ToSet(F) : ClassifyContentFile(f) /\ p.path = Path(f)

IngestSound(x) ==
  /\ DOMAIN x = {"stage", "files", "at", "left", "undisturbed"}
  /\ x.files \in Commits /\ x.at \in 1 .. (Len(x.files) + 1)
  /\ x.stage \in {"none", "file", "phrases", "secrets", "files pruned", "done"}
  /\ x.stage \in {"phrases", "secrets"} => x.at <= Len(x.files)
  /\ x.stage \in {"files pruned", "done"} => x.at = Len(x.files) + 1
  /\ x.stage = "phrases" => /\ ClassifyContentFile(x.files[x.at])
                            /\ x.left \in Seq(PhrasesOf(x.files[x.at]))

\* The files a request has been through are in the corpus, and nothing else of theirs.
Progressed(x) ==
  /\ \A i \in DOMAIN x.files :
       LET f == x.files[i] IN
       /\ i < x.at \/ (i = x.at /\ x.stage \in {"phrases", "secrets"}) => InPlace(f)
       /\ i < x.at \/ (i = x.at /\ x.stage = "secrets") => RightPhrases(f) /\ AllPhrases(f)
       /\ i < x.at => KnownSecrets(f)
       /\ i = x.at /\ x.stage = "phrases" =>
            \A t \in PhrasesOf(f) : PhraseOf(f, t) \in corpus.phrases \/ t \in ToSet(x.left)
  /\ x.stage \in {"files pruned", "done"} => FilesPruned(x.files)
  /\ x.stage = "done" => PhrasesPruned(x.files)

SameCommit(F) == \A d \in Callers : Working(d) => ingests[d].files = F

CorpusInv ==
  /\ CorpusSound
  /\ DOMAIN ingests = Callers /\ \A c \in Callers : IngestSound(ingests[c])
  /\ \A c \in Callers : ingests[c].undisturbed /\ ingests[c].stage # "none" =>
       SameCommit(ingests[c].files) /\ Progressed(ingests[c])

-----------------------------------------------------------------------------
LEMMA CommitFacts ==
  ASSUME NEW F \in Commits
  PROVE  /\ F \in Seq(ToSet(F)) /\ Len(F) \in Nat /\ DOMAIN F = 1 .. Len(F)
         /\ \A i, j \in DOMAIN F : Path(F[i]) = Path(F[j]) => i = j
         /\ \A i \in DOMAIN F : /\ F[i] \in ToSet(F)
                                /\ ExtractDistinctivePhrases(F[i]) \in Seq(ToSet(ExtractDistinctivePhrases(F[i])))
<1>1. CASE F = <<>>
  BY <1>1 DEF ToSet
<1>2. ASSUME NEW v \in DOMAIN Repo[Reference], F = ReferenceFiles(Repo[Reference][v])
      PROVE  /\ F \in Seq(ToSet(F))
             /\ \A i, j \in DOMAIN F : Path(F[i]) = Path(F[j]) => i = j
             /\ \A i \in DOMAIN F :
                  ExtractDistinctivePhrases(F[i]) \in Seq(ToSet(ExtractDistinctivePhrases(F[i])))
  BY <1>2, PathsAssumption, ListsAssumption
<1>3. CASE F # <<>>
  <2>1. F \in Seq(ToSet(F))
    BY <1>2, <1>3 DEF Commits
  <2>2. Len(F) \in Nat /\ DOMAIN F = 1 .. Len(F)
    BY <2>1
  <2>3. /\ \A i, j \in DOMAIN F : Path(F[i]) = Path(F[j]) => i = j
        /\ \A i \in DOMAIN F :
             ExtractDistinctivePhrases(F[i]) \in Seq(ToSet(ExtractDistinctivePhrases(F[i])))
    BY <1>2, <1>3 DEF Commits
  <2>4. \A i \in DOMAIN F : F[i] \in ToSet(F)
    BY DEF ToSet
  <2>5. QED
    BY <2>1, <2>2, <2>3, <2>4
<1>4. QED
  BY <1>1, <1>3

LEMMA PathsAgree ==
  ASSUME NEW F \in Commits, NEW f \in ToSet(F), NEW G \in Commits, NEW g \in ToSet(G), Path(f) = Path(g)
  PROVE  (ClassifyContentFile(f) <=> ClassifyContentFile(g)) /\ (F = G => f = g)
<1>1. PICK i \in DOMAIN F : f = F[i]
  BY DEF ToSet
<1>2. PICK j \in DOMAIN G : g = G[j]
  BY DEF ToSet
<1>3. F # <<>> /\ G # <<>>
  BY <1>1, <1>2
<1>4. PICK v \in DOMAIN Repo[Reference] : F = ReferenceFiles(Repo[Reference][v])
  BY <1>3 DEF Commits
<1>5. PICK w \in DOMAIN Repo[Reference] : G = ReferenceFiles(Repo[Reference][w])
  BY <1>3 DEF Commits
<1>6. F = G => f = g
  BY <1>1, <1>2, CommitFacts
<1>7. QED
  BY <1>1, <1>2, <1>4, <1>5, <1>6, PathsAssumption

\* A file that is no content file has no phrases in the corpus.
LEMMA NoPhrases ==
  ASSUME CorpusSound, NEW F \in Commits, NEW f \in ToSet(F), ~ClassifyContentFile(f)
  PROVE  RightPhrases(f) /\ AllPhrases(f)
<1>1. PhrasesOf(f) = {}
  BY DEF PhrasesOf
<1>2. \A p \in corpus.phrases : p.path # Path(f)
  BY PathsAgree DEF CorpusSound
<1>3. QED
  BY <1>1, <1>2 DEF RightPhrases, AllPhrases

\* What another request for the same files may not undo.
Advances(F) ==
  /\ \A f \in ToSet(F) :
       /\ InPlace(f) => InPlace(f)'
       /\ RightPhrases(f) => RightPhrases(f)'
       /\ \A t \in PhrasesOf(f) : PhraseOf(f, t) \in corpus.phrases => PhraseOf(f, t) \in corpus'.phrases
       /\ KnownSecrets(f) => KnownSecrets(f)'
  /\ FilesPruned(F) => FilesPruned(F)'
  /\ PhrasesPruned(F) => PhrasesPruned(F)'

LEMMA AdvanceKeeps ==
  ASSUME NEW F \in Commits, Advances(F), NEW x, x.files = F, Progressed(x)
  PROVE  Progressed(x)'
<1>1. \A i \in DOMAIN F : F[i] \in ToSet(F)
  BY DEF ToSet
<1>2. ASSUME NEW i \in DOMAIN F
      PROVE  /\ InPlace(F[i]) => InPlace(F[i])'
             /\ RightPhrases(F[i]) /\ AllPhrases(F[i]) => RightPhrases(F[i])' /\ AllPhrases(F[i])'
             /\ KnownSecrets(F[i]) => KnownSecrets(F[i])'
             /\ \A t \in PhrasesOf(F[i]) : PhraseOf(F[i], t) \in corpus.phrases => PhraseOf(F[i], t) \in corpus'.phrases
  BY <1>1 DEF Advances, AllPhrases
<1>3. QED
  BY <1>2 DEF Progressed, Advances

\* A step of a request: its record becomes x.
LEMMA IngestKeeps ==
  ASSUME CorpusInv, CorpusSound', NEW c \in Callers, Working(c), NEW F, F = ingests[c].files,
         NEW x, ingests' = [ingests EXCEPT ![c] = x],
         IngestSound(x), x.files = F, x.undisturbed = ingests[c].undisturbed, Advances(F),
         x.stage # "none",
         Progressed(ingests[c]) => Progressed(x)'
  PROVE  CorpusInv'
<1>1. /\ DOMAIN ingests' = Callers /\ ingests'[c] = x
      /\ \A d \in Callers : d # c => ingests'[d] = ingests[d]
  BY DEF CorpusInv
<1>2. \A d \in Callers : IngestSound(ingests'[d])
  BY <1>1 DEF CorpusInv
<1>3. F \in Commits
  BY DEF CorpusInv, IngestSound
<1>4. ASSUME NEW d \in Callers, ingests'[d].undisturbed, ingests'[d].stage # "none"
      PROVE  (SameCommit(ingests[d].files) /\ Progressed(ingests[d]))'
  <2>1. SameCommit(ingests[d].files) /\ Progressed(ingests[d])
    BY <1>1, <1>4 DEF CorpusInv, Working
  <2>2. ingests'[d].files = F /\ ingests[d].files = F
    BY <1>1, <2>1 DEF SameCommit
  <2>3. \A e \in Callers : Working(e)' => ingests'[e].files = F
    BY <1>1, <2>1, <2>2 DEF SameCommit, Working
  <2>4. Progressed(ingests[d])'
    <3>1. CASE d = c
      BY <1>1, <2>1, <3>1 DEF Progressed
    <3>2. CASE d # c
      <4>1. PICK y : y = ingests[d]
        OBVIOUS
      <4>2. Progressed(y)'
        BY <1>3, <2>1, <2>2, <4>1, AdvanceKeeps
      <4>3. QED
        BY <1>1, <3>2, <4>1, <4>2 DEF Progressed
    <3>3. QED
      BY <3>1, <3>2
  <2>5. QED
    BY <2>2, <2>3, <2>4 DEF SameCommit
<1>5. QED
  BY <1>1, <1>2, <1>4 DEF CorpusInv, IngestSound

\* What the steps of a request share: y is its record.
LEMMA WorkingFacts ==
  ASSUME CorpusInv, NEW c \in Callers, Working(c), NEW y, y = ingests[c]
  PROVE  /\ IngestSound(y) /\ CorpusSound /\ y.stage # "none" /\ DOMAIN ingests = Callers
         /\ y.files \in Commits /\ y.files \in Seq(ToSet(y.files)) /\ Len(y.files) \in Nat
         /\ DOMAIN y.files = 1 .. Len(y.files) /\ y.at \in 1 .. (Len(y.files) + 1) /\ y.at \in Nat
         /\ \A f, g \in ToSet(y.files) : Path(f) = Path(g) => f = g
         /\ \A i \in DOMAIN y.files : y.files[i] \in ToSet(y.files)
<1>1. IngestSound(y) /\ CorpusSound /\ y.stage # "none" /\ DOMAIN ingests = Callers
  BY DEF CorpusInv, Working
<1>2. y.files \in Commits /\ y.at \in 1 .. (Len(y.files) + 1)
  BY <1>1 DEF IngestSound
<1>3. QED
  BY <1>1, <1>2, CommitFacts, PathsAgree

LEMMA UpsertFileKeeps ==
  ASSUME CorpusInv, NEW c \in Callers, UpsertFile(c)
  PROVE  CorpusInv'
<1> PICK y : y = ingests[c]
  OBVIOUS
<1>1. Working(c) /\ y.stage = "file" /\ y.at <= Len(y.files)
  BY DEF UpsertFile, AtFile, Working
<1>2. /\ IngestSound(y) /\ CorpusSound /\ y.files \in Commits /\ DOMAIN ingests = Callers
      /\ y.at \in DOMAIN y.files /\ y.at \in Nat /\ DOMAIN y.files = 1 .. Len(y.files) /\ Len(y.files) \in Nat
      /\ \A f, g \in ToSet(y.files) : Path(f) = Path(g) => f = g
      /\ \A i \in DOMAIN y.files : y.files[i] \in ToSet(y.files)
  BY <1>1, WorkingFacts
<1> PICK f0 : f0 = y.files[y.at]
  OBVIOUS
<1>3. f0 \in ToSet(y.files) /\ f0 = AtHand(c)
  BY <1>2 DEF AtHand
<1> PICK x : x = [y EXCEPT !.stage = IF ClassifyContentFile(f0) THEN "phrases" ELSE "secrets",
                           !.left = ExtractDistinctivePhrases(f0)]
  OBVIOUS
<1>4. ingests' = [ingests EXCEPT ![c] = x]
  BY <1>2, <1>3 DEF UpsertFile
<1>5. /\ DOMAIN x = {"stage", "files", "at", "left", "undisturbed"}
      /\ x.files = y.files /\ x.at = y.at /\ x.undisturbed = y.undisturbed
      /\ x.stage = (IF ClassifyContentFile(f0) THEN "phrases" ELSE "secrets")
      /\ x.left = ExtractDistinctivePhrases(f0)
  BY <1>2 DEF IngestSound
<1>6. ExtractDistinctivePhrases(f0) \in Seq(ToSet(ExtractDistinctivePhrases(f0)))
  BY <1>2, CommitFacts
<1>7. IngestSound(x)
  <2>1. ClassifyContentFile(f0) => x.left \in Seq(PhrasesOf(f0))
    BY <1>5, <1>6 DEF PhrasesOf
  <2>2. QED
    BY <1>1, <1>2, <1>5, <2>1 DEF IngestSound
<1>8. /\ DOMAIN corpus' = {"files", "phrases", "secrets"}
      /\ corpus'.phrases = corpus.phrases /\ corpus'.secrets = corpus.secrets
      /\ corpus'.files = {z \in corpus.files : z.path # Path(f0)} \cup {RowOf(f0)}
  BY <1>2, <1>3 DEF UpsertFile, CorpusSound, Upsert, RowOf
<1>9. CorpusSound'
  BY <1>2, <1>8 DEF CorpusSound
<1>10. InPlace(f0)'
  BY <1>8 DEF InPlace, RowOf
<1>11. Advances(y.files)
  <2>1. ASSUME NEW f \in ToSet(y.files), InPlace(f)
        PROVE  InPlace(f)'
    <3>1. CASE f = f0
      BY <1>10, <3>1
    <3>2. CASE f # f0
      <4>1. Path(f) # Path(f0)
        BY <1>2, <1>3, <3>2
      <4>2. QED
        BY <1>8, <2>1, <4>1 DEF InPlace, RowOf
    <3>3. QED
      BY <3>1, <3>2
  <2>2. FilesPruned(y.files) => FilesPruned(y.files)'
    BY <1>3, <1>8 DEF FilesPruned, RowOf
  <2>3. QED
    BY <1>8, <2>1, <2>2 DEF Advances, RightPhrases, KnownSecrets, PhrasesPruned
<1>12. Progressed(y) => Progressed(x)'
  <2> SUFFICES ASSUME Progressed(y)
               PROVE  Progressed(x)'
    OBVIOUS
  <2>1. Progressed(y)'
    BY <1>2, <1>11, AdvanceKeeps
  <2>2. ~ClassifyContentFile(f0) => RightPhrases(f0)' /\ AllPhrases(f0)'
    BY <1>2, <1>3, <1>8, NoPhrases DEF RightPhrases, AllPhrases
  <2>3. x.stage = "phrases" => \A t \in PhrasesOf(f0) : t \in ToSet(x.left)
    BY <1>5 DEF PhrasesOf
  <2>4. x.stage \in {"phrases", "secrets"} /\ (x.stage = "secrets" => ~ClassifyContentFile(f0))
    BY <1>5
  <2>5. QED
    BY <1>1, <1>2, <1>5, <1>10, <2>1, <2>2, <2>3, <2>4 DEF Progressed
<1>13. QED
  <2>1. x.stage # "none"
    BY <1>5
  <2>2. QED
    BY <1>1, <1>4, <1>5, <1>7, <1>9, <1>11, <1>12, <2>1, IngestKeeps

LEMMA UpsertPhraseKeeps ==
  ASSUME CorpusInv, NEW c \in Callers, UpsertPhrase(c)
  PROVE  CorpusInv'
<1> PICK y : y = ingests[c]
  OBVIOUS
<1>1. Working(c) /\ y.stage = "phrases" /\ y.left # <<>>
  BY DEF UpsertPhrase, Working
<1>2. /\ IngestSound(y) /\ CorpusSound /\ y.files \in Commits /\ DOMAIN ingests = Callers
      /\ y.at \in Nat /\ DOMAIN y.files = 1 .. Len(y.files) /\ Len(y.files) \in Nat
      /\ \A f, g \in ToSet(y.files) : Path(f) = Path(g) => f = g
      /\ \A i \in DOMAIN y.files : y.files[i] \in ToSet(y.files)
  BY <1>1, WorkingFacts
<1> PICK f0 : f0 = y.files[y.at]
  OBVIOUS
<1>3. f0 \in ToSet(y.files) /\ f0 = AtHand(c)
  BY <1>1, <1>2 DEF AtHand, IngestSound
<1> PICK x : x = [y EXCEPT !.left = Tail(@)]
  OBVIOUS
<1>4. ingests' = [ingests EXCEPT ![c] = x]
  BY <1>2 DEF UpsertPhrase
<1>5. /\ DOMAIN x = {"stage", "files", "at", "left", "undisturbed"}
      /\ x.files = y.files /\ x.at = y.at /\ x.undisturbed = y.undisturbed
      /\ x.stage = "phrases" /\ x.left = Tail(y.left)
  BY <1>1, <1>2 DEF IngestSound
<1>6. ClassifyContentFile(f0) /\ y.left \in Seq(PhrasesOf(f0))
  BY <1>1, <1>2 DEF IngestSound
<1>7. /\ Tail(y.left) \in Seq(PhrasesOf(f0)) /\ Head(y.left) \in PhrasesOf(f0)
      /\ \A t \in ToSet(y.left) : t = Head(y.left) \/ t \in ToSet(Tail(y.left))
  <2>1. Tail(y.left) \in Seq(PhrasesOf(f0)) /\ Head(y.left) \in PhrasesOf(f0)
    <3> PICK l, S : l = y.left /\ S = PhrasesOf(f0)
      OBVIOUS
    <3>1. l \in Seq(S) /\ l # <<>>
      BY <1>1, <1>6
    <3>2. Tail(l) \in Seq(S) /\ Head(l) \in S
      BY <3>1, HeadTailProperties
    <3>3. QED
      BY <3>2
  <2>2. ASSUME NEW k \in 1 .. Len(y.left)
        PROVE  y.left[k] = Head(y.left) \/ y.left[k] \in ToSet(Tail(y.left))
    <3>1. CASE k = 1
      BY <1>1, <1>6, <3>1
    <3>2. CASE k # 1
      <4>1. k - 1 \in 1 .. Len(Tail(y.left)) /\ Tail(y.left)[k - 1] = y.left[k]
        BY <1>1, <1>6, <3>2
      <4>2. DOMAIN Tail(y.left) = 1 .. Len(Tail(y.left))
        BY <2>1
      <4>3. QED
        BY <4>1, <4>2 DEF ToSet
    <3>3. QED
      BY <3>1, <3>2
  <2>3. DOMAIN y.left = 1 .. Len(y.left)
    BY <1>6
  <2>4. QED
    BY <2>1, <2>2, <2>3 DEF ToSet
<1>8. IngestSound(x)
  BY <1>1, <1>2, <1>5, <1>6, <1>7 DEF IngestSound
<1>9. /\ DOMAIN corpus' = {"files", "phrases", "secrets"}
      /\ corpus'.files = corpus.files /\ corpus'.secrets = corpus.secrets
      /\ corpus'.phrases = corpus.phrases \cup {PhraseOf(f0, Head(y.left))}
  BY <1>2, <1>3 DEF UpsertPhrase, CorpusSound, PhraseOf
<1>10. CorpusSound'
  BY <1>2, <1>3, <1>6, <1>9 DEF CorpusSound, PhraseOf
<1>11. Advances(y.files)
  <2>1. ASSUME NEW f \in ToSet(y.files), RightPhrases(f)
        PROVE  RightPhrases(f)'
    BY <1>2, <1>3, <1>7, <1>9, <2>1 DEF RightPhrases, PhraseOf
  <2>2. PhrasesPruned(y.files) => PhrasesPruned(y.files)'
    BY <1>3, <1>9 DEF PhrasesPruned, PhraseOf
  <2>3. QED
    BY <1>9, <2>1, <2>2 DEF Advances, InPlace, KnownSecrets, FilesPruned
<1>12. Progressed(y) => Progressed(x)'
  <2> SUFFICES ASSUME Progressed(y)
               PROVE  Progressed(x)'
    OBVIOUS
  <2>1. Progressed(y)'
    BY <1>2, <1>11, AdvanceKeeps
  <2>2. \A t \in PhrasesOf(f0) : PhraseOf(f0, t) \in corpus'.phrases \/ t \in ToSet(x.left)
    <3>1. y.at \in DOMAIN y.files
      BY <1>1, <1>2 DEF IngestSound
    <3>2. \A t \in PhrasesOf(f0) : PhraseOf(f0, t) \in corpus.phrases \/ t \in ToSet(y.left)
      BY <1>1, <1>2, <3>1 DEF Progressed
    <3>3. QED
      BY <1>5, <1>7, <1>9, <3>2
  <2>3. QED
    BY <1>1, <1>2, <1>5, <2>1, <2>2 DEF Progressed
<1>13. QED
  <2>1. x.stage # "none"
    BY <1>5
  <2>2. QED
    BY <1>1, <1>4, <1>5, <1>8, <1>10, <1>11, <1>12, <2>1, IngestKeeps

LEMMA DropStalePhrasesKeeps ==
  ASSUME CorpusInv, NEW c \in Callers, DropStalePhrases(c)
  PROVE  CorpusInv'
<1> PICK y : y = ingests[c]
  OBVIOUS
<1>1. Working(c) /\ y.stage = "phrases" /\ y.left = <<>>
  BY DEF DropStalePhrases, Working
<1>2. /\ IngestSound(y) /\ CorpusSound /\ y.files \in Commits /\ DOMAIN ingests = Callers
      /\ y.at \in Nat /\ DOMAIN y.files = 1 .. Len(y.files) /\ Len(y.files) \in Nat
      /\ \A f, g \in ToSet(y.files) : Path(f) = Path(g) => f = g
      /\ \A i \in DOMAIN y.files : y.files[i] \in ToSet(y.files)
  BY <1>1, WorkingFacts
<1> PICK f0 : f0 = y.files[y.at]
  OBVIOUS
<1>3. f0 \in ToSet(y.files) /\ f0 = AtHand(c)
  BY <1>1, <1>2 DEF AtHand, IngestSound
<1> PICK x : x = [y EXCEPT !.stage = "secrets"]
  OBVIOUS
<1>4. ingests' = [ingests EXCEPT ![c] = x]
  BY <1>2 DEF DropStalePhrases
<1>5. /\ DOMAIN x = {"stage", "files", "at", "left", "undisturbed"}
      /\ x.files = y.files /\ x.at = y.at /\ x.undisturbed = y.undisturbed
      /\ x.stage = "secrets"
  BY <1>1, <1>2 DEF IngestSound
<1>6. IngestSound(x)
  BY <1>1, <1>2, <1>5 DEF IngestSound
<1>7. /\ DOMAIN corpus' = {"files", "phrases", "secrets"}
      /\ corpus'.files = corpus.files /\ corpus'.secrets = corpus.secrets
      /\ corpus'.phrases = {p \in corpus.phrases : p.path = Path(f0) => p.text \in PhrasesOf(f0)}
  BY <1>2, <1>3 DEF DropStalePhrases, CorpusSound
<1>8. CorpusSound'
  BY <1>2, <1>7 DEF CorpusSound
<1>9. Advances(y.files)
  <2>1. ASSUME NEW f \in ToSet(y.files), NEW t \in PhrasesOf(f), PhraseOf(f, t) \in corpus.phrases
        PROVE  PhraseOf(f, t) \in corpus'.phrases
    <3>1. PhraseOf(f, t).path = Path(f) /\ PhraseOf(f, t).text = t
      BY DEF PhraseOf
    <3>2. QED
      BY <1>2, <1>3, <1>7, <2>1, <3>1
  <2>2. QED
    BY <1>7, <2>1 DEF Advances, InPlace, RightPhrases, KnownSecrets, FilesPruned, PhrasesPruned
<1>10. Progressed(y) => Progressed(x)'
  <2> SUFFICES ASSUME Progressed(y)
               PROVE  Progressed(x)'
    OBVIOUS
  <2>1. Progressed(y)'
    BY <1>2, <1>9, AdvanceKeeps
  <2>2. RightPhrases(f0)'
    BY <1>7 DEF RightPhrases
  <2>3. AllPhrases(f0)'
    <3>1. \A t \in PhrasesOf(f0) : PhraseOf(f0, t) \in corpus.phrases
      <4>1. ToSet(y.left) = {}
        BY <1>1 DEF ToSet
      <4>2. y.at \in DOMAIN y.files
        BY <1>1, <1>2 DEF IngestSound
      <4>3. QED
        BY <1>1, <1>2, <4>1, <4>2 DEF Progressed
    <3>2. QED
      BY <1>3, <1>9, <3>1 DEF AllPhrases, Advances
  <2>4. QED
    BY <1>1, <1>2, <1>5, <2>1, <2>2, <2>3 DEF Progressed
<1>11. QED
  <2>1. x.stage # "none"
    BY <1>5
  <2>2. QED
    BY <1>1, <1>4, <1>5, <1>6, <1>8, <1>9, <1>10, <2>1, IngestKeeps

LEMMA UpsertSecretsKeeps ==
  ASSUME CorpusInv, NEW c \in Callers, UpsertSecrets(c)
  PROVE  CorpusInv'
<1> PICK y : y = ingests[c]
  OBVIOUS
<1>1. Working(c) /\ y.stage = "secrets"
  BY DEF UpsertSecrets, Working
<1>2. /\ IngestSound(y) /\ CorpusSound /\ y.files \in Commits /\ DOMAIN ingests = Callers
      /\ y.at \in Nat /\ DOMAIN y.files = 1 .. Len(y.files) /\ Len(y.files) \in Nat
      /\ \A i \in DOMAIN y.files : y.files[i] \in ToSet(y.files)
  BY <1>1, WorkingFacts
<1>3. y.at \in DOMAIN y.files
  BY <1>1, <1>2 DEF IngestSound
<1> PICK f0 : f0 = y.files[y.at]
  OBVIOUS
<1> PICK x : x = [y EXCEPT !.stage = "file", !.at = @ + 1]
  OBVIOUS
<1>4. ingests' = [ingests EXCEPT ![c] = x]
  BY <1>2 DEF UpsertSecrets
<1>5. /\ DOMAIN x = {"stage", "files", "at", "left", "undisturbed"}
      /\ x.files = y.files /\ x.at = y.at + 1 /\ x.undisturbed = y.undisturbed
      /\ x.stage = "file"
  BY <1>1, <1>2 DEF IngestSound
<1>6. IngestSound(x)
  BY <1>1, <1>2, <1>3, <1>5 DEF IngestSound
<1>7. /\ DOMAIN corpus' = {"files", "phrases", "secrets"}
      /\ corpus'.files = corpus.files /\ corpus'.phrases = corpus.phrases
      /\ corpus'.secrets = corpus.secrets \cup ExtractSecretValueHashes(f0)
  BY <1>2 DEF UpsertSecrets, CorpusSound, AtHand
<1>8. CorpusSound'
  BY <1>2, <1>7 DEF CorpusSound
<1>9. Advances(y.files)
  BY <1>7 DEF Advances, InPlace, RightPhrases, KnownSecrets, FilesPruned, PhrasesPruned
<1>10. Progressed(y) => Progressed(x)'
  <2> SUFFICES ASSUME Progressed(y)
               PROVE  Progressed(x)'
    OBVIOUS
  <2>1. Progressed(y)'
    BY <1>2, <1>9, AdvanceKeeps
  <2>2. KnownSecrets(f0)'
    BY <1>7 DEF KnownSecrets
  <2>3. \A i \in DOMAIN y.files : i < x.at => i < y.at \/ i = y.at
    BY <1>2, <1>5
  <2>4. \A i \in DOMAIN y.files : i < x.at =>
          (InPlace(y.files[i]) /\ RightPhrases(y.files[i]) /\ AllPhrases(y.files[i]) /\ KnownSecrets(y.files[i]))'
    BY <1>1, <2>1, <2>2, <2>3 DEF Progressed
  <2>5. QED
    BY <1>5, <2>4 DEF Progressed
<1>11. QED
  <2>1. x.stage # "none"
    BY <1>5
  <2>2. QED
    BY <1>1, <1>4, <1>5, <1>6, <1>8, <1>9, <1>10, <2>1, IngestKeeps

LEMMA PastTheLast == ASSUME NEW n \in Nat, NEW k \in 1 .. (n + 1), ~(k <= n) PROVE k = n + 1
OBVIOUS

LEMMA PruneFilesKeeps ==
  ASSUME CorpusInv, NEW c \in Callers, PruneFiles(c)
  PROVE  CorpusInv'
<1> PICK y : y = ingests[c]
  OBVIOUS
<1>1. Working(c) /\ y.stage = "file" /\ ~(y.at <= Len(y.files))
  BY DEF PruneFiles, AtFile, Working
<1>2. /\ IngestSound(y) /\ CorpusSound /\ y.files \in Commits /\ DOMAIN ingests = Callers
      /\ y.at \in 1 .. (Len(y.files) + 1) /\ y.at \in Nat /\ Len(y.files) \in Nat
  BY <1>1, WorkingFacts
<1> PICK x : x = [y EXCEPT !.stage = "files pruned"]
  OBVIOUS
<1>4. ingests' = [ingests EXCEPT ![c] = x]
  BY <1>2 DEF PruneFiles
<1>5. /\ DOMAIN x = {"stage", "files", "at", "left", "undisturbed"}
      /\ x.files = y.files /\ x.at = y.at /\ x.undisturbed = y.undisturbed
      /\ x.stage = "files pruned"
  BY <1>1, <1>2 DEF IngestSound
<1>6. IngestSound(x)
  <2>1. y.at = Len(y.files) + 1
    BY <1>1, <1>2, PastTheLast
  <2>2. y.files \in Commits /\ x.at \in 1 .. (Len(x.files) + 1) /\ x.at = Len(x.files) + 1
    BY <1>2, <1>5, <2>1
  <2>3. QED
    BY <1>5, <2>2 DEF IngestSound
<1>7. /\ DOMAIN corpus' = {"files", "phrases", "secrets"}
      /\ corpus'.phrases = corpus.phrases /\ corpus'.secrets = corpus.secrets
      /\ corpus'.files = {z \in corpus.files : \E f \in ToSet(y.files) : z.path = Path(f)}
  BY <1>2 DEF PruneFiles, CorpusSound, CurrentFilePaths
<1>8. CorpusSound'
  BY <1>2, <1>7 DEF CorpusSound
<1>9. Advances(y.files)
  <2>1. ASSUME NEW f \in ToSet(y.files), InPlace(f)
        PROVE  InPlace(f)'
    <3>1. RowOf(f).path = Path(f)
      BY DEF RowOf
    <3>2. QED
      BY <1>7, <2>1, <3>1 DEF InPlace
  <2>2. QED
    BY <1>7, <2>1 DEF Advances, RightPhrases, KnownSecrets, FilesPruned, PhrasesPruned
<1>10. Progressed(y) => Progressed(x)'
  <2> SUFFICES ASSUME Progressed(y)
               PROVE  Progressed(x)'
    OBVIOUS
  <2>1. Progressed(y)'
    BY <1>2, <1>9, AdvanceKeeps
  <2>2. FilesPruned(y.files)'
    BY <1>7 DEF FilesPruned
  <2>3. QED
    BY <1>1, <1>5, <2>1, <2>2 DEF Progressed
<1>11. QED
  <2>1. x.stage # "none"
    BY <1>5
  <2>2. QED
    BY <1>1, <1>4, <1>5, <1>6, <1>8, <1>9, <1>10, <2>1, IngestKeeps

LEMMA PrunePhrasesKeeps ==
  ASSUME CorpusInv, NEW c \in Callers, PrunePhrases(c)
  PROVE  CorpusInv'
<1> PICK y : y = ingests[c]
  OBVIOUS
<1>1. Working(c) /\ y.stage = "files pruned"
  BY DEF PrunePhrases, Working
<1>2. /\ IngestSound(y) /\ CorpusSound /\ y.files \in Commits /\ DOMAIN ingests = Callers
      /\ y.at \in 1 .. (Len(y.files) + 1) /\ Len(y.files) \in Nat
  BY <1>1, WorkingFacts
<1> PICK x : x = [y EXCEPT !.stage = "done"]
  OBVIOUS
<1>4. ingests' = [ingests EXCEPT ![c] = x]
  BY <1>2 DEF PrunePhrases
<1>5. /\ DOMAIN x = {"stage", "files", "at", "left", "undisturbed"}
      /\ x.files = y.files /\ x.at = y.at /\ x.undisturbed = y.undisturbed
      /\ x.stage = "done"
  BY <1>1, <1>2 DEF IngestSound
<1>6. IngestSound(x)
  BY <1>1, <1>2, <1>5 DEF IngestSound
<1>7. /\ DOMAIN corpus' = {"files", "phrases", "secrets"}
      /\ corpus'.files = corpus.files /\ corpus'.secrets = corpus.secrets
      /\ corpus'.phrases = {z \in corpus.phrases : \E f \in ToSet(y.files) : z.path = Path(f)}
  BY <1>2 DEF PrunePhrases, CorpusSound, CurrentFilePaths
<1>8. CorpusSound'
  BY <1>2, <1>7 DEF CorpusSound
<1>9. Advances(y.files)
  <2>1. ASSUME NEW f \in ToSet(y.files), NEW t, PhraseOf(f, t) \in corpus.phrases
        PROVE  PhraseOf(f, t) \in corpus'.phrases
    <3>1. PhraseOf(f, t).path = Path(f)
      BY DEF PhraseOf
    <3>2. QED
      BY <1>7, <2>1, <3>1
  <2>2. QED
    BY <1>7, <2>1 DEF Advances, InPlace, RightPhrases, KnownSecrets, FilesPruned, PhrasesPruned
<1>10. Progressed(y) => Progressed(x)'
  <2> SUFFICES ASSUME Progressed(y)
               PROVE  Progressed(x)'
    OBVIOUS
  <2>1. Progressed(y)'
    BY <1>2, <1>9, AdvanceKeeps
  <2>2. PhrasesPruned(y.files)'
    BY <1>7 DEF PhrasesPruned
  <2>3. QED
    BY <1>1, <1>5, <2>1, <2>2 DEF Progressed
<1>11. QED
  <2>1. x.stage # "none"
    BY <1>5
  <2>2. QED
    BY <1>1, <1>4, <1>5, <1>6, <1>8, <1>9, <1>10, <2>1, IngestKeeps

-----------------------------------------------------------------------------
\* A request begins; if others are at another commit, none of them counts on its own
\* any more.
LEMMA BeginKeeps ==
  ASSUME CorpusInv, NEW c \in Callers, NEW F \in Commits, NEW limit, Begin(c, F, limit)
  PROVE  CorpusInv'
<1>1. corpus' = corpus /\ DOMAIN ingests' = Callers
  BY DEF Begin
<1> PICK x : x = ingests'[c]
  OBVIOUS
<1> DEFINE alone == \A e \in Callers \ {c} : Working(e) => ingests[e].files = F
<1>2. /\ DOMAIN x = {"stage", "files", "at", "left", "undisturbed"}
      /\ x.stage = "file" /\ x.files = F /\ x.at = 1 /\ x.left = <<>> /\ x.undisturbed = alone
  <2> HIDE DEF alone
  <2>1. x = [stage |-> "file", files |-> F, at |-> 1, left |-> <<>>, undisturbed |-> alone]
    BY DEF Begin, alone
  <2>2. QED
    BY <2>1
<1>3. ASSUME NEW d \in Callers, d # c
      PROVE  /\ ingests'[d] = [ingests[d] EXCEPT !.undisturbed = @ /\ ingests[d].files = F]
             /\ IngestSound(ingests[d])
             /\ DOMAIN ingests'[d] = {"stage", "files", "at", "left", "undisturbed"}
             /\ ingests'[d].files = ingests[d].files /\ ingests'[d].stage = ingests[d].stage
             /\ ingests'[d].at = ingests[d].at /\ ingests'[d].left = ingests[d].left
             /\ ingests'[d].undisturbed = (ingests[d].undisturbed /\ ingests[d].files = F)
  <2>1. ingests'[d] = [ingests[d] EXCEPT !.undisturbed = @ /\ ingests[d].files = F]
    BY <1>3 DEF Begin
  <2>2. IngestSound(ingests[d])
    BY DEF CorpusInv
  <2>3. QED
    BY <2>1, <2>2 DEF IngestSound
<1>4. IngestSound(x)
  <2>1. Len(F) \in Nat
    BY CommitFacts
  <2>2. F \in Commits /\ 1 \in 1 .. (Len(F) + 1)
    BY <2>1
  <2>3. QED
    BY <1>2, <2>2 DEF IngestSound
<1>5. \A d \in Callers : IngestSound(ingests'[d])
  <2>1. ASSUME NEW d \in Callers, d # c
        PROVE  IngestSound(ingests'[d])
    BY <1>3, <2>1 DEF IngestSound
  <2>2. QED
    BY <1>4, <2>1
<1>6. ASSUME NEW d \in Callers, ingests'[d].undisturbed, ingests'[d].stage # "none"
      PROVE  (SameCommit(ingests[d].files) /\ Progressed(ingests[d]))'
  <2> PICK y : y = ingests'[d]
    OBVIOUS
  <2> PICK z : z = ingests[d]
    OBVIOUS
  <2>1. CASE d = c
    <3>1. \A e \in Callers \ {c} : Working(e)' => ingests'[e].files = F
      <4>1. alone
        BY <1>2, <1>6, <2>1
      <4>2. ASSUME NEW e \in Callers \ {c}, Working(e)'
            PROVE  Working(e) /\ ingests'[e].files = ingests[e].files
        BY <1>3, <4>2 DEF Working
      <4>3. QED
        BY <4>1, <4>2
    <3>2. SameCommit(F)'
      BY <1>2, <3>1 DEF SameCommit
    <3>3. \A i \in DOMAIN F : ~(i < 1)
      BY CommitFacts
    <3>4. Progressed(x)'
      BY <1>2, <3>3 DEF Progressed
    <3>5. QED
      BY <1>2, <2>1, <3>2, <3>4 DEF SameCommit, Progressed
  <2>2. CASE d # c
    <3>1. z.undisturbed /\ z.stage # "none" /\ z.files = F /\ y.files = F
      BY <1>3, <1>6, <2>2
    <3>2. SameCommit(F) /\ Progressed(z)
      BY <3>1 DEF CorpusInv
    <3>3. SameCommit(F)'
      <4>1. ASSUME NEW e \in Callers, e # c, Working(e)'
            PROVE  Working(e) /\ ingests'[e].files = ingests[e].files
        BY <1>3, <4>1 DEF Working
      <4>2. QED
        BY <1>2, <3>2, <4>1 DEF SameCommit
    <3>4. Progressed(z)'
      <4>1. UNCHANGED corpus
        BY <1>1
      <4>2. QED
        BY <3>2, <4>1 DEF Progressed, InPlace, RightPhrases, AllPhrases, KnownSecrets,
                          FilesPruned, PhrasesPruned
    <3>5. Progressed(y)'
      <4>1. y.files = z.files /\ y.stage = z.stage /\ y.at = z.at /\ y.left = z.left
        BY <1>3, <2>2
      <4>2. QED
        BY <3>4, <4>1 DEF Progressed
    <3>6. QED
      BY <3>1, <3>3, <3>5 DEF SameCommit, Progressed
  <2>3. QED
    BY <2>1, <2>2
<1>7. CorpusSound'
  BY <1>1 DEF CorpusInv, CorpusSound
<1>8. QED
  BY <1>1, <1>5, <1>6, <1>7 DEF CorpusInv

LEMMA CrashIngestKeeps ==
  ASSUME CorpusInv, NEW c \in Callers, CrashIngest(c)
  PROVE  CorpusInv'
<1>1. /\ corpus' = corpus /\ DOMAIN ingests' = Callers /\ ingests'[c] = NoCall
      /\ \A d \in Callers \ {c} : ingests'[d] = ingests[d]
  BY DEF CrashIngest, CorpusInv
<1>2. CorpusSound'
  BY <1>1 DEF CorpusInv, CorpusSound
<1>3. IngestSound(NoCall)
  BY DEF IngestSound, NoCall, Commits
<1>4. \A d \in Callers : IngestSound(ingests'[d])
  BY <1>1, <1>3 DEF CorpusInv
<1>5. ~NoCall.undisturbed /\ NoCall.stage = "none"
  BY DEF NoCall
<1>6. ASSUME NEW d \in Callers, ingests'[d].undisturbed, ingests'[d].stage # "none"
      PROVE  (SameCommit(ingests[d].files) /\ Progressed(ingests[d]))'
  <2>1. d # c
    BY <1>1, <1>5, <1>6
  <2>2. SameCommit(ingests[d].files) /\ Progressed(ingests[d])
    BY <1>1, <1>6, <2>1 DEF CorpusInv
  <2>3. SameCommit(ingests[d].files)'
    BY <1>1, <1>5, <2>1, <2>2 DEF SameCommit, Working
  <2>4. Progressed(ingests[d])'
    BY <1>1, <2>1, <2>2 DEF Progressed, InPlace, RightPhrases, AllPhrases, KnownSecrets,
                            FilesPruned, PhrasesPruned
  <2>5. QED
    BY <2>3, <2>4
<1>7. QED
  BY <1>1, <1>2, <1>4, <1>6 DEF CorpusInv

LEMMA CorpusUntouched ==
  ASSUME CorpusInv, UNCHANGED corpusVars
  PROVE  CorpusInv'
<1>1. corpus' = corpus /\ ingests' = ingests
  BY DEF corpusVars
<1>2. CorpusSound'
  BY <1>1 DEF CorpusInv, CorpusSound
<1>3. ASSUME NEW c \in Callers, ingests[c].undisturbed, ingests[c].stage # "none"
      PROVE  (SameCommit(ingests[c].files) /\ Progressed(ingests[c]))'
  <2>1. SameCommit(ingests[c].files) /\ Progressed(ingests[c])
    BY <1>3 DEF CorpusInv
  <2>2. SameCommit(ingests[c].files)'
    BY <1>1, <2>1 DEF SameCommit, Working
  <2>3. Progressed(ingests[c])'
    BY <1>1, <2>1 DEF Progressed, InPlace, RightPhrases, AllPhrases, KnownSecrets,
                      FilesPruned, PhrasesPruned
  <2>4. QED
    BY <2>2, <2>3
<1>4. QED
  BY <1>1, <1>2, <1>3 DEF CorpusInv

LEMMA CorpusInvInit ==
  ASSUME Init
  PROVE  CorpusInv
<1>1. CorpusInit(IF plan.ingests = 0 THEN CorpusOf(Repo[Reference][1]) ELSE EmptyCorpus)
  BY DEF Init, PipelineInit
<1>2. corpus = CorpusOf(Repo[Reference][1]) \/ corpus = EmptyCorpus
  BY <1>1 DEF CorpusInit
<1>3. ingests = [c \in Callers |-> NoCall]
  BY <1>1 DEF CorpusInit
<1>4. CorpusSound
  <2>1. CASE corpus = EmptyCorpus
    BY <2>1 DEF CorpusSound, EmptyCorpus
  <2>2. CASE corpus = CorpusOf(Repo[Reference][1])
    <3> PICK F : F = ReferenceFiles(Repo[Reference][1])
      OBVIOUS
    <3>1. F \in Commits
      BY ListsAssumption DEF Commits
    <3>2. corpus = CorpusOfFiles(F)
      BY <2>2 DEF CorpusOf
    <3>3. /\ DOMAIN corpus = {"files", "phrases", "secrets"}
          /\ corpus.phrases = UNION {{[path |-> Path(f), text |-> t] : t \in PhrasesOf(f)} : f \in ToSet(F)}
      BY <3>2 DEF CorpusOfFiles
    <3>4. ASSUME NEW p \in corpus.phrases
          PROVE  /\ p = [path |-> p.path, text |-> p.text]
                 /\ \E f \in ToSet(F) : ClassifyContentFile(f) /\ p.path = Path(f)
      <4>1. PICK f \in ToSet(F) : \E t \in PhrasesOf(f) : p = [path |-> Path(f), text |-> t]
        BY <3>3
      <4>2. ClassifyContentFile(f)
        BY <4>1 DEF PhrasesOf
      <4>3. QED
        BY <4>1, <4>2
    <3>5. QED
      BY <3>1, <3>3, <3>4 DEF CorpusSound
  <2>3. QED
    BY <1>2, <2>1, <2>2
<1>5. IngestSound(NoCall)
  BY DEF IngestSound, NoCall, Commits
<1>6. ~NoCall.undisturbed
  BY DEF NoCall
<1>7. QED
  BY <1>3, <1>4, <1>5, <1>6 DEF CorpusInv

LEMMA CorpusInvNext ==
  ASSUME CorpusInv, [Next]_vars
  PROVE  CorpusInv'
<1>1. CASE UNCHANGED corpusVars
  BY <1>1, CorpusUntouched
<1>2. CASE IngestNext
  <2>1. PICK c \in Callers :
          \/ \E v \in DOMAIN Repo[Reference] : IngestReferenceRepo(c, Repo[Reference][v], plan.ingests)
          \/ RemoveReferenceRepo(c, plan.ingests) \/ IngestStep(c) \/ CrashIngest(c)
    BY <1>2 DEF IngestNext
  <2>2. ASSUME NEW v \in DOMAIN Repo[Reference], IngestReferenceRepo(c, Repo[Reference][v], plan.ingests)
        PROVE  CorpusInv'
    BY <2>2, BeginKeeps DEF IngestReferenceRepo, Commits
  <2>3. CASE RemoveReferenceRepo(c, plan.ingests)
    BY <2>3, BeginKeeps DEF RemoveReferenceRepo, Commits
  <2>4. CASE IngestStep(c)
    BY <2>4, UpsertFileKeeps, UpsertPhraseKeeps, DropStalePhrasesKeeps, UpsertSecretsKeeps,
       PruneFilesKeeps, PrunePhrasesKeeps DEF IngestStep
  <2>5. CASE CrashIngest(c)
    BY <2>5, CrashIngestKeeps
  <2>6. QED
    BY <2>1, <2>2, <2>3, <2>4, <2>5
<1>3. CASE UNCHANGED vars
  BY <1>3, <1>1 DEF vars, corpusVars
<1>4. QED
  BY <1>1, <1>2, <1>3 DEF Next, PipelineNext

LEMMA CorpusInvIsEnough ==
  ASSUME CorpusInv
  PROVE  CorpusIsTheCommit
<1> SUFFICES ASSUME NEW c \in Callers, ingests[c].stage = "done", ingests[c].undisturbed
             PROVE  LET commit == CorpusOfFiles(ingests[c].files)
                    IN /\ corpus.files = commit.files /\ corpus.phrases = commit.phrases
                       /\ commit.secrets \subseteq corpus.secrets
  BY DEF CorpusIsTheCommit
<1> PICK y : y = ingests[c]
  OBVIOUS
<1>1. IngestSound(y) /\ Progressed(y) /\ CorpusSound
  BY DEF CorpusInv
<1>2. y.files \in Commits /\ y.at = Len(y.files) + 1
  BY <1>1 DEF IngestSound
<1>3. \A i \in DOMAIN y.files : i < y.at
  BY <1>2, CommitFacts
<1>4. \A f \in ToSet(y.files) : InPlace(f) /\ RightPhrases(f) /\ AllPhrases(f) /\ KnownSecrets(f)
  BY <1>1, <1>3 DEF Progressed, ToSet
<1>5. FilesPruned(y.files) /\ PhrasesPruned(y.files)
  BY <1>1 DEF Progressed
<1>6. corpus.files = {RowOf(f) : f \in ToSet(y.files)}
  BY <1>4, <1>5 DEF InPlace, FilesPruned
<1>7. corpus.phrases = UNION {{PhraseOf(f, t) : t \in PhrasesOf(f)} : f \in ToSet(y.files)}
  <2>1. \A f \in ToSet(y.files) : \A t \in PhrasesOf(f) : PhraseOf(f, t) \in corpus.phrases
    BY <1>4 DEF AllPhrases
  <2>2. ASSUME NEW p \in corpus.phrases
        PROVE  \E f \in ToSet(y.files) : \E t \in PhrasesOf(f) : p = PhraseOf(f, t)
    <3>1. PICK f \in ToSet(y.files) : p.path = Path(f)
      BY <1>5 DEF PhrasesPruned
    <3>2. p.text \in PhrasesOf(f)
      BY <1>4, <3>1 DEF RightPhrases
    <3>3. p = PhraseOf(f, p.text)
      BY <1>1, <3>1 DEF CorpusSound, PhraseOf
    <3>4. QED
      BY <3>2, <3>3
  <2>3. QED
    BY <2>1, <2>2
<1>8. UNION {ExtractSecretValueHashes(f) : f \in ToSet(y.files)} \subseteq corpus.secrets
  BY <1>4 DEF KnownSecrets
<1>9. QED
  BY <1>6, <1>7, <1>8 DEF CorpusOfFiles, RowOf, PhraseOf

\* An ingest that is through, and was not crossed by one of another commit or by a
\* removal, leaves exactly the commit's files and phrases (ingestReferenceRepo), for
\* any commits, any number of callers and any broken-off ingests.
THEOREM CorpusIsReplaced == Spec => []CorpusIsTheCommit
<1>1. Init => CorpusInv
  BY CorpusInvInit
<1>2. CorpusInv /\ [Next]_vars => CorpusInv'
  BY CorpusInvNext
<1>3. CorpusInv => CorpusIsTheCommit
  BY CorpusInvIsEnough
<1>4. QED
  BY <1>1, <1>2, <1>3, PTL DEF Spec

-----------------------------------------------------------------------------
(* The brand that a repository is attributed to.                            *)

Kinds == {"trusted_owner", "exact", "fuzzy", "none"}
Rank(e) == 4 * LocationTier(e) + MATCH_STRENGTH[e.type]

LEMMA EvidenceKinds ==
  ASSUME NEW brand, NEW ctx
  PROVE  /\ Evidence(brand, ctx).type \in Kinds
         /\ Evidence(brand, ctx).location \in STRONG_LOCATIONS => Evidence(brand, ctx) # Nothing
<1>1. Nothing.type = "none" /\ Nothing.location \notin STRONG_LOCATIONS
  BY DEF Nothing, STRONG_LOCATIONS
<1>2. \A hits, type : First(brand.names, ctx, hits, type).type \in {type, "none"}
  BY <1>1 DEF First
<1>3. QED
  BY <1>1, <1>2 DEF Evidence, FindBrandMatch, Kinds

LEMMA RankOrders ==
  ASSUME NEW a, NEW b, a.type \in Kinds, b.type \in Kinds
  PROVE  Rank(a) \in 0 .. 7 /\ (IsStrongerMatch(a, b) <=> Rank(a) > Rank(b))
<1>1. MATCH_STRENGTH[a.type] \in 0 .. 3 /\ MATCH_STRENGTH[b.type] \in 0 .. 3
  BY DEF Kinds, MATCH_STRENGTH
<1>2. LocationTier(a) \in {0, 1} /\ LocationTier(b) \in {0, 1}
  BY DEF LocationTier
<1>3. QED
  BY <1>1, <1>2 DEF Rank, IsStrongerMatch

\* The positions among s of brands that there is evidence for, and the first of the
\* strongest.
Evident(brands, ctx, s) == {i \in s : Evidence(brands[i], ctx) # Nothing}
RankOf(brands, ctx, i) == Rank(Evidence(brands[i], ctx))
Leads(brands, ctx, s, i) ==
  /\ i \in Evident(brands, ctx, s)
  /\ \A j \in Evident(brands, ctx, s) :
       /\ RankOf(brands, ctx, j) <= RankOf(brands, ctx, i)
       /\ RankOf(brands, ctx, j) = RankOf(brands, ctx, i) => i <= j
Best(brands, ctx, s) ==
  IF Evident(brands, ctx, s) = {} THEN 0 ELSE CHOOSE i \in s : Leads(brands, ctx, s, i)

LEMMA RankOfIs ==
  ASSUME NEW brands, NEW ctx, NEW i, NEW j
  PROVE  /\ RankOf(brands, ctx, i) \in 0 .. 7 /\ RankOf(brands, ctx, j) \in 0 .. 7
         /\ IsStrongerMatch(Evidence(brands[i], ctx), Evidence(brands[j], ctx))
              <=> RankOf(brands, ctx, i) > RankOf(brands, ctx, j)
BY EvidenceKinds, RankOrders DEF RankOf

LEMMA OneLeads ==
  ASSUME NEW brands, NEW ctx, NEW n \in Nat, NEW s \in SUBSET (1 .. n), Evident(brands, ctx, s) # {}
  PROVE  Leads(brands, ctx, s, Best(brands, ctx, s))
<1> DEFINE T == Evident(brands, ctx, s)
           R(i) == RankOf(brands, ctx, i)
<1>1. T \subseteq 1 .. n /\ T # {} /\ T \subseteq s
  BY DEF Evident
<1>2. \A i : R(i) \in 0 .. 7
  BY RankOfIs
<1> HIDE DEF R, T
<1>3. PICK i \in T : \A j \in T : R(j) <= R(i)
  <2> DEFINE ranks == {R(i) + 1 : i \in T}
  <2>1. ranks \in SUBSET (1 .. 8) /\ ranks # {}
    <3>1. ASSUME NEW i \in T PROVE R(i) + 1 \in 1 .. 8
      <4>1. R(i) \in 0 .. 7
        BY <1>2
      <4>2. QED
        BY <4>1
    <3>2. QED
      BY <1>1, <3>1
  <2> HIDE DEF ranks
  <2>2. Max(ranks) \in ranks /\ \A j \in ranks : j <= Max(ranks)
    BY <2>1, LatestIs
  <2> USE DEF ranks
  <2>3. PICK i \in T : Max(ranks) = R(i) + 1
    BY <2>2
  <2>4. \A j \in T : R(j) + 1 <= R(i) + 1
    BY <2>2, <2>3
  <2>5. QED
    BY <1>2, <2>4
<1>4. PICK k \in T : R(k) = R(i) /\ \A j \in T : R(j) = R(i) => k <= j
  <2> DEFINE back == {n + 1 - j : j \in {j \in T : R(j) = R(i)}}
  <2>1. back \in SUBSET (1 .. n) /\ back # {}
    <3>1. ASSUME NEW j \in T PROVE n + 1 - j \in 1 .. n
      <4>1. j \in 1 .. n
        BY <1>1
      <4>2. QED
        BY <4>1
    <3>2. QED
      BY <1>3, <3>1
  <2> HIDE DEF back
  <2>2. Max(back) \in back /\ \A j \in back : j <= Max(back)
    BY <2>1, LatestIs
  <2> USE DEF back
  <2>3. PICK k \in T : R(k) = R(i) /\ Max(back) = n + 1 - k
    BY <2>2
  <2>4. \A j \in T : R(j) = R(i) => n + 1 - j <= n + 1 - k
    BY <2>2, <2>3
  <2>5. \A j \in T : R(j) = R(i) => k <= j
    BY <1>1, <2>3, <2>4
  <2>6. QED
    BY <2>3, <2>5
<1>5. Leads(brands, ctx, s, k)
  BY <1>3, <1>4 DEF Leads, R, T
<1>6. k \in s
  BY <1>1
<1>7. QED
  BY <1>5, <1>6 DEF Best

LEMMA LeaderIsOne ==
  ASSUME NEW brands, NEW ctx, NEW n \in Nat, NEW s \in SUBSET (1 .. n), NEW i,
         Leads(brands, ctx, s, i)
  PROVE  i = Best(brands, ctx, s)
<1>1. Evident(brands, ctx, s) # {} /\ Evident(brands, ctx, s) \subseteq 1 .. n
  BY DEF Leads, Evident
<1>2. PICK b : b = Best(brands, ctx, s) /\ Leads(brands, ctx, s, b)
  BY <1>1, OneLeads
<1>3. i \in 1 .. n /\ b \in 1 .. n
  BY <1>1, <1>2 DEF Leads
<1>4. RankOf(brands, ctx, i) = RankOf(brands, ctx, b)
  <2>1. RankOf(brands, ctx, i) <= RankOf(brands, ctx, b) /\ RankOf(brands, ctx, b) <= RankOf(brands, ctx, i)
    BY <1>2 DEF Leads
  <2>2. QED
    BY <2>1, RankOfIs
<1>5. i <= b /\ b <= i
  BY <1>2, <1>4 DEF Leads
<1>6. QED
  BY <1>2, <1>3, <1>5

\* One position further.
Better(brands, ctx, best, i) ==
  IF /\ Evidence(brands[i], ctx) # Nothing
     /\ best = 0 \/ IsStrongerMatch(Evidence(brands[i], ctx), Evidence(brands[best], ctx))
  THEN i ELSE best

LEMMA BestOfMore ==
  ASSUME NEW brands, NEW ctx, NEW n \in Nat, NEW s \in SUBSET (1 .. n), s # {}
  PROVE  /\ Max(s) \in s
         /\ Best(brands, ctx, s) = Better(brands, ctx, Best(brands, ctx, s \ {Max(s)}), Max(s))
<1> PICK m : m = Max(s)
  OBVIOUS
<1> PICK t : t = s \ {m}
  OBVIOUS
<1>1. m \in s /\ \A j \in s : j <= m
  BY LatestIs
<1>2. s \subseteq Int /\ t \in SUBSET (1 .. n) /\ m \in Nat \ {0}
  <2>1. m \in 1 .. n
    BY <1>1
  <2>2. s \subseteq Int
    OBVIOUS
  <2>3. t \in SUBSET (1 .. n)
    OBVIOUS
  <2>4. m \in Nat \ {0}
    BY <2>1
  <2>5. QED
    BY <2>2, <2>3, <2>4
<1>3. Evident(brands, ctx, s) = Evident(brands, ctx, t) \cup Evident(brands, ctx, {m})
  BY <1>1 DEF Evident
<1>4. Evident(brands, ctx, {m}) = IF Evidence(brands[m], ctx) # Nothing THEN {m} ELSE {}
  BY DEF Evident
<1> PICK b : b = Best(brands, ctx, t)
  OBVIOUS
<1>5. CASE Evidence(brands[m], ctx) = Nothing
  <2>1. Evident(brands, ctx, s) = Evident(brands, ctx, t)
    BY <1>3, <1>4, <1>5
  <2>2. CASE Evident(brands, ctx, t) = {}
    BY <1>1, <1>5, <2>1, <2>2 DEF Best, Better
  <2>3. CASE Evident(brands, ctx, t) # {}
    <3>1. Leads(brands, ctx, t, b)
      BY <1>2, <2>3, OneLeads
    <3>2. Leads(brands, ctx, s, b)
      BY <2>1, <3>1 DEF Leads
    <3>3. b = Best(brands, ctx, s)
      BY <3>2, LeaderIsOne
    <3>4. QED
      BY <1>1, <1>5, <3>3 DEF Better
  <2>4. QED
    BY <2>2, <2>3
<1>6. CASE Evidence(brands[m], ctx) # Nothing /\ Evident(brands, ctx, t) = {}
  <2>1. Evident(brands, ctx, s) = {m}
    BY <1>3, <1>4, <1>6
  <2>2. RankOf(brands, ctx, m) <= RankOf(brands, ctx, m) /\ m <= m
    BY <1>2, RankOfIs
  <2>3. Leads(brands, ctx, s, m)
    BY <2>1, <2>2 DEF Leads
  <2>4. m = Best(brands, ctx, s)
    BY <2>3, LeaderIsOne
  <2>5. b = 0
    BY <1>6 DEF Best
  <2>6. QED
    BY <1>1, <1>6, <2>4, <2>5 DEF Better
<1>7. CASE Evidence(brands[m], ctx) # Nothing /\ Evident(brands, ctx, t) # {}
  <2>1. Evident(brands, ctx, s) = Evident(brands, ctx, t) \cup {m}
    BY <1>3, <1>4, <1>7
  <2>2. Leads(brands, ctx, t, b)
    BY <1>2, <1>7, OneLeads
  <2>3. b \in t /\ b \in 1 .. n /\ b # 0 /\ b <= m /\ Evident(brands, ctx, t) \subseteq t
    BY <1>1, <1>2, <2>2 DEF Leads, Evident
  <2>4. \A j : RankOf(brands, ctx, j) \in 0 .. 7
    BY RankOfIs
  <2>5. CASE RankOf(brands, ctx, m) > RankOf(brands, ctx, b)
    <3>1. ASSUME NEW j \in Evident(brands, ctx, t)
          PROVE  RankOf(brands, ctx, j) < RankOf(brands, ctx, m)
      <4>1. RankOf(brands, ctx, j) <= RankOf(brands, ctx, b)
        BY <2>2 DEF Leads
      <4>2. QED
        BY <2>4, <2>5, <4>1
    <3>2. ASSUME NEW j \in Evident(brands, ctx, s)
          PROVE  /\ RankOf(brands, ctx, j) <= RankOf(brands, ctx, m)
                 /\ RankOf(brands, ctx, j) = RankOf(brands, ctx, m) => m <= j
      <4>1. CASE j = m
        BY <1>2, <2>4, <4>1
      <4>2. CASE j # m
        <5>1. RankOf(brands, ctx, j) < RankOf(brands, ctx, m)
          BY <2>1, <3>1, <4>2
        <5>2. RankOf(brands, ctx, j) \in 0 .. 7 /\ RankOf(brands, ctx, m) \in 0 .. 7
          BY <2>4
        <5>3. QED
          BY <5>1, <5>2
      <4>3. QED
        BY <4>1, <4>2
    <3>3. Leads(brands, ctx, s, m)
      BY <2>1, <3>2 DEF Leads
    <3>4. m = Best(brands, ctx, s)
      BY <3>3, LeaderIsOne
    <3>5. IsStrongerMatch(Evidence(brands[m], ctx), Evidence(brands[b], ctx))
      BY <2>5, RankOfIs
    <3>6. QED
      BY <1>1, <1>7, <3>4, <3>5 DEF Better
  <2>6. CASE ~(RankOf(brands, ctx, m) > RankOf(brands, ctx, b))
    <3>1. RankOf(brands, ctx, m) <= RankOf(brands, ctx, b)
      <4>1. RankOf(brands, ctx, b) \in 0 .. 7 /\ RankOf(brands, ctx, m) \in 0 .. 7
        BY <2>4
      <4>2. QED
        BY <2>6, <4>1
    <3>2. Leads(brands, ctx, s, b)
      BY <2>1, <2>2, <2>3, <3>1 DEF Leads
    <3>3. b = Best(brands, ctx, s)
      BY <3>2, LeaderIsOne
    <3>4. ~IsStrongerMatch(Evidence(brands[m], ctx), Evidence(brands[b], ctx))
      BY <2>6, RankOfIs
    <3>5. QED
      BY <1>1, <2>3, <3>3, <3>4 DEF Better
  <2>7. QED
    BY <2>5, <2>6
<1>8. QED
  BY <1>5, <1>6, <1>7

\* The fold over the brands: one function has a value for every set of positions.
Walks(brands, ctx, g) ==
  g = [s \in SUBSET DOMAIN brands |->
         IF s = {} THEN 0
         ELSE Better(brands, ctx, g[s \ {Max(s)}], [i \in DOMAIN brands |-> i][Max(s)])]

LEMMA FoldIs ==
  ASSUME NEW brands, NEW ctx
  PROVE  FindBestBrandMatch(brands, ctx) = (CHOOSE g : Walks(brands, ctx, g))[DOMAIN brands]
<1>1. DOMAIN [i \in DOMAIN brands |-> i] = DOMAIN brands
  OBVIOUS
<1>2. QED
  BY <1>1, Zenon DEF FindBestBrandMatch, FoldLeft, MapThenFoldSet, Walks, Better

LEMMA BestIsFound ==
  ASSUME NEW brands, brands \in Seq(ToSet(brands)), NEW ctx
  PROVE  FindBestBrandMatch(brands, ctx) = Best(brands, ctx, DOMAIN brands)
<1> PICK n : n = Len(brands)
  OBVIOUS
<1>1. n \in Nat /\ DOMAIN brands = 1 .. n
  OBVIOUS
<1>2. ASSUME NEW s \in SUBSET (1 .. n), s # {}
      PROVE  /\ Max(s) \in s /\ [i \in DOMAIN brands |-> i][Max(s)] = Max(s)
             /\ s \ {Max(s)} \in SUBSET (1 .. n)
             /\ Best(brands, ctx, s) = Better(brands, ctx, Best(brands, ctx, s \ {Max(s)}), Max(s))
  BY <1>1, <1>2, BestOfMore
<1>3. Best(brands, ctx, {}) = 0
  BY DEF Best, Evident
<1>4. Walks(brands, ctx, [s \in SUBSET DOMAIN brands |-> Best(brands, ctx, s)])
  <2> DEFINE h == [s \in SUBSET DOMAIN brands |-> Best(brands, ctx, s)]
  <2>1. ASSUME NEW s \in SUBSET DOMAIN brands
        PROVE  h[s] = IF s = {} THEN 0
                      ELSE Better(brands, ctx, h[s \ {Max(s)}], [i \in DOMAIN brands |-> i][Max(s)])
    <3>1. CASE s = {}
      BY <1>3, <3>1
    <3>2. CASE s # {}
      BY <1>1, <1>2, <3>2
    <3>3. QED
      BY <3>1, <3>2
  <2>2. QED
    BY <2>1 DEF Walks
<1>5. PICK g : g = (CHOOSE h : Walks(brands, ctx, h)) /\ Walks(brands, ctx, g)
  BY <1>4
<1>6. \A s \in SUBSET (1 .. n) :
        g[s] = IF s = {} THEN 0
               ELSE Better(brands, ctx, g[s \ {Max(s)}], [i \in DOMAIN brands |-> i][Max(s)])
  BY <1>1, <1>5 DEF Walks
<1> DEFINE wrong == {s \in SUBSET (1 .. n) : g[s] # Best(brands, ctx, s)}
<1>7. wrong = {}
  <2> SUFFICES ASSUME wrong # {} PROVE FALSE
    OBVIOUS
  <2>1. IsFiniteSet(1 .. n)
    BY <1>1, FS_Interval
  <2>2. wrong \subseteq FiniteSubsetsOf(1 .. n)
    BY <2>1, FS_Subset DEF FiniteSubsetsOf
  <2>3. IsWellFoundedOn(StrictSubsetOrdering(1 .. n), FiniteSubsetsOf(1 .. n))
    BY FS_StrictSubsetOrderingWellFounded
  <2> HIDE DEF wrong
  <2>4. PICK s \in wrong : \A other \in wrong : ~ <<other, s>> \in StrictSubsetOrdering(1 .. n)
    BY <2>2, <2>3, WFMin
  <2> USE DEF wrong
  <2>5. s # {}
    BY <1>3, <1>6
  <2>6. s \ {Max(s)} \in wrong
    <3> PICK m : m = Max(s)
      OBVIOUS
    <3>1. m \in s /\ [i \in DOMAIN brands |-> i][m] = m /\ s \ {m} \in SUBSET (1 .. n)
      BY <1>2, <2>5
    <3>2. Best(brands, ctx, s) = Better(brands, ctx, Best(brands, ctx, s \ {m}), m)
      BY <1>2, <2>5
    <3>3. g[s] = Better(brands, ctx, g[s \ {m}], m)
      BY <1>6, <2>5, <3>1
    <3>4. QED
      BY <3>1, <3>2, <3>3
  <2>7. <<s \ {Max(s)}, s>> \in StrictSubsetOrdering(1 .. n)
    BY <1>2, <2>5 DEF StrictSubsetOrdering
  <2>8. QED
    BY <2>4, <2>6, <2>7
<1>8. QED
  BY <1>1, <1>5, <1>7, FoldIs

-----------------------------------------------------------------------------
(* The attribution of a repository: the inductive invariant.                 *)

ContextFields == {"owner", "name", "description", "topics", "stars", "forks", "fork", "age",
                  "profile", "paths", "kinds", "haystacks", "brandHits", "keywordHits",
                  "candidates", "commitMessages", "commitAuthors"}

\* Between the fetch and the history the brand is the best for what was fetched.
AttributionInv ==
  /\ DOMAIN jobs = DOMAIN Repo
  /\ \A r \in DOMAIN Repo :
       /\ "stage" \in DOMAIN jobs[r]
       /\ Fetched(r) => jobs[r].brand = FindBestBrandMatch(ScannedBrands, jobs[r].ctx)

LEMMA ScannedAreListed == ScannedBrands \in Seq(ToSet(ScannedBrands))
<1>1. <<Brands[1]>> \in Seq(ToSet(<<Brands[1]>>))
  BY DEF ToSet
<1>2. QED
  BY <1>1, ListsAssumption DEF ScannedBrands

\* Who is behind the repository is no evidence of a brand.
LEMMA ProfileIsNoEvidence ==
  ASSUME NEW ctx, ContextFields \subseteq DOMAIN ctx, NEW profile, NEW other,
         other = [ctx EXCEPT !.profile = profile]
  PROVE  FindBestBrandMatch(ScannedBrands, other) = FindBestBrandMatch(ScannedBrands, ctx)
<1>1. /\ other.owner = ctx.owner /\ other.name = ctx.name /\ other.description = ctx.description
      /\ other.topics = ctx.topics /\ other.paths = ctx.paths /\ other.haystacks = ctx.haystacks
      /\ other.brandHits = ctx.brandHits /\ other.commitMessages = ctx.commitMessages
      /\ other.commitAuthors = ctx.commitAuthors
  BY DEF ContextFields
<1>2. ASSUME NEW location PROVE OrderedSources(other, location) = OrderedSources(ctx, location)
  BY <1>1 DEF OrderedSources, LinesOf
<1>3. ASSUME NEW aliases, NEW hits, NEW type
      PROVE  First(aliases, other, hits, type) = First(aliases, ctx, hits, type)
  <2>1. \A location : FoundIn(aliases, other, hits, location, type)
                        <=> FoundIn(aliases, ctx, hits, location, type)
    BY <1>2 DEF FoundIn
  <2>2. {i \in DOMAIN Locations : FoundIn(aliases, other, hits, Locations[i], type)}
          = {i \in DOMAIN Locations : FoundIn(aliases, ctx, hits, Locations[i], type)}
    BY <2>1
  <2>3. QED
    BY <2>2 DEF First
<1>4. \A brand : Evidence(brand, other) = Evidence(brand, ctx)
  BY <1>1, <1>3 DEF Evidence, FindBrandMatch
<1> PICK S, n : S = ScannedBrands /\ n = Len(S)
  OBVIOUS
<1>5. S \in Seq(ToSet(S)) /\ n \in Nat /\ DOMAIN S = 1 .. n
  BY ScannedAreListed
<1>6. /\ Evident(S, other, DOMAIN S) = Evident(S, ctx, DOMAIN S)
      /\ \A i : RankOf(S, other, i) = RankOf(S, ctx, i)
  BY <1>4 DEF Evident, RankOf
<1>7. CASE Evident(S, ctx, DOMAIN S) = {}
  <2>1. Best(S, other, DOMAIN S) = Best(S, ctx, DOMAIN S)
    BY <1>6, <1>7 DEF Best
  <2>2. QED
    BY <1>5, <2>1, BestIsFound
<1>8. CASE Evident(S, ctx, DOMAIN S) # {}
  <2>1. Leads(S, other, DOMAIN S, Best(S, other, DOMAIN S))
    BY <1>5, <1>6, <1>8, OneLeads
  <2>2. Leads(S, ctx, DOMAIN S, Best(S, other, DOMAIN S))
    BY <1>6, <2>1 DEF Leads
  <2>3. Best(S, other, DOMAIN S) = Best(S, ctx, DOMAIN S)
    BY <1>5, <2>2, LeaderIsOne
  <2>4. QED
    BY <1>5, <2>3, BestIsFound
<1>9. QED
  BY <1>7, <1>8

LEMMA AttributeIsBest ==
  ASSUME NEW work, NEW ctx, ContextFields \subseteq DOMAIN ctx, NEW profile, NEW x,
         x = Attribute(work, ctx, profile)
  PROVE  "stage" \in DOMAIN x /\ x.brand = FindBestBrandMatch(ScannedBrands, x.ctx)
<1>1. "stage" \in DOMAIN x /\ x.brand = FindBestBrandMatch(ScannedBrands, ctx)
  BY DEF Attribute
<1>2. PICK p : x.ctx = [ctx EXCEPT !.profile = p]
  BY DEF Attribute
<1>3. QED
  BY <1>1, <1>2, ProfileIsNoEvidence

LEMMA ContextIsWhole ==
  ASSUME NEW repo, NEW names, NEW words, NEW greps, NEW treeKnown, NEW ctx,
         \/ ctx = CloneContext(repo, names, words, greps)
         \/ ctx = OnBranch(CloneContext(repo, names, words, greps))
         \/ ctx = RestContext(repo, names, treeKnown)
  PROVE  ContextFields \subseteq DOMAIN ctx
<1>1. \A visible, haystacks, brandHits, keywordHits, candidates :
        DOMAIN Context(repo, visible, haystacks, brandHits, keywordHits, candidates) = ContextFields
  BY DEF Context, ContextFields
<1>2. ContextFields \subseteq DOMAIN CloneContext(repo, names, words, greps)
  BY <1>1 DEF CloneContext
<1>3. ContextFields \subseteq DOMAIN RestContext(repo, names, treeKnown)
  BY <1>1 DEF RestContext
<1>4. \A c : DOMAIN OnBranch(c) = DOMAIN c
  BY DEF OnBranch
<1>5. QED
  BY <1>2, <1>3, <1>4

\* A step of one repository's work.
LEMMA WorkKeeps ==
  ASSUME AttributionInv, plan' = plan, NEW r \in DOMAIN Repo, NEW x,
         jobs' = [jobs EXCEPT ![r] = x], "stage" \in DOMAIN x,
         x.stage = "fetched" => x.brand = FindBestBrandMatch(ScannedBrands, x.ctx)
  PROVE  AttributionInv'
<1>1. /\ DOMAIN jobs' = DOMAIN Repo /\ jobs'[r] = x
      /\ \A q \in DOMAIN Repo : q # r => jobs'[q] = jobs[q]
  BY DEF AttributionInv
<1>2. ScannedBrands' = ScannedBrands
  BY DEF ScannedBrands
<1>3. ASSUME NEW q \in DOMAIN Repo
      PROVE  /\ "stage" \in DOMAIN jobs'[q]
             /\ Fetched(q)' => jobs'[q].brand = FindBestBrandMatch(ScannedBrands, jobs'[q].ctx)
  BY <1>1 DEF AttributionInv, Fetched
<1>4. QED
  BY <1>1, <1>2, <1>3 DEF AttributionInv

LEMMA WorkUntouched ==
  ASSUME AttributionInv, plan' = plan, jobs' = jobs
  PROVE  AttributionInv'
<1>1. ScannedBrands' = ScannedBrands
  BY DEF ScannedBrands
<1>2. QED
  BY <1>1 DEF AttributionInv, Fetched

LEMMA AttributionStep ==
  ASSUME AttributionInv, NEW r \in DOMAIN Repo,
         \/ Find(r) \/ Enumerate(r) \/ AskForBranch(r)
         \/ ReadHistory(r) \/ Detect(r) \/ StoreFingerprints(r) \/ PruneFingerprints(r)
         \/ Score(r) \/ Persist(r) \/ Crash(r) \/ Dismiss(r) \/ Again(r)
  PROVE  AttributionInv'
<1> USE DEF AttributionInv
<1>1. DOMAIN jobs = DOMAIN Repo /\ "stage" \in DOMAIN jobs[r]
  OBVIOUS
<1>2. ASSUME NEW guess, Start(r, guess)
      PROVE  AttributionInv'
  <2> PICK x : x = [jobs[r] EXCEPT !.stage = "found", !.guess = guess]
    OBVIOUS
  <2>1. jobs' = [jobs EXCEPT ![r] = x] /\ plan' = plan
    BY <1>2 DEF Start
  <2>2. "stage" \in DOMAIN x /\ x.stage = "found"
    BY <1>1
  <2>3. QED
    BY <2>1, <2>2, WorkKeeps
<1>3. CASE Find(r) \/ Enumerate(r) \/ AskForBranch(r)
  BY <1>2, <1>3 DEF Find, Enumerate, AskForBranch
<1>4. CASE ReadHistory(r)
  <2> PICK x : x = [jobs[r] EXCEPT !.ctx = AppendHistory(@, Now(r).commits), !.stage = "read"]
    OBVIOUS
  <2>1. jobs' = [jobs EXCEPT ![r] = x] /\ plan' = plan
    BY <1>4 DEF ReadHistory
  <2>2. "stage" \in DOMAIN x /\ x.stage = "read"
    BY <1>1
  <2>3. QED
    BY <2>1, <2>2, WorkKeeps
<1>5. CASE Detect(r)
  <2>1. jobs'[r].stage = "detected" /\ "stage" \in DOMAIN jobs'[r] /\ plan' = plan
    BY <1>1, <1>5 DEF Detect
  <2>2. jobs' = [jobs EXCEPT ![r] = jobs'[r]]
    BY <1>1, <1>5 DEF Detect
  <2>3. QED
    BY <2>1, <2>2, WorkKeeps
<1>6. CASE StoreFingerprints(r) \/ Persist(r) \/ PruneFingerprints(r)
  <2>1. PICK stage \in {"stored", "pruned", "done"} : jobs' = [jobs EXCEPT ![r].stage = stage] /\ plan' = plan
    BY <1>6 DEF StoreFingerprints, Persist, PruneFingerprints
  <2> PICK x : x = [jobs[r] EXCEPT !.stage = stage]
    OBVIOUS
  <2>2. jobs' = [jobs EXCEPT ![r] = x]
    BY <2>1
  <2>3. "stage" \in DOMAIN x /\ x.stage # "fetched"
    BY <1>1
  <2>4. QED
    BY <2>1, <2>2, <2>3, WorkKeeps
<1>7. CASE Score(r)
  <2>1. jobs'[r].stage = "scored" /\ "stage" \in DOMAIN jobs'[r] /\ plan' = plan
    BY <1>1, <1>7 DEF Score
  <2>2. jobs' = [jobs EXCEPT ![r] = jobs'[r]]
    BY <1>1, <1>7 DEF Score
  <2>3. QED
    BY <2>1, <2>2, WorkKeeps
<1>8. CASE Crash(r)
  <2>1. jobs'[r].stage = "read" /\ "stage" \in DOMAIN jobs'[r] /\ plan' = plan
    BY <1>1, <1>8 DEF Crash
  <2>2. jobs' = [jobs EXCEPT ![r] = jobs'[r]]
    BY <1>1, <1>8 DEF Crash
  <2>3. QED
    BY <2>1, <2>2, WorkKeeps
<1>9. CASE Dismiss(r)
  BY <1>9, WorkUntouched DEF Dismiss
<1>10. CASE Again(r)
  <2> PICK x : x = Idle(jobs[r].round + 1)
    OBVIOUS
  <2>1. jobs' = [jobs EXCEPT ![r] = x] /\ plan' = plan
    BY <1>10 DEF Again
  <2>2. "stage" \in DOMAIN x /\ x.stage = "idle"
    BY DEF Idle
  <2>3. QED
    BY <2>1, <2>2, WorkKeeps
<1>11. QED
  BY <1>3, <1>4, <1>5, <1>6, <1>7, <1>8, <1>9, <1>10

LEMMA FetchKeeps ==
  ASSUME AttributionInv, NEW r \in DOMAIN Repo, NEW greps, NEW treeKnown,
         Clone(r, greps) \/ FetchOverRest(r, treeKnown)
  PROVE  AttributionInv'
<1>1. plan' = plan
  BY DEF Clone, FetchOverRest
<1>2. CASE Clone(r, greps)
  <2> PICK cloned : cloned = CloneContext(Now(r), AllNames, AllKeywords, greps)
    OBVIOUS
  <2> PICK ctx : ctx = IF plan.branch THEN OnBranch(cloned) ELSE cloned
    OBVIOUS
  <2> PICK x : x = Attribute(jobs[r], ctx, Now(r).profile)
    OBVIOUS
  <2>1. jobs' = [jobs EXCEPT ![r] = x]
    BY <1>2 DEF Clone
  <2>2. ContextFields \subseteq DOMAIN ctx
    BY ContextIsWhole
  <2>3. "stage" \in DOMAIN x /\ x.brand = FindBestBrandMatch(ScannedBrands, x.ctx)
    BY <2>2, AttributeIsBest
  <2>4. QED
    BY <1>1, <2>1, <2>3, WorkKeeps
<1>3. CASE FetchOverRest(r, treeKnown)
  <2> PICK ctx : ctx = RestContext(Now(r), AllNames, treeKnown)
    OBVIOUS
  <2> PICK x : x = Attribute(jobs[r], ctx, Now(r).profile)
    OBVIOUS
  <2>1. jobs' = [jobs EXCEPT ![r] = x]
    BY <1>3 DEF FetchOverRest
  <2>2. ContextFields \subseteq DOMAIN ctx
    BY ContextIsWhole
  <2>3. "stage" \in DOMAIN x /\ x.brand = FindBestBrandMatch(ScannedBrands, x.ctx)
    BY <2>2, AttributeIsBest
  <2>4. QED
    BY <1>1, <2>1, <2>3, WorkKeeps
<1>4. QED
  BY <1>2, <1>3

LEMMA AttributionNext ==
  ASSUME AttributionInv, [Next]_vars
  PROVE  AttributionInv'
<1>1. CASE UNCHANGED <<plan, jobs>>
  BY <1>1, WorkUntouched
<1>2. CASE AnalysisNext
  <2>1. CASE BuildSearchQueries
    BY <1>1, <2>1 DEF BuildSearchQueries
  <2>2. ASSUME NEW r \in DOMAIN Repo, NEW greps, NEW treeKnown,
               Clone(r, greps) \/ FetchOverRest(r, treeKnown)
        PROVE  AttributionInv'
    BY <2>2, FetchKeeps
  <2>3. QED
    BY <1>2, <2>1, <2>2, AttributionStep DEF AnalysisNext
<1>3. CASE IngestNext
  BY <1>1, <1>3 DEF IngestNext, pipelineVars
<1>4. CASE AssessmentNext
  <2>1. UNCHANGED <<plan, jobs>>
    BY <1>4 DEF AssessmentNext, TakeTask, ForgetTask, Reanalyze, BackfillIntentAssessments, Build,
                Record, Apply, CrashAssessor, Ask, RunDeepReview, pipelineVars
  <2>2. QED
    BY <1>1, <2>1
<1>5. CASE UNCHANGED vars
  BY <1>1, <1>5 DEF vars
<1>6. QED
  BY <1>2, <1>3, <1>4, <1>5 DEF Next, PipelineNext

LEMMA BestIsNamed ==
  ASSUME AttributionInv
  PROVE  NamedBrandWins
<1> SUFFICES ASSUME NEW r \in DOMAIN Repo, Fetched(r), NEW b \in ToSet(ScannedBrands),
                    Evidence(b, jobs[r].ctx).location \in STRONG_LOCATIONS
             PROVE  LET e == Evidence(b, jobs[r].ctx)
                        chosen == Evidence(BrandOf(jobs[r].brand), jobs[r].ctx)
                    IN /\ chosen.location \in STRONG_LOCATIONS
                       /\ e.type # "fuzzy" => chosen.type # "fuzzy"
  BY DEF NamedBrandWins
<1> PICK ctx, i : ctx = jobs[r].ctx /\ i = jobs[r].brand
  OBVIOUS
<1> PICK S : S = ScannedBrands
  OBVIOUS
<1> PICK n : n = Len(S)
  OBVIOUS
<1>1. S \in Seq(ToSet(S)) /\ n \in Nat /\ DOMAIN S = 1 .. n
  BY ScannedAreListed
<1>2. i = Best(S, ctx, DOMAIN S)
  BY <1>1, BestIsFound DEF AttributionInv
<1>3. PICK j \in DOMAIN S : b = S[j]
  BY DEF ToSet
<1>4. j \in Evident(S, ctx, DOMAIN S)
  BY <1>3, EvidenceKinds DEF Evident
<1>5. Leads(S, ctx, DOMAIN S, i)
  BY <1>1, <1>2, <1>4, OneLeads
<1>6. i \in DOMAIN S /\ RankOf(S, ctx, j) <= RankOf(S, ctx, i)
  BY <1>4, <1>5 DEF Leads, Evident
<1>7. BrandOf(i) = S[i]
  BY <1>1, <1>6 DEF BrandOf, ScannedBrands
<1> PICK e, c : e = Evidence(b, ctx) /\ c = Evidence(S[i], ctx)
  OBVIOUS
<1>8. Rank(e) <= Rank(c) /\ e.type \in Kinds /\ c.type \in Kinds
  BY <1>3, <1>6, EvidenceKinds DEF RankOf
<1>9. e.type # "none"
  <2>1. e # Nothing
    BY EvidenceKinds
  <2>2. QED
    BY <2>1 DEF Evidence, FindBrandMatch, First, Nothing
<1>10. c.location \in STRONG_LOCATIONS /\ (e.type # "fuzzy" => c.type # "fuzzy")
  BY <1>8, <1>9 DEF Rank, LocationTier, MATCH_STRENGTH, Kinds
<1>11. QED
  BY <1>7, <1>10

\* Of the brands that the scan looks for, the one a repository is attributed to is never
\* merely mentioned or resembled where another is named (FindBestBrandMatch), for any
\* brands, repositories and texts.
THEOREM NamedBrandIsChosen == Spec => []NamedBrandWins
<1>1. Init => AttributionInv
  BY DEF Init, PipelineInit, AttributionInv, Idle, Fetched
<1>2. AttributionInv /\ [Next]_vars => AttributionInv'
  BY AttributionNext
<1>3. AttributionInv => NamedBrandWins
  BY BestIsNamed
<1>4. QED
  BY <1>1, <1>2, <1>3, PTL DEF Spec

-----------------------------------------------------------------------------
(* Lists and folds.                                                          *)

LEMMA LeastIs ==
  ASSUME NEW S \in SUBSET Nat, S # {}
  PROVE  \E m \in S : \A n \in S : m <= n
<1>1. PICK m \in S : \A n \in S : ~ <<n, m>> \in OpToRel(<, Nat)
  BY NatLessThanWellFounded, WFMin
<1>2. \A n \in S : ~ n < m
  BY <1>1 DEF OpToRel
<1>3. QED
  BY <1>2

\* What a fold goes through, and where it ends.
LEMMA WalkArrives ==
  ASSUME NEW n \in Nat, NEW w, NEW R, w[0] \in R[0],
         \A k \in 1 .. n : w[k - 1] \in R[k - 1] => w[k] \in R[k]
  PROVE  w[n] \in R[n]
<1> SUFFICES ASSUME w[n] \notin R[n] PROVE FALSE
  OBVIOUS
<1> DEFINE wrong == {k \in 0 .. n : w[k] \notin R[k]}
<1>1. n \in wrong /\ wrong \in SUBSET Nat
  OBVIOUS
<1>2. PICK m \in wrong : \A k \in wrong : m <= k
  <2> HIDE DEF wrong
  <2> QED BY <1>1, LeastIs
<1>3. m \in 0 .. n /\ m # 0
  OBVIOUS
<1>4. m \in 1 .. n /\ m - 1 \in 0 .. n
  BY <1>3
<1>5. m - 1 \notin wrong
  BY <1>2, <1>4
<1>6. QED
  BY <1>4, <1>5

-----------------------------------------------------------------------------
(* Lists: what is sorted, selected, cut off and put together.                *)

LEMMA ListFacts ==
  ASSUME NEW s, IsList(s)
  PROVE  Len(s) \in Nat /\ DOMAIN s = 1 .. Len(s)
BY DEF IsList

LEMMA ListsAre ==
  ASSUME NEW U, NEW s \in Seq(U)
  PROVE  IsList(s)
<1>1. Len(s) \in Nat /\ s \in [1 .. Len(s) -> U] /\ DOMAIN s = 1 .. Len(s)
  OBVIOUS
<1>2. s \in [1 .. Len(s) -> ToSet(s)]
  <2>1. \A i \in 1 .. Len(s) : s[i] \in ToSet(s)
    BY <1>1 DEF ToSet
  <2>2. QED
    BY <1>1, <2>1
<1>3. QED
  BY <1>1, <1>2 DEF IsList

LEMMA FunctionsAre ==
  ASSUME NEW S, NEW l \in Nat, NEW x \in [1 .. l -> S]
  PROVE  x \in Seq(S)
OBVIOUS

LEMMA LengthIs ==
  ASSUME NEW S, NEW x \in Seq(S), NEW l \in Nat, DOMAIN x = 1 .. l
  PROVE  Len(x) = l
<1> PICK m : m = Len(x)
  OBVIOUS
<1>1. m \in Nat /\ 1 .. m = 1 .. l
  OBVIOUS
<1>2. ~ m < l
  <2> SUFFICES ASSUME m < l PROVE FALSE
    OBVIOUS
  <2>1. l \in 1 .. l /\ l \notin 1 .. m
    BY <1>1
  <2>2. QED
    BY <1>1, <2>1
<1>3. ~ l < m
  <2> SUFFICES ASSUME l < m PROVE FALSE
    OBVIOUS
  <2>1. m \in 1 .. m /\ m \notin 1 .. l
    BY <1>1
  <2>2. QED
    BY <1>1, <2>1
<1>4. QED
  BY <1>1, <1>2, <1>3


LEMMA UpToIs ==
  ASSUME NEW S, NEW s \in Seq(S), NEW m \in Nat
  PROVE  UpTo(s, m) \in Seq(S) /\ Len(UpTo(s, m)) \in 0 .. m
<1>1. Len(s) \in Nat
  OBVIOUS
<1> PICK k : k = IF Len(s) < m THEN Len(s) ELSE m
  OBVIOUS
<1>2. k \in 0 .. Len(s) /\ k \in 0 .. m
  BY <1>1
<1>3. SubSeq(s, 1, k) \in Seq(S) /\ Len(SubSeq(s, 1, k)) = k
  <2>1. SubSeq(s, 1, k) \in Seq(S)
    BY <1>2
  <2>2. Len(SubSeq(s, 1, k)) = k
    BY <1>2
  <2>3. QED
    BY <2>1, <2>2
<1>4. QED
  BY <1>2, <1>3 DEF UpTo

\* In a strict order, each member of a finite set has a place of its own.
Below(S, R, i) == {j \in S : <<j, i>> \in R}
Places(S, R, k) == {i \in S : Cardinality(Below(S, R, i)) = k - 1}

LEMMA PlacesAre ==
  ASSUME NEW S, IsFiniteSet(S), NEW R,
         \A i \in S : <<i, i>> \notin R,
         \A i, j \in S : i # j => <<i, j>> \in R \/ <<j, i>> \in R,
         \A i, j, k \in S : <<i, j>> \in R /\ <<j, k>> \in R => <<i, k>> \in R
  PROVE  \A k \in 1 .. Cardinality(S) : Places(S, R, k) # {}
<1> DEFINE B(i) == Below(S, R, i)
           N == 1 .. Cardinality(S)
           f == [i \in S |-> Cardinality(B(i)) + 1]
<1>1. Cardinality(S) \in Nat
  BY FS_CardinalityType
<1>2. \A i \in S : B(i) \in SUBSET S /\ i \notin B(i)
  BY DEF Below
<1> HIDE DEF B
<1>3. ASSUME NEW i \in S
      PROVE  Cardinality(B(i)) \in Nat /\ Cardinality(B(i)) < Cardinality(S)
  <2>1. B(i) \in SUBSET S /\ B(i) # S
    BY <1>2
  <2>2. /\ IsFiniteSet(B(i)) /\ Cardinality(B(i)) <= Cardinality(S)
        /\ Cardinality(B(i)) # Cardinality(S)
    BY <2>1, FS_Subset
  <2>3. Cardinality(B(i)) \in Nat
    BY <2>2, FS_CardinalityType
  <2>4. QED
    BY <1>1, <2>2, <2>3
<1>4. ASSUME NEW i \in S, NEW j \in S, <<i, j>> \in R
      PROVE  Cardinality(B(i)) # Cardinality(B(j))
  <2>1. B(i) \in SUBSET B(j) /\ i \in B(j)
    BY <1>4 DEF B, Below
  <2>2. B(i) # B(j)
    BY <1>2, <2>1
  <2>3. IsFiniteSet(B(j))
    BY <1>2, FS_Subset
  <2>4. QED
    BY <2>1, <2>2, <2>3, FS_Subset
<1>5. f \in [S -> N]
  <2> SUFFICES ASSUME NEW i \in S PROVE Cardinality(B(i)) + 1 \in N
    OBVIOUS
  <2>1. QED
    BY <1>1, <1>3
<1>6. \A i, j \in S : f[i] = f[j] => i = j
  <2> SUFFICES ASSUME NEW i \in S, NEW j \in S, f[i] = f[j], i # j PROVE FALSE
    OBVIOUS
  <2>1. Cardinality(B(i)) = Cardinality(B(j))
    BY <1>3
  <2>2. QED
    BY <1>4, <2>1
<1>7. IsFiniteSet(N) /\ Cardinality(N) = Cardinality(S)
  <2>1. 1 \in Int /\ Cardinality(S) \in Int
    BY <1>1
  <2>2. IsFiniteSet(N) /\ Cardinality(N) = IF 1 > Cardinality(S) THEN 0 ELSE Cardinality(S) - 1 + 1
    BY <2>1, FS_Interval
  <2>3. QED
    BY <1>1, <2>2
<1> HIDE DEF f, N
<1>8. f \in Injection(S, N)
  BY <1>5, <1>6, Fun_IsInj
<1>9. f \in Surjection(S, N)
  BY <1>7, <1>8, FS_Injection
<1>10. ASSUME NEW k \in 1 .. Cardinality(S)
       PROVE  Places(S, R, k) # {}
  <2>1. PICK i \in S : f[i] = k
    BY <1>9 DEF Surjection, N
  <2>2. Cardinality(B(i)) + 1 = k /\ Cardinality(B(i)) \in Nat
    BY <1>3, <2>1 DEF f
  <2>3. Cardinality(Below(S, R, i)) = k - 1
    BY <2>2 DEF B
  <2>4. QED
    BY <2>3 DEF Places
<1>11. QED
  BY <1>10

\* Numbers in their order.
LEMMA AscendingIs ==
  ASSUME NEW n \in Nat, NEW places \in SUBSET (1 .. n), NEW at, at = Ascending(places)
  PROVE  /\ Cardinality(places) \in Nat /\ DOMAIN at = 1 .. Cardinality(places)
         /\ \A k \in DOMAIN at : at[k] \in places
         /\ \A k, l \in DOMAIN at : at[k] = at[l] => k = l
<1> DEFINE R == {p \in places \X places : p[1] < p[2]}
<1>1. IsFiniteSet(places) /\ Cardinality(places) \in Nat
  <2>1. IsFiniteSet(1 .. n)
    BY FS_Interval
  <2>2. IsFiniteSet(places)
    BY <2>1, FS_Subset
  <2>3. QED
    BY <2>2, FS_CardinalityType
<1>2. \A i, j \in places : <<i, j>> \in R <=> i < j
  OBVIOUS
<1>3. \A i \in places : i \in Int
  OBVIOUS
<1> HIDE DEF R
<1> PICK c : c = Cardinality(places)
  OBVIOUS
<1>4. \A k \in 1 .. c : Places(places, R, k) # {}
  <2>1. \A i \in places : <<i, i>> \notin R
    BY <1>2, <1>3
  <2>2. \A i, j \in places : i # j => <<i, j>> \in R \/ <<j, i>> \in R
    BY <1>2, <1>3
  <2>3. \A i, j, k \in places : <<i, j>> \in R /\ <<j, k>> \in R => <<i, k>> \in R
    BY <1>2, <1>3
  <2>4. QED
    BY <1>1, <2>1, <2>2, <2>3, PlacesAre
<1>5. at = [k \in 1 .. c |-> CHOOSE i \in places : Cardinality({j \in places : j < i}) = k - 1]
  BY DEF Ascending, Sorted
<1>6. \A i \in places : Below(places, R, i) = {j \in places : j < i}
  BY <1>2 DEF Below
<1>7. ASSUME NEW k \in 1 .. c
      PROVE  at[k] \in places /\ Cardinality({j \in places : j < at[k]}) = k - 1
  <2>1. \E i \in places : Cardinality({j \in places : j < i}) = k - 1
    BY <1>4, <1>6 DEF Places
  <2>2. QED
    BY <1>5, <2>1
<1>8. ASSUME NEW k \in 1 .. c, NEW l \in 1 .. c, at[k] = at[l]
      PROVE  k = l
  <2>1. k - 1 = l - 1
    BY <1>7, <1>8
  <2>2. QED
    BY <1>1, <2>1
<1>9. DOMAIN at = 1 .. c
  BY <1>5
<1>10. QED
  BY <1>1, <1>7, <1>8, <1>9

LEMMA ThoseListed ==
  ASSUME NEW S, NEW list \in Seq(S), NEW places \in SUBSET (DOMAIN list)
  PROVE  Those(list, places) \in Seq(S)
<1> PICK n, c, at, those :
      /\ n = Len(list) /\ c = Cardinality(places) /\ at = Ascending(places)
      /\ those = Those(list, places)
  OBVIOUS
<1>1. n \in Nat /\ DOMAIN list = 1 .. n /\ \A i \in 1 .. n : list[i] \in S
  OBVIOUS
<1>2. /\ c \in Nat /\ DOMAIN at = 1 .. c /\ \A k \in 1 .. c : at[k] \in places
      /\ DOMAIN those = 1 .. c /\ \A k \in 1 .. c : those[k] = list[at[k]]
  <2>1. places \in SUBSET (1 .. n)
    BY <1>1
  <2>2. c \in Nat /\ DOMAIN at = 1 .. c /\ \A k \in DOMAIN at : at[k] \in places
    BY <1>1, <2>1, AscendingIs
  <2>3. those = [k \in DOMAIN at |-> list[at[k]]]
    BY DEF Those
  <2>4. QED
    BY <2>2, <2>3
<1>3. \A k \in 1 .. c : those[k] \in S
  BY <1>1, <1>2
<1>4. those = [k \in 1 .. c |-> those[k]]
  BY <1>2 DEF Those
<1>5. those \in [1 .. c -> S]
  BY <1>3, <1>4
<1>6. QED
  BY <1>2, <1>5, FunctionsAre

\* Lists that are put together, one after the other.
FlatGoes(w, lists, n, T) ==
  /\ w[0] = <<>>
  /\ \A k \in 1 .. n : w[k - 1] \in T /\ w[k] \in T /\ w[k] = w[k - 1] \o lists[k]

FlatWalk(lists, g) ==
  g = [i \in 1 .. Len(lists) |-> IF i = 1 THEN lists[i] ELSE g[i - 1] \o lists[i]]

LEMMA FlatIs ==
  ASSUME NEW lists, Len(lists) # 0
  PROVE  FlattenSeq(lists) = (CHOOSE g : FlatWalk(lists, g))[Len(lists)]
BY Zenon DEF FlattenSeq, FlatWalk

LEMMA FlatExists ==
  ASSUME NEW U, NEW lists \in Seq(Seq(U)), NEW n, n = Len(lists)
  PROVE  \E g \in [1 .. n -> Seq(U)] :
           \A i \in 1 .. n : g[i] = IF i = 1 THEN lists[i] ELSE g[i - 1] \o lists[i]
<1> DEFINE T == Seq(U)
           Up(m, h) == \A i \in 1 .. m : h[i] = IF i = 1 THEN lists[i] ELSE h[i - 1] \o lists[i]
           R == [m \in 0 .. n |-> {x \in {0} : \E h \in [1 .. m -> T] : Up(m, h)}]
           w == [m \in 0 .. n |-> 0]
<1>0. n \in Nat /\ \A k \in 1 .. n : lists[k] \in T
  OBVIOUS
<1>1. w[0] \in R[0]
  <2> DEFINE h == [i \in 1 .. 0 |-> <<>>]
  <2>1. h \in [1 .. 0 -> T] /\ Up(0, h)
    OBVIOUS
  <2> HIDE DEF h
  <2>2. 0 \in 0 .. n
    BY <1>0
  <2>3. QED
    BY <2>1, <2>2
<1>2. ASSUME NEW k \in 1 .. n, w[k - 1] \in R[k - 1]
      PROVE  w[k] \in R[k]
  <2>1. k - 1 \in 0 .. n /\ k \in 0 .. n /\ 1 .. k = (1 .. (k - 1)) \cup {k} /\ k \notin 1 .. (k - 1)
    BY <1>0
  <2>2. PICK f \in [1 .. (k - 1) -> T] : Up(k - 1, f)
    BY <1>2, <2>1
  <2> DEFINE h == [i \in 1 .. k |-> IF i = k THEN (IF k = 1 THEN lists[k] ELSE f[k - 1] \o lists[k]) ELSE f[i]]
  <2>3. ASSUME NEW i \in 1 .. k
        PROVE  h[i] \in T /\ h[i] = IF i = 1 THEN lists[i] ELSE h[i - 1] \o lists[i]
    <3>1. CASE i = k
      <4>1. k # 1 => k - 1 \in 1 .. (k - 1) /\ k - 1 # k /\ k - 1 \in 1 .. k
        BY <1>0
      <4>2. k # 1 => f[k - 1] \in T /\ h[k - 1] = f[k - 1]
        BY <4>1
      <4>3. lists[k] \in T
        BY <1>0
      <4>4. QED
        BY <3>1, <4>2, <4>3
    <3>2. CASE i # k
      <4>1. i \in 1 .. (k - 1) /\ (i # 1 => i - 1 \in 1 .. (k - 1) /\ i - 1 # k /\ i - 1 \in 1 .. k)
        BY <2>1, <3>2
      <4>2. h[i] = f[i] /\ f[i] \in T /\ (i # 1 => h[i - 1] = f[i - 1])
        BY <3>2, <4>1
      <4>3. f[i] = IF i = 1 THEN lists[i] ELSE f[i - 1] \o lists[i]
        BY <2>2, <4>1
      <4>4. QED
        BY <4>2, <4>3
    <3>3. QED
      BY <3>1, <3>2
  <2>4. h \in [1 .. k -> T] /\ Up(k, h)
    BY <2>3
  <2> HIDE DEF h
  <2>5. QED
    BY <2>1, <2>4
<1>3. n \in 0 .. n
  BY <1>0
<1>4. w[n] \in R[n]
  <2> HIDE DEF w, R
  <2> QED BY <1>0, <1>1, <1>2, WalkArrives
<1>5. QED
  BY <1>3, <1>4

LEMMA FlatWalks ==
  ASSUME NEW U, NEW lists \in Seq(Seq(U)), NEW n, n = Len(lists)
  PROVE  \E w : FlatGoes(w, lists, n, Seq(U)) /\ w[n] = FlattenSeq(lists) /\ w[n] \in Seq(U)
<1>1. n \in Nat
  OBVIOUS
<1>2. CASE n = 0
  <2>1. lists = <<>>
    BY <1>2, EmptySeq
  <2>0. FlattenSeq(lists) = lists
    BY <1>2, Zenon DEF FlattenSeq
  <2> DEFINE w == [k \in {0} |-> <<>>]
  <2>2. FlatGoes(w, lists, n, Seq(U)) /\ w[n] = FlattenSeq(lists) /\ w[n] \in Seq(U)
    BY <1>2, <2>0, <2>1 DEF FlatGoes
  <2>3. QED
    BY <2>2
<1>3. CASE n # 0
  <2>1. PICK f \in [1 .. n -> Seq(U)] :
          \A i \in 1 .. n : f[i] = IF i = 1 THEN lists[i] ELSE f[i - 1] \o lists[i]
    BY FlatExists
  <2>2. FlatWalk(lists, f)
    BY <2>1 DEF FlatWalk
  <2>3. PICK g : g = (CHOOSE h : FlatWalk(lists, h)) /\ FlatWalk(lists, g)
    BY <2>2
  <2>4. FlattenSeq(lists) = g[n]
    BY <1>3, <2>3, FlatIs
  <2> DEFINE w == [k \in 0 .. n |-> IF k = 0 THEN <<>> ELSE g[k]]
             R == [k \in 0 .. n |-> Seq(U)]
  <2>5. \A i \in 1 .. n : g[i] = IF i = 1 THEN lists[i] ELSE g[i - 1] \o lists[i]
    BY <2>3 DEF FlatWalk
  <2>6. ASSUME NEW k \in 1 .. n, w[k - 1] \in Seq(U)
        PROVE  w[k] = w[k - 1] \o lists[k] /\ w[k] \in Seq(U)
    <3>1. k - 1 \in 0 .. n /\ k \in 0 .. n /\ k # 0 /\ lists[k] \in Seq(U)
      BY <1>1
    <3>2. CASE k = 1
      <4>1. w[k - 1] = <<>> /\ w[k] = lists[k]
        BY <2>5, <3>1, <3>2
      <4>2. <<>> \o lists[k] = lists[k]
        BY <3>1, ConcatEmptySeq
      <4>3. QED
        BY <3>1, <4>1, <4>2
    <3>3. CASE k # 1
      <4>1. k - 1 # 0
        BY <1>1, <3>3
      <4>2. w[k - 1] = g[k - 1] /\ w[k] = g[k]
        BY <3>1, <4>1
      <4>3. w[k] = w[k - 1] \o lists[k]
        BY <2>5, <3>3, <4>2
      <4> PICK a, b : a = w[k - 1] /\ b = lists[k]
        OBVIOUS
      <4>4. a \o b \in Seq(U)
        BY <2>6, <3>1, ConcatProperties
      <4>5. QED
        BY <4>3, <4>4
    <3>4. QED
      BY <3>2, <3>3
  <2>7. w[0] = <<>>
    BY <1>1
  <2> HIDE DEF w
  <2>8. ASSUME NEW m \in 0 .. n PROVE w[m] \in Seq(U)
    <3>1. w[0] \in R[0]
      BY <1>1, <2>7
    <3>2. \A k \in 1 .. m : w[k - 1] \in R[k - 1] => w[k] \in R[k]
      <4> SUFFICES ASSUME NEW k \in 1 .. m, w[k - 1] \in R[k - 1]
                   PROVE  w[k] \in R[k]
        OBVIOUS
      <4>1. k \in 1 .. n /\ k - 1 \in 0 .. n /\ k \in 0 .. n
        BY <1>1
      <4>2. R[k] = Seq(U) /\ R[k - 1] = Seq(U)
        BY <4>1
      <4> HIDE DEF R
      <4>3. QED
        BY <2>6, <4>1, <4>2
    <3>3. w[m] \in R[m]
      <4> HIDE DEF R
      <4> m \in Nat
        OBVIOUS
      <4> QED BY <3>1, <3>2, WalkArrives
    <3>4. QED
      BY <3>3
  <2>9. \A k \in 1 .. n : k - 1 \in 0 .. n /\ k \in 0 .. n
    BY <1>1
  <2>10. FlatGoes(w, lists, n, Seq(U))
    BY <2>6, <2>7, <2>8, <2>9 DEF FlatGoes
  <2>11. n \in 0 .. n /\ w[n] = g[n]
    BY <1>1, <1>3 DEF w
  <2>12. QED
    BY <2>4, <2>8, <2>10, <2>11
<1>4. QED
  BY <1>2, <1>3

\* A fold by a function: a value for every set of places.
Follows(h, n, base, step) ==
  \A s \in SUBSET (1 .. n) :
    h[s] = IF s = {} THEN base ELSE step[<<h[s \ {Max(s)}], Max(s)>>]

LEMMA FoldExists ==
  ASSUME NEW n \in Nat, NEW T, NEW base \in T, NEW step \in [T \X (1 .. n) -> T]
  PROVE  \E h \in [SUBSET (1 .. n) -> T] : Follows(h, n, base, step)
<1> DEFINE Folds(m, h) ==
      \A s \in SUBSET (1 .. m) :
        h[s] = IF s = {} THEN base ELSE step[<<h[s \ {Max(s)}], Max(s)>>]
    R == [m \in 0 .. n |-> {x \in {0} : \E h \in [SUBSET (1 .. m) -> T] : Folds(m, h)}]
    w == [m \in 0 .. n |-> 0]
<1>1. w[0] \in R[0]
  <2>1. 1 .. 0 = {}
    OBVIOUS
  <2> DEFINE h == [s \in SUBSET (1 .. 0) |-> base]
  <2>2. h \in [SUBSET (1 .. 0) -> T] /\ Folds(0, h)
    BY <2>1
  <2> HIDE DEF h
  <2>3. 0 \in 0 .. n
    OBVIOUS
  <2>4. QED
    BY <2>2, <2>3
<1>2. ASSUME NEW k \in 1 .. n, w[k - 1] \in R[k - 1]
      PROVE  w[k] \in R[k]
  <2>1. k - 1 \in 0 .. n /\ k \in 0 .. n /\ 1 .. k = (1 .. (k - 1)) \cup {k} /\ k \notin 1 .. (k - 1)
    OBVIOUS
  <2> k \in Nat
    OBVIOUS
  <2>2. PICK f \in [SUBSET (1 .. (k - 1)) -> T] : Folds(k - 1, f)
    BY <1>2, <2>1
  <2> DEFINE h == [s \in SUBSET (1 .. k) |-> IF k \in s THEN step[<<f[s \ {k}], k>>] ELSE f[s]]
  <2>3. ASSUME NEW s \in SUBSET (1 .. k)
        PROVE  /\ h[s] \in T
               /\ h[s] = IF s = {} THEN base ELSE step[<<h[s \ {Max(s)}], Max(s)>>]
    <3>1. CASE k \in s
      <4>1. Max(s) = k
        <5>1. Max(s) \in s /\ k <= Max(s)
          BY <3>1, LatestIs
        <5>2. Max(s) \in 1 .. k
          BY <5>1
        <5>3. QED
          BY <5>1, <5>2
      <4>2. s \ {k} \in SUBSET (1 .. (k - 1))
        BY <2>1
      <4>3. h[s \ {k}] = f[s \ {k}] /\ f[s \ {k}] \in T
        BY <4>2
      <4>4. QED
        BY <3>1, <4>1, <4>3
    <3>2. CASE k \notin s
      <4>1. s \in SUBSET (1 .. (k - 1))
        BY <2>1, <3>2
      <4>2. s \ {Max(s)} \in SUBSET (1 .. (k - 1)) /\ k \notin s \ {Max(s)}
        BY <3>2, <4>1
      <4>3. h[s] = f[s] /\ h[s \ {Max(s)}] = f[s \ {Max(s)}] /\ f[s] \in T
        BY <3>2, <4>1, <4>2
      <4>4. QED
        BY <2>2, <4>1, <4>3
    <3>3. QED
      BY <3>1, <3>2
  <2>4. h \in [SUBSET (1 .. k) -> T] /\ Folds(k, h)
    BY <2>3
  <2> HIDE DEF h
  <2>5. QED
    BY <2>1, <2>4
<1>3. n \in 0 .. n
  OBVIOUS
<1>4. w[n] \in R[n]
  <2> HIDE DEF w, R
  <2> QED BY <1>1, <1>2, WalkArrives
<1>5. QED
  BY <1>3, <1>4 DEF Follows

Goes(w, g, n, T, base, step) ==
  /\ w[0] = base /\ w[n] = g[1 .. n] /\ w[n] \in T
  /\ \A k \in 1 .. n : w[k - 1] \in T /\ w[k] \in T /\ w[k] = step[<<w[k - 1], k>>]

StepsWithin(g, n, T, step) ==
  \A s \in SUBSET (1 .. n) :
    s # {} /\ g[s \ {Max(s)}] \in T => g[s] = step[<<g[s \ {Max(s)}], Max(s)>>]

\* The way of a fold, step by step, when its steps stay within T.
LEMMA FoldWalks ==
  ASSUME NEW n \in Nat, NEW T, NEW base \in T, NEW step \in [T \X (1 .. n) -> T], NEW g,
         g[{}] = base, StepsWithin(g, n, T, step)
  PROVE  \E w : Goes(w, g, n, T, base, step)
<1> DEFINE w == [k \in 0 .. n |-> g[1 .. k]]
           R == [k \in 0 .. n |-> T]
<1>1. w[0] = base /\ w[n] = g[1 .. n]
  <2>1. 1 .. 0 = {} /\ 0 \in 0 .. n /\ n \in 0 .. n
    OBVIOUS
  <2>2. QED
    BY <2>1
<1>2. ASSUME NEW k \in 1 .. n, w[k - 1] \in T
      PROVE  w[k] = step[<<w[k - 1], k>>] /\ w[k] \in T
  <2>1. /\ k - 1 \in 0 .. n /\ k \in 0 .. n /\ k \in Nat
        /\ 1 .. k \in SUBSET (1 .. n) /\ k \in 1 .. k /\ (1 .. k) \ {k} = 1 .. (k - 1)
    OBVIOUS
  <2>2. Max(1 .. k) = k
    <3>1. Max(1 .. k) \in 1 .. k /\ \A j \in 1 .. k : j <= Max(1 .. k)
      BY <2>1, LatestIs
    <3>2. k <= Max(1 .. k)
      BY <2>1, <3>1
    <3>3. QED
      BY <2>1, <3>1, <3>2
  <2>3. w[k - 1] = g[(1 .. k) \ {Max(1 .. k)}] /\ w[k] = g[1 .. k]
    BY <2>1, <2>2
  <2>4. QED
    BY <1>2, <2>1, <2>2, <2>3 DEF StepsWithin
<1>3. \A k \in 0 .. n : w[k] \in T
  <2> SUFFICES ASSUME NEW m \in 0 .. n
               PROVE  w[m] \in T
    OBVIOUS
  <2>1. w[0] \in R[0]
    BY <1>1
  <2>2. \A k \in 1 .. m : w[k - 1] \in R[k - 1] => w[k] \in R[k]
    <3> SUFFICES ASSUME NEW k \in 1 .. m, w[k - 1] \in R[k - 1]
                 PROVE  w[k] \in R[k]
      OBVIOUS
    <3>1. k \in 1 .. n /\ k - 1 \in 0 .. n /\ k \in 0 .. n
      OBVIOUS
    <3>2. R[k] = T /\ R[k - 1] = T
      BY <3>1
    <3> HIDE DEF w, R
    <3>3. QED
      BY <1>2, <3>1, <3>2
  <2>3. w[m] \in R[m]
    <3> HIDE DEF w, R
    <3> QED BY <2>1, <2>2, WalkArrives
  <2>4. QED
    BY <2>3
<1>4. \A k \in 1 .. n : w[k - 1] \in T /\ w[k] = step[<<w[k - 1], k>>]
  <2> \A k \in 1 .. n : k - 1 \in 0 .. n
    OBVIOUS
  <2> HIDE DEF w
  <2> QED BY <1>2, <1>3
<1>5. w[n] \in T
  BY <1>3
<1> HIDE DEF w
<1>6. Goes(w, g, n, T, base, step)
  BY <1>1, <1>3, <1>4, <1>5 DEF Goes
<1>7. QED
  BY <1>6

-----------------------------------------------------------------------------
(* What the analysis reads, and the first pass over it.                      *)

LEMMA HaystackLines ==
  ASSUME NEW ctx, IsList(ctx.haystacks), \A h \in ToSet(ctx.haystacks) : IsList(h.lines)
  PROVE  IsList(CollectHaystacks(ctx))
<1> PICK list, n : list = ctx.haystacks /\ n = Len(list)
  OBVIOUS
<1>1. n \in Nat /\ DOMAIN list = 1 .. n
  BY ListFacts
<1> DEFINE Lines(i) == LinesIn(list[i])
           U == UNION {ToSet(Lines(i)) : i \in 1 .. n}
           T == Seq(U)
           lists == [k \in 1 .. n |-> Lines(k)]
<1>2. \A i \in 1 .. n : Lines(i) \in T
  <2> SUFFICES ASSUME NEW i \in 1 .. n
               PROVE  Lines(i) \in T
    OBVIOUS
  <2> PICK h, m : h = list[i] /\ m = Len(h.lines)
    OBVIOUS
  <2>1. m \in Nat /\ DOMAIN h.lines = 1 .. m
    <3>1. h \in ToSet(list)
      BY <1>1 DEF ToSet
    <3>2. QED
      BY <3>1, ListFacts
  <2>2. DOMAIN LinesIn(h) = 1 .. m
    BY <2>1 DEF LinesIn
  <2>3. \A j \in 1 .. m : LinesIn(h)[j] \in U
    <3>1. \A j \in 1 .. m : LinesIn(h)[j] \in ToSet(LinesIn(h))
      BY <2>2 DEF ToSet
    <3>2. ToSet(Lines(i)) \subseteq U
      OBVIOUS
    <3>3. QED
      BY <3>1, <3>2
  <2>4. LinesIn(h) = [j \in 1 .. m |-> LinesIn(h)[j]]
    BY <2>1 DEF LinesIn
  <2> HIDE DEF U
  <2>5. LinesIn(h) \in [1 .. m -> U]
    BY <2>3, <2>4
  <2>6. QED
    BY <2>1, <2>5
<1>3. lists \in [1 .. n -> T]
  <2> HIDE DEF T, Lines
  <2> QED BY <1>2
<1>4. CollectHaystacks(ctx) = FlattenSeq(lists)
  BY <1>1 DEF CollectHaystacks
<1> HIDE DEF lists
<1>5. lists \in Seq(T)
  BY <1>1, <1>3, FunctionsAre
<1>6. FlattenSeq(lists) \in T
  <2> HIDE DEF U
  <2>1. PICK w : w[Len(lists)] = FlattenSeq(lists) /\ w[Len(lists)] \in Seq(U)
    BY <1>5, FlatWalks
  <2>2. QED
    BY <2>1
<1>7. QED
  BY <1>4, <1>6, ListsAre DEF T

LEMMA PatternsListed ==
  ASSUME NEW lines
  PROVE  /\ IsList(PatternsIn(lines))
         /\ \A i \in DOMAIN PatternsIn(lines) : PatternsIn(lines)[i] \in ToSet(PatternOrder)
         /\ \A i, j \in DOMAIN PatternsIn(lines) :
              PatternsIn(lines)[i] = PatternsIn(lines)[j] => i = j
<1> PICK order, places, at, x :
      /\ order = PatternOrder
      /\ places = {i \in DOMAIN PatternOrder : \E words \in lines : Reported(PatternOrder[i], words)}
      /\ at = Ascending(places) /\ x = PatternsIn(lines)
  OBVIOUS
<1>1. DOMAIN order = 1 .. 24 /\ order \in Seq(ToSet(order))
  <2>1. order \in [1 .. 24 -> ToSet(order)]
    BY DEF PatternOrder, ToSet
  <2>2. 24 \in Nat
    OBVIOUS
  <2> PICK l : l = 24
    OBVIOUS
  <2>3. l \in Nat /\ order \in [1 .. l -> ToSet(order)]
    BY <2>1, <2>2
  <2>4. order \in Seq(ToSet(order))
    BY <2>3, FunctionsAre
  <2>5. QED
    BY <2>1, <2>4
<1>2. \A i, j \in 1 .. 24 : order[i] = order[j] => i = j
  BY DEF PatternOrder
<1>3. x = Those(order, places)
  BY DEF PatternsIn
<1>4. x = [k \in DOMAIN at |-> order[at[k]]]
  BY <1>3 DEF Those
<1>5. places \in SUBSET (1 .. 24)
  BY <1>1
<1>6. IsList(x) /\ x \in Seq(ToSet(order))
  <2>1. places \in SUBSET (DOMAIN order)
    OBVIOUS
  <2>2. x \in Seq(ToSet(order))
    BY <1>1, <1>3, <2>1, ThoseListed
  <2>3. QED
    BY <2>2, ListsAre
<1>7. ASSUME NEW i \in DOMAIN at, NEW j \in DOMAIN at, x[i] = x[j]
      PROVE  i = j
  <2>1. at[i] \in places /\ at[j] \in places /\ (at[i] = at[j] => i = j)
    <3> PICK l : l = 24
      OBVIOUS
    <3>1. l \in Nat /\ places \in SUBSET (1 .. l)
      BY <1>5
    <3>2. QED
      BY <3>1, AscendingIs
  <2>2. order[at[i]] = order[at[j]]
    BY <1>4, <1>7
  <2>3. QED
    BY <1>2, <1>5, <2>1, <2>2
<1>8. \A i \in DOMAIN x : x[i] \in ToSet(order)
  BY <1>6
<1>9. DOMAIN x = DOMAIN at
  BY <1>4
<1>10. QED
  BY <1>6, <1>7, <1>8, <1>9

LEMMA MatchesListed ==
  ASSUME NEW p, NEW lines, IsList(lines)
  PROVE  /\ IsList(MatchesOf(p, lines)) /\ Len(MatchesOf(p, lines)) <= MAX_MATCHES_PER_PATTERN
         /\ \A k \in DOMAIN MatchesOf(p, lines) : MatchesOf(p, lines)[k].rule = p
<1> PICK m, those, hits, x :
      /\ m = MAX_MATCHES_PER_PATTERN
      /\ those = Those(lines, {i \in DOMAIN lines : Reported(p, lines[i].words)})
      /\ hits = UpTo(those, m) /\ x = MatchesOf(p, lines)
  OBVIOUS
<1>1. m \in Nat /\ lines \in Seq(ToSet(lines))
  BY BudgetAssumption DEF IsList
<1>2. those \in Seq(ToSet(lines))
  BY <1>1, ThoseListed
<1>3. hits \in Seq(ToSet(lines)) /\ Len(hits) \in 0 .. m
  BY <1>1, <1>2, UpToIs
<1> PICK l : l = Len(hits)
  OBVIOUS
<1>4. l \in Nat /\ l <= m /\ DOMAIN hits = 1 .. l
  BY <1>1, <1>3
<1>5. x = [k \in DOMAIN hits |->
             Found(p, SECRET_PATTERNS[p], hits[k].boost, hits[k].file, hits[k].line)]
  BY DEF MatchesOf
<1>6. \A k \in DOMAIN hits : x[k].rule = p
  BY <1>5 DEF Found
<1>7. x \in [1 .. l -> ToSet(x)]
  BY <1>4, <1>5 DEF ToSet
<1>8. x \in Seq(ToSet(x)) /\ Len(x) = l
  <2> PICK S : S = ToSet(x)
    OBVIOUS
  <2>1. x \in [1 .. l -> S]
    BY <1>7
  <2>2. x \in Seq(S)
    BY <1>4, <2>1, FunctionsAre
  <2>3. Len(x) = l
    BY <1>4, <2>1, <2>2, LengthIs
  <2>4. QED
    BY <2>2, <2>3
<1>9. QED
  BY <1>4, <1>5, <1>6, <1>8 DEF IsList

\* How often a rule is reported.
PlacesOf(x, p) == {k \in DOMAIN x : x[k].rule = p}
CountOf(x, p) == Cardinality(PlacesOf(x, p))

LEMMA CountIs ==
  ASSUME NEW x, IsList(x), NEW p
  PROVE  /\ IsFiniteSet(PlacesOf(x, p))
         /\ CountOf(x, p) \in Nat /\ CountOf(x, p) <= Len(x)
<1> PICK n, S : n = Len(x) /\ S = PlacesOf(x, p)
  OBVIOUS
<1>1. n \in Nat /\ S \in SUBSET (1 .. n)
  BY ListFacts DEF PlacesOf
<1>2. IsFiniteSet(1 .. n) /\ Cardinality(1 .. n) = n
  <2>1. 1 \in Int /\ n \in Int
    BY <1>1
  <2>2. IsFiniteSet(1 .. n) /\ Cardinality(1 .. n) = IF 1 > n THEN 0 ELSE n - 1 + 1
    BY <2>1, FS_Interval
  <2>3. QED
    BY <1>1, <2>2
<1>3. IsFiniteSet(S) /\ Cardinality(S) \in Nat /\ Cardinality(S) <= n
  BY <1>1, <1>2, FS_Subset, FS_CardinalityType
<1>4. QED
  BY <1>3 DEF CountOf

LEMMA AppendCounts ==
  ASSUME NEW D, NEW x \in Seq(D), NEW d \in D, NEW p
  PROVE  CountOf(Append(x, d), p) = CountOf(x, p) + (IF d.rule = p THEN 1 ELSE 0)
<1> PICK n, y : n = Len(x) /\ y = Append(x, d)
  OBVIOUS
<1>1. /\ n \in Nat /\ y \in Seq(D) /\ DOMAIN y = 1 .. (n + 1) /\ DOMAIN x = 1 .. n
      /\ y[n + 1] = d /\ \A k \in 1 .. n : y[k] = x[k]
  OBVIOUS
<1>2. n + 1 \notin 1 .. n /\ 1 .. (n + 1) = (1 .. n) \cup {n + 1}
  BY <1>1
<1> PICK S : S = PlacesOf(x, p)
  OBVIOUS
<1>3. IsFiniteSet(S) /\ n + 1 \notin S
  <2>1. IsList(x)
    BY ListsAre
  <2>2. S \in SUBSET (1 .. n)
    BY <1>1 DEF PlacesOf
  <2>3. QED
    BY <1>2, <2>1, <2>2, CountIs
<1>4. PlacesOf(y, p) = IF d.rule = p THEN S \cup {n + 1} ELSE S
  BY <1>1, <1>2 DEF PlacesOf
<1>5. CASE d.rule = p
  <2>1. Cardinality(S \cup {n + 1}) = Cardinality(S) + 1
    BY <1>3, FS_AddElement
  <2>2. QED
    BY <1>4, <1>5, <2>1 DEF CountOf
<1>6. CASE d.rule # p
  <2>1. CountOf(y, p) = CountOf(x, p)
    BY <1>4, <1>6 DEF CountOf
  <2>2. CountOf(x, p) \in Nat
    BY ListsAre, CountIs
  <2>3. QED
    BY <1>6, <2>1, <2>2
<1>7. QED
  BY <1>5, <1>6

\* What has the rule p in a list is in one part of it.
LEMMA ConcatCounts ==
  ASSUME NEW D, NEW x \in Seq(D), NEW y \in Seq(D), NEW p
  PROVE  CountOf(x \o y, p) = CountOf(x, p) + CountOf(y, p)
<1> PICK n, m, z : n = Len(x) /\ m = Len(y) /\ z = x \o y
  OBVIOUS
<1>1. /\ n \in Nat /\ m \in Nat /\ DOMAIN x = 1 .. n /\ DOMAIN y = 1 .. m
      /\ DOMAIN z = 1 .. (n + m) /\ z \in Seq(D)
      /\ \A k \in 1 .. n : z[k] = x[k]
      /\ \A k \in 1 .. m : z[n + k] = y[k]
  <2>1. z \in Seq(D) /\ Len(z) = n + m /\ \A k \in 1 .. (n + m) : z[k] = IF k <= n THEN x[k] ELSE y[k - n]
    BY ConcatProperties
  <2>2. n \in Nat /\ m \in Nat /\ DOMAIN x = 1 .. n /\ DOMAIN y = 1 .. m
    OBVIOUS
  <2>3. DOMAIN z = 1 .. (n + m)
    BY <2>1
  <2>4. ASSUME NEW k \in 1 .. n PROVE z[k] = x[k]
    BY <2>1, <2>2, <2>4
  <2>5. ASSUME NEW k \in 1 .. m PROVE z[n + k] = y[k]
    <3>1. n + k \in 1 .. (n + m) /\ ~ n + k <= n /\ (n + k) - n = k
      BY <2>2
    <3>2. QED
      BY <2>1, <3>1
  <2>6. QED
    BY <2>1, <2>2, <2>3, <2>4, <2>5
<1> DEFINE S == {k \in 1 .. n : x[k].rule = p}
           T == {k \in 1 .. m : y[k].rule = p}
           U == {k \in (n + 1) .. (n + m) : z[k].rule = p}
           V == {k \in 1 .. (n + m) : z[k].rule = p}
           f == [k \in T |-> n + k]
<1>2. /\ CountOf(x, p) = Cardinality(S) /\ CountOf(y, p) = Cardinality(T)
      /\ CountOf(z, p) = Cardinality(V)
  BY <1>1 DEF CountOf, PlacesOf
<1>3. V = S \cup U /\ S \cap U = {}
  <2>1. 1 .. (n + m) = (1 .. n) \cup ((n + 1) .. (n + m)) /\ (1 .. n) \cap ((n + 1) .. (n + m)) = {}
    BY <1>1
  <2>2. QED
    BY <1>1, <2>1
<1>4. IsFiniteSet(S) /\ IsFiniteSet(T) /\ IsFiniteSet(V)
  <2>1. IsList(x) /\ IsList(y) /\ IsList(z)
    BY <1>1, ListsAre
  <2>2. S = PlacesOf(x, p) /\ T = PlacesOf(y, p) /\ V = PlacesOf(z, p)
    BY <1>1 DEF PlacesOf
  <2> HIDE DEF S, T, V
  <2>3. QED
    BY <2>1, <2>2, CountIs
<1>5. f \in Surjection(T, U) /\ f \in Injection(T, U)
  <2>1. f \in [T -> U]
    BY <1>1
  <2>2. \A a, b \in T : f[a] = f[b] => a = b
    BY <1>1
  <2>3. ASSUME NEW u \in U
        PROVE  \E t \in T : f[t] = u
    <3>1. u - n \in 1 .. m /\ n + (u - n) = u
      BY <1>1
    <3>2. u - n \in T
      BY <1>1, <3>1
    <3>3. QED
      BY <3>1, <3>2
  <2> HIDE DEF f, T, U
  <2>4. QED
    BY <2>1, <2>2, <2>3, Fun_IsInj, Fun_IsSurj
<1> HIDE DEF S, T, U, V, f
<1>6. IsFiniteSet(U) /\ Cardinality(U) = Cardinality(T)
  <2>1. IsFiniteSet(U)
    BY <1>4, <1>5, FS_Surjection
  <2>2. Cardinality(U) = Cardinality(T)
    BY <1>4, <1>5, FS_Surjection
  <2>3. QED
    BY <2>1, <2>2
<1>7. Cardinality(V) = Cardinality(S) + Cardinality(U)
  <2> PICK a, b : a = Cardinality(S) /\ b = Cardinality(U)
    OBVIOUS
  <2>1. Cardinality(S \cup U) = a + b - Cardinality(S \cap U)
    BY <1>4, <1>6, FS_Union
  <2>2. a \in Nat /\ b \in Nat /\ Cardinality({}) = 0
    BY <1>4, <1>6, FS_CardinalityType, FS_EmptySet
  <2>3. Cardinality(V) = a + b - 0
    BY <1>3, <2>1, <2>2
  <2>4. QED
    BY <2>2, <2>3
<1>8. QED
  BY <1>2, <1>6, <1>7

\* What the first pass goes through, pattern by pattern.
PatternsOn(lines) == PatternsIn({l.words : l \in ToSet(lines)})
SampleGoes(w, list, lines, n, T) ==
  /\ w[0] = <<>>
  /\ \A k \in 1 .. n : w[k - 1] \in T /\ w[k] \in T /\ w[k] = w[k - 1] \o MatchesOf(list[k], lines)

LEMMA SampleWalks ==
  ASSUME NEW ctx, NEW lines, lines = CollectHaystacks(ctx), IsList(lines),
         NEW list, list = PatternsOn(lines), NEW n, n = Len(list)
  PROVE  \E U, w : SampleGoes(w, list, lines, n, Seq(U)) /\ w[n] = SampleMatches(ctx) /\ w[n] \in Seq(U)
<1>1. n \in Nat /\ DOMAIN list = 1 .. n
  <2>1. IsList(list)
    BY PatternsListed DEF PatternsOn
  <2>2. QED
    BY <2>1, ListFacts
<1> DEFINE Some(i) == MatchesOf(list[i], lines)
           U == UNION {ToSet(Some(i)) : i \in 1 .. n}
           T == Seq(U)
           lists == [k \in 1 .. n |-> Some(k)]
<1>2. \A i \in 1 .. n : Some(i) \in T
  <2> SUFFICES ASSUME NEW i \in 1 .. n
               PROVE  Some(i) \in T
    OBVIOUS
  <2>1. Some(i) \in Seq(ToSet(Some(i)))
    BY MatchesListed DEF IsList
  <2>2. ToSet(Some(i)) \subseteq U
    OBVIOUS
  <2> HIDE DEF U, Some
  <2>3. QED
    BY <2>1, <2>2, SeqMonotonic
<1>3. lists \in [1 .. n -> T]
  <2> HIDE DEF T, Some
  <2> QED BY <1>2
<1>4. SampleMatches(ctx) = FlattenSeq(lists)
  BY <1>1 DEF SampleMatches, PatternsOn
<1>5. \A k \in 1 .. n : lists[k] = MatchesOf(list[k], lines)
  OBVIOUS
<1> HIDE DEF lists
<1>6. lists \in Seq(T) /\ Len(lists) = n
  <2>1. lists \in Seq(T)
    BY <1>1, <1>3, FunctionsAre
  <2>2. QED
    BY <1>1, <1>3, <2>1, LengthIs
<1>7. PICK w : FlatGoes(w, lists, n, T) /\ w[n] = FlattenSeq(lists) /\ w[n] \in T
  <2> HIDE DEF U
  <2> QED BY <1>6, FlatWalks
<1> HIDE DEF T
<1>8. SampleGoes(w, list, lines, n, T)
  <2>1. w[0] = <<>>
    BY <1>7 DEF FlatGoes
  <2>2. ASSUME NEW k \in 1 .. n
        PROVE  w[k - 1] \in T /\ w[k] \in T /\ w[k] = w[k - 1] \o MatchesOf(list[k], lines)
    <3>1. w[k - 1] \in T /\ w[k] \in T /\ w[k] = w[k - 1] \o lists[k]
      BY <1>7 DEF FlatGoes
    <3>2. QED
      BY <1>5, <3>1
  <2>3. QED
    BY <2>1, <2>2 DEF SampleGoes
<1>9. QED
  BY <1>4, <1>7, <1>8 DEF T

\* Of each pattern, the first pass reports no more than its budget.
LEMMA SampleKeepsBudget ==
  ASSUME NEW ctx, IsList(ctx.haystacks), \A h \in ToSet(ctx.haystacks) : IsList(h.lines)
  PROVE  /\ IsList(SampleMatches(ctx))
         /\ \A p : CountOf(SampleMatches(ctx), p) <= MAX_MATCHES_PER_PATTERN
<1> PICK lines : lines = CollectHaystacks(ctx)
  OBVIOUS
<1> PICK list, n, m : list = PatternsOn(lines) /\ n = Len(list) /\ m = MAX_MATCHES_PER_PATTERN
  OBVIOUS
<1>1. IsList(lines) /\ m \in Nat
  BY HaystackLines, BudgetAssumption
<1>2. IsList(list) /\ \A i, j \in DOMAIN list : list[i] = list[j] => i = j
  BY PatternsListed DEF PatternsOn
<1>3. n \in Nat /\ DOMAIN list = 1 .. n
  BY <1>2, ListFacts
<1>4. PICK U, w : SampleGoes(w, list, lines, n, Seq(U)) /\ w[n] = SampleMatches(ctx) /\ w[n] \in Seq(U)
  BY <1>1, SampleWalks
<1> SUFFICES ASSUME NEW p
             PROVE  CountOf(w[n], p) <= m
  BY <1>4, ListsAre
<1> DEFINE Upto(k) == IF \E i \in 1 .. k : list[i] = p THEN m ELSE 0
           R == [k \in 0 .. n |-> {x \in Seq(U) : CountOf(x, p) <= Upto(k)}]
<1>5. w[0] \in R[0]
  <2>1. w[0] = <<>>
    BY <1>4 DEF SampleGoes
  <2>2. PlacesOf(<<>>, p) = {}
    BY DEF PlacesOf
  <2>3. CountOf(<<>>, p) = 0
    BY <2>2, FS_EmptySet DEF CountOf
  <2>4. 0 \in 0 .. n /\ Upto(0) \in {0, m}
    BY <1>3
  <2>5. 0 <= Upto(0)
    BY <1>1, <2>4
  <2>6. QED
    BY <2>1, <2>3, <2>4, <2>5
<1>6. ASSUME NEW k \in 1 .. n, w[k - 1] \in R[k - 1]
      PROVE  w[k] \in R[k]
  <2> PICK x, y : x = w[k - 1] /\ y = MatchesOf(list[k], lines)
    OBVIOUS
  <2>1. x \in Seq(U) /\ w[k] \in Seq(U) /\ w[k] = x \o y
    BY <1>4 DEF SampleGoes
  <2>2. IsList(y) /\ Len(y) <= m /\ \A i \in DOMAIN y : y[i].rule = list[k]
    BY <1>1, MatchesListed
  <2>3. k - 1 \in 0 .. n /\ k \in 0 .. n /\ k \in DOMAIN list
    BY <1>3
  <2>4. CountOf(x, p) <= Upto(k - 1) /\ CountOf(x, p) \in Nat
    <3>1. CountOf(x, p) <= Upto(k - 1)
      BY <1>6, <2>3
    <3>2. QED
      BY <2>1, <3>1, ListsAre, CountIs
  <2>5. CountOf(w[k], p) = CountOf(x, p) + CountOf(y, p)
    <3> DEFINE V == U \cup ToSet(y)
    <3>1. x \in Seq(V) /\ y \in Seq(V)
      BY <2>1, <2>2, SeqMonotonic DEF IsList
    <3>2. QED
      BY <2>1, <3>1, ConcatCounts
  <2>6. CASE list[k] = p
    <3>1. ~ \E i \in 1 .. (k - 1) : list[i] = p
      <4> SUFFICES ASSUME NEW i \in 1 .. (k - 1), list[i] = p PROVE FALSE
        OBVIOUS
      <4>1. i \in DOMAIN list /\ i # k
        BY <1>3
      <4>2. QED
        BY <1>2, <2>3, <2>6, <4>1
    <3>2. CountOf(x, p) = 0
      <4>1. Upto(k - 1) = 0
        BY <3>1
      <4>2. QED
        BY <2>4, <4>1
    <3>3. CountOf(y, p) \in Nat /\ CountOf(y, p) <= m
      <4>1. CountOf(y, p) \in Nat /\ CountOf(y, p) <= Len(y) /\ Len(y) \in Nat
        BY <2>2, CountIs, ListFacts
      <4>2. QED
        BY <1>1, <2>2, <4>1
    <3>4. Upto(k) = m
      <4>1. k \in 1 .. k
        OBVIOUS
      <4>2. QED
        BY <2>6, <4>1
    <3>5. CountOf(w[k], p) <= Upto(k)
      BY <2>5, <3>2, <3>3, <3>4
    <3>6. QED
      BY <2>1, <2>3, <3>5
  <2>7. CASE list[k] # p
    <3>1. PlacesOf(y, p) = {}
      BY <2>2, <2>7 DEF PlacesOf
    <3>2. CountOf(y, p) = 0
      BY <3>1, FS_EmptySet DEF CountOf
    <3>3. 1 .. k = (1 .. (k - 1)) \cup {k}
      OBVIOUS
    <3>4. Upto(k) = Upto(k - 1)
      BY <2>7, <3>3
    <3>5. CountOf(w[k], p) <= Upto(k)
      BY <2>4, <2>5, <3>2, <3>4
    <3>6. QED
      BY <2>1, <2>3, <3>5
  <2>8. QED
    BY <2>6, <2>7
<1>7. w[n] \in R[n]
  <2> HIDE DEF R
  <2> QED BY <1>3, <1>5, <1>6, WalkArrives
<1>8. CountOf(w[n], p) <= Upto(n) /\ Upto(n) \in {0, m}
  BY <1>3, <1>7
<1>9. CountOf(w[n], p) \in Nat
  BY <1>4, ListsAre, CountIs
<1>10. QED
  BY <1>1, <1>8, <1>9

-----------------------------------------------------------------------------
(* The second pass.                                                          *)

\* What the second pass has reported, next to what the first has.
Fair(x, sample) ==
  /\ \A i, k \in DOMAIN x : i # k => Key(x[i]) # Key(x[k])
  /\ \A k \in DOMAIN x : \A i \in DOMAIN sample : sample[i].file # 0 => Key(sample[i]) # Key(x[k])
  /\ \A p : p # "ssh_private_key" =>
       CountOf(sample, p) + CountOf(x, p) <= MAX_MATCHES_PER_PATTERN
FairLists(D, sample) == {x \in Seq(D) : Fair(x, sample)}

\* What is not seen may be appended, if its rule has something left of its budget.
LEMMA AppendIsFair ==
  ASSUME NEW D, NEW sample, IsList(sample), NEW x \in FairLists(D, sample), NEW d \in D,
         Key(d) \notin Seen(x, sample),
         d.rule # "ssh_private_key" => Counted(x, sample, d.rule) < MAX_MATCHES_PER_PATTERN
  PROVE  Append(x, d) \in FairLists(D, sample)
<1> PICK n, y, m : n = Len(x) /\ y = Append(x, d) /\ m = MAX_MATCHES_PER_PATTERN
  OBVIOUS
<1>0. m \in Nat
  BY BudgetAssumption
<1>1. x \in Seq(D) /\ Fair(x, sample)
  BY DEF FairLists
<1>2. /\ n \in Nat /\ y \in Seq(D) /\ DOMAIN y = 1 .. (n + 1) /\ DOMAIN x = 1 .. n
      /\ y[n + 1] = d /\ \A k \in 1 .. n : y[k] = x[k]
  BY <1>1
<1>3. n + 1 \notin 1 .. n /\ 1 .. (n + 1) = (1 .. n) \cup {n + 1}
  BY <1>2
<1>4. /\ \A k \in 1 .. n : Key(x[k]) # Key(d)
      /\ \A i \in DOMAIN sample : sample[i].file # 0 => Key(sample[i]) # Key(d)
  BY <1>2 DEF Seen
<1>5. \A i, k \in DOMAIN y : i # k => Key(y[i]) # Key(y[k])
  <2> SUFFICES ASSUME NEW i \in 1 .. (n + 1), NEW k \in 1 .. (n + 1), i # k
               PROVE  Key(y[i]) # Key(y[k])
    BY <1>2
  <2>1. CASE i \in 1 .. n /\ k \in 1 .. n
    <3>1. Key(x[i]) # Key(x[k])
      BY <1>1, <1>2, <2>1 DEF Fair
    <3>2. QED
      BY <1>2, <2>1, <3>1
  <2>2. CASE i \in 1 .. n /\ k = n + 1
    BY <1>2, <1>4, <2>2
  <2>3. CASE i = n + 1 /\ k \in 1 .. n
    BY <1>2, <1>4, <2>3
  <2>4. QED
    BY <1>3, <2>1, <2>2, <2>3
<1>6. \A k \in DOMAIN y : \A i \in DOMAIN sample : sample[i].file # 0 => Key(sample[i]) # Key(y[k])
  <2> SUFFICES ASSUME NEW k \in 1 .. (n + 1), NEW i \in DOMAIN sample, sample[i].file # 0
               PROVE  Key(sample[i]) # Key(y[k])
    BY <1>2
  <2>1. CASE k \in 1 .. n
    <3>1. Key(sample[i]) # Key(x[k])
      BY <1>1, <1>2, <2>1 DEF Fair
    <3>2. QED
      BY <1>2, <2>1, <3>1
  <2>2. CASE k = n + 1
    BY <1>2, <1>4, <2>2
  <2>3. QED
    BY <1>3, <2>1, <2>2
<1>7. ASSUME NEW p, p # "ssh_private_key"
      PROVE  CountOf(sample, p) + CountOf(y, p) <= m
  <2> PICK a, b : a = CountOf(sample, p) /\ b = CountOf(x, p)
    OBVIOUS
  <2>1. a \in Nat /\ b \in Nat
    <3>1. IsList(x)
      BY <1>1, ListsAre
    <3>2. QED
      BY <3>1, CountIs
  <2>2. a + b <= m
    BY <1>1, <1>7 DEF Fair
  <2>3. CountOf(y, p) = b + (IF d.rule = p THEN 1 ELSE 0)
    BY <1>1, AppendCounts
  <2>4. CASE d.rule = p
    <3>1. Counted(x, sample, p) = a + b
      <4>1. Counted(x, sample, p) =
              Cardinality({k \in DOMAIN sample : sample[k].rule = p})
              + Cardinality({k \in DOMAIN x : x[k].rule = p})
        BY <1>7 DEF Counted
      <4>2. QED
        BY <4>1 DEF CountOf, PlacesOf
    <3>2. Counted(x, sample, p) < m
      BY <1>7, <2>4
    <3>3. QED
      BY <1>0, <2>1, <2>3, <2>4, <3>1, <3>2
  <2>5. CASE d.rule # p
    BY <1>0, <2>1, <2>2, <2>3, <2>5
  <2>6. QED
    BY <2>4, <2>5
<1>8. Fair(y, sample)
  BY <1>5, <1>6, <1>7 DEF Fair
<1>9. QED
  BY <1>2, <1>8 DEF FairLists

\* What is found on the lines of these candidates.
ReportsOf(candidates) ==
  {HeaderOn(c) : c \in candidates} \cup {MatchOn(c, p) : c \in candidates, p \in ToSet(PatternOrder)}

LEMMA HeaderIsFair ==
  ASSUME NEW candidates, NEW c \in candidates, NEW sample, IsList(sample),
         NEW x \in FairLists(ReportsOf(candidates), sample)
  PROVE  TryHeader(c, x, sample) \in FairLists(ReportsOf(candidates), sample)
<1>1. HeaderOn(c) \in ReportsOf(candidates) /\ HeaderOn(c).rule = "ssh_private_key"
  BY DEF ReportsOf, HeaderOn, Found
<1>2. CASE Key(HeaderOn(c)) \notin Seen(x, sample)
  <2>1. Append(x, HeaderOn(c)) \in FairLists(ReportsOf(candidates), sample)
    BY <1>1, <1>2, AppendIsFair
  <2>2. QED
    BY <2>1 DEF TryHeader
<1>3. CASE Key(HeaderOn(c)) \in Seen(x, sample)
  BY <1>3 DEF TryHeader
<1>4. QED
  BY <1>2, <1>3

LEMMA PatternIsFair ==
  ASSUME NEW candidates, NEW c \in candidates, NEW sample, IsList(sample),
         NEW x \in FairLists(ReportsOf(candidates), sample), NEW p \in ToSet(PatternOrder)
  PROVE  TryPattern(c, x, sample, p) \in FairLists(ReportsOf(candidates), sample)
<1> PICK m : m = MAX_MATCHES_PER_PATTERN
  OBVIOUS
<1>1. MatchOn(c, p) \in ReportsOf(candidates)
  BY DEF ReportsOf
<1>0. MatchOn(c, p).rule = p
  BY DEF MatchOn, Found
<1>2. CASE Key(MatchOn(c, p)) \notin Seen(x, sample) /\ Counted(x, sample, p) < m
  <2>1. Append(x, MatchOn(c, p)) \in FairLists(ReportsOf(candidates), sample)
    BY <1>0, <1>1, <1>2, AppendIsFair
  <2>2. QED
    BY <2>1 DEF TryPattern
<1>3. CASE ~ (Key(MatchOn(c, p)) \notin Seen(x, sample) /\ Counted(x, sample, p) < m)
  BY <1>3 DEF TryPattern
<1>4. QED
  BY <1>2, <1>3

\* The patterns that fit on a line, one after the other.
LineWalk(list, c, sample, base, g) ==
  g = [s \in SUBSET DOMAIN list |->
         IF s = {} THEN base
         ELSE TryPattern(c, g[s \ {Max(s)}], sample, list[Max(s)])]

LEMMA LineFold ==
  ASSUME NEW c, NEW x, NEW sample, NEW list, list = PatternsIn({c.words}),
         NEW base, base = TryHeader(c, x, sample)
  PROVE  TryLine(c, x, sample) = (CHOOSE g : LineWalk(list, c, sample, base, g))[DOMAIN list]
BY Zenon DEF TryLine, FoldLeft, MapThenFoldSet, LineWalk

LEMMA LineIsFair ==
  ASSUME NEW candidates, NEW c \in candidates, NEW sample, IsList(sample),
         NEW x \in FairLists(ReportsOf(candidates), sample)
  PROVE  TryLine(c, x, sample) \in FairLists(ReportsOf(candidates), sample)
<1> PICK list, n, base, T :
      /\ list = PatternsIn({c.words}) /\ n = Len(list)
      /\ base = TryHeader(c, x, sample) /\ T = FairLists(ReportsOf(candidates), sample)
  OBVIOUS
<1>1. n \in Nat /\ DOMAIN list = 1 .. n
  <2>1. IsList(list)
    BY PatternsListed
  <2>2. QED
    BY <2>1, ListFacts
<1> DEFINE step == [v \in T \X (1 .. n) |-> TryPattern(c, v[1], sample, list[v[2]])]
<1>2. \A k \in 1 .. n : list[k] \in ToSet(PatternOrder)
  BY <1>1, PatternsListed
<1>3. base \in T
  BY HeaderIsFair
<1>4. \A y \in T, k \in 1 .. n : TryPattern(c, y, sample, list[k]) \in T
  BY <1>2, PatternIsFair
<1>5. step \in [T \X (1 .. n) -> T]
  BY <1>4
<1>6. \A y \in T, k \in 1 .. n : step[<<y, k>>] = TryPattern(c, y, sample, list[k])
  OBVIOUS
<1> HIDE DEF step
<1>7. \E g : LineWalk(list, c, sample, base, g)
  <2>1. PICK h \in [SUBSET (1 .. n) -> T] : Follows(h, n, base, step)
    BY <1>1, <1>3, <1>5, FoldExists
  <2>2. ASSUME NEW s \in SUBSET (1 .. n)
        PROVE  h[s] = IF s = {} THEN base ELSE TryPattern(c, h[s \ {Max(s)}], sample, list[Max(s)])
    <3>1. CASE s = {}
      BY <2>1, <3>1 DEF Follows
    <3>2. CASE s # {}
      <4>1. Max(s) \in 1 .. n /\ h[s \ {Max(s)}] \in T
        BY <1>1, <3>2, LatestIs
      <4>2. QED
        BY <1>6, <2>1, <3>2, <4>1 DEF Follows
    <3>3. QED
      BY <3>1, <3>2
  <2>3. LineWalk(list, c, sample, base, h)
    BY <1>1, <2>2 DEF LineWalk
  <2>4. QED
    BY <2>3
<1>8. PICK g : g = (CHOOSE f : LineWalk(list, c, sample, base, f)) /\ LineWalk(list, c, sample, base, g)
  BY <1>7
<1>9. /\ g[{}] = base
      /\ \A s \in SUBSET (1 .. n) :
           s # {} => g[s] = TryPattern(c, g[s \ {Max(s)}], sample, list[Max(s)])
  BY <1>1, <1>8 DEF LineWalk
<1>10. StepsWithin(g, n, T, step)
  <2> SUFFICES ASSUME NEW s \in SUBSET (1 .. n), s # {}, g[s \ {Max(s)}] \in T
               PROVE  g[s] = step[<<g[s \ {Max(s)}], Max(s)>>]
    BY DEF StepsWithin
  <2>1. Max(s) \in 1 .. n
    BY <1>1, LatestIs
  <2>2. QED
    BY <1>6, <1>9, <2>1
<1>11. g[1 .. n] \in T
  <2>1. PICK w : Goes(w, g, n, T, base, step)
    BY <1>1, <1>3, <1>5, <1>9, <1>10, FoldWalks
  <2>2. QED
    BY <2>1 DEF Goes
<1>12. TryLine(c, x, sample) = g[1 .. n]
  BY <1>1, <1>8, LineFold
<1>13. QED
  BY <1>11, <1>12

\* The lines of the whole tree, one after the other.
TreeWalk(candidates, sample, g) ==
  g = [s \in SUBSET DOMAIN candidates |->
         IF s = {} THEN <<>>
         ELSE TryLine(candidates[Max(s)], g[s \ {Max(s)}], sample)]

LEMMA TreeFold ==
  ASSUME NEW candidates, NEW sample
  PROVE  FindFullRepoSecretMatches(candidates, sample)
           = (CHOOSE g : TreeWalk(candidates, sample, g))[DOMAIN candidates]
BY Zenon DEF FindFullRepoSecretMatches, FoldLeft, MapThenFoldSet, TreeWalk

LEMMA TreeIsFair ==
  ASSUME NEW candidates, IsList(candidates), NEW sample, IsList(sample),
         \A p : CountOf(sample, p) <= MAX_MATCHES_PER_PATTERN
  PROVE  FindFullRepoSecretMatches(candidates, sample)
           \in FairLists(ReportsOf(ToSet(candidates)), sample)
<1> PICK n, base, D, T :
      n = Len(candidates) /\ base = <<>> /\ D = ReportsOf(ToSet(candidates)) /\ T = FairLists(D, sample)
  OBVIOUS
<1>1. n \in Nat /\ DOMAIN candidates = 1 .. n
  BY ListFacts
<1> DEFINE step == [v \in T \X (1 .. n) |-> TryLine(candidates[v[2]], v[1], sample)]
<1>2. \A k \in 1 .. n : candidates[k] \in ToSet(candidates)
  BY <1>1 DEF ToSet
<1>3. base \in T
  <2>1. base \in Seq(D)
    OBVIOUS
  <2>2. Fair(base, sample)
    <3>1. DOMAIN base = {}
      OBVIOUS
    <3>2. ASSUME NEW p PROVE CountOf(sample, p) + CountOf(base, p) <= MAX_MATCHES_PER_PATTERN
      <4>1. PlacesOf(base, p) = {}
        BY <3>1 DEF PlacesOf
      <4>2. CountOf(base, p) = 0
        BY <4>1, FS_EmptySet DEF CountOf
      <4>3. CountOf(sample, p) \in Nat /\ MAX_MATCHES_PER_PATTERN \in Nat
        BY CountIs, BudgetAssumption
      <4>4. CountOf(sample, p) <= MAX_MATCHES_PER_PATTERN
        OBVIOUS
      <4>5. QED
        BY <4>2, <4>3, <4>4
    <3>3. QED
      BY <3>1, <3>2 DEF Fair
  <2>3. QED
    BY <2>1, <2>2 DEF FairLists
<1>4. \A y \in T, k \in 1 .. n : TryLine(candidates[k], y, sample) \in T
  BY <1>2, LineIsFair
<1>5. step \in [T \X (1 .. n) -> T]
  BY <1>4
<1>6. \A y \in T, k \in 1 .. n : step[<<y, k>>] = TryLine(candidates[k], y, sample)
  OBVIOUS
<1> HIDE DEF step
<1>7. \E g : TreeWalk(candidates, sample, g)
  <2>1. PICK h \in [SUBSET (1 .. n) -> T] : Follows(h, n, base, step)
    BY <1>1, <1>3, <1>5, FoldExists
  <2>2. ASSUME NEW s \in SUBSET (1 .. n)
        PROVE  h[s] = IF s = {} THEN base ELSE TryLine(candidates[Max(s)], h[s \ {Max(s)}], sample)
    <3>1. CASE s = {}
      BY <2>1, <3>1 DEF Follows
    <3>2. CASE s # {}
      <4>1. Max(s) \in 1 .. n /\ h[s \ {Max(s)}] \in T
        BY <1>1, <3>2, LatestIs
      <4>2. QED
        BY <1>6, <2>1, <3>2, <4>1 DEF Follows
    <3>3. QED
      BY <3>1, <3>2
  <2>3. TreeWalk(candidates, sample, h)
    BY <1>1, <2>2 DEF TreeWalk
  <2>4. QED
    BY <2>3
<1>8. PICK g : g = (CHOOSE f : TreeWalk(candidates, sample, f)) /\ TreeWalk(candidates, sample, g)
  BY <1>7
<1>9. /\ g[{}] = base
      /\ \A s \in SUBSET (1 .. n) :
           s # {} => g[s] = TryLine(candidates[Max(s)], g[s \ {Max(s)}], sample)
  BY <1>1, <1>8 DEF TreeWalk
<1>10. StepsWithin(g, n, T, step)
  <2> SUFFICES ASSUME NEW s \in SUBSET (1 .. n), s # {}, g[s \ {Max(s)}] \in T
               PROVE  g[s] = step[<<g[s \ {Max(s)}], Max(s)>>]
    BY DEF StepsWithin
  <2>1. Max(s) \in 1 .. n
    BY <1>1, LatestIs
  <2>2. QED
    BY <1>6, <1>9, <2>1
<1>11. g[1 .. n] \in T
  <2>1. PICK w : Goes(w, g, n, T, base, step)
    BY <1>1, <1>3, <1>5, <1>9, <1>10, FoldWalks
  <2>2. QED
    BY <2>1 DEF Goes
<1>12. FindFullRepoSecretMatches(candidates, sample) = g[1 .. n]
  BY <1>1, <1>8, TreeFold
<1>13. QED
  BY <1>11, <1>12

\* The two passes together, for one repository.
ReportsOnce(ctx) ==
  LET sample == SampleMatches(ctx)
      whole == FindFullRepoSecretMatches(ctx.candidates, sample)
      Of(p) == {k \in 1..(Len(sample) + Len(whole)) : (sample \o whole)[k].rule = p}
  IN /\ \A k \in DOMAIN whole :
          /\ \A i \in DOMAIN sample : sample[i].file # 0 => Key(sample[i]) # Key(whole[k])
          /\ \A i \in DOMAIN whole : i # k => Key(whole[i]) # Key(whole[k])
     /\ \A p \in DOMAIN SECRET_PATTERNS \ {"ssh_private_key"} :
          Cardinality(Of(p)) <= MAX_MATCHES_PER_PATTERN

LEMMA PassesReportOnce ==
  ASSUME NEW ctx, IsList(ctx.candidates), IsList(ctx.haystacks),
         \A h \in ToSet(ctx.haystacks) : IsList(h.lines)
  PROVE  ReportsOnce(ctx)
<1> PICK sample, whole, m :
      /\ sample = SampleMatches(ctx) /\ whole = FindFullRepoSecretMatches(ctx.candidates, sample)
      /\ m = MAX_MATCHES_PER_PATTERN
  OBVIOUS
<1>1. IsList(sample) /\ \A p : CountOf(sample, p) <= m
  BY SampleKeepsBudget
<1> PICK D : D = ReportsOf(ToSet(ctx.candidates))
  OBVIOUS
<1>2. whole \in Seq(D) /\ Fair(whole, sample)
  BY <1>1, TreeIsFair DEF FairLists
<1>3. ASSUME NEW p, p # "ssh_private_key"
      PROVE  Cardinality({k \in 1 .. (Len(sample) + Len(whole)) : (sample \o whole)[k].rule = p}) <= m
  <2> DEFINE V == D \cup ToSet(sample)
  <2>1. sample \in Seq(V) /\ whole \in Seq(V)
    <3> sample \in Seq(ToSet(sample))
      BY <1>1 DEF IsList
    <3> HIDE DEF V
    <3>1. D \subseteq V /\ ToSet(sample) \subseteq V
      BY DEF V
    <3>2. QED
      BY <1>2, <3>1, SeqMonotonic
  <2> HIDE DEF V
  <2>2. CountOf(sample \o whole, p) = CountOf(sample, p) + CountOf(whole, p)
    BY <2>1, ConcatCounts
  <2>3. DOMAIN (sample \o whole) = 1 .. (Len(sample) + Len(whole))
    <3>1. Len(sample \o whole) = Len(sample) + Len(whole) /\ sample \o whole \in Seq(V)
      BY <2>1, ConcatProperties
    <3>2. QED
      BY <3>1
  <2>4. CountOf(sample, p) + CountOf(whole, p) <= m
    BY <1>2, <1>3 DEF Fair
  <2>5. QED
    BY <2>2, <2>3, <2>4 DEF CountOf, PlacesOf
<1>4. QED
  BY <1>2, <1>3 DEF Fair, ReportsOnce

-----------------------------------------------------------------------------
(* What was read of a repository is in lists.                                *)

\* What the assumptions say of a version of a repository.
Sound(repo) ==
  /\ IsList(repo.files) /\ IsList(repo.commits) /\ IsFiniteSet(repo.description)
  /\ \A f \in ToSet(repo.files) : f.kind \in DOMAIN KindPriority /\ AreLines(f.lines)
  /\ \A c \in ToSet(repo.commits) : IsList(c.patches) /\ \A p \in ToSet(c.patches) : AreLines(p)

LEMMA FilesAre ==
  ASSUME NEW repo, Sound(repo)
  PROVE  /\ Len(repo.files) \in Nat /\ DOMAIN repo.files = 1 .. Len(repo.files)
         /\ \A i \in DOMAIN repo.files :
              repo.files[i].kind \in DOMAIN KindPriority /\ AreLines(repo.files[i].lines)
<1>1. \A i \in DOMAIN repo.files : repo.files[i] \in ToSet(repo.files)
  BY DEF ToSet
<1>2. QED
  BY <1>1, ListFacts DEF Sound

LEMMA SelectedAre ==
  ASSUME NEW repo, Sound(repo), NEW visible \in SUBSET DOMAIN repo.files, NEW aliases, NEW max \in Nat
  PROVE  Selected(repo, visible, aliases, max) \in Seq(visible)
<1> DEFINE RankAt(i) == PathPriority(repo.files[i], aliases)
           Before(i, j) == RankAt(i) > RankAt(j) \/ (RankAt(i) = RankAt(j) /\ i < j)
           S == {i \in visible : IsText(repo.files[i])}
           R == {p \in S \X S : Before(p[1], p[2])}
           Member(k) == CHOOSE i \in S : Cardinality({j \in S : Before(j, i)}) = k - 1
           ranked == [k \in 1 .. Cardinality(S) |-> Member(k)]
<1>1. \A i \in S : i \in Int /\ RankAt(i) \in Int
  <2>1. \A k \in DOMAIN KindPriority : KindPriority[k] \in Int
    BY DEF KindPriority
  <2>2. \A i \in S : i \in DOMAIN repo.files /\ i \in Int
    BY FilesAre
  <2>3. \A i \in S : RankAt(i) \in {82, KindPriority[repo.files[i].kind]}
    BY DEF PathPriority
  <2> HIDE DEF RankAt
  <2>4. QED
    BY <2>1, <2>2, <2>3, FilesAre
<1>2. IsFiniteSet(S)
  <2>1. IsFiniteSet(DOMAIN repo.files)
    <3> PICK n : n = Len(repo.files)
      OBVIOUS
    <3>1. n \in Nat /\ DOMAIN repo.files = 1 .. n
      BY FilesAre
    <3>2. IsFiniteSet(1 .. n)
      BY <3>1, FS_Interval
    <3>3. QED
      BY <3>1, <3>2
  <2>2. S \in SUBSET DOMAIN repo.files
    OBVIOUS
  <2>3. QED
    BY <2>1, <2>2, FS_Subset
<1> HIDE DEF RankAt
<1>3. \A i, j \in S : <<i, j>> \in R <=> Before(i, j)
  OBVIOUS
<1>4. \A k \in 1 .. Cardinality(S) : Places(S, R, k) # {}
  <2> HIDE DEF S, R
  <2>1. \A i \in S : <<i, i>> \notin R
    BY <1>1, <1>3
  <2>2. \A i, j \in S : i # j => <<i, j>> \in R \/ <<j, i>> \in R
    BY <1>1, <1>3
  <2>3. \A i, j, k \in S : <<i, j>> \in R /\ <<j, k>> \in R => <<i, k>> \in R
    BY <1>1, <1>3
  <2>4. QED
    BY <1>2, <2>1, <2>2, <2>3, PlacesAre
<1>5. \A i \in S : Below(S, R, i) = {j \in S : Before(j, i)}
  BY <1>3 DEF Below
<1>6. \A k \in 1 .. Cardinality(S) : Member(k) \in S
  <2> SUFFICES ASSUME NEW k \in 1 .. Cardinality(S)
               PROVE  Member(k) \in S
    OBVIOUS
  <2> HIDE DEF S, R, Before
  <2>1. \E i \in S : Cardinality({j \in S : Before(j, i)}) = k - 1
    BY <1>4, <1>5 DEF Places
  <2>2. QED
    BY <2>1
<1>7. Selected(repo, visible, aliases, max) = UpTo(ranked, max)
  BY DEF Selected, Sorted, RankAt
<1> HIDE DEF Member, Before, R
<1>8. ranked \in [1 .. Cardinality(S) -> visible]
  <2>1. \A k \in 1 .. Cardinality(S) : Member(k) \in visible
    BY <1>6
  <2> HIDE DEF S
  <2>2. QED
    BY <2>1
<1> HIDE DEF ranked
<1>9. ranked \in Seq(visible)
  <2>1. Cardinality(S) \in Nat
    BY <1>2, FS_CardinalityType
  <2> HIDE DEF S
  <2>2. QED
    BY <1>8, <2>1, FunctionsAre
<1>10. QED
  BY <1>7, <1>9, UpToIs

\* Lists of lists of lines.
LEMMA LinesAreLists ==
  ASSUME NEW X, \A h \in X : AreLines(h.lines), NEW s \in Seq(X)
  PROVE  IsList(s) /\ \A h \in ToSet(s) : AreLines(h.lines)
<1>1. ToSet(s) \subseteq X
  BY DEF ToSet
<1>2. QED
  BY <1>1, ListsAre

LEMMA SingleIs == ASSUME NEW S, NEW x \in S PROVE <<x>> \in Seq(S)
OBVIOUS

LEMMA HaystacksAre ==
  ASSUME NEW repo, Sound(repo), NEW visible \in SUBSET DOMAIN repo.files, NEW aliases, NEW max \in Nat,
         NEW all, all = Haystacks(repo, visible, aliases, max)
  PROVE  IsList(all) /\ \A h \in ToSet(all) : AreLines(h.lines)
<1> PICK picked, description :
      /\ picked = Selected(repo, visible, aliases, max)
      /\ description = Haystack("description", 0, FALSE, <<repo.description>>)
  OBVIOUS
<1> PICK chosen, readme :
      /\ chosen = Those(picked, {k \in DOMAIN picked : Readable(repo, picked[k])})
      /\ readme = ReadmeOf(repo, visible)
  OBVIOUS
<1> DEFINE OfReadme == Haystack("readme", readme, FALSE, repo.files[readme].lines)
           X == {description} \cup {FileHaystack(repo, i) : i \in visible}
                \cup (IF readme = 0 THEN {} ELSE {OfReadme})
           first == IF readme = 0 THEN <<>> ELSE <<OfReadme>>
           files == [k \in DOMAIN chosen |-> FileHaystack(repo, chosen[k])]
<1>1. all = <<description>> \o first \o files
  BY DEF Haystacks
<1>2. \A h \in X : AreLines(h.lines)
  <2>1. AreLines(description.lines)
    <3>1. description.lines = <<repo.description>>
      BY DEF Haystack
    <3>2. <<repo.description>> \in Seq({repo.description})
      OBVIOUS
    <3>3. ToSet(<<repo.description>>) = {repo.description}
      BY DEF ToSet
    <3>4. QED
      BY <3>1, <3>2, <3>3, ListsAre DEF AreLines, Sound
  <2>2. \A i \in visible : AreLines(FileHaystack(repo, i).lines)
    BY FilesAre DEF FileHaystack, Haystack
  <2>3. readme # 0 => AreLines(OfReadme.lines)
    <3> SUFFICES ASSUME readme # 0 PROVE AreLines(OfReadme.lines)
      OBVIOUS
    <3> PICK named : named = {i \in visible : repo.files[i].kind = "readme" /\ Readable(repo, i)}
      OBVIOUS
    <3>1. named # {} /\ readme = Min(named)
      BY DEF ReadmeOf
    <3>2. named \in SUBSET Nat
      <4>1. visible \in SUBSET Nat
        BY FilesAre
      <4>2. QED
        BY <4>1
    <3>3. \E m \in named : \A k \in named : m <= k
      BY <3>1, <3>2, LeastIs
    <3>4. readme \in named
      BY <3>1, <3>3 DEF Min
    <3>5. QED
      BY <3>4, FilesAre DEF Haystack
  <2> HIDE DEF OfReadme
  <2>4. QED
    BY <2>1, <2>2, <2>3
<1>3. chosen \in Seq(visible)
  <2>1. picked \in Seq(visible)
    BY SelectedAre
  <2>2. QED
    BY <2>1, ThoseListed
<1>4. files \in Seq(X)
  <2> PICK l : l = Len(chosen)
    OBVIOUS
  <2> HIDE DEF X, files
  <2>1. l \in Nat /\ DOMAIN chosen = 1 .. l /\ \A k \in 1 .. l : chosen[k] \in visible
    <3>1. l \in Nat /\ DOMAIN chosen = 1 .. l
      BY <1>3
    <3>2. \A k \in 1 .. l : chosen[k] \in visible
      BY <1>3, ElementOfSeq
    <3>3. QED
      BY <3>1, <3>2
  <2> USE DEF X, files
  <2>2. files \in [1 .. l -> X]
    BY <2>1
  <2> HIDE DEF X, files
  <2>3. QED
    BY <2>1, <2>2, FunctionsAre
<1>5. <<description>> \in Seq(X) /\ first \in Seq(X)
  <2>1. description \in X /\ (readme # 0 => OfReadme \in X)
    OBVIOUS
  <2> HIDE DEF X, OfReadme
  <2>2. <<description>> \in Seq(X)
    BY <2>1, SingleIs
  <2>3. CASE readme = 0
    <3>1. first = <<>>
      BY <2>3
    <3>2. <<>> \in Seq(X)
      OBVIOUS
    <3>3. QED
      BY <2>2, <3>1, <3>2
  <2>4. CASE readme # 0
    <3>1. <<OfReadme>> \in Seq(X)
      BY <2>1, <2>4, SingleIs
    <3>2. QED
      BY <2>2, <2>4, <3>1
  <2>5. QED
    BY <2>3, <2>4
<1> HIDE DEF X, first, files
<1>6. all \in Seq(X)
  <2>1. <<description>> \o first \in Seq(X)
    BY <1>5, ConcatProperties
  <2>2. QED
    BY <1>1, <1>4, <2>1, ConcatProperties
<1>7. QED
  BY <1>2, <1>6, LinesAreLists

LEMMA CandidatesAre ==
  ASSUME NEW repo, Sound(repo)
  PROVE  IsList(GrepSecretAnchors(repo))
<1> DEFINE Lines(i) == [n \in DOMAIN repo.files[i].lines |-> <<i, n>>]
           searched == Ascending({i \in Tree(repo) : repo.files[i].kind \notin {"lock", "apk"}})
           c == Cardinality({i \in Tree(repo) : repo.files[i].kind \notin {"lock", "apk"}})
           lists == [k \in 1 .. c |-> Lines(searched[k])]
           U == UNION {ToSet(Lines(i)) : i \in DOMAIN repo.files}
<1>1. c \in Nat /\ DOMAIN searched = 1 .. c /\ \A k \in 1 .. c : searched[k] \in DOMAIN repo.files
  <2> PICK n, places :
        n = Len(repo.files) /\ places = {i \in Tree(repo) : repo.files[i].kind \notin {"lock", "apk"}}
    OBVIOUS
  <2>1. n \in Nat /\ DOMAIN repo.files = 1 .. n
    BY FilesAre
  <2>2. places \in SUBSET (1 .. n)
    BY <2>1 DEF Tree
  <2> PICK at : at = Ascending(places)
    OBVIOUS
  <2>3. Cardinality(places) \in Nat /\ DOMAIN at = 1 .. Cardinality(places) /\ \A k \in DOMAIN at : at[k] \in places
    BY <2>1, <2>2, AscendingIs
  <2>4. QED
    BY <2>1, <2>2, <2>3
<1>2. \A i \in DOMAIN repo.files : Lines(i) \in Seq(U)
  <2> SUFFICES ASSUME NEW i \in DOMAIN repo.files
               PROVE  Lines(i) \in Seq(U)
    OBVIOUS
  <2> PICK l : l = Len(repo.files[i].lines)
    OBVIOUS
  <2>1. l \in Nat /\ DOMAIN repo.files[i].lines = 1 .. l
    BY FilesAre, ListFacts DEF AreLines
  <2>2. \A n \in 1 .. l : Lines(i)[n] \in ToSet(Lines(i))
    BY <2>1 DEF ToSet
  <2>3. ToSet(Lines(i)) \subseteq U
    OBVIOUS
  <2>4. Lines(i) = [n \in 1 .. l |-> Lines(i)[n]]
    BY <2>1
  <2> HIDE DEF U, Lines
  <2>5. Lines(i) \in [1 .. l -> U]
    BY <2>2, <2>3, <2>4
  <2>6. QED
    BY <2>1, <2>5, FunctionsAre
<1>3. Grepped(repo) = FlattenSeq(lists)
  BY <1>1 DEF Grepped
<1> HIDE DEF U, Lines, searched, c
<1>4. lists \in Seq(Seq(U))
  <2>1. lists \in [1 .. c -> Seq(U)]
    BY <1>1, <1>2
  <2> HIDE DEF lists
  <2>2. QED
    BY <1>1, <2>1, FunctionsAre
<1> HIDE DEF lists
<1>5. Grepped(repo) \in Seq(U)
  <2>1. PICK w : w[Len(lists)] = FlattenSeq(lists) /\ w[Len(lists)] \in Seq(U)
    BY <1>4, FlatWalks
  <2>2. QED
    BY <1>3, <2>1
<1> DEFINE Anchored(p) == \E w \in LineAt(repo, p) : \/ w.as = "secret" /\ w.of \notin Unanchored
                                                    \/ w.as \in {"loose", "opens"}
<1> PICK lines, found : lines = Grepped(repo) /\ found = GrepSecretAnchors(repo)
  OBVIOUS
<1> PICK hits : hits = Those(lines, {k \in DOMAIN lines : Anchored(lines[k])})
  OBVIOUS
<1>6. DOMAIN found = DOMAIN hits /\ found = [k \in DOMAIN hits |-> found[k]]
  BY DEF GrepSecretAnchors
<1> HIDE DEF Anchored
<1>7. hits \in Seq(U)
  BY <1>5, ThoseListed
<1> PICK l : l = Len(hits)
  OBVIOUS
<1>8. l \in Nat /\ DOMAIN hits = 1 .. l
  BY <1>7
<1>9. found \in [1 .. l -> ToSet(found)]
  <2>1. \A k \in 1 .. l : found[k] \in ToSet(found)
    BY <1>6, <1>8 DEF ToSet
  <2>2. QED
    BY <1>6, <1>8, <2>1
<1>10. QED
  BY <1>8, <1>9, FunctionsAre DEF IsList

\* What the passes over a repository need to know of what was read.
InLists(ctx) ==
  /\ ContextFields \subseteq DOMAIN ctx
  /\ IsList(ctx.candidates) /\ IsList(ctx.haystacks)
  /\ \A h \in ToSet(ctx.haystacks) : AreLines(h.lines)

LEMMA ContextIsListed ==
  ASSUME NEW repo, Sound(repo), NEW names, NEW words, NEW greps, NEW treeKnown, NEW ctx,
         \/ ctx = CloneContext(repo, names, words, greps)
         \/ ctx = OnBranch(CloneContext(repo, names, words, greps))
         \/ ctx = RestContext(repo, names, treeKnown)
  PROVE  InLists(ctx)
<1>1. ASSUME NEW visible \in SUBSET DOMAIN repo.files, NEW max \in Nat,
             NEW brandHits, NEW keywordHits, NEW candidates, IsList(candidates)
      PROVE  InLists(Context(repo, visible, Haystacks(repo, visible, ToSet(names), max),
                             brandHits, keywordHits, candidates))
  <2> PICK all, x :
        /\ all = Haystacks(repo, visible, ToSet(names), max)
        /\ x = Context(repo, visible, all, brandHits, keywordHits, candidates)
    OBVIOUS
  <2>1. IsList(all) /\ \A h \in ToSet(all) : AreLines(h.lines)
    BY HaystacksAre
  <2>2. DOMAIN x = ContextFields /\ x.haystacks = all /\ x.candidates = candidates
    BY DEF Context, ContextFields
  <2>3. QED
    BY <1>1, <2>1, <2>2 DEF InLists
<1>2. IsList(<<>>)
  <2>1. <<>> \in Seq({})
    OBVIOUS
  <2>2. QED
    BY <2>1, ListsAre
<1>3. CLONE_MAX_FILES \in Nat /\ MAX_FILES \in Nat /\ Tree(repo) \in SUBSET DOMAIN repo.files
  BY LimitsAssumption DEF Tree
<1>4. InLists(CloneContext(repo, names, words, greps))
  <2> PICK candidates : candidates = IF "secret" \in greps THEN GrepSecretAnchors(repo) ELSE <<>>
    OBVIOUS
  <2>1. IsList(candidates)
    BY <1>2, CandidatesAre
  <2>2. QED
    BY <1>1, <1>3, <2>1 DEF CloneContext
<1>5. InLists(RestContext(repo, names, treeKnown))
  <2> PICK visible : visible = {i \in DOMAIN repo.files : treeKnown \/ repo.files[i].root}
    OBVIOUS
  <2>1. visible \in SUBSET DOMAIN repo.files
    OBVIOUS
  <2>2. InLists(Context(repo, visible, Haystacks(repo, visible, ToSet(names), MAX_FILES), {}, {}, <<>>))
    BY <1>1, <1>2, <1>3, <2>1
  <2>3. QED
    BY <2>2 DEF RestContext
<1>6. ASSUME NEW c, InLists(c)
      PROVE  InLists(OnBranch(c))
  <2>1. /\ DOMAIN OnBranch(c) = DOMAIN c
        /\ OnBranch(c).haystacks = c.haystacks /\ OnBranch(c).candidates = c.candidates
    BY <1>6 DEF InLists, ContextFields, OnBranch
  <2>2. QED
    BY <1>6, <2>1 DEF InLists
<1>7. QED
  BY <1>4, <1>5, <1>6

LEMMA HistoryIsListed ==
  ASSUME NEW ctx, InLists(ctx), NEW repo, Sound(repo)
  PROVE  InLists(AppendHistory(ctx, repo.commits))
<1> PICK commits, n : commits = repo.commits /\ n = Len(commits)
  OBVIOUS
<1> DEFINE lists == [k \in 1 .. n |-> commits[k].patches]
           U == UNION {ToSet(commits[k].patches) : k \in 1 .. n}
<1>1. /\ n \in Nat /\ DOMAIN commits = 1 .. n
      /\ \A k \in 1 .. n : IsList(commits[k].patches) /\ \A p \in ToSet(commits[k].patches) : AreLines(p)
  <2>1. n \in Nat /\ DOMAIN commits = 1 .. n
    BY ListFacts DEF Sound
  <2>2. \A k \in 1 .. n : commits[k] \in ToSet(commits)
    BY <2>1 DEF ToSet
  <2>3. QED
    BY <2>1, <2>2 DEF Sound
<1>2. \A p \in U : AreLines(p)
  BY <1>1
<1>3. \A k \in 1 .. n : commits[k].patches \in Seq(U)
  <2> SUFFICES ASSUME NEW k \in 1 .. n
               PROVE  commits[k].patches \in Seq(U)
    OBVIOUS
  <2>1. commits[k].patches \in Seq(ToSet(commits[k].patches))
    BY <1>1 DEF IsList
  <2>2. ToSet(commits[k].patches) \subseteq U
    OBVIOUS
  <2> HIDE DEF U
  <2>3. QED
    BY <2>1, <2>2, SeqMonotonic
<1> HIDE DEF U
<1>4. lists \in Seq(Seq(U))
  <2>1. lists \in [1 .. n -> Seq(U)]
    BY <1>3
  <2> HIDE DEF lists
  <2>2. QED
    BY <1>1, <2>1, FunctionsAre
<1> PICK touched : touched = FlattenSeq([k \in DOMAIN commits |-> commits[k].patches])
  OBVIOUS
<1>5. touched \in Seq(U)
  <2>1. touched = FlattenSeq(lists)
    BY <1>1
  <2> HIDE DEF lists
  <2>2. PICK w : w[Len(lists)] = FlattenSeq(lists) /\ w[Len(lists)] \in Seq(U)
    BY <1>4, FlatWalks
  <2>3. QED
    BY <2>1, <2>2
<1> HIDE DEF lists
<1> PICK patches : patches = Those(touched, {k \in DOMAIN touched : touched[k] # <<>>})
  OBVIOUS
<1>6. patches \in Seq(U)
  BY <1>5, ThoseListed
<1> PICK places : places = {k \in DOMAIN ctx.haystacks : ctx.haystacks[k].source = "file"}
  OBVIOUS
<1> PICK room : room = IF Cardinality(places) >= MAX_ENTRIES THEN 0 ELSE MAX_ENTRIES - Cardinality(places)
  OBVIOUS
<1>7. room \in Nat
  <2> PICK l : l = Len(ctx.haystacks)
    OBVIOUS
  <2>1. l \in Nat /\ places \in SUBSET (1 .. l)
    BY ListFacts DEF InLists
  <2>2. IsFiniteSet(1 .. l)
    BY <2>1, FS_Interval
  <2>3. IsFiniteSet(places)
    BY <2>1, <2>2, FS_Subset
  <2>4. Cardinality(places) \in Nat /\ MAX_ENTRIES \in Nat
    BY <2>3, FS_CardinalityType, LimitsAssumption
  <2>5. QED
    BY <2>4
<1> PICK read : read = UpTo(patches, room)
  OBVIOUS
<1>8. read \in Seq(U)
  BY <1>6, <1>7, UpToIs
<1> DEFINE added == [k \in DOMAIN read |-> Haystack("file", -k, FALSE, read[k])]
           X == ToSet(ctx.haystacks) \cup ToSet(added)
<1>9. added \in Seq(ToSet(added)) /\ \A h \in ToSet(added) : AreLines(h.lines)
  <2> PICK l : l = Len(read)
    OBVIOUS
  <2> HIDE DEF added
  <2>1. l \in Nat /\ DOMAIN read = 1 .. l /\ \A k \in 1 .. l : read[k] \in U
    <3>1. l \in Nat /\ DOMAIN read = 1 .. l
      BY <1>8
    <3>2. \A k \in 1 .. l : read[k] \in U
      BY <1>8, ElementOfSeq
    <3>3. QED
      BY <3>1, <3>2
  <2> USE DEF added
  <2>2. \A k \in 1 .. l : added[k].lines = read[k]
    BY <2>1 DEF Haystack
  <2>3. DOMAIN added = 1 .. l /\ \A k \in 1 .. l : added[k] \in ToSet(added)
    BY <2>1 DEF ToSet
  <2>4. added = [k \in 1 .. l |-> added[k]]
    BY <2>1
  <2> HIDE DEF added
  <2>5. added \in [1 .. l -> ToSet(added)]
    BY <2>3, <2>4
  <2>6. \A h \in ToSet(added) : AreLines(h.lines)
    <3> SUFFICES ASSUME NEW h \in ToSet(added) PROVE AreLines(h.lines)
      OBVIOUS
    <3>1. PICK k \in 1 .. l : h = added[k]
      BY <2>3 DEF ToSet
    <3>2. QED
      BY <1>2, <2>1, <2>2, <3>1
  <2>7. QED
    BY <2>1, <2>5, <2>6, FunctionsAre
<1> HIDE DEF added
<1> PICK x : x = AppendHistory(ctx, commits)
  OBVIOUS
<1>10. /\ DOMAIN x = DOMAIN ctx /\ x.candidates = ctx.candidates
       /\ x.haystacks = ctx.haystacks \o added
  BY DEF AppendHistory, InLists, ContextFields, added
<1>11. x.haystacks \in Seq(X) /\ \A h \in X : AreLines(h.lines)
  <2>1. ToSet(ctx.haystacks) \subseteq X /\ ToSet(added) \subseteq X
    OBVIOUS
  <2>2. \A h \in X : AreLines(h.lines)
    BY <1>9 DEF InLists
  <2>3. ctx.haystacks \in Seq(ToSet(ctx.haystacks))
    BY DEF InLists, IsList
  <2> HIDE DEF X
  <2>4. ctx.haystacks \in Seq(X) /\ added \in Seq(X)
    BY <1>9, <2>1, <2>3, SeqMonotonic
  <2>5. QED
    BY <1>10, <2>2, <2>4, ConcatProperties
<1> HIDE DEF X
<1>12. IsList(x.haystacks) /\ \A h \in ToSet(x.haystacks) : AreLines(h.lines)
  BY <1>11, LinesAreLists
<1>13. QED
  BY <1>10, <1>12 DEF InLists

\* What an analysis has read is in lists, as long as it works on it.
ReadInv ==
  /\ DOMAIN jobs = DOMAIN Repo
  /\ \A r \in DOMAIN Repo :
       /\ {"stage", "round"} \subseteq DOMAIN jobs[r] /\ jobs[r].round \in Nat \ {0}
       /\ jobs[r].stage \notin {"idle", "found"} => "ctx" \in DOMAIN jobs[r] /\ InLists(jobs[r].ctx)

LEMMA NowIsSound ==
  ASSUME ReadInv, NEW r \in DOMAIN Repo
  PROVE  Sound(Now(r))
<1> PICK list, n, round : list = Repo[r] /\ n = Len(list) /\ round = jobs[r].round
  OBVIOUS
<1>1. IsList(list) /\ list # <<>> /\ \A repo \in ToSet(list) : Sound(repo)
  BY RepositoriesAssumption DEF Sound
<1>2. n \in Nat \ {0} /\ DOMAIN list = 1 .. n /\ round \in Nat \ {0}
  <2>1. n \in Nat /\ DOMAIN list = 1 .. n
    BY <1>1, ListFacts
  <2>2. list \in Seq(ToSet(list))
    BY <1>1 DEF IsList
  <2>3. n # 0
    BY <1>1, <2>2, EmptySeq
  <2>4. QED
    BY <2>1, <2>3 DEF ReadInv
<1> PICK k : k = Min({round, n})
  OBVIOUS
<1>3. k \in 1 .. n
  <2>1. \E m \in {round, n} : \A j \in {round, n} : m <= j
    BY <1>2
  <2>2. k \in {round, n} /\ \A j \in {round, n} : k <= j
    BY <2>1 DEF Min
  <2>3. QED
    BY <1>2, <2>2
<1>4. list[k] \in ToSet(list)
  BY <1>2, <1>3 DEF ToSet
<1>5. Now(r) = list[k]
  BY DEF Now, Held
<1>6. QED
  BY <1>1, <1>4, <1>5

LEMMA ReadingKeeps ==
  ASSUME ReadInv, NEW r \in DOMAIN Repo, NEW x, jobs' = [jobs EXCEPT ![r] = x],
         {"stage", "round"} \subseteq DOMAIN x, x.round \in Nat \ {0},
         x.stage \notin {"idle", "found"} => "ctx" \in DOMAIN x /\ InLists(x.ctx)
  PROVE  ReadInv'
<1>1. /\ DOMAIN jobs' = DOMAIN Repo /\ jobs'[r] = x
      /\ \A q \in DOMAIN Repo : q # r => jobs'[q] = jobs[q]
  BY DEF ReadInv
<1>2. ASSUME NEW q \in DOMAIN Repo
      PROVE  /\ {"stage", "round"} \subseteq DOMAIN jobs'[q] /\ jobs'[q].round \in Nat \ {0}
             /\ jobs'[q].stage \notin {"idle", "found"} => "ctx" \in DOMAIN jobs'[q] /\ InLists(jobs'[q].ctx)
  <2>1. CASE q = r
    BY <1>1, <2>1
  <2>2. CASE q # r
    BY <1>1, <2>2 DEF ReadInv
  <2>3. QED
    BY <2>1, <2>2
<1>3. QED
  BY <1>1, <1>2 DEF ReadInv

LEMMA AttributionIsListed ==
  ASSUME NEW work, NEW ctx, InLists(ctx), NEW profile, NEW x, x = Attribute(work, ctx, profile)
  PROVE  /\ "stage" \in DOMAIN x /\ "round" \in DOMAIN x /\ "ctx" \in DOMAIN x
         /\ x.round = work.round /\ InLists(x.ctx)
<1>1. PICK p : x.ctx = [ctx EXCEPT !.profile = p]
  BY DEF Attribute
<1>2. /\ DOMAIN x.ctx = DOMAIN ctx
      /\ x.ctx.haystacks = ctx.haystacks /\ x.ctx.candidates = ctx.candidates
  BY <1>1 DEF InLists, ContextFields
<1>3. InLists(x.ctx)
  BY <1>2 DEF InLists
<1>4. {"stage", "round", "ctx"} \subseteq DOMAIN x /\ x.round = work.round
  BY DEF Attribute
<1>5. QED
  BY <1>3, <1>4

LEMMA FetchIsListed ==
  ASSUME ReadInv, NEW r \in DOMAIN Repo, NEW greps, NEW treeKnown,
         Clone(r, greps) \/ FetchOverRest(r, treeKnown)
  PROVE  ReadInv'
<1> PICK repo : repo = Now(r)
  OBVIOUS
<1>1. Sound(repo) /\ jobs[r].round \in Nat \ {0}
  BY NowIsSound DEF ReadInv
<1>2. ASSUME NEW ctx, InLists(ctx), jobs' = [jobs EXCEPT ![r] = Attribute(jobs[r], ctx, repo.profile)]
      PROVE  ReadInv'
  <2> PICK work, profile, x : work = jobs[r] /\ profile = repo.profile /\ x = Attribute(work, ctx, profile)
    OBVIOUS
  <2>1. /\ "stage" \in DOMAIN x /\ "round" \in DOMAIN x /\ "ctx" \in DOMAIN x
        /\ x.round = work.round /\ InLists(x.ctx)
    <3>1. InLists(ctx)
      BY <1>2
    <3>2. InLists(x.ctx)
      BY <3>1, AttributionIsListed
    <3>3. x.round = work.round
      BY <3>1, AttributionIsListed
    <3>4. "stage" \in DOMAIN x
      BY <3>1, AttributionIsListed
    <3>5. "round" \in DOMAIN x /\ "ctx" \in DOMAIN x
      BY <3>1, AttributionIsListed
    <3>6. QED
      BY <3>2, <3>3, <3>4, <3>5
  <2>2. jobs' = [jobs EXCEPT ![r] = x]
    BY <1>2
  <2>3. QED
    BY <1>1, <2>1, <2>2, ReadingKeeps
<1>3. CASE Clone(r, greps)
  <2> PICK cloned : cloned = CloneContext(repo, AllNames, AllKeywords, greps)
    OBVIOUS
  <2> PICK ctx : ctx = IF plan.branch THEN OnBranch(cloned) ELSE cloned
    OBVIOUS
  <2>1. InLists(ctx)
    BY <1>1, ContextIsListed
  <2>2. jobs' = [jobs EXCEPT ![r] = Attribute(jobs[r], ctx, repo.profile)]
    BY <1>3 DEF Clone
  <2>3. QED
    BY <1>2, <2>1, <2>2
<1>4. CASE FetchOverRest(r, treeKnown)
  <2> PICK ctx : ctx = RestContext(repo, AllNames, treeKnown)
    OBVIOUS
  <2>1. InLists(ctx)
    BY <1>1, ContextIsListed
  <2>2. jobs' = [jobs EXCEPT ![r] = Attribute(jobs[r], ctx, repo.profile)]
    BY <1>4 DEF FetchOverRest
  <2>3. QED
    BY <1>2, <2>1, <2>2
<1>5. QED
  BY <1>3, <1>4

LEMMA ReadingStep ==
  ASSUME ReadInv, NEW r \in DOMAIN Repo,
         \/ Find(r) \/ Enumerate(r) \/ AskForBranch(r)
         \/ ReadHistory(r) \/ Detect(r) \/ StoreFingerprints(r) \/ PruneFingerprints(r)
         \/ Score(r) \/ Persist(r) \/ Crash(r) \/ Dismiss(r) \/ Again(r)
  PROVE  ReadInv'
<1>1. /\ DOMAIN jobs = DOMAIN Repo
      /\ {"stage", "round"} \subseteq DOMAIN jobs[r] /\ jobs[r].round \in Nat \ {0}
      /\ jobs[r].stage \notin {"idle", "found"} => "ctx" \in DOMAIN jobs[r] /\ InLists(jobs[r].ctx)
  BY DEF ReadInv
<1>2. ASSUME NEW guess, Start(r, guess)
      PROVE  ReadInv'
  <2> PICK x : x = [jobs[r] EXCEPT !.stage = "found", !.guess = guess]
    OBVIOUS
  <2>1. jobs' = [jobs EXCEPT ![r] = x]
    BY <1>2 DEF Start
  <2>2. DOMAIN x = DOMAIN jobs[r] /\ x.stage = "found" /\ x.round = jobs[r].round
    BY <1>1
  <2>3. QED
    BY <1>1, <2>1, <2>2, ReadingKeeps
<1>3. CASE Find(r) \/ Enumerate(r) \/ AskForBranch(r)
  BY <1>2, <1>3 DEF Find, Enumerate, AskForBranch
<1>4. CASE ReadHistory(r)
  <2> PICK ctx : ctx = AppendHistory(jobs[r].ctx, Now(r).commits)
    OBVIOUS
  <2> PICK x : x = [jobs[r] EXCEPT !.ctx = ctx, !.stage = "read"]
    OBVIOUS
  <2>1. jobs' = [jobs EXCEPT ![r] = x] /\ jobs[r].stage = "fetched"
    BY <1>4 DEF ReadHistory
  <2>2. DOMAIN x = DOMAIN jobs[r] /\ x.ctx = ctx /\ x.round = jobs[r].round
    BY <1>1, <2>1
  <2>3. InLists(ctx)
    BY <1>1, <2>1, HistoryIsListed, NowIsSound
  <2>4. QED
    BY <1>1, <2>1, <2>2, <2>3, ReadingKeeps
<1>5. CASE StoreFingerprints(r) \/ Persist(r) \/ PruneFingerprints(r)
  <2>1. PICK stage : jobs' = [jobs EXCEPT ![r].stage = stage] /\ jobs[r].stage \notin {"idle", "found"}
    BY <1>5 DEF StoreFingerprints, Persist, PruneFingerprints
  <2> PICK x : x = [jobs[r] EXCEPT !.stage = stage]
    OBVIOUS
  <2>2. jobs' = [jobs EXCEPT ![r] = x]
    BY <2>1
  <2>3. DOMAIN x = DOMAIN jobs[r] /\ x.ctx = jobs[r].ctx /\ x.round = jobs[r].round
    BY <1>1, <2>1
  <2>4. QED
    BY <1>1, <2>1, <2>2, <2>3, ReadingKeeps
<1>6. CASE Detect(r) \/ Score(r) \/ Crash(r)
  <2>1. /\ jobs' = [jobs EXCEPT ![r] = jobs'[r]] /\ jobs[r].stage \notin {"idle", "found"}
        /\ {"stage", "round", "ctx"} \subseteq DOMAIN jobs'[r]
        /\ jobs'[r].round = jobs[r].round /\ jobs'[r].ctx = jobs[r].ctx
    <3>1. CASE Detect(r)
      BY <1>1, <3>1 DEF Detect
    <3>2. CASE Score(r)
      BY <1>1, <3>2 DEF Score
    <3>3. CASE Crash(r)
      BY <1>1, <3>3 DEF Crash
    <3>4. QED
      BY <1>6, <3>1, <3>2, <3>3
  <2> PICK x : x = jobs'[r]
    OBVIOUS
  <2>2. QED
    BY <1>1, <2>1, ReadingKeeps
<1>7. CASE Dismiss(r)
  BY <1>7 DEF Dismiss, ReadInv
<1>8. CASE Again(r)
  <2> PICK x : x = Idle(jobs[r].round + 1)
    OBVIOUS
  <2>1. jobs' = [jobs EXCEPT ![r] = x]
    BY <1>8 DEF Again
  <2>2. {"stage", "round"} \subseteq DOMAIN x /\ x.stage = "idle" /\ x.round \in Nat \ {0}
    BY <1>1 DEF Idle
  <2>3. QED
    BY <2>1, <2>2, ReadingKeeps
<1>9. QED
  BY <1>3, <1>4, <1>5, <1>6, <1>7, <1>8

LEMMA ReadingNext ==
  ASSUME ReadInv, [Next]_vars
  PROVE  ReadInv'
<1>1. CASE UNCHANGED jobs
  BY <1>1 DEF ReadInv
<1>2. CASE AnalysisNext
  <2>1. CASE BuildSearchQueries
    BY <1>1, <2>1 DEF BuildSearchQueries
  <2>2. ASSUME NEW r \in DOMAIN Repo, NEW greps, NEW treeKnown,
               Clone(r, greps) \/ FetchOverRest(r, treeKnown)
        PROVE  ReadInv'
    BY <2>2, FetchIsListed
  <2>3. QED
    BY <1>2, <2>1, <2>2, ReadingStep DEF AnalysisNext
<1>3. CASE IngestNext
  BY <1>1, <1>3 DEF IngestNext, pipelineVars
<1>4. CASE AssessmentNext
  <2>1. UNCHANGED jobs
    BY <1>4 DEF AssessmentNext, TakeTask, ForgetTask, Reanalyze, BackfillIntentAssessments, Build,
                Record, Apply, CrashAssessor, Ask, RunDeepReview, pipelineVars
  <2>2. QED
    BY <1>1, <2>1
<1>5. CASE UNCHANGED vars
  BY <1>1, <1>5 DEF vars, pipelineVars
<1>6. QED
  BY <1>2, <1>3, <1>4, <1>5 DEF Next, PipelineNext

LEMMA ReadInvIsEnough ==
  ASSUME ReadInv
  PROVE  NothingReportedTwice
<1>1. ASSUME NEW r \in DOMAIN Repo, Examined(r)
      PROVE  ReportsOnce(jobs[r].ctx)
  <2>1. InLists(jobs[r].ctx)
    BY <1>1 DEF ReadInv, Examined
  <2>2. QED
    BY <2>1, PassesReportOnce DEF InLists, AreLines
<1>2. QED
  BY <1>1 DEF NothingReportedTwice, ReportsOnce

\* What the pass over the sample has reported, the pass over the whole tree does
\* not report again, and together they keep to the budget of each pattern,
\* whatever a repository holds (findFullRepoSecretMatches).
THEOREM NothingIsReportedTwice == Spec => []NothingReportedTwice
<1>1. Init => ReadInv
  BY DEF Init, PipelineInit, ReadInv, Idle
<1>2. ReadInv /\ [Next]_vars => ReadInv'
  BY ReadingNext
<1>3. ReadInv => NothingReportedTwice
  BY ReadInvIsEnough
<1>4. QED
  BY <1>1, <1>2, <1>3, PTL DEF Spec
-----------------------------------------------------------------------------
(* What a score adds up: the sum of what the detections are worth, and the    *)
(* powers by which a repeat counts less.                                      *)

\* What is detected is believed to some percent and worth some points.
Weighs(d) == d.conf \in 0 .. 100 /\ d.points \in 0 .. 45
AreWeighed(s) == IsList(s) /\ \A d \in ToSet(s) : Weighs(d)

\* A fold that adds up numbers, one for each place.
SumWalk(list, amount, g) ==
  g = [s \in SUBSET DOMAIN list |->
         IF s = {} THEN 0 ELSE g[s \ {Max(s)}] + amount[list[Max(s)]]]

TheSum(list, amount, n) == (CHOOSE g : SumWalk(list, amount, g))[1 .. n]

\* The way to such a sum.
Summing(list, amount, n) == n \in Nat /\ amount \in [1 .. n -> Nat] /\ list = [k \in 1 .. n |-> k]
Sums(w, amount, n) ==
  /\ w[0] = 0 /\ w[n] \in Nat
  /\ \A k \in 1 .. n : w[k - 1] \in Nat /\ w[k] \in Nat /\ w[k] = w[k - 1] + amount[k]

LEMMA SumGoes ==
  ASSUME NEW n, NEW amount, NEW list, Summing(list, amount, n)
  PROVE  \E w : Sums(w, amount, n) /\ w[n] = TheSum(list, amount, n)
<1>0. n \in Nat /\ amount \in [1 .. n -> Nat] /\ list = [k \in 1 .. n |-> k]
  BY DEF Summing
<1> DEFINE step == [v \in Nat \X (1 .. n) |-> v[1] + amount[v[2]]]
<1>1. DOMAIN list = 1 .. n /\ \A k \in 1 .. n : list[k] = k
  BY <1>0
<1>2. step \in [Nat \X (1 .. n) -> Nat]
  BY <1>0
<1>3. \A y \in Nat, k \in 1 .. n : step[<<y, k>>] = y + amount[k]
  BY <1>0
<1> HIDE DEF step
<1>4. \E g : SumWalk(list, amount, g)
  <2>1. PICK h \in [SUBSET (1 .. n) -> Nat] : Follows(h, n, 0, step)
    BY <1>0, <1>2, FoldExists
  <2>2. ASSUME NEW s \in SUBSET (1 .. n)
        PROVE  h[s] = IF s = {} THEN 0 ELSE h[s \ {Max(s)}] + amount[list[Max(s)]]
    <3>1. CASE s = {}
      BY <2>1, <3>1 DEF Follows
    <3>2. CASE s # {}
      <4>1. Max(s) \in 1 .. n /\ h[s \ {Max(s)}] \in Nat
        BY <1>0, <2>1, <3>2, LatestIs
      <4>2. QED
        BY <1>1, <1>3, <2>1, <3>2, <4>1 DEF Follows
    <3>3. QED
      BY <3>1, <3>2
  <2>3. SumWalk(list, amount, h)
    BY <1>1, <2>2 DEF SumWalk
  <2>4. QED
    BY <2>3
<1>5. PICK g : g = (CHOOSE f : SumWalk(list, amount, f)) /\ SumWalk(list, amount, g)
  BY <1>4
<1>6. /\ g[{}] = 0
      /\ \A s \in SUBSET (1 .. n) : s # {} => g[s] = g[s \ {Max(s)}] + amount[list[Max(s)]]
  <2>1. g = [s \in SUBSET (1 .. n) |-> IF s = {} THEN 0 ELSE g[s \ {Max(s)}] + amount[list[Max(s)]]]
    BY <1>1, <1>5 DEF SumWalk
  <2>2. g[{}] = 0
    <3>1. {} \in SUBSET (1 .. n)
      OBVIOUS
    <3>2. g[{}] = IF {} = {} THEN 0 ELSE g[{} \ {Max({})}] + amount[list[Max({})]]
      BY <2>1, <3>1, Zenon
    <3>3. QED
      BY <3>2
  <2>3. ASSUME NEW s \in SUBSET (1 .. n), s # {}
        PROVE  g[s] = g[s \ {Max(s)}] + amount[list[Max(s)]]
    BY <2>1, <2>3, Zenon
  <2>4. QED
    BY <2>2, <2>3
<1>7. StepsWithin(g, n, Nat, step)
  <2> SUFFICES ASSUME NEW s \in SUBSET (1 .. n), s # {}, g[s \ {Max(s)}] \in Nat
               PROVE  g[s] = step[<<g[s \ {Max(s)}], Max(s)>>]
    BY DEF StepsWithin
  <2>1. Max(s) \in 1 .. n
    BY <1>0, LatestIs
  <2>2. QED
    BY <1>0, <1>1, <1>3, <1>6, <2>1
<1>8. PICK w : Goes(w, g, n, Nat, 0, step)
  <2>1. 0 \in Nat /\ g[{}] = 0
    BY <1>6
  <2>2. QED
    BY <1>0, <1>2, <1>7, <2>1, FoldWalks
<1>9. \A k \in 1 .. n : w[k] = w[k - 1] + amount[k]
  BY <1>3, <1>8 DEF Goes
<1>10. TheSum(list, amount, n) = g[1 .. n]
  BY <1>5, Zenon DEF TheSum
<1>11. QED
  BY <1>8, <1>9, <1>10 DEF Goes, Sums

\* What a detection is worth at the place it has among its rule's.
WorthAt(x, k) == Decayed(RawPoints(x[k]), RepeatRank(x, k))
PointsWalk(x, g) ==
  g = [s \in SUBSET DOMAIN x |->
         IF s = {} THEN 0
         ELSE g[s \ {Max(s)}] + WorthAt(x, [k \in DOMAIN x |-> k][Max(s)])]

LEMMA PointsIs ==
  ASSUME NEW x
  PROVE  Points(x) = (CHOOSE g : PointsWalk(x, g))[DOMAIN x]
<1>1. DOMAIN [k \in DOMAIN x |-> k] = DOMAIN x
  OBVIOUS
<1>2. QED
  BY <1>1, Zenon DEF Points, FoldLeft, MapThenFoldSet, PointsWalk, WorthAt

PowerWalk(b, list, g) ==
  g = [s \in SUBSET DOMAIN list |-> IF s = {} THEN 1 ELSE g[s \ {Max(s)}] * b]

LEMMA PowerIs ==
  ASSUME NEW b, NEW n, NEW list, list = [i \in 1 .. n |-> i]
  PROVE  Power(b, n) = (CHOOSE g : PowerWalk(b, list, g))[DOMAIN list]
BY Zenon DEF Power, FoldLeft, MapThenFoldSet, PowerWalk

\* A power is what one multiplies up to.
LEMMA PowerGoes ==
  ASSUME NEW b \in Nat \ {0}, NEW n \in Nat
  PROVE  \E w : /\ w[0] = 1 /\ w[n] = Power(b, n)
                /\ \A k \in 1 .. n : w[k - 1] \in Nat \ {0} /\ w[k] \in Nat \ {0} /\ w[k] = w[k - 1] * b
                /\ w[n] \in Nat \ {0}
<1> DEFINE T == Nat \ {0}
           step == [v \in T \X (1 .. n) |-> v[1] * b]
           list == [i \in 1 .. n |-> i]
<1>1. DOMAIN list = 1 .. n
  OBVIOUS
<1>2. \A y \in T : y * b \in T
  OBVIOUS
<1>3. step \in [T \X (1 .. n) -> T] /\ \A y \in T, k \in 1 .. n : step[<<y, k>>] = y * b
  BY <1>2
<1>4. 1 \in T
  OBVIOUS
<1> HIDE DEF step, T, list
<1>5. \E g : PowerWalk(b, list, g)
  <2>1. PICK h \in [SUBSET (1 .. n) -> T] : Follows(h, n, 1, step)
    BY <1>3, <1>4, FoldExists
  <2>2. ASSUME NEW s \in SUBSET (1 .. n)
        PROVE  h[s] = IF s = {} THEN 1 ELSE h[s \ {Max(s)}] * b
    <3>1. CASE s = {}
      BY <2>1, <3>1 DEF Follows
    <3>2. CASE s # {}
      <4>1. Max(s) \in 1 .. n /\ h[s \ {Max(s)}] \in T
        BY <3>2, LatestIs
      <4>2. h[s] = step[<<h[s \ {Max(s)}], Max(s)>>]
        BY <2>1, <3>2 DEF Follows
      <4>3. QED
        BY <1>3, <3>2, <4>1, <4>2
    <3>3. QED
      BY <3>1, <3>2
  <2>3. PowerWalk(b, list, h)
    BY <1>1, <2>2 DEF PowerWalk
  <2>4. QED
    BY <2>3
<1>6. PICK g : g = (CHOOSE f : PowerWalk(b, list, f)) /\ PowerWalk(b, list, g)
  BY <1>5
<1>7. g[{}] = 1 /\ \A s \in SUBSET (1 .. n) : s # {} => g[s] = g[s \ {Max(s)}] * b
  BY <1>1, <1>6 DEF PowerWalk
<1>8. StepsWithin(g, n, T, step)
  <2> SUFFICES ASSUME NEW s \in SUBSET (1 .. n), s # {}, g[s \ {Max(s)}] \in T
               PROVE  g[s] = step[<<g[s \ {Max(s)}], Max(s)>>]
    BY DEF StepsWithin
  <2>1. Max(s) \in 1 .. n
    BY LatestIs
  <2>2. QED
    BY <1>3, <1>7, <2>1
<1>9. PICK w : Goes(w, g, n, T, 1, step)
  BY <1>3, <1>4, <1>7, <1>8, FoldWalks
<1>10. Power(b, n) = g[1 .. n]
  BY <1>1, <1>6, PowerIs DEF list
<1>11. \A k \in 1 .. n : w[k] = w[k - 1] * b
  BY <1>3, <1>9 DEF Goes
<1>12. QED
  BY <1>9, <1>10, <1>11 DEF Goes, T

LEMMA PowersAre ==
  ASSUME NEW b \in Nat \ {0}, NEW m \in Nat, NEW t, t[0] = 1, \A k \in 1 .. m : t[k] = t[k - 1] * b,
         NEW n \in 0 .. m
  PROVE  Power(b, n) = t[n]
<1>1. PICK w : /\ w[0] = 1 /\ w[n] = Power(b, n)
               /\ \A k \in 1 .. n : w[k] = w[k - 1] * b
  BY PowerGoes
<1> DEFINE R == [k \in 0 .. n |-> {t[k]}]
<1>2. w[0] \in R[0]
  BY <1>1
<1>3. \A k \in 1 .. n : w[k - 1] \in R[k - 1] => w[k] \in R[k]
  <2> SUFFICES ASSUME NEW k \in 1 .. n, w[k - 1] \in R[k - 1]
               PROVE  w[k] \in R[k]
    OBVIOUS
  <2>1. k - 1 \in 0 .. n /\ k \in 0 .. n /\ k \in 1 .. m
    OBVIOUS
  <2>2. w[k - 1] = t[k - 1]
    BY <2>1
  <2>3. w[k] = t[k]
    BY <1>1, <2>1, <2>2
  <2>4. QED
    BY <2>1, <2>3
<1>4. w[n] \in R[n]
  <2> HIDE DEF R
  <2> n \in Nat
    OBVIOUS
  <2> QED BY <1>2, <1>3, WalkArrives
<1>5. QED
  BY <1>1, <1>4

LEMMA PowersOfThree ==
  /\ Power(3, 0) = 1 /\ Power(3, 1) = 3 /\ Power(3, 2) = 9 /\ Power(3, 3) = 27 /\ Power(3, 4) = 81
  /\ Power(3, 5) = 243 /\ Power(3, 6) = 729 /\ Power(3, 7) = 2187 /\ Power(3, 8) = 6561
<1> DEFINE t == [k \in 0 .. 8 |->
                   IF k = 0 THEN 1 ELSE IF k = 1 THEN 3 ELSE IF k = 2 THEN 9 ELSE IF k = 3 THEN 27
                   ELSE IF k = 4 THEN 81 ELSE IF k = 5 THEN 243 ELSE IF k = 6 THEN 729
                   ELSE IF k = 7 THEN 2187 ELSE 6561]
<1>1. /\ t[0] = 1 /\ t[1] = 3 /\ t[2] = 9 /\ t[3] = 27 /\ t[4] = 81 /\ t[5] = 243 /\ t[6] = 729
      /\ t[7] = 2187 /\ t[8] = 6561
  OBVIOUS
<1> HIDE DEF t
<1>2. \A k \in 1 .. 8 : t[k] = t[k - 1] * 3
  BY <1>1
<1>3. \A n \in 0 .. 8 : Power(3, n) = t[n]
  BY <1>1, <1>2, PowersAre
<1>4. QED
  BY <1>1, <1>3

LEMMA PowersOfFive ==
  /\ Power(5, 0) = 1 /\ Power(5, 1) = 5 /\ Power(5, 2) = 25 /\ Power(5, 3) = 125 /\ Power(5, 4) = 625
  /\ Power(5, 5) = 3125 /\ Power(5, 6) = 15625 /\ Power(5, 7) = 78125 /\ Power(5, 8) = 390625
<1> DEFINE t == [k \in 0 .. 8 |->
                   IF k = 0 THEN 1 ELSE IF k = 1 THEN 5 ELSE IF k = 2 THEN 25 ELSE IF k = 3 THEN 125
                   ELSE IF k = 4 THEN 625 ELSE IF k = 5 THEN 3125 ELSE IF k = 6 THEN 15625
                   ELSE IF k = 7 THEN 78125 ELSE 390625]
<1>1. /\ t[0] = 1 /\ t[1] = 5 /\ t[2] = 25 /\ t[3] = 125 /\ t[4] = 625 /\ t[5] = 3125
      /\ t[6] = 15625 /\ t[7] = 78125 /\ t[8] = 390625
  OBVIOUS
<1> HIDE DEF t
<1>2. \A k \in 1 .. 8 : t[k] = t[k - 1] * 5
  BY <1>1
<1>3. \A n \in 0 .. 8 : Power(5, n) = t[n]
  BY <1>1, <1>2, PowersAre
<1>4. QED
  BY <1>1, <1>3

MostRaw == 5000

\* The most that something worth 25 points at best counts at its place.
CapAt(j) ==
  IF j = 0 THEN 25 ELSE IF j = 1 THEN 15 ELSE IF j = 2 THEN 9 ELSE IF j = 3 THEN 5 ELSE IF j = 4 THEN 3
  ELSE IF j = 5 THEN 2 ELSE IF j \in {6, 7} THEN 1 ELSE 0

LEMMA DecayedIs ==
  ASSUME NEW raw \in Nat, NEW j \in Nat
  PROVE  Decayed(raw, j) \in Nat
<1>1. CASE j > 8
  BY <1>1 DEF Decayed
<1>2. CASE ~ j > 8
  <2> PICK x, y : x = raw * Power(3, j) /\ y = 200 * Power(5, j)
    OBVIOUS
  <2>1. Power(3, j) \in Nat /\ Power(5, j) \in Nat \ {0}
    <3>1. 3 \in Nat \ {0} /\ 5 \in Nat \ {0}
      OBVIOUS
    <3>2. \A b \in Nat \ {0} : Power(b, j) \in Nat \ {0}
      BY PowerGoes
    <3>3. QED
      BY <3>1, <3>2
  <2>2. x \in Nat /\ y \in Nat \ {0}
    BY <2>1
  <2>3. (2 * x + y) \div (2 * y) \in Nat
    <3> PICK u, v : u = 2 * x + y /\ v = 2 * y
      OBVIOUS
    <3>1. u \in Nat /\ v \in Nat \ {0}
      BY <2>2
    <3>2. u \div v \in Nat
      BY <3>1
    <3>3. QED
      BY <3>2
  <2>4. QED
    BY <1>2, <2>3 DEF Decayed
<1>3. QED
  BY <1>1, <1>2

LEMMA DecayedIsCapped ==
  ASSUME NEW raw \in 0 .. MostRaw, NEW j \in Nat
  PROVE  Decayed(raw, j) <= CapAt(j)
<1>0. CASE j > 8
  BY <1>0 DEF Decayed, CapAt
<1> DEFINE D(u, v) == (2 * (raw * u) + 200 * v) \div (2 * (200 * v))
<1>1. ~ j > 8 => Decayed(raw, j) = D(Power(3, j), Power(5, j))
  BY DEF Decayed
<1>2. CASE j = 0
  <2>1. Decayed(raw, j) = D(1, 1)
    BY <1>1, <1>2, PowersOfThree, PowersOfFive
  <2>2. D(1, 1) <= 25
    BY DEF MostRaw
  <2>3. CapAt(j) = 25
    BY <1>2 DEF CapAt
  <2>4. QED
    BY <2>1, <2>2, <2>3
<1>3. CASE j = 1
  <2>1. Decayed(raw, j) = D(3, 5)
    BY <1>1, <1>3, PowersOfThree, PowersOfFive
  <2>2. D(3, 5) <= 15
    BY DEF MostRaw
  <2>3. CapAt(j) = 15
    BY <1>3 DEF CapAt
  <2>4. QED
    BY <2>1, <2>2, <2>3
<1>4. CASE j = 2
  <2>1. Decayed(raw, j) = D(9, 25)
    BY <1>1, <1>4, PowersOfThree, PowersOfFive
  <2>2. D(9, 25) <= 9
    BY DEF MostRaw
  <2>3. CapAt(j) = 9
    BY <1>4 DEF CapAt
  <2>4. QED
    BY <2>1, <2>2, <2>3
<1>5. CASE j = 3
  <2>1. Decayed(raw, j) = D(27, 125)
    BY <1>1, <1>5, PowersOfThree, PowersOfFive
  <2>2. D(27, 125) <= 5
    BY DEF MostRaw
  <2>3. CapAt(j) = 5
    BY <1>5 DEF CapAt
  <2>4. QED
    BY <2>1, <2>2, <2>3
<1>6. CASE j = 4
  <2>1. Decayed(raw, j) = D(81, 625)
    BY <1>1, <1>6, PowersOfThree, PowersOfFive
  <2>2. D(81, 625) <= 3
    BY DEF MostRaw
  <2>3. CapAt(j) = 3
    BY <1>6 DEF CapAt
  <2>4. QED
    BY <2>1, <2>2, <2>3
<1>7. CASE j = 5
  <2>1. Decayed(raw, j) = D(243, 3125)
    BY <1>1, <1>7, PowersOfThree, PowersOfFive
  <2>2. D(243, 3125) <= 2
    BY DEF MostRaw
  <2>3. CapAt(j) = 2
    BY <1>7 DEF CapAt
  <2>4. QED
    BY <2>1, <2>2, <2>3
<1>8. CASE j = 6
  <2>1. Decayed(raw, j) = D(729, 15625)
    BY <1>1, <1>8, PowersOfThree, PowersOfFive
  <2>2. D(729, 15625) <= 1
    BY DEF MostRaw
  <2>3. CapAt(j) = 1
    BY <1>8 DEF CapAt
  <2>4. QED
    BY <2>1, <2>2, <2>3
<1>9. CASE j = 7
  <2>1. Decayed(raw, j) = D(2187, 78125)
    BY <1>1, <1>9, PowersOfThree, PowersOfFive
  <2>2. D(2187, 78125) <= 1
    BY DEF MostRaw
  <2>3. CapAt(j) = 1
    BY <1>9 DEF CapAt
  <2>4. QED
    BY <2>1, <2>2, <2>3
<1>10. CASE j = 8
  <2>1. Decayed(raw, j) = D(6561, 390625)
    BY <1>1, <1>10, PowersOfThree, PowersOfFive
  <2>2. D(6561, 390625) <= 0
    BY DEF MostRaw
  <2>3. CapAt(j) = 0
    BY <1>10 DEF CapAt
  <2>4. QED
    BY <2>1, <2>2, <2>3
<1>11. QED
  BY <1>0, <1>2, <1>3, <1>4, <1>5, <1>6, <1>7, <1>8, <1>9, <1>10

LEMMA RawIs ==
  ASSUME NEW d, Weighs(d)
  PROVE  RawPoints(d) \in Nat /\ (d.points <= 25 => RawPoints(d) <= MostRaw)
<1> PICK p, c : p = d.points /\ c = 100 + d.conf
  OBVIOUS
<1>1. p \in Nat /\ c \in 0 .. 200
  BY DEF Weighs
<1>2. p * c \in Nat
  BY <1>1
<1>3. ASSUME p <= 25 PROVE p * c <= 5000
  <2>1. p * c <= 25 * c
    BY <1>1, <1>3
  <2>2. QED
    BY <1>1, <1>2, <2>1
<1>4. QED
  BY <1>2, <1>3 DEF RawPoints, MostRaw

\* Those before a detection among the ones of its rule.
Stronger(x, k) ==
  {i \in DOMAIN x : /\ x[i].rule = x[k].rule
                    /\ \/ RawPoints(x[i]) > RawPoints(x[k])
                       \/ RawPoints(x[i]) = RawPoints(x[k]) /\ i < k}

LEMMA RanksAre ==
  ASSUME NEW x, AreWeighed(x)
  PROVE  /\ \A k \in DOMAIN x : RepeatRank(x, k) \in Nat
         /\ \A i, k \in DOMAIN x : i # k /\ x[i].rule = x[k].rule => RepeatRank(x, i) # RepeatRank(x, k)
<1> PICK n : n = Len(x)
  OBVIOUS
<1>1. n \in Nat /\ DOMAIN x = 1 .. n
  BY ListFacts DEF AreWeighed
<1>2. \A k \in 1 .. n : RawPoints(x[k]) \in Int
  <2> SUFFICES ASSUME NEW k \in 1 .. n PROVE RawPoints(x[k]) \in Int
    OBVIOUS
  <2>1. x[k] \in ToSet(x)
    BY <1>1 DEF ToSet
  <2>2. RawPoints(x[k]) \in Nat
    BY <2>1, RawIs DEF AreWeighed
  <2>3. QED
    BY <2>2
<1>3. \A k \in 1 .. n : IsFiniteSet(Stronger(x, k)) /\ Cardinality(Stronger(x, k)) \in Nat
  <2> SUFFICES ASSUME NEW k \in 1 .. n
               PROVE  IsFiniteSet(Stronger(x, k)) /\ Cardinality(Stronger(x, k)) \in Nat
    OBVIOUS
  <2>1. IsFiniteSet(1 .. n) /\ Stronger(x, k) \in SUBSET (1 .. n)
    BY <1>1, FS_Interval DEF Stronger
  <2>2. IsFiniteSet(Stronger(x, k))
    BY <2>1, FS_Subset
  <2>3. QED
    BY <2>2, FS_CardinalityType
<1>4. \A k : RepeatRank(x, k) = Cardinality(Stronger(x, k))
  BY DEF RepeatRank, Stronger
<1>5. ASSUME NEW i \in 1 .. n, NEW k \in 1 .. n, i \in Stronger(x, k)
      PROVE  Cardinality(Stronger(x, i)) # Cardinality(Stronger(x, k))
  <2>1. Stronger(x, i) \in SUBSET Stronger(x, k)
    BY <1>1, <1>2, <1>5 DEF Stronger
  <2>2. i \notin Stronger(x, i)
    BY <1>1, <1>2 DEF Stronger
  <2>3. QED
    BY <1>3, <1>5, <2>1, <2>2, FS_Subset
<1>6. ASSUME NEW i \in 1 .. n, NEW k \in 1 .. n, i # k, x[i].rule = x[k].rule
      PROVE  i \in Stronger(x, k) \/ k \in Stronger(x, i)
  <2> PICK a, b : a = RawPoints(x[i]) /\ b = RawPoints(x[k])
    OBVIOUS
  <2>1. a \in Int /\ b \in Int
    BY <1>2
  <2>2. (a > b \/ (a = b /\ i < k)) \/ (b > a \/ (b = a /\ k < i))
    BY <1>6, <2>1
  <2>3. QED
    BY <1>1, <1>6, <2>2 DEF Stronger
<1>7. QED
  BY <1>1, <1>3, <1>4, <1>5, <1>6

-----------------------------------------------------------------------------
(* However often one rule fires.                                             *)

LEMMA PointsGo ==
  ASSUME NEW x, AreWeighed(x), NEW n, n = Len(x)
  PROVE  /\ n \in Nat /\ DOMAIN x = 1 .. n /\ \A k \in 1 .. n : WorthAt(x, k) \in Nat
         /\ \E w : /\ w[0] = 0 /\ w[n] = Points(x) /\ w[n] \in Nat
                   /\ \A k \in 1 .. n : /\ w[k - 1] \in Nat /\ w[k] \in Nat
                                       /\ w[k] = w[k - 1] + WorthAt(x, k)
<1>1. n \in Nat /\ DOMAIN x = 1 .. n
  BY ListFacts DEF AreWeighed
<1>2. \A k \in 1 .. n : WorthAt(x, k) \in Nat
  <2> SUFFICES ASSUME NEW k \in 1 .. n PROVE WorthAt(x, k) \in Nat
    OBVIOUS
  <2>1. x[k] \in ToSet(x)
    BY <1>1 DEF ToSet
  <2>2. RawPoints(x[k]) \in Nat
    BY <2>1, RawIs DEF AreWeighed
  <2>3. RepeatRank(x, k) \in Nat
    BY <1>1, RanksAre
  <2>4. QED
    BY <2>2, <2>3, DecayedIs DEF WorthAt
<1> PICK list, amount : list = [k \in 1 .. n |-> k] /\ amount = [k \in 1 .. n |-> WorthAt(x, k)]
  OBVIOUS
<1>3. amount \in [1 .. n -> Nat] /\ \A k \in 1 .. n : amount[k] = WorthAt(x, k)
  BY <1>2
<1>4. ASSUME NEW g
      PROVE  PointsWalk(x, g) <=> SumWalk(list, amount, g)
  <2> DEFINE a(s) == IF s = {} THEN 0
                     ELSE g[s \ {Max(s)}] + WorthAt(x, [k \in DOMAIN x |-> k][Max(s)])
             b(s) == IF s = {} THEN 0 ELSE g[s \ {Max(s)}] + amount[list[Max(s)]]
  <2>1. ASSUME NEW s \in SUBSET (1 .. n)
        PROVE  a(s) = b(s)
    <3>1. CASE s = {}
      BY <3>1
    <3>2. CASE s # {}
      <4> PICK m : m = Max(s)
        OBVIOUS
      <4>1. m \in 1 .. n
        BY <1>1, <3>2, LatestIs
      <4>2. [k \in DOMAIN x |-> k][m] = m /\ list[m] = m
        BY <1>1, <4>1
      <4>3. QED
        BY <1>3, <3>2, <4>1, <4>2
    <3>3. QED
      BY <3>1, <3>2
  <2>2. PointsWalk(x, g) <=> g = [s \in SUBSET (1 .. n) |-> a(s)]
    BY <1>1 DEF PointsWalk
  <2>3. SumWalk(list, amount, g) <=> g = [s \in SUBSET (1 .. n) |-> b(s)]
    BY DEF SumWalk
  <2> HIDE DEF a, b
  <2>4. QED
    BY <2>1, <2>2, <2>3
<1>5. Points(x) = TheSum(list, amount, n)
  <2>1. Points(x) = (CHOOSE g : PointsWalk(x, g))[1 .. n]
    BY <1>1, PointsIs
  <2>2. (CHOOSE g : PointsWalk(x, g)) = (CHOOSE g : SumWalk(list, amount, g))
    BY <1>4, Zenon
  <2>3. QED
    BY <2>1, <2>2, Zenon DEF TheSum
<1>6. Summing(list, amount, n)
  BY <1>1, <1>3 DEF Summing
<1>7. PICK w : Sums(w, amount, n) /\ w[n] = TheSum(list, amount, n)
  BY <1>6, SumGoes
<1>8. QED
  BY <1>1, <1>2, <1>3, <1>5, <1>7 DEF Sums

\* What the places that are taken among the first k count at most.
TakenAt(rank, k, j) == IF \E i \in 1 .. k : rank[i] = j THEN CapAt(j) ELSE 0
Total(f) == f[0] + f[1] + f[2] + f[3] + f[4] + f[5] + f[6] + f[7]
Taken(rank, k) == [j \in 0 .. 7 |-> TakenAt(rank, k, j)]
AllTaken(rank, k) == Total(Taken(rank, k))

LEMMA CapsAre ==
  /\ CapAt(0) = 25 /\ CapAt(1) = 15 /\ CapAt(2) = 9 /\ CapAt(3) = 5 /\ CapAt(4) = 3
  /\ CapAt(5) = 2 /\ CapAt(6) = 1 /\ CapAt(7) = 1
  /\ \A j \in Nat : CapAt(j) \in Nat /\ (j > 7 => CapAt(j) = 0)
BY DEF CapAt

LEMMA AllIsBounded ==
  ASSUME NEW rank, NEW k
  PROVE  AllTaken(rank, k) \in Nat /\ AllTaken(rank, k) <= 61
<1> PICK t0, t1, t2, t3, t4, t5, t6, t7 :
         /\ t0 = TakenAt(rank, k, 0) /\ t1 = TakenAt(rank, k, 1) /\ t2 = TakenAt(rank, k, 2)
         /\ t3 = TakenAt(rank, k, 3) /\ t4 = TakenAt(rank, k, 4) /\ t5 = TakenAt(rank, k, 5)
         /\ t6 = TakenAt(rank, k, 6) /\ t7 = TakenAt(rank, k, 7)
  OBVIOUS
<1>1. \A j : TakenAt(rank, k, j) = 0 \/ TakenAt(rank, k, j) = CapAt(j)
  BY Zenon DEF TakenAt
<1>2. /\ t0 \in 0 .. 25 /\ t1 \in 0 .. 15 /\ t2 \in 0 .. 9 /\ t3 \in 0 .. 5
      /\ t4 \in 0 .. 3 /\ t5 \in 0 .. 2 /\ t6 \in 0 .. 1 /\ t7 \in 0 .. 1
  BY <1>1, CapsAre
<1>3. AllTaken(rank, k) = t0 + t1 + t2 + t3 + t4 + t5 + t6 + t7
  BY DEF AllTaken, Total, Taken
<1>4. QED
  BY <1>2, <1>3

LEMMA WithinCap ==
  ASSUME NEW raw \in Nat, raw <= MostRaw, NEW j \in Nat
  PROVE  Decayed(raw, j) \in Nat /\ Decayed(raw, j) <= CapAt(j)
<1>1. raw \in 0 .. MostRaw
  BY DEF MostRaw
<1>2. Decayed(raw, j) <= CapAt(j)
  BY <1>1, DecayedIsCapped
<1>3. Decayed(raw, j) \in Nat
  BY DecayedIs
<1>4. QED
  BY <1>2, <1>3

Adds(a, c, b) ==
  \A j \in 0 .. 7 : a[j] \in Nat /\ c[j] \in Nat /\ b[j] = a[j] + c[j]

LEMMA Rearranged ==
  ASSUME NEW x \in Nat, NEW y \in Nat, NEW a \in Nat, NEW c \in Nat
  PROVE  x + a \in Nat /\ y + c \in Nat /\ (x + y) + (a + c) = (x + a) + (y + c)
OBVIOUS

LEMMA TotalsAdd ==
  ASSUME NEW a, NEW c, NEW b, Adds(a, c, b)
  PROVE  Total(a) \in Nat /\ Total(c) \in Nat /\ Total(b) = Total(a) + Total(c)
<1>0. \A j \in 0 .. 7 : a[j] \in Nat /\ c[j] \in Nat /\ b[j] = a[j] + c[j]
  BY DEF Adds
<1> DEFINE A1 == a[0] + a[1]
           C1 == c[0] + c[1]
           B1 == b[0] + b[1]
           A2 == A1 + a[2]
           C2 == C1 + c[2]
           B2 == B1 + b[2]
           A3 == A2 + a[3]
           C3 == C2 + c[3]
           B3 == B2 + b[3]
           A4 == A3 + a[4]
           C4 == C3 + c[4]
           B4 == B3 + b[4]
           A5 == A4 + a[5]
           C5 == C4 + c[5]
           B5 == B4 + b[5]
           A6 == A5 + a[6]
           C6 == C5 + c[6]
           B6 == B5 + b[6]
           A7 == A6 + a[7]
           C7 == C6 + c[7]
           B7 == B6 + b[7]
<1>1. A1 \in Nat /\ C1 \in Nat /\ B1 = A1 + C1
  BY <1>0, Rearranged
<1> HIDE DEF A1, C1, B1
<1>2. A2 \in Nat /\ C2 \in Nat /\ B2 = A2 + C2
  BY <1>0, <1>1, Rearranged
<1> HIDE DEF A2, C2, B2
<1>3. A3 \in Nat /\ C3 \in Nat /\ B3 = A3 + C3
  BY <1>0, <1>2, Rearranged
<1> HIDE DEF A3, C3, B3
<1>4. A4 \in Nat /\ C4 \in Nat /\ B4 = A4 + C4
  BY <1>0, <1>3, Rearranged
<1> HIDE DEF A4, C4, B4
<1>5. A5 \in Nat /\ C5 \in Nat /\ B5 = A5 + C5
  BY <1>0, <1>4, Rearranged
<1> HIDE DEF A5, C5, B5
<1>6. A6 \in Nat /\ C6 \in Nat /\ B6 = A6 + C6
  BY <1>0, <1>5, Rearranged
<1> HIDE DEF A6, C6, B6
<1>7. A7 \in Nat /\ C7 \in Nat /\ B7 = A7 + C7
  BY <1>0, <1>6, Rearranged
<1>8. Total(a) = A7 /\ Total(c) = C7 /\ Total(b) = B7
  BY DEF Total, A1, C1, B1, A2, C2, B2, A3, C3, B3, A4, C4, B4, A5, C5, B5, A6, C6, B6, A7, C7, B7
<1>9. QED
  BY <1>7, <1>8

LEMMA OneOfEight ==
  ASSUME NEW r \in Nat, NEW v \in Nat, r > 7 => v = 0,
         NEW c \in [0 .. 7 -> Nat], r \in 0 .. 7 => c[r] = v
  PROVE  v <= Total(c)
<1> PICK s : s = Total(c)
  OBVIOUS
<1>1. /\ c[0] \in Nat /\ c[1] \in Nat /\ c[2] \in Nat /\ c[3] \in Nat
      /\ c[4] \in Nat /\ c[5] \in Nat /\ c[6] \in Nat /\ c[7] \in Nat
  OBVIOUS
<1>2. /\ s \in Nat
      /\ c[0] <= s /\ c[1] <= s /\ c[2] <= s /\ c[3] <= s
      /\ c[4] <= s /\ c[5] <= s /\ c[6] <= s /\ c[7] <= s
  BY <1>1 DEF Total
<1>3. CASE r > 7
  BY <1>2, <1>3
<1>4. CASE r \in 0 .. 7
  <2>1. c[r] = v
    BY <1>4
  <2>2. r = 0 \/ r = 1 \/ r = 2 \/ r = 3 \/ r = 4 \/ r = 5 \/ r = 6 \/ r = 7
    BY <1>4
  <2>3. c[r] <= s
    BY <1>2, <2>2
  <2>4. QED
    BY <2>1, <2>3
<1>5. r > 7 \/ r \in 0 .. 7
  OBVIOUS
<1>6. QED
  BY <1>3, <1>4, <1>5

LEMMA AllGrows ==
  ASSUME NEW n \in Nat, NEW rank \in [1 .. n -> Nat],
         \A i, k \in 1 .. n : i # k => rank[i] # rank[k], NEW k \in 1 .. n
  PROVE  AllTaken(rank, k - 1) + CapAt(rank[k]) <= AllTaken(rank, k)
<1> PICK r : r = rank[k] /\ r \in Nat
  OBVIOUS
<1>1. 1 .. k = (1 .. (k - 1)) \cup {k} /\ \A i \in 1 .. (k - 1) : i \in 1 .. n /\ i # k
  OBVIOUS
<1>2. \A j \in Nat : TakenAt(rank, k - 1, j) \in Nat
  BY CapsAre DEF TakenAt
<1>3. \A j : j # r => TakenAt(rank, k, j) = TakenAt(rank, k - 1, j)
  <2> SUFFICES ASSUME NEW j, j # r PROVE TakenAt(rank, k, j) = TakenAt(rank, k - 1, j)
    OBVIOUS
  <2>1. (\E i \in 1 .. k : rank[i] = j) <=> \E i \in 1 .. (k - 1) : rank[i] = j
    BY <1>1
  <2>2. QED
    BY <2>1 DEF TakenAt
<1>4. TakenAt(rank, k, r) = CapAt(r)
  BY <1>1 DEF TakenAt
<1>5. TakenAt(rank, k - 1, r) = 0
  BY <1>1 DEF TakenAt
<1> DEFINE C(j) == IF j = r THEN CapAt(r) ELSE 0
<1>6. CapAt(r) \in Nat /\ (r > 7 => CapAt(r) = 0)
  BY CapsAre
<1>7. \A j \in Nat : C(j) \in Nat /\ TakenAt(rank, k, j) = TakenAt(rank, k - 1, j) + C(j)
  <2> SUFFICES ASSUME NEW j \in Nat
               PROVE  C(j) \in Nat /\ TakenAt(rank, k, j) = TakenAt(rank, k - 1, j) + C(j)
    OBVIOUS
  <2> PICK a, b, c : a = TakenAt(rank, k - 1, j) /\ b = TakenAt(rank, k, j) /\ c = CapAt(r)
    OBVIOUS
  <2>1. a \in Nat /\ c \in Nat
    BY <1>2, <1>6
  <2>2. CASE j = r
    <3>1. b = c /\ a = 0 /\ C(j) = c
      BY <1>4, <1>5, <2>2
    <3>2. b = a + C(j)
      BY <2>1, <3>1
    <3>3. QED
      BY <2>1, <3>1, <3>2
  <2>3. CASE j # r
    <3>1. b = a /\ C(j) = 0
      BY <1>3, <2>3
    <3>2. b = a + C(j)
      BY <2>1, <3>1
    <3>3. QED
      BY <2>1, <3>1, <3>2
  <2>4. QED
    BY <2>2, <2>3
<1> PICK a, b, c : a = Taken(rank, k - 1) /\ b = Taken(rank, k) /\ c = [j \in 0 .. 7 |-> C(j)]
  OBVIOUS
<1>9. Adds(a, c, b)
  <2> HIDE DEF C
  <2>1. \A j \in 0 .. 7 : j \in Nat
    OBVIOUS
  <2>2. QED
    BY <1>2, <1>7, <2>1 DEF Taken, Adds
<1>10. CapAt(r) <= Total(c)
  <2>1. \A j \in 0 .. 7 : j \in Nat
    OBVIOUS
  <2>2. \A j \in 0 .. 7 : C(j) \in Nat
    <3> HIDE DEF C
    <3> QED BY <1>7, <2>1
  <2>3. C(r) = CapAt(r)
    OBVIOUS
  <2> HIDE DEF C
  <2>4. c \in [0 .. 7 -> Nat]
    BY <2>2
  <2>5. r \in 0 .. 7 => c[r] = CapAt(r)
    BY <2>3
  <2>6. QED
    BY <1>6, <2>4, <2>5, OneOfEight
<1>11. Total(a) \in Nat /\ Total(c) \in Nat /\ Total(b) = Total(a) + Total(c)
  BY <1>9, TotalsAdd
<1>12. AllTaken(rank, k - 1) = Total(a) /\ AllTaken(rank, k) = Total(b)
  BY DEF AllTaken
<1>13. QED
  BY <1>6, <1>10, <1>11, <1>12

\* Numbers added up, none above what its place allows: 61 at most.
Capped(n, rank, worth) ==
  /\ n \in Nat /\ rank \in [1 .. n -> Nat] /\ worth \in [1 .. n -> Nat]
  /\ \A i, k \in 1 .. n : i # k => rank[i] # rank[k]
  /\ \A k \in 1 .. n : worth[k] <= CapAt(rank[k])

LEMMA CappedSum ==
  ASSUME NEW n, NEW rank, NEW worth, Capped(n, rank, worth), NEW w, Sums(w, worth, n)
  PROVE  w[n] \in Nat /\ w[n] <= 61
<1>0. /\ n \in Nat /\ rank \in [1 .. n -> Nat] /\ worth \in [1 .. n -> Nat] /\ w[0] = 0
      /\ \A i, k \in 1 .. n : i # k => rank[i] # rank[k]
      /\ \A k \in 1 .. n : worth[k] <= CapAt(rank[k])
      /\ \A k \in 1 .. n : w[k - 1] \in Nat /\ w[k] \in Nat /\ w[k] = w[k - 1] + worth[k]
  BY DEF Capped, Sums
<1> DEFINE R == [k \in 0 .. n |-> {y \in Nat : y <= AllTaken(rank, k)}]
<1>1. w[0] \in R[0]
  BY <1>0, AllIsBounded
<1>2. ASSUME NEW k \in 1 .. n, w[k - 1] \in R[k - 1]
      PROVE  w[k] \in R[k]
  <2>1. k - 1 \in 0 .. n /\ k \in 0 .. n
    BY <1>0
  <2>2. w[k - 1] \in Nat /\ w[k - 1] <= AllTaken(rank, k - 1)
    BY <1>2, <2>1
  <2>3. /\ w[k] = w[k - 1] + worth[k] /\ w[k] \in Nat /\ worth[k] \in Nat
        /\ worth[k] <= CapAt(rank[k]) /\ rank[k] \in Nat
    BY <1>0
  <2>4. AllTaken(rank, k - 1) + CapAt(rank[k]) <= AllTaken(rank, k)
    BY <1>0, AllGrows
  <2>5. AllTaken(rank, k - 1) \in Nat /\ AllTaken(rank, k) \in Nat /\ CapAt(rank[k]) \in Nat
    BY <2>3, AllIsBounded, CapsAre
  <2> PICK a, b, c, d, e, f : /\ a = w[k - 1] /\ b = worth[k] /\ c = CapAt(rank[k])
                              /\ d = AllTaken(rank, k - 1) /\ e = AllTaken(rank, k) /\ f = w[k]
    OBVIOUS
  <2>6. f <= e
    BY <2>2, <2>3, <2>4, <2>5
  <2>7. QED
    BY <2>1, <2>3, <2>6
<1>3. w[n] \in R[n]
  <2> HIDE DEF R
  <2> QED BY <1>0, <1>1, <1>2, WalkArrives
<1>4. w[n] \in Nat /\ w[n] <= AllTaken(rank, n)
  BY <1>0, <1>3
<1>5. QED
  BY <1>4, AllIsBounded

LEMMA WorthIsCapped ==
  ASSUME NEW x, AreWeighed(x), NEW k \in DOMAIN x, x[k].points <= 25
  PROVE  /\ RepeatRank(x, k) \in Nat
         /\ WorthAt(x, k) \in Nat /\ WorthAt(x, k) <= CapAt(RepeatRank(x, k))
<1> PICK raw, j : raw = RawPoints(x[k]) /\ j = RepeatRank(x, k)
  OBVIOUS
<1>1. j \in Nat
  BY RanksAre
<1>2. raw \in Nat /\ raw <= MostRaw
  <2>1. Weighs(x[k])
    BY DEF AreWeighed, ToSet
  <2>2. QED
    BY <2>1, RawIs
<1>3. Decayed(raw, j) \in Nat /\ Decayed(raw, j) <= CapAt(j)
  BY <1>1, <1>2, WithinCap
<1>4. QED
  BY <1>1, <1>3 DEF WorthAt

\* However often something worth 25 points at best is found, it all counts 61.
LEMMA RepeatsAreCapped ==
  ASSUME NEW x, AreWeighed(x), \A i, k \in DOMAIN x : x[i].rule = x[k].rule,
         \A k \in DOMAIN x : x[k].points <= 25
  PROVE  Points(x) \in Nat /\ Points(x) <= 61
<1> PICK n : n = Len(x)
  OBVIOUS
<1>1. n \in Nat /\ DOMAIN x = 1 .. n
  BY PointsGo
<1>2. PICK w : /\ w[0] = 0 /\ w[n] = Points(x) /\ w[n] \in Nat
               /\ \A k \in 1 .. n : /\ w[k - 1] \in Nat /\ w[k] \in Nat
                                   /\ w[k] = w[k - 1] + WorthAt(x, k)
  BY PointsGo
<1> PICK rank, worth : /\ rank = [k \in 1 .. n |-> RepeatRank(x, k)]
                       /\ worth = [k \in 1 .. n |-> WorthAt(x, k)]
  OBVIOUS
<1>3. \A k \in 1 .. n : /\ RepeatRank(x, k) \in Nat /\ WorthAt(x, k) \in Nat
                        /\ WorthAt(x, k) <= CapAt(RepeatRank(x, k))
  BY <1>1, WorthIsCapped
<1>4. rank \in [1 .. n -> Nat] /\ worth \in [1 .. n -> Nat]
  BY <1>3
<1>5. \A i, k \in 1 .. n : i # k => rank[i] # rank[k]
  BY <1>1, RanksAre
<1>6. \A k \in 1 .. n : worth[k] <= CapAt(rank[k])
  BY <1>3
<1>7. \A k \in 1 .. n : w[k - 1] \in Nat /\ w[k] \in Nat /\ w[k] = w[k - 1] + worth[k]
  BY <1>2
<1>8. Capped(n, rank, worth) /\ Sums(w, worth, n)
  BY <1>1, <1>2, <1>4, <1>5, <1>6, <1>7 DEF Capped, Sums
<1>9. w[n] \in Nat /\ w[n] <= 61
  BY <1>8, CappedSum
<1>10. Points(x) = w[n]
  BY <1>2
<1>11. QED
  BY <1>9, <1>10

-----------------------------------------------------------------------------
(* Every rule reports what is believed to some percent and worth some points. *)

LEMMA LesserIs ==
  ASSUME NEW a \in Int, NEW b \in Int
  PROVE  Min({a, b}) = IF a <= b THEN a ELSE b
<1>1. \E m \in {a, b} : \A j \in {a, b} : m <= j
  OBVIOUS
<1> PICK m : m = Min({a, b})
  OBVIOUS
<1>2. m \in {a, b} /\ \A j \in {a, b} : m <= j
  BY <1>1 DEF Min
<1>3. QED
  BY <1>2

LEMMA LesserWithin ==
  ASSUME NEW a \in Nat, NEW b \in Nat
  PROVE  Min({a, b}) \in 0 .. a
BY LesserIs

\* Lists of what is weighed.
LEMMA MadeWeighed ==
  ASSUME NEW n \in Nat, NEW x, x = [k \in 1 .. n |-> x[k]], \A k \in 1 .. n : Weighs(x[k])
  PROVE  AreWeighed(x)
<1>1. DOMAIN x = 1 .. n
  OBVIOUS
<1> PICK S : S = ToSet(x)
  OBVIOUS
<1>2. \A k \in 1 .. n : x[k] \in S
  BY <1>1 DEF ToSet
<1>3. x \in [1 .. n -> S]
  BY <1>2
<1>4. x \in Seq(S)
  BY <1>3, FunctionsAre
<1>5. \A d \in S : Weighs(d)
  BY <1>1 DEF ToSet
<1>6. QED
  BY <1>4, <1>5 DEF AreWeighed, IsList

LEMMA NoneWeighed == AreWeighed(<<>>)
<1> PICK x : x = <<>>
  OBVIOUS
<1>1. x \in Seq({})
  OBVIOUS
<1>2. IsList(x)
  BY <1>1, ListsAre
<1>3. ToSet(x) = {}
  BY DEF ToSet
<1>4. QED
  BY <1>2, <1>3 DEF AreWeighed

\* A list over a set of what is weighed.
LEMMA ListWeighed ==
  ASSUME NEW S, \A d \in S : Weighs(d), NEW x \in Seq(S)
  PROVE  AreWeighed(x)
<1>1. ToSet(x) \subseteq S
  BY DEF ToSet
<1>2. IsList(x)
  BY ListsAre
<1>3. QED
  BY <1>1, <1>2 DEF AreWeighed

LEMMA BothWeighed ==
  ASSUME NEW x, AreWeighed(x), NEW y, AreWeighed(y)
  PROVE  AreWeighed(x \o y)
<1> PICK S : S = ToSet(x) \cup ToSet(y)
  OBVIOUS
<1>1. x \in Seq(ToSet(x)) /\ y \in Seq(ToSet(y))
  BY DEF AreWeighed, IsList
<1>2. x \in Seq(S) /\ y \in Seq(S)
  BY <1>1, SeqMonotonic
<1>3. x \o y \in Seq(S)
  BY <1>2, ConcatProperties
<1>4. \A d \in S : Weighs(d)
  BY DEF AreWeighed
<1>5. QED
  BY <1>3, <1>4, ListWeighed

LEMMA OneWeighed ==
  ASSUME NEW condition, NEW d, Weighs(d)
  PROVE  AreWeighed(When(condition, d))
<1>1. <<d>> \in Seq({d})
  OBVIOUS
<1>2. AreWeighed(<<d>>)
  BY <1>1, ListWeighed
<1>3. QED
  BY <1>2, NoneWeighed DEF When

LEMMA ThoseWeighed ==
  ASSUME NEW x, AreWeighed(x), NEW places \in SUBSET DOMAIN x
  PROVE  AreWeighed(Those(x, places))
<1>1. x \in Seq(ToSet(x)) /\ \A d \in ToSet(x) : Weighs(d)
  BY DEF AreWeighed, IsList
<1>2. Those(x, places) \in Seq(ToSet(x))
  BY <1>1, ThoseListed
<1>3. QED
  BY <1>1, <1>2, ListWeighed

LEMMA FlatListed ==
  ASSUME NEW U, NEW n \in Nat, NEW lists, lists = [k \in 1 .. n |-> lists[k]],
         \A k \in 1 .. n : lists[k] \in Seq(U)
  PROVE  FlattenSeq(lists) \in Seq(U)
<1> PICK T : T = Seq(U)
  OBVIOUS
<1>1. lists \in [1 .. n -> T]
  OBVIOUS
<1>2. lists \in Seq(T)
  BY <1>1, FunctionsAre
<1>3. PICK w : w[Len(lists)] = FlattenSeq(lists) /\ w[Len(lists)] \in Seq(U)
  BY <1>2, FlatWalks
<1>4. QED
  BY <1>3

LEMMA AllWeighed ==
  ASSUME NEW n \in Nat, NEW lists, lists = [k \in 1 .. n |-> lists[k]],
         \A k \in 1 .. n : AreWeighed(lists[k])
  PROVE  AreWeighed(FlattenSeq(lists))
<1> PICK U : U = UNION {ToSet(lists[k]) : k \in 1 .. n}
  OBVIOUS
<1>1. \A k \in 1 .. n : lists[k] \in Seq(U)
  <2> SUFFICES ASSUME NEW k \in 1 .. n PROVE lists[k] \in Seq(U)
    OBVIOUS
  <2>1. lists[k] \in Seq(ToSet(lists[k])) /\ ToSet(lists[k]) \subseteq U
    BY DEF AreWeighed, IsList
  <2>2. QED
    BY <2>1, SeqMonotonic
<1>2. \A d \in U : Weighs(d)
  BY DEF AreWeighed
<1>3. FlattenSeq(lists) \in Seq(U)
  BY <1>1, FlatListed
<1>4. QED
  BY <1>2, <1>3, ListWeighed

-----------------------------------------------------------------------------
(* What the rules about credentials report.                                  *)

LEMMA PatternsWeigh ==
  ASSUME NEW p \in ToSet(PatternOrder)
  PROVE  SECRET_PATTERNS[p].conf \in 0 .. 98 /\ SECRET_PATTERNS[p].points \in 0 .. 45
<1>1. p \in DOMAIN SECRET_PATTERNS
  BY DEF ToSet, PatternOrder, SECRET_PATTERNS
<1>2. QED
  BY <1>1 DEF SECRET_PATTERNS, P

LEMMA FoundWeighs ==
  ASSUME NEW p, NEW base, base.conf \in 0 .. 98, base.points \in 0 .. 45,
         NEW boosted, NEW file, NEW line
  PROVE  Weighs(Found(p, base, boosted, file, line))
<1> PICK d : d = Found(p, base, boosted, file, line)
  OBVIOUS
<1>1. /\ d.conf = IF boosted THEN Min({99, base.conf + 5}) ELSE base.conf
      /\ d.points = IF boosted THEN Min({45, base.points + 6}) ELSE base.points
  BY DEF Found
<1>2. /\ base.conf + 5 \in Nat /\ base.points + 6 \in Nat /\ 99 \in Nat /\ 45 \in Nat
      /\ 0 .. 99 \subseteq 0 .. 100 /\ 0 .. 98 \subseteq 0 .. 100
  OBVIOUS
<1>3. Min({99, base.conf + 5}) \in 0 .. 99 /\ Min({45, base.points + 6}) \in 0 .. 45
  BY <1>2, LesserWithin, Zenon
<1>4. QED
  BY <1>1, <1>2, <1>3 DEF Weighs

LEMMA MatchesWeighed ==
  ASSUME NEW p \in ToSet(PatternOrder), NEW lines, IsList(lines)
  PROVE  AreWeighed(MatchesOf(p, lines))
<1> PICK x : x = MatchesOf(p, lines)
  OBVIOUS
<1>1. IsList(x)
  BY MatchesListed
<1>2. \A k \in DOMAIN x : \E hit : x[k] = Found(p, SECRET_PATTERNS[p], hit.boost, hit.file, hit.line)
  BY DEF MatchesOf
<1>3. \A k \in DOMAIN x : Weighs(x[k])
  BY <1>2, PatternsWeigh, FoundWeighs
<1>4. QED
  BY <1>1, <1>3 DEF AreWeighed, ToSet

LEMMA SampleWeighed ==
  ASSUME NEW lines, IsList(lines), NEW patterns, IsList(patterns), ToSet(patterns) \subseteq ToSet(PatternOrder)
  PROVE  AreWeighed(FlattenSeq([k \in DOMAIN patterns |-> MatchesOf(patterns[k], lines)]))
<1> PICK n : n = Len(patterns)
  OBVIOUS
<1>1. n \in Nat /\ DOMAIN patterns = 1 .. n
  BY ListFacts
<1> PICK lists : lists = [k \in DOMAIN patterns |-> MatchesOf(patterns[k], lines)]
  OBVIOUS
<1>2. lists = [k \in 1 .. n |-> lists[k]]
  BY <1>1
<1>3. \A k \in 1 .. n : AreWeighed(lists[k])
  <2> SUFFICES ASSUME NEW k \in 1 .. n PROVE AreWeighed(lists[k])
    OBVIOUS
  <2>1. patterns[k] \in ToSet(PatternOrder)
    BY <1>1 DEF ToSet
  <2>2. lists[k] = MatchesOf(patterns[k], lines)
    BY <1>1
  <2>3. QED
    BY <2>1, <2>2, MatchesWeighed
<1>4. QED
  BY <1>1, <1>2, <1>3, AllWeighed

LEMMA ReportsWeigh ==
  ASSUME NEW candidates, NEW d \in ReportsOf(candidates)
  PROVE  Weighs(d)
<1>1. "ssh_private_key" \in ToSet(PatternOrder)
  BY DEF ToSet, PatternOrder
<1>2. ASSUME NEW p \in ToSet(PatternOrder), NEW boosted, NEW file, NEW line
      PROVE  Weighs(Found(p, SECRET_PATTERNS[p], boosted, file, line))
  BY PatternsWeigh, FoundWeighs
<1>3. CASE \E c \in candidates : d = HeaderOn(c)
  BY <1>1, <1>2, <1>3 DEF HeaderOn
<1>4. CASE \E c \in candidates, p \in ToSet(PatternOrder) : d = MatchOn(c, p)
  BY <1>2, <1>4 DEF MatchOn
<1>5. QED
  BY <1>3, <1>4 DEF ReportsOf

LEMMA EntropyWeighed ==
  ASSUME NEW ctx, InLists(ctx)
  PROVE  AreWeighed(EntropyMatches(ctx))
<1> PICK lines, those, hits, x, m :
      /\ lines = CollectHaystacks(ctx) /\ m = MAX_ENTROPY_MATCHES
      /\ those = Those(lines, {i \in DOMAIN lines : [of |-> "assignment", as |-> "secret"] \in lines[i].words})
      /\ hits = UpTo(those, m) /\ x = EntropyMatches(ctx)
  OBVIOUS
<1>1. lines \in Seq(ToSet(lines)) /\ m \in Nat
  <2>1. IsList(lines)
    BY HaystackLines DEF InLists, AreLines
  <2>2. QED
    BY <2>1, BudgetAssumption DEF IsList
<1>2. those \in Seq(ToSet(lines))
  BY <1>1, ThoseListed
<1>3. hits \in Seq(ToSet(lines))
  BY <1>1, <1>2, UpToIs
<1> PICK n : n = Len(hits)
  OBVIOUS
<1>4. n \in Nat /\ DOMAIN hits = 1 .. n
  BY <1>3
<1>5. x = [k \in DOMAIN hits |->
             Found("high_entropy", P("high", 65, 20), hits[k].boost, hits[k].file, hits[k].line)]
  BY DEF EntropyMatches
<1>6. P("high", 65, 20).conf \in 0 .. 98 /\ P("high", 65, 20).points \in 0 .. 45
  BY DEF P
<1>7. \A k \in 1 .. n : Weighs(x[k])
  BY <1>4, <1>5, <1>6, FoundWeighs
<1>8. x = [k \in 1 .. n |-> x[k]]
  BY <1>4, <1>5
<1>9. QED
  BY <1>4, <1>7, <1>8, MadeWeighed

LEMMA SecretsWeighed ==
  ASSUME NEW ctx, InLists(ctx)
  PROVE  AreWeighed(SecretDetectionRule(ctx))
<1> PICK lines, patterns, sample, whole :
      /\ lines = CollectHaystacks(ctx) /\ patterns = PatternsOn(lines) /\ sample = SampleMatches(ctx)
      /\ whole = FindFullRepoSecretMatches(ctx.candidates, sample)
  OBVIOUS
<1>0. \A h \in ToSet(ctx.haystacks) : IsList(h.lines)
  BY DEF InLists, AreLines
<1>1. IsList(lines)
  BY <1>0, HaystackLines DEF InLists
<1>2. IsList(patterns) /\ ToSet(patterns) \subseteq ToSet(PatternOrder)
  <2>1. IsList(patterns) /\ \A i \in DOMAIN patterns : patterns[i] \in ToSet(PatternOrder)
    BY PatternsListed DEF PatternsOn
  <2> QED BY <2>1 DEF ToSet
<1>3. sample = FlattenSeq([k \in DOMAIN patterns |-> MatchesOf(patterns[k], lines)])
  BY Zenon DEF SampleMatches, PatternsOn
<1>4. AreWeighed(sample)
  BY <1>1, <1>2, <1>3, SampleWeighed
<1>5. whole \in Seq(ReportsOf(ToSet(ctx.candidates)))
  BY <1>0, SampleKeepsBudget, TreeIsFair DEF FairLists, InLists
<1>6. AreWeighed(whole)
  BY <1>5, ReportsWeigh, ListWeighed
<1>7. AreWeighed(EntropyMatches(ctx))
  BY EntropyWeighed
<1>8. AreWeighed(sample \o whole)
  BY <1>4, <1>6, BothWeighed
<1>9. AreWeighed((sample \o whole) \o EntropyMatches(ctx))
  BY <1>7, <1>8, BothWeighed
<1>10. SecretDetectionRule(ctx) = (sample \o whole) \o EntropyMatches(ctx)
  BY Zenon DEF SecretDetectionRule
<1>11. QED
  BY <1>9, <1>10

-----------------------------------------------------------------------------
(* Sets that can be counted, and what is made of them.                       *)

LEMMA ImageIsFinite ==
  ASSUME NEW S, IsFiniteSet(S), NEW f
  PROVE  IsFiniteSet({f[x] : x \in S})
<1> PICK T, g : T = {f[x] : x \in S} /\ g = [x \in S |-> f[x]]
  OBVIOUS
<1>1. g \in [S -> T] /\ \A y \in T : \E x \in S : g[x] = y
  OBVIOUS
<1>2. g \in Surjection(S, T)
  BY <1>1 DEF Surjection
<1>3. QED
  BY <1>2, FS_Surjection

LEMMA RangeIsFinite ==
  ASSUME NEW s, IsList(s)
  PROVE  IsFiniteSet(ToSet(s))
<1>1. Len(s) \in Nat /\ DOMAIN s = 1 .. Len(s)
  BY ListFacts
<1>2. IsFiniteSet(DOMAIN s)
  BY <1>1, FS_Interval
<1>3. IsFiniteSet({s[x] : x \in DOMAIN s})
  BY <1>2, ImageIsFinite
<1>4. QED
  BY <1>3 DEF ToSet

LEMMA SetListed ==
  ASSUME NEW S, IsFiniteSet(S)
  PROVE  SetToSeq(S) \in Seq(S)
<1> PICK n : n = Cardinality(S)
  OBVIOUS
<1>1. n \in Nat /\ ExistsBijection(1 .. n, S)
  BY FS_CardinalityType
<1>2. PICK f : f \in [1 .. n -> S] /\ IsInjective(f)
  BY <1>1 DEF ExistsBijection, Bijection, Injection
<1>3. SetToSeq(S) = CHOOSE g \in [1 .. n -> S] : IsInjective(g)
  BY Zenon DEF SetToSeq
<1>4. SetToSeq(S) \in [1 .. n -> S]
  BY <1>2, <1>3, Zenon
<1>5. QED
  BY <1>1, <1>4, FunctionsAre

LEMMA SixAreFinite ==
  ASSUME NEW a, NEW b, NEW c, NEW d, NEW e, NEW f
  PROVE  IsFiniteSet({a, b, c, d, e, f})
<1>1. IsFiniteSet({a})
  BY FS_Singleton
<1>2. IsFiniteSet({a, b})
  <2>1. IsFiniteSet({a} \cup {b})
    BY <1>1, FS_AddElement
  <2>2. {a, b} = {a} \cup {b}
    OBVIOUS
  <2>3. QED
    BY <2>1, <2>2
<1>3. IsFiniteSet({a, b, c})
  <2>1. IsFiniteSet({a, b} \cup {c})
    BY <1>2, FS_AddElement
  <2>2. {a, b, c} = {a, b} \cup {c}
    OBVIOUS
  <2>3. QED
    BY <2>1, <2>2
<1>4. IsFiniteSet({a, b, c, d})
  <2>1. IsFiniteSet({a, b, c} \cup {d})
    BY <1>3, FS_AddElement
  <2>2. {a, b, c, d} = {a, b, c} \cup {d}
    OBVIOUS
  <2>3. QED
    BY <2>1, <2>2
<1>5. IsFiniteSet({a, b, c, d, e})
  <2>1. IsFiniteSet({a, b, c, d} \cup {e})
    BY <1>4, FS_AddElement
  <2>2. {a, b, c, d, e} = {a, b, c, d} \cup {e}
    OBVIOUS
  <2>3. QED
    BY <2>1, <2>2
<1>6. IsFiniteSet({a, b, c, d, e} \cup {f})
  BY <1>5, FS_AddElement
<1>7. {a, b, c, d, e, f} = {a, b, c, d, e} \cup {f}
  OBVIOUS
<1>8. QED
  BY <1>6, <1>7

LEMMA TermsAreFinite ==
  /\ IsFiniteSet(SUSPICIOUS_KEYWORDS) /\ IsFiniteSet(PHISHING_TERMS)
  /\ IsFiniteSet(MALWARE_TERMS) /\ IsFiniteSet(WEAK_MALWARE_TERMS)
<1>1. IsFiniteSet(SUSPICIOUS_KEYWORDS)
  <2> PICK A, B, C : /\ A = {"support", "mod", "clone", "login", "verification", "wallet"}
                     /\ B = {"payment", "kyc", "trading", "apk", "cracked", "phishing"}
                     /\ C = {"bypass", "free money", "gift card", "otp", "2fa bypass", "2fa bypass"}
    OBVIOUS
  <2>1. IsFiniteSet(A) /\ IsFiniteSet(B) /\ IsFiniteSet(C)
    BY SixAreFinite
  <2>2. IsFiniteSet((A \cup B) \cup C)
    BY <2>1, FS_Union
  <2>3. SUSPICIOUS_KEYWORDS \subseteq (A \cup B) \cup C
    BY DEF SUSPICIOUS_KEYWORDS, WEAK_SUSPICIOUS_KEYWORDS
  <2>4. QED
    BY <2>2, <2>3, FS_Subset
<1>2. IsFiniteSet(PHISHING_TERMS)
  <2> PICK A, B : /\ A = {"login page", "verify account", "phishing", "phish", "otp bypass", "2fa bypass"}
                  /\ B = {"credential harvest", "fake login", "account recovery kit",
                          "phish", "phish", "phish"}
    OBVIOUS
  <2>1. IsFiniteSet(A) /\ IsFiniteSet(B)
    BY SixAreFinite
  <2>2. IsFiniteSet(A \cup B)
    BY <2>1, FS_Union
  <2>3. PHISHING_TERMS \subseteq A \cup B
    BY DEF PHISHING_TERMS, WEAK_PHISHING_TERMS
  <2>4. QED
    BY <2>2, <2>3, FS_Subset
<1>3. IsFiniteSet(MALWARE_TERMS)
  <2> PICK A, B : /\ A = {"malware", "rat", "stealer", "keylogger", "botnet", "ransomware"}
                  /\ B = {"crypter", "payload dropper", "rat", "rat", "rat", "rat"}
    OBVIOUS
  <2>1. IsFiniteSet(A) /\ IsFiniteSet(B)
    BY SixAreFinite
  <2>2. IsFiniteSet(A \cup B)
    BY <2>1, FS_Union
  <2>3. MALWARE_TERMS \subseteq A \cup B
    BY DEF MALWARE_TERMS
  <2>4. QED
    BY <2>2, <2>3, FS_Subset
<1>4. IsFiniteSet(WEAK_MALWARE_TERMS)
  BY FS_Singleton DEF WEAK_MALWARE_TERMS
<1>5. QED
  BY <1>1, <1>2, <1>3, <1>4

-----------------------------------------------------------------------------
(* What the rules about threats report.                                      *)

LEMMA DetectedWeighs ==
  ASSUME NEW rule, NEW category, NEW severity, NEW conf \in 0 .. 100, NEW points \in 0 .. 45
  PROVE  Weighs(Detected(rule, category, severity, conf, points))
BY DEF Detected, Weighs

\* What grows with what is found, up to a limit.
LEMMA GrowsWithin ==
  ASSUME NEW n \in Nat, NEW a \in 0 .. 100, NEW b \in Nat, NEW c \in Nat
  PROVE  Min({a, b + c * n}) \in 0 .. 100
<1>1. b + c * n \in Nat /\ a \in Nat
  OBVIOUS
<1>2. Min({a, b + c * n}) \in 0 .. a
  BY <1>1, LesserWithin
<1>3. QED
  BY <1>2

LEMMA AddsWithin ==
  ASSUME NEW n \in Nat, NEW a \in Nat, NEW b \in Nat, NEW c \in Nat, a + b <= 45
  PROVE  a + Min({b, c * n}) \in 0 .. 45
<1>1. c * n \in Nat
  OBVIOUS
<1>2. Min({b, c * n}) \in 0 .. b
  BY <1>1, LesserWithin
<1>3. QED
  BY <1>2

LEMMA ImpersonationWeighed ==
  ASSUME NEW brand, NEW ctx
  PROVE  AreWeighed(BrandImpersonationRule(brand, ctx))
<1> PICK n : n = Cardinality(SuspiciousHits(brand, ctx))
  OBVIOUS
<1>1. n \in Nat
  <2>1. SuspiciousHits(brand, ctx) \subseteq SUSPICIOUS_KEYWORDS
    BY DEF SuspiciousHits
  <2>2. QED
    BY <2>1, TermsAreFinite, FS_Subset, FS_CardinalityType
<1>2. Min({90, 55 + 10 * n}) \in 0 .. 100 /\ 20 + Min({15, 4 * n}) \in 0 .. 45
  <2>1. /\ 90 \in 0 .. 100 /\ 55 \in Nat /\ 10 \in Nat
        /\ 20 \in Nat /\ 15 \in Nat /\ 4 \in Nat /\ 20 + 15 <= 45
    OBVIOUS
  <2>2. QED
    BY <1>1, <2>1, GrowsWithin, AddsWithin, Zenon
<1>3. ASSUME NEW severity
      PROVE  Weighs(Detected("brand-impersonation", "brand_impersonation", severity,
                             Min({90, 55 + 10 * n}), 20 + Min({15, 4 * n})))
  BY <1>2, DetectedWeighs
<1>4. PICK condition, severity :
        BrandImpersonationRule(brand, ctx)
          = IF brand = Nobody THEN <<>>
            ELSE When(condition, Detected("brand-impersonation", "brand_impersonation", severity,
                                          Min({90, 55 + 10 * n}), 20 + Min({15, 4 * n})))
  BY Zenon DEF BrandImpersonationRule
<1>5. QED
  BY <1>3, <1>4, OneWeighed, NoneWeighed

LEMMA PhishingWeighed ==
  ASSUME NEW brand, NEW ctx
  PROVE  AreWeighed(PhishingRule(brand, ctx))
<1> DEFINE n == Cardinality(PhishingHits(ctx)) + IF BrandPresent(brand, ctx) THEN 1 ELSE 0
<1>1. n \in Nat
  <2>1. PhishingHits(ctx) \subseteq PHISHING_TERMS
    BY DEF PhishingHits
  <2>2. Cardinality(PhishingHits(ctx)) \in Nat
    BY <2>1, TermsAreFinite, FS_Subset, FS_CardinalityType
  <2>3. QED
    BY <2>2
<1>2. PICK condition, severity :
        PhishingRule(brand, ctx)
          = When(condition, Detected("phishing-kit", "phishing", severity,
                                     Min({92, 60 + 10 * n}), 25 + Min({20, 6 * n})))
  BY DEF PhishingRule
<1> HIDE DEF n
<1>3. Min({92, 60 + 10 * n}) \in 0 .. 100 /\ 25 + Min({20, 6 * n}) \in 0 .. 45
  <2>1. /\ 92 \in 0 .. 100 /\ 60 \in Nat /\ 10 \in Nat
        /\ 25 \in Nat /\ 20 \in Nat /\ 6 \in Nat /\ 25 + 20 <= 45
    OBVIOUS
  <2>2. QED
    BY <1>1, <2>1, GrowsWithin, AddsWithin, Zenon
<1>4. QED
  BY <1>2, <1>3, DetectedWeighs, OneWeighed

LEMMA MalwareWeighed ==
  ASSUME NEW ctx
  PROVE  AreWeighed(MalwareRule(ctx))
<1> PICK hits, weak, n :
      /\ hits = {t \in MALWARE_TERMS : Mentions(TextBlob(ctx), t)}
      /\ weak = {t \in WEAK_MALWARE_TERMS : Mentions(TextBlob(ctx), t)}
      /\ n = Cardinality(hits \cup weak)
  OBVIOUS
<1>1. n \in Nat
  <2>1. hits \cup weak \subseteq MALWARE_TERMS \cup WEAK_MALWARE_TERMS
    OBVIOUS
  <2>2. IsFiniteSet(MALWARE_TERMS \cup WEAK_MALWARE_TERMS)
    BY TermsAreFinite, FS_Union
  <2>3. QED
    BY <2>1, <2>2, FS_Subset, FS_CardinalityType
<1>2. 70 \in 0 .. 100 /\ 28 + Min({12, 4 * n}) \in 0 .. 45
  BY <1>1, AddsWithin
<1>3. ASSUME NEW severity
      PROVE  Weighs(Detected("malware-indicators", "malware", severity, 70, 28 + Min({12, 4 * n})))
  BY <1>2, DetectedWeighs
<1>4. PICK condition, severity :
        MalwareRule(ctx)
          = When(condition, Detected("malware-indicators", "malware", severity, 70,
                                     28 + Min({12, 4 * n})))
  BY Zenon DEF MalwareRule
<1>5. QED
  BY <1>3, <1>4, OneWeighed

LEMMA DisposableWeighed ==
  ASSUME NEW brand, NEW ctx
  PROVE  AreWeighed(DisposablePhishingRepoRule(brand, ctx))
<1>1. PICK signals, condition :
        /\ signals \subseteq {"phishing", "apk", "impersonation"}
        /\ DisposablePhishingRepoRule(brand, ctx)
             = When(condition, Detected("disposable-phishing-repo", "phishing", "high",
                                        Min({95, 75 + 7 * Cardinality(signals)}), 15))
  <2> DEFINE S == {s \in {"phishing", "apk", "impersonation"} :
                    CASE s = "phishing" -> PhishingHits(ctx) # {}
                      [] s = "apk" -> ApkSignals(ctx) # {} \/ HasApkFile(ctx)
                      [] s = "impersonation" ->
                           \E k \in SUSPICIOUS_KEYWORDS : Mentions(TextBlob(ctx), k)}
  <2>1. S \subseteq {"phishing", "apk", "impersonation"}
    OBVIOUS
  <2>2. \E condition : DisposablePhishingRepoRule(brand, ctx)
             = When(condition, Detected("disposable-phishing-repo", "phishing", "high",
                                        Min({95, 75 + 7 * Cardinality(S)}), 15))
    BY Zenon DEF DisposablePhishingRepoRule
  <2> HIDE DEF S
  <2>3. QED
    BY <2>1, <2>2, Zenon
<1> PICK n : n = Cardinality(signals)
  OBVIOUS
<1>2. n \in Nat
  <2>1. IsFiniteSet({"phishing", "apk", "impersonation", "apk", "apk", "apk"})
    BY SixAreFinite
  <2>2. signals \subseteq {"phishing", "apk", "impersonation", "apk", "apk", "apk"}
    BY <1>1
  <2>3. QED
    BY <2>1, <2>2, FS_Subset, FS_CardinalityType
<1>3. Min({95, 75 + 7 * n}) \in 0 .. 100 /\ 15 \in 0 .. 45
  <2>1. 95 \in 0 .. 100 /\ 75 \in Nat /\ 7 \in Nat /\ 15 \in 0 .. 45
    OBVIOUS
  <2>2. QED
    BY <1>2, <2>1, GrowsWithin, Zenon
<1>4. QED
  BY <1>1, <1>3, DetectedWeighs, OneWeighed

LEMMA OneOfTwoWeighed ==
  ASSUME NEW condition, NEW which, NEW d, NEW e, Weighs(d), Weighs(e)
  PROVE  AreWeighed(When(condition, IF which THEN d ELSE e))
BY OneWeighed

LEMMA FixedWeighed ==
  ASSUME NEW brand, NEW ctx
  PROVE  /\ AreWeighed(FakeApkRule(brand, ctx)) /\ AreWeighed(LowReputationRule(brand, ctx))
         /\ AreWeighed(SuspiciousOwnerAccountRule(brand, ctx)) /\ AreWeighed(ObfuscationRule(ctx))
         /\ AreWeighed(DeploymentSignalRule(brand, ctx))
<1>1. AreWeighed(FakeApkRule(brand, ctx))
  <2>1. /\ Weighs(Detected("fake-apk", "fake_apk", "critical", 90, 32))
        /\ Weighs(Detected("fake-apk", "fake_apk", "high", 75, 24))
    BY DEF Weighs, Detected
  <2>2. QED
    BY <2>1, OneOfTwoWeighed, Zenon DEF FakeApkRule
<1>2. AreWeighed(LowReputationRule(brand, ctx))
  <2>1. ASSUME NEW condition
        PROVE  Weighs(Detected("low-reputation-new-repo", "suspicious_repo", "low", 55,
                               IF condition THEN 12 ELSE 8))
    BY DEF Weighs, Detected
  <2>2. QED
    BY <2>1, OneWeighed, Zenon DEF LowReputationRule
<1>3. AreWeighed(SuspiciousOwnerAccountRule(brand, ctx))
  <2>1. /\ Weighs(Detected("suspicious-owner-account", "suspicious_repo", "medium", 70, 14))
        /\ Weighs(Detected("suspicious-owner-account", "suspicious_repo", "low", 50, 8))
    BY DEF Weighs, Detected
  <2>2. QED
    BY <2>1, OneOfTwoWeighed, NoneWeighed, Zenon DEF SuspiciousOwnerAccountRule
<1>4. AreWeighed(ObfuscationRule(ctx))
  <2>1. Weighs(Detected("obfuscated-commands", "malware", "high", 80, 22))
    BY DEF Weighs, Detected
  <2>2. QED
    BY <2>1, OneWeighed, Zenon DEF ObfuscationRule
<1>5. AreWeighed(DeploymentSignalRule(brand, ctx))
  <2>1. Weighs(Detected("deployment-signal", "suspicious_destination", "low", 50, 8))
    BY DEF Weighs, Detected
  <2>2. QED
    BY <2>1, OneWeighed, Zenon DEF DeploymentSignalRule
<1>6. QED
  BY <1>1, <1>2, <1>3, <1>4, <1>5

\* What is made of each member of a list.
LEMMA EachWeighed ==
  ASSUME NEW s, IsList(s), NEW x, x = [k \in DOMAIN s |-> x[k]], \A k \in DOMAIN s : Weighs(x[k])
  PROVE  AreWeighed(x)
<1>1. Len(s) \in Nat /\ DOMAIN s = 1 .. Len(s)
  BY ListFacts
<1>2. QED
  BY <1>1, MadeWeighed

LEMMA CutListed ==
  ASSUME NEW s, IsList(s), NEW m \in Nat
  PROVE  IsList(UpTo(s, m))
BY UpToIs, ListsAre DEF IsList

LEMMA SomeListed ==
  ASSUME NEW s, IsList(s), NEW places \in SUBSET DOMAIN s
  PROVE  IsList(Those(s, places))
BY ThoseListed, ListsAre DEF IsList

LEMMA KeywordsWeighed ==
  ASSUME NEW brand, brand = Nobody \/ IsList(brand.keywords), NEW ctx
  PROVE  AreWeighed(CustomKeywordMatchRule(brand, ctx))
<1>1. CASE brand = Nobody
  BY <1>1, NoneWeighed DEF CustomKeywordMatchRule
<1>2. CASE brand # Nobody
  <2> DEFINE Hit(e) == IF e.location \in STRONG_LOCATIONS \ {"owner"}
                       THEN Detected("custom-keyword-match", "custom_keyword_match", "medium", 75, 18)
                       ELSE Detected("custom-keyword-match", "custom_keyword_match", "low", 60, 12)
             keywords == Those(brand.keywords,
                               {i \in DOMAIN brand.keywords : brand.keywords[i] \notin brand.names})
             Of(k) == FindBrandMatch({k}, {}, ctx, ctx.keywordHits, TRUE)
             m == MAX_CUSTOM_KEYWORD_MATCHES
             found == UpTo(Those(keywords, {i \in DOMAIN keywords : Of(keywords[i]) # Nothing}), m)
             matches == FindKeywordMatches(keywords, ctx, m)
             x == [k \in DOMAIN matches |-> Hit(matches[k])]
  <2>1. CustomKeywordMatchRule(brand, ctx) = x
    BY <1>2 DEF CustomKeywordMatchRule
  <2>2. matches = [i \in DOMAIN found |-> Of(found[i])]
    BY DEF FindKeywordMatches
  <2>3. DOMAIN matches = DOMAIN found
    <3> HIDE DEF found, matches, Of
    <3> QED BY <2>2
  <2>4. IsList(found)
    <3>1. IsList(keywords)
      BY <1>2, SomeListed
    <3> HIDE DEF keywords, Of
    <3>2. IsList(Those(keywords, {i \in DOMAIN keywords : Of(keywords[i]) # Nothing}))
      BY <3>1, SomeListed
    <3>3. m \in Nat
      BY CapsAssumption
    <3>4. QED
      BY <3>2, <3>3, CutListed
  <2>5. \A e : Weighs(Hit(e))
    BY DEF Weighs, Detected
  <2> HIDE DEF matches, found, Hit
  <2>6. AreWeighed(x)
    <3>1. x = [k \in DOMAIN found |-> x[k]] /\ \A k \in DOMAIN found : Weighs(x[k])
      BY <2>3, <2>5
    <3> HIDE DEF x
    <3>2. QED
      BY <2>4, <3>1, EachWeighed
  <2>7. QED
    BY <2>1, <2>6
<1>3. QED
  BY <1>1, <1>2

\* The words of a list of lines, and the hosts that they send to.
LEMMA WordsAreFinite ==
  ASSUME NEW lines, AreLines(lines)
  PROVE  IsFiniteSet(UNION ToSet(lines))
BY RangeIsFinite, FS_UNION DEF AreLines

Readings(ctx) == {k \in DOMAIN ctx.haystacks : ctx.haystacks[k].source \in {"readme", "file"}}
SentIn(ctx, k) ==
  IF k \notin Readings(ctx) THEN {}
  ELSE {w.of : w \in {w \in UNION ToSet(ctx.haystacks[k].lines) : w.as = "sent"}}
NewIn(brand, ctx, k) ==
  SentIn(ctx, k) \ (({"cdn"} \cup (IF brand = Nobody THEN {} ELSE brand.hosts))
                    \cup UNION {SentIn(ctx, j) : j \in 1 .. (k - 1)})

LEMMA DestinationsAre ==
  ASSUME NEW brand, NEW ctx
  PROVE  ExtractDataDestinations(brand, ctx)
           = UpTo(FlattenSeq([k \in DOMAIN ctx.haystacks |-> SetToSeq(NewIn(brand, ctx, k))]), 8)
BY Zenon DEF ExtractDataDestinations, NewIn, SentIn, Readings

LEMMA TermsOfFinite ==
  ASSUME NEW S, IsFiniteSet(S)
  PROVE  IsFiniteSet({w.of : w \in S})
<1> DEFINE f == [w \in S |-> w.of]
<1>1. \A g : IsFiniteSet({g[x] : x \in S})
  BY ImageIsFinite
<1>2. IsFiniteSet({f[x] : x \in S})
  BY <1>1
<1>3. {w.of : w \in S} = {f[x] : x \in S}
  OBVIOUS
<1>4. QED
  BY <1>2, <1>3

LEMMA SentIsFinite ==
  ASSUME NEW ctx, InLists(ctx), NEW k \in DOMAIN ctx.haystacks
  PROVE  IsFiniteSet(SentIn(ctx, k))
<1> PICK words, sent : /\ words = UNION ToSet(ctx.haystacks[k].lines)
                       /\ sent = {w \in words : w.as = "sent"}
  OBVIOUS
<1>1. AreLines(ctx.haystacks[k].lines)
  BY DEF InLists, ToSet
<1>2. IsFiniteSet(sent)
  <2>1. IsFiniteSet(words) /\ sent \subseteq words
    BY <1>1, WordsAreFinite
  <2>2. QED
    BY <2>1, FS_Subset
<1>3. IsFiniteSet({w.of : w \in sent})
  BY <1>2, TermsOfFinite
<1>5. SentIn(ctx, k) = {} \/ SentIn(ctx, k) = {w.of : w \in sent}
  BY DEF SentIn
<1>6. QED
  BY <1>3, <1>5, FS_EmptySet

LEMMA DestinationsListed ==
  ASSUME NEW brand, NEW ctx, InLists(ctx)
  PROVE  IsList(ExtractDataDestinations(brand, ctx))
<1> PICK n, lists : /\ n = Len(ctx.haystacks)
                    /\ lists = [k \in DOMAIN ctx.haystacks |-> SetToSeq(NewIn(brand, ctx, k))]
  OBVIOUS
<1>1. n \in Nat /\ DOMAIN ctx.haystacks = 1 .. n
  BY ListFacts DEF InLists
<1> PICK U : U = UNION {SentIn(ctx, k) : k \in 1 .. n}
  OBVIOUS
<1>2. ASSUME NEW k \in 1 .. n
      PROVE  lists[k] \in Seq(U)
  <2> PICK S : S = NewIn(brand, ctx, k)
    OBVIOUS
  <2>1. S \subseteq SentIn(ctx, k)
    BY DEF NewIn
  <2>2. IsFiniteSet(S)
    BY <1>1, <2>1, SentIsFinite, FS_Subset
  <2>3. SetToSeq(S) \in Seq(S) /\ S \subseteq U
    BY <2>1, <2>2, SetListed
  <2>4. lists[k] = SetToSeq(S)
    BY <1>1
  <2>5. QED
    BY <2>3, <2>4, SeqMonotonic
<1>3. FlattenSeq(lists) \in Seq(U)
  <2>1. lists = [k \in 1 .. n |-> lists[k]]
    BY <1>1
  <2>2. QED
    BY <1>1, <1>2, <2>1, FlatListed
<1>4. ExtractDataDestinations(brand, ctx) = UpTo(FlattenSeq(lists), 8)
  BY DestinationsAre
<1>5. QED
  BY <1>3, <1>4, ListsAre, CutListed

LEMMA DestinationWeighed ==
  ASSUME NEW brand, NEW ctx, InLists(ctx)
  PROVE  AreWeighed(SuspiciousDestinationRule(brand, ctx))
<1> PICK hosts : hosts = UpTo(ExtractDataDestinations(brand, ctx), MAX_DESTINATION_DETECTIONS)
  OBVIOUS
<1>1. IsList(hosts)
  BY DestinationsListed, CutListed, CapsAssumption
<1> PICK d : d = Detected("suspicious-destination", "suspicious_destination", "high", 70, 25)
  OBVIOUS
<1>2. Weighs(d)
  BY DEF Weighs, Detected
<1>3. AreWeighed([k \in DOMAIN hosts |-> d])
  BY <1>1, <1>2, EachWeighed
<1>4. QED
  BY <1>3, NoneWeighed DEF SuspiciousDestinationRule

LEMMA AnalyzeWeighed ==
  ASSUME NEW brand, brand = Nobody \/ IsList(brand.keywords), NEW ctx, InLists(ctx), NEW exclude
  PROVE  AreWeighed(Analyze(brand, ctx, exclude))
<1> DEFINE a1 == SecretDetectionRule(ctx) \o BrandImpersonationRule(brand, ctx)
           a2 == a1 \o PhishingRule(brand, ctx)
           a3 == a2 \o FakeApkRule(brand, ctx)
           a4 == a3 \o MalwareRule(ctx)
           a5 == a4 \o LowReputationRule(brand, ctx)
           a6 == a5 \o ObfuscationRule(ctx)
           a7 == a6 \o DisposablePhishingRepoRule(brand, ctx)
           a8 == a7 \o CustomKeywordMatchRule(brand, ctx)
           a9 == a8 \o SuspiciousDestinationRule(brand, ctx)
           a10 == a9 \o DeploymentSignalRule(brand, ctx)
           all == a10 \o SuspiciousOwnerAccountRule(brand, ctx)
<1>1. Analyze(brand, ctx, exclude) = Those(all, {k \in DOMAIN all : all[k].rule \notin exclude})
  BY Zenon DEF Analyze, Without
<1>2. AreWeighed(a1)
  BY SecretsWeighed, ImpersonationWeighed, BothWeighed
<1> HIDE DEF a1
<1>3. AreWeighed(a2)
  BY <1>2, PhishingWeighed, BothWeighed
<1> HIDE DEF a2
<1>4. AreWeighed(a3)
  BY <1>3, FixedWeighed, BothWeighed
<1> HIDE DEF a3
<1>5. AreWeighed(a4)
  BY <1>4, MalwareWeighed, BothWeighed
<1> HIDE DEF a4
<1>6. AreWeighed(a5)
  BY <1>5, FixedWeighed, BothWeighed
<1> HIDE DEF a5
<1>7. AreWeighed(a6)
  BY <1>6, FixedWeighed, BothWeighed
<1> HIDE DEF a6
<1>8. AreWeighed(a7)
  BY <1>7, DisposableWeighed, BothWeighed
<1> HIDE DEF a7
<1>9. AreWeighed(a8)
  BY <1>8, KeywordsWeighed, BothWeighed
<1> HIDE DEF a8
<1>10. AreWeighed(a9)
  BY <1>9, DestinationWeighed, BothWeighed
<1> HIDE DEF a9
<1>11. AreWeighed(a10)
  BY <1>10, FixedWeighed, BothWeighed
<1> HIDE DEF a10
<1>12. AreWeighed(all)
  BY <1>11, FixedWeighed, BothWeighed
<1> HIDE DEF all
<1>13. QED
  BY <1>1, <1>12, ThoseWeighed

LEMMA ReusesWeighed ==
  ASSUME NEW p, NEW lines, IsList(lines), NEW known
  PROVE  AreWeighed(ReusesOf(p, lines, known))
<1> DEFINE places == {i \in DOMAIN lines : /\ Matches(p, lines[i].words)
                                          /\ \E w \in lines[i].words : w.of = p /\ w \in known}
           hits == UpTo(Those(lines, places), MAX_REUSE_MATCHES)
           x == ReusesOf(p, lines, known)
<1>1. x = [k \in DOMAIN hits |->
             [rule |-> "credential-reuse", category |-> "credential_reuse", severity |-> "critical",
              conf |-> 99, points |-> 40, file |-> hits[k].file, line |-> hits[k].line]]
  BY DEF ReusesOf
<1>2. IsList(hits)
  <2>1. places \in SUBSET DOMAIN lines
    OBVIOUS
  <2> HIDE DEF places
  <2>2. IsList(Those(lines, places))
    BY <2>1, SomeListed
  <2>3. MAX_REUSE_MATCHES \in Nat
    BY BudgetAssumption
  <2>4. QED
    BY <2>2, <2>3, CutListed
<1> HIDE DEF hits, x
<1>3. x = [k \in DOMAIN hits |-> x[k]] /\ \A k \in DOMAIN hits : Weighs(x[k])
  BY <1>1 DEF Weighs
<1>4. AreWeighed(x)
  BY <1>2, <1>3, EachWeighed
<1>5. QED
  BY <1>4 DEF x

LEMMA CredentialsWeighed ==
  ASSUME NEW ctx, InLists(ctx), NEW known
  PROVE  AreWeighed(FindCredentialReuseMatches(ctx, known))
<1> DEFINE lines == CollectHaystacks(ctx)
           patterns == Those(PatternOrder,
                             {i \in DOMAIN PatternOrder : \E w \in known : w.of = PatternOrder[i]})
           lists == [k \in DOMAIN patterns |-> ReusesOf(patterns[k], lines, known)]
<1>1. FindCredentialReuseMatches(ctx, known) = FlattenSeq(lists)
  BY Zenon DEF FindCredentialReuseMatches
<1>2. IsList(lines)
  BY HaystackLines DEF InLists, AreLines
<1>3. IsList(patterns)
  <2>2. IsList(PatternOrder)
    BY DEF IsList, PatternOrder, ToSet
  <2>3. {i \in DOMAIN PatternOrder : \E w \in known : w.of = PatternOrder[i]} \in SUBSET DOMAIN PatternOrder
    OBVIOUS
  <2>4. QED
    BY <2>2, <2>3, SomeListed
<1> HIDE DEF lines, patterns
<1> PICK n : n = Len(patterns)
  OBVIOUS
<1>4. n \in Nat /\ DOMAIN patterns = 1 .. n
  BY <1>3, ListFacts
<1>5. lists = [k \in 1 .. n |-> lists[k]] /\ \A k \in 1 .. n : AreWeighed(lists[k])
  BY <1>2, <1>4, ReusesWeighed
<1> HIDE DEF lists
<1>6. AreWeighed(FlattenSeq(lists))
  BY <1>4, <1>5, AllWeighed
<1>7. QED
  BY <1>1, <1>6

LEMMA PhraseReuseWeighed ==
  ASSUME NEW ctx, InLists(ctx), NEW stored, IsFiniteSet(stored.phrases)
  PROVE  AreWeighed(PhraseReuse(stored, ctx))
<1> DEFINE held == {x \in stored.phrases \X DOMAIN ctx.haystacks :
                      \E words \in ToSet(ctx.haystacks[x[2]].lines) : Includes(words, x[1].text)}
           n == Min({10, Cardinality(held)})
           d == Detected("content-reuse-phrase", "content_reuse", "high", 75, 22)
<1>1. PhraseReuse(stored, ctx) = [k \in 1 .. n |-> d]
  BY Zenon DEF PhraseReuse
<1>2. Cardinality(held) \in Nat
  <2>1. IsFiniteSet(DOMAIN ctx.haystacks)
    BY ListFacts, FS_Interval DEF InLists
  <2>2. IsFiniteSet(stored.phrases \X DOMAIN ctx.haystacks)
    BY <2>1, FS_Product
  <2>3. held \subseteq stored.phrases \X DOMAIN ctx.haystacks
    OBVIOUS
  <2> HIDE DEF held
  <2>4. QED
    BY <2>2, <2>3, FS_Subset, FS_CardinalityType
<1> HIDE DEF held
<1>3. n \in Nat
  <2>1. 10 \in Nat /\ 0 .. 10 \subseteq Nat
    OBVIOUS
  <2>2. n \in 0 .. 10
    BY <1>2, <2>1, LesserWithin, Zenon
  <2>3. QED
    BY <2>1, <2>2
<1>4. Weighs(d)
  BY DEF Weighs, Detected
<1> HIDE DEF n, d
<1> PICK x : x = [k \in 1 .. n |-> d]
  OBVIOUS
<1>5. x = [k \in 1 .. n |-> x[k]] /\ \A k \in 1 .. n : Weighs(x[k])
  BY <1>4
<1>6. AreWeighed(x)
  BY <1>3, <1>5, MadeWeighed
<1>7. QED
  BY <1>1, <1>6

LEMMA FileReuseWeighed ==
  ASSUME NEW ctx, InLists(ctx), NEW stored
  PROVE  AreWeighed(FileReuse(stored, ctx))
<1> DEFINE Trivial(h) == UNION ToSet(h.lines) = {}
           Copied(h) == /\ h.source \in {"file", "readme"} /\ ~Trivial(h)
                        /\ \E x \in stored.files : x.hash = h.lines
           places == {k \in DOMAIN ctx.haystacks : Copied(ctx.haystacks[k])}
           copied == UpTo(Those(ctx.haystacks, places), 10)
           d == Detected("content-reuse-file", "content_reuse", "critical", 95, 35)
<1>1. FileReuse(stored, ctx) = [k \in DOMAIN copied |-> d]
  BY Zenon DEF FileReuse
<1>2. IsList(copied)
  <2>1. places \in SUBSET DOMAIN ctx.haystacks
    OBVIOUS
  <2> HIDE DEF places
  <2>2. IsList(Those(ctx.haystacks, places))
    BY <2>1, SomeListed DEF InLists
  <2>3. 10 \in Nat
    OBVIOUS
  <2>4. QED
    BY <2>2, <2>3, CutListed
<1>3. Weighs(d)
  BY DEF Weighs, Detected
<1> HIDE DEF copied, d
<1>4. AreWeighed([k \in DOMAIN copied |-> d])
  BY <1>2, <1>3, EachWeighed
<1>5. QED
  BY <1>1, <1>4

LEMMA ReuseWeighed ==
  ASSUME NEW ctx, InLists(ctx), NEW stored, IsFiniteSet(stored.phrases)
  PROVE  AreWeighed(Reuse(stored, ctx))
<1> PICK x : x = FindCredentialReuseMatches(ctx, stored.secrets) \o PhraseReuse(stored, ctx)
  OBVIOUS
<1>1. AreWeighed(x)
  BY CredentialsWeighed, PhraseReuseWeighed, BothWeighed
<1>2. Reuse(stored, ctx) = x \o FileReuse(stored, ctx)
  BY Zenon DEF Reuse
<1>3. QED
  BY <1>1, <1>2, FileReuseWeighed, BothWeighed

LEMMA LivenessWeighed ==
  ASSUME NEW brand, NEW ctx, InLists(ctx), NEW repo
  PROVE  AreWeighed(CheckLiveness(brand, ctx, repo))
<1> DEFINE sentTo == UpTo(ExtractDataDestinations(brand, ctx), 3)
           places == {k \in DOMAIN sentTo : sentTo[k] \in repo.live}
           live == Those(sentTo, places)
           d == Detected("live-destination", "suspicious_destination", "critical", 90, 30)
           e == Detected("confirmed-live-deployment", "confirmed_live", "critical", 95, 32)
<1>1. CheckLiveness(brand, ctx, repo) = [k \in DOMAIN live |-> d] \o When(repo.deployed, e)
  BY Zenon DEF CheckLiveness
<1>2. IsList(live)
  <2>1. IsList(sentTo)
    <3>1. 3 \in Nat
      OBVIOUS
    <3>2. QED
      BY <3>1, DestinationsListed, CutListed
  <2> HIDE DEF sentTo
  <2>2. places \in SUBSET DOMAIN sentTo
    OBVIOUS
  <2> HIDE DEF places
  <2>3. QED
    BY <2>1, <2>2, SomeListed
<1>3. Weighs(d) /\ Weighs(e)
  BY DEF Weighs, Detected
<1> HIDE DEF live, d, e
<1>4. AreWeighed([k \in DOMAIN live |-> d]) /\ AreWeighed(When(repo.deployed, e))
  BY <1>2, <1>3, EachWeighed, OneWeighed
<1>5. QED
  BY <1>1, <1>4, BothWeighed

-----------------------------------------------------------------------------
(* The score.                                                                *)

LEMMA GreaterIs ==
  ASSUME NEW a \in Int, NEW b \in Int
  PROVE  Max({a, b}) = IF a >= b THEN a ELSE b
<1>1. \E m \in {a, b} : \A j \in {a, b} : m >= j
  OBVIOUS
<1> PICK m : m = Max({a, b})
  OBVIOUS
<1>2. m \in {a, b} /\ \A j \in {a, b} : m >= j
  BY <1>1 DEF Max
<1>3. QED
  BY <1>2

LEMMA BonusesAre ==
  ASSUME NEW n \in Nat
  PROVE  OperatorBonus(n) \in Nat /\ IdentityBonus(n) \in Nat
<1>1. /\ 8 + 6 * n \in Nat /\ 15 + 8 * n \in Nat /\ 20 \in Nat /\ 30 \in Nat /\ 0 \in Nat
      /\ 0 .. 20 \subseteq Nat /\ 0 .. 30 \subseteq Nat
  OBVIOUS
<1>2. Min({20, 8 + 6 * n}) \in 0 .. 20 /\ Min({30, 15 + 8 * n}) \in 0 .. 30
  BY <1>1, LesserWithin, Zenon
<1>3. QED
  BY <1>1, <1>2 DEF OperatorBonus, IdentityBonus

\* Bounded by what a score may be.
LEMMA ScoreArithmetic ==
  ASSUME NEW p \in Nat, NEW s \in Nat, p <= s
  PROVE  Max({0, Min({100, s})}) >= Min({100, p})
<1> PICK a, b : a = Min({100, s}) /\ b = Min({100, p})
  OBVIOUS
<1>1. a = (IF 100 <= s THEN 100 ELSE s) /\ b = (IF 100 <= p THEN 100 ELSE p)
  <2>1. 100 \in Int /\ s \in Int /\ p \in Int
    OBVIOUS
  <2>2. QED
    BY <2>1, LesserIs, Zenon
<1>2. a \in Int /\ 0 <= a /\ b <= a
  BY <1>1
<1>3. Max({0, a}) = IF 0 >= a THEN 0 ELSE a
  <2>1. 0 \in Int
    OBVIOUS
  <2>2. QED
    BY <1>2, <2>1, GreaterIs, Zenon
<1> PICK m : m = Max({0, a})
  OBVIOUS
<1>4. m >= b
  BY <1>1, <1>2, <1>3
<1>5. QED
  BY <1>4

LEMMA ScoreTakesNothing ==
  ASSUME NEW x, Points(x) \in Nat, ~HasMaliciousIntentSignal(x), NEW ctx, NEW m \in Nat, NEW n \in Nat
  PROVE  Calculate(x, ctx, m, n) >= Min({100, Points(x)})
<1> PICK p, d, o, i : /\ p = Points(x) /\ d = DiversityBonus(x)
                      /\ o = OperatorBonus(m) /\ i = IdentityBonus(n)
  OBVIOUS
<1>1. d \in Nat
  BY DEF DiversityBonus
<1>2. o \in Nat /\ i \in Nat
  BY BonusesAre
<1>3. p + d + 0 + o + i \in Nat /\ p <= p + d + 0 + o + i
  BY <1>1, <1>2
<1>4. Calculate(x, ctx, m, n) = Max({0, Min({100, p + d + 0 + o + i})})
  BY DEF Calculate
<1>5. QED
  BY <1>3, <1>4, ScoreArithmetic

\* What the repeats of one rule, none worth much, come to.
NotCriticalBy(x, rule) ==
  LET own == Those(x, {k \in DOMAIN x : x[k].rule = rule})
  IN (\A d \in ToSet(own) : d.points <= 25) => SeverityFromScore(Points(own)) # "critical"

LEMMA RepeatsAreNotCritical ==
  ASSUME NEW x, AreWeighed(x), NEW rule
  PROVE  NotCriticalBy(x, rule)
<1> DEFINE places == {k \in DOMAIN x : x[k].rule = rule}
           own == Those(x, places)
<1> SUFFICES ASSUME \A d \in ToSet(own) : d.points <= 25
             PROVE  SeverityFromScore(Points(own)) # "critical"
  BY DEF NotCriticalBy
<1>1. places \in SUBSET DOMAIN x
  OBVIOUS
<1>2. AreWeighed(own)
  <2> HIDE DEF places
  <2> QED BY <1>1, ThoseWeighed
<1>3. \A k \in DOMAIN own : own[k].rule = rule
  <2> DEFINE S == {x[k] : k \in places}
             list == [k \in DOMAIN x |-> x[k]]
  <2>1. x \in Seq(ToSet(x))
    BY DEF AreWeighed, IsList
  <2>2. \A k \in DOMAIN own : \E j \in places : own[k] = x[j]
    <3>1. Len(x) \in Nat /\ DOMAIN x = 1 .. Len(x)
      BY ListFacts DEF AreWeighed
    <3>2. \A k \in DOMAIN Ascending(places) : Ascending(places)[k] \in places
      <4> HIDE DEF places
      <4> QED BY <1>1, <3>1, AscendingIs
    <3>3. own = [k \in DOMAIN Ascending(places) |-> x[Ascending(places)[k]]]
      BY Zenon DEF Those
    <3> HIDE DEF own, places
    <3>4. QED
      BY <3>2, <3>3
  <2>3. QED
    BY <2>2
<1> HIDE DEF own
<1>4. \A k \in DOMAIN own : own[k].points <= 25
  BY DEF ToSet
<1>5. Points(own) \in Nat /\ Points(own) <= 61
  BY <1>2, <1>3, <1>4, RepeatsAreCapped
<1>6. QED
  BY <1>5 DEF SeverityFromScore

-----------------------------------------------------------------------------
(* The score of a repository: the inductive invariant.                       *)

\* A brand whose keywords are a list, or none.
Asks(brand) == brand = Nobody \/ IsList(brand.keywords)

JobFair(x) ==
  /\ x.stage \notin {"idle", "found"} => "brand" \in DOMAIN x /\ Asks(BrandOf(x.brand))
  /\ x.stage \in {"detected", "stored", "pruned", "scored"} =>
       "detections" \in DOMAIN x /\ AreWeighed(x.detections)
  /\ x.stage = "scored" /\ ~HasMaliciousIntentSignal(x.detections) =>
       x.score >= Min({100, Points(x.detections)})

FindingsFinite == DOMAIN findings = DOMAIN Repo /\ \A r \in DOMAIN Repo : IsFiniteSet(findings[r])
CorpusFinite == "phrases" \in DOMAIN corpus /\ IsFiniteSet(corpus.phrases)

\* Whatever was detected is weighed, and what is counted can be counted.
FairInv == ReadInv /\ FindingsFinite /\ CorpusFinite /\ \A r \in DOMAIN Repo : JobFair(jobs[r])

-----------------------------------------------------------------------------
\* The corpus never grows by more than a phrase at a time.
LEMMA CommitIsFinite ==
  ASSUME NEW F \in Commits
  PROVE  IsFiniteSet(CorpusOfFiles(F).phrases)
<1> DEFINE g == [f \in ToSet(F) |-> {[path |-> Path(f), text |-> t] : t \in PhrasesOf(f)}]
<1>1. IsFiniteSet(ToSet(F))
  BY CommitFacts, RangeIsFinite DEF IsList
<1>2. ASSUME NEW f \in ToSet(F)
      PROVE  IsFiniteSet(g[f])
  <2>1. IsFiniteSet(PhrasesOf(f))
    <3>1. PICK i \in DOMAIN F : f = F[i]
      BY DEF ToSet
    <3>2. IsList(ExtractDistinctivePhrases(f))
      BY <3>1, CommitFacts DEF IsList
    <3>3. QED
      BY <3>2, RangeIsFinite, FS_EmptySet DEF PhrasesOf
  <2> DEFINE h == [t \in PhrasesOf(f) |-> [path |-> Path(f), text |-> t]]
  <2>2. \A e : IsFiniteSet({e[x] : x \in PhrasesOf(f)})
    BY <2>1, ImageIsFinite
  <2>3. IsFiniteSet({h[x] : x \in PhrasesOf(f)})
    BY <2>2
  <2>4. g[f] = {h[x] : x \in PhrasesOf(f)}
    OBVIOUS
  <2>5. QED
    BY <2>3, <2>4
<1>3. \A e : IsFiniteSet({e[x] : x \in ToSet(F)})
  BY <1>1, ImageIsFinite
<1>4. IsFiniteSet({g[x] : x \in ToSet(F)})
  BY <1>3
<1>5. IsFiniteSet(UNION {g[x] : x \in ToSet(F)})
  BY <1>2, <1>4, FS_UNION
<1>6. CorpusOfFiles(F).phrases = UNION {g[x] : x \in ToSet(F)}
  BY DEF CorpusOfFiles
<1>7. QED
  BY <1>5, <1>6

LEMMA CorpusBegins ==
  ASSUME Init
  PROVE  CorpusFinite
<1>1. corpus = CorpusOf(Repo[Reference][1]) \/ corpus = EmptyCorpus
  BY DEF Init, PipelineInit, CorpusInit
<1>2. CASE corpus = EmptyCorpus
  BY <1>2, FS_EmptySet DEF EmptyCorpus, CorpusFinite
<1>3. CASE corpus = CorpusOf(Repo[Reference][1])
  <2> PICK F : F = ReferenceFiles(Repo[Reference][1])
    OBVIOUS
  <2>1. F \in Commits
    BY ListsAssumption DEF Commits
  <2>2. corpus = CorpusOfFiles(F)
    BY <1>3 DEF CorpusOf
  <2>3. "phrases" \in DOMAIN corpus
    BY <2>2 DEF CorpusOfFiles
  <2>4. QED
    BY <2>1, <2>2, <2>3, CommitIsFinite DEF CorpusFinite
<1>4. QED
  BY <1>1, <1>2, <1>3

LEMMA CorpusStays ==
  ASSUME CorpusFinite, [Next]_vars
  PROVE  CorpusFinite'
<1>1. CASE UNCHANGED corpus
  BY <1>1 DEF CorpusFinite
<1>2. ASSUME NEW c \in Callers, IngestStep(c)
      PROVE  CorpusFinite'
  <2>1. CASE UpsertFile(c) \/ UpsertSecrets(c) \/ PruneFiles(c)
    <3>1. DOMAIN corpus' = DOMAIN corpus /\ corpus'.phrases = corpus.phrases
      BY <2>1 DEF CorpusFinite, UpsertFile, UpsertSecrets, PruneFiles
    <3>2. QED
      BY <3>1 DEF CorpusFinite
  <2>2. CASE UpsertPhrase(c)
    <3> PICK p : p = [path |-> Path(AtHand(c)), text |-> Head(ingests[c].left)]
      OBVIOUS
    <3>1. DOMAIN corpus' = DOMAIN corpus /\ corpus'.phrases = corpus.phrases \cup {p}
      BY <2>2 DEF CorpusFinite, UpsertPhrase
    <3>2. IsFiniteSet(corpus.phrases \cup {p})
      BY FS_AddElement DEF CorpusFinite
    <3>3. QED
      BY <3>1, <3>2 DEF CorpusFinite
  <2>3. CASE DropStalePhrases(c) \/ PrunePhrases(c)
    <3>1. DOMAIN corpus' = DOMAIN corpus /\ corpus'.phrases \subseteq corpus.phrases
      BY <2>3 DEF CorpusFinite, DropStalePhrases, PrunePhrases
    <3>2. QED
      BY <3>1, FS_Subset DEF CorpusFinite
  <2>4. QED
    BY <1>2, <2>1, <2>2, <2>3 DEF IngestStep
<1>3. CASE IngestNext
  BY <1>1, <1>2, <1>3 DEF IngestNext, IngestReferenceRepo, RemoveReferenceRepo, Begin, CrashIngest
<1>4. QED
  BY <1>1, <1>3 DEF Next, PipelineNext, vars, corpusVars

-----------------------------------------------------------------------------
\* What becomes of the findings of a repository.
LEMMA ResolvedFinite ==
  ASSUME NEW all, IsFiniteSet(all), NEW seen
  PROVE  IsFiniteSet(ResolveMissing(all, seen))
<1> DEFINE g == [f \in all |->
                   [f EXCEPT !.status = IF @ = "open" /\ f.rules \notin seen THEN "resolved" ELSE @]]
<1>1. \A e : IsFiniteSet({e[x] : x \in all})
  BY ImageIsFinite
<1>2. IsFiniteSet({g[x] : x \in all})
  BY <1>1
<1>3. ResolveMissing(all, seen) = all \/ ResolveMissing(all, seen) = {g[x] : x \in all}
  BY DEF ResolveMissing
<1>4. QED
  BY <1>2, <1>3

LEMMA RefreshedFinite ==
  ASSUME NEW existing, IsFiniteSet(existing), NEW job, NEW brand
  PROVE  IsFiniteSet({Refreshed(f, job, brand) : f \in existing})
<1> DEFINE g == [f \in existing |-> Refreshed(f, job, brand)]
<1>1. \A e : IsFiniteSet({e[x] : x \in existing})
  BY ImageIsFinite
<1>2. IsFiniteSet({g[x] : x \in existing})
  BY <1>1
<1>3. {Refreshed(f, job, brand) : f \in existing} = {g[x] : x \in existing}
  OBVIOUS
<1>4. QED
  BY <1>2, <1>3

LEMMA FindingsMove ==
  ASSUME FindingsFinite, NEW r, NEW all, IsFiniteSet(all), findings' = [findings EXCEPT ![r] = all]
  PROVE  FindingsFinite'
BY DEF FindingsFinite

LEMMA OneForAnother ==
  ASSUME NEW all, IsFiniteSet(all), NEW f, NEW g
  PROVE  IsFiniteSet((all \ {f}) \cup {g})
BY FS_RemoveElement, FS_AddElement

LEMMA FindingsStay ==
  ASSUME FindingsFinite, [Next]_vars
  PROVE  FindingsFinite'
<1>1. CASE UNCHANGED findings
  BY <1>1 DEF FindingsFinite
<1>2. ASSUME NEW r \in DOMAIN Repo, PruneFingerprints(r)
      PROVE  FindingsFinite'
  <2> PICK all : all = ResolveMissing(findings[r], {})
    OBVIOUS
  <2>1. IsFiniteSet(all)
    BY ResolvedFinite DEF FindingsFinite
  <2>2. UNCHANGED findings \/ findings' = [findings EXCEPT ![r] = all]
    BY <1>2 DEF PruneFingerprints
  <2>3. QED
    BY <1>1, <2>1, <2>2, FindingsMove
<1>3. ASSUME NEW r \in DOMAIN Repo, Persist(r)
      PROVE  FindingsFinite'
  <2> PICK job, rules, brand : /\ job = jobs[r] /\ rules = Fingerprint(jobs[r].detections)
                               /\ brand = BrandOf(jobs[r].brand).name
    OBVIOUS
  <2> PICK existing : existing = {f \in findings[r] : f.rules = rules}
    OBVIOUS
  <2> PICK saved : saved = IF existing = {} THEN {Created(job, brand)}
                           ELSE {Refreshed(f, job, brand) : f \in existing}
    OBVIOUS
  <2> PICK all : all = ResolveMissing((findings[r] \ existing) \cup saved, {rules})
    OBVIOUS
  <2>1. IsFiniteSet(findings[r] \ existing) /\ IsFiniteSet(existing)
    <3>1. findings[r] \ existing \subseteq findings[r] /\ existing \subseteq findings[r]
      OBVIOUS
    <3>2. QED
      BY <3>1, FS_Subset DEF FindingsFinite
  <2>2. IsFiniteSet(saved)
    <3>1. IsFiniteSet({Created(job, brand)})
      BY FS_Singleton
    <3>2. IsFiniteSet({Refreshed(f, job, brand) : f \in existing})
      BY <2>1, RefreshedFinite
    <3>3. QED
      BY <3>1, <3>2
  <2>3. IsFiniteSet((findings[r] \ existing) \cup saved)
    BY <2>1, <2>2, FS_Union
  <2>4. IsFiniteSet(all)
    BY <2>3, ResolvedFinite
  <2>5. findings' = [findings EXCEPT ![r] = all]
    BY <1>3 DEF Persist
  <2>6. QED
    BY <2>4, <2>5, FindingsMove
<1>4. ASSUME NEW r \in DOMAIN Repo, Dismiss(r)
      PROVE  FindingsFinite'
  <2>1. PICK f \in findings[r] :
          findings' = [findings EXCEPT ![r] = (@ \ {f}) \cup {[f EXCEPT !.status = "false_positive"]}]
    BY <1>4 DEF Dismiss
  <2> PICK g : g = [f EXCEPT !.status = "false_positive"]
    OBVIOUS
  <2> PICK all : all = (findings[r] \ {f}) \cup {g}
    OBVIOUS
  <2>2. IsFiniteSet(all)
    BY OneForAnother DEF FindingsFinite
  <2>3. findings' = [findings EXCEPT ![r] = all]
    BY <2>1
  <2>4. QED
    BY <2>2, <2>3, FindingsMove
<1>5. ASSUME NEW a, Apply(a)
      PROVE  FindingsFinite'
  <2>1. PICK r, f, g : findings' = [findings EXCEPT ![r] = (@ \ {f}) \cup {g}]
    BY <1>5 DEF Apply
  <2>2. CASE r \in DOMAIN Repo
    <3> PICK all : all = (findings[r] \ {f}) \cup {g}
      OBVIOUS
    <3>1. IsFiniteSet(all)
      BY <2>2, OneForAnother DEF FindingsFinite
    <3>2. findings' = [findings EXCEPT ![r] = all]
      BY <2>1
    <3>3. QED
      BY <3>1, <3>2, FindingsMove
  <2>3. CASE r \notin DOMAIN Repo
    BY <2>1, <2>3 DEF FindingsFinite
  <2>4. QED
    BY <2>2, <2>3
<1>6. CASE AnalysisNext
  <2>1. CASE BuildSearchQueries
    BY <1>1, <2>1 DEF BuildSearchQueries
  <2>2. ASSUME NEW r \in DOMAIN Repo, NEW greps, NEW treeKnown,
               \/ Clone(r, greps) \/ FetchOverRest(r, treeKnown)
               \/ Find(r) \/ Enumerate(r) \/ AskForBranch(r)
               \/ ReadHistory(r) \/ Detect(r) \/ StoreFingerprints(r)
               \/ Score(r) \/ Crash(r) \/ Again(r)
        PROVE  UNCHANGED findings
    BY <2>2 DEF Clone, FetchOverRest, Find, Enumerate, AskForBranch, Start, ReadHistory, Detect,
                StoreFingerprints, Score, Crash, Again
  <2>3. QED
    BY <1>1, <1>2, <1>3, <1>4, <1>6, <2>1, <2>2 DEF AnalysisNext
<1>7. CASE IngestNext
  BY <1>1, <1>7 DEF IngestNext, pipelineVars
<1>8. CASE AssessmentNext
  <2>1. ASSUME NEW a \in DOMAIN assessors, NEW answers, NEW reachable,
               Build(a) \/ Record(a) \/ CrashAssessor(a) \/ Ask(a, answers) \/ RunDeepReview(a, reachable)
        PROVE  UNCHANGED findings
    BY <2>1 DEF Build, Record, CrashAssessor, Ask, RunDeepReview, pipelineVars
  <2>2. ASSUME NEW id, NEW r, TakeTask(id) \/ ForgetTask(id) \/ Reanalyze(r) \/ BackfillIntentAssessments
        PROVE  UNCHANGED findings
    BY <2>2 DEF TakeTask, ForgetTask, Reanalyze, BackfillIntentAssessments, pipelineVars
  <2>3. QED
    BY <1>1, <1>5, <1>8, <2>1, <2>2 DEF AssessmentNext
<1>9. CASE UNCHANGED vars
  BY <1>1, <1>9 DEF vars, pipelineVars
<1>10. QED
  BY <1>6, <1>7, <1>8, <1>9 DEF Next, PipelineNext

\* The brand that an analysis decides on is one of the list, or none.
LEMMA BestAsks ==
  ASSUME NEW ctx
  PROVE  Asks(BrandOf(FindBestBrandMatch(ScannedBrands, ctx)))
<1> PICK S, n, i : S = ScannedBrands /\ n = Len(S) /\ i = FindBestBrandMatch(S, ctx)
  OBVIOUS
<1>1. S \in Seq(ToSet(S)) /\ n \in Nat /\ DOMAIN S = 1 .. n
  BY ScannedAreListed
<1>2. i = Best(S, ctx, DOMAIN S)
  BY <1>1, BestIsFound
<1>3. CASE Evident(S, ctx, DOMAIN S) = {}
  <2>1. i = 0
    BY <1>2, <1>3 DEF Best
  <2>2. QED
    BY <2>1 DEF BrandOf, Asks
<1>4. CASE Evident(S, ctx, DOMAIN S) # {}
  <2>1. i \in DOMAIN S
    <3>1. Leads(S, ctx, DOMAIN S, i)
      BY <1>1, <1>2, <1>4, OneLeads
    <3>2. QED
      BY <3>1 DEF Leads, Evident
  <2>2. i \in DOMAIN Brands /\ i # 0
    <3>1. CASE S = <<Brands[1]>>
      BY <2>1, <3>1, ListsAssumption
    <3>2. CASE S = Brands
      BY <1>1, <2>1, <3>2
    <3>3. QED
      BY <3>1, <3>2 DEF ScannedBrands
  <2>3. BrandOf(i) = Brands[i] /\ Brands[i] \in ToSet(Brands)
    BY <2>2 DEF BrandOf, ToSet
  <2>4. QED
    BY <2>3, ListsAssumption DEF Asks, IsList
<1>5. QED
  BY <1>3, <1>4

\* What a detection comes to, part by part.
Ruled(r) == Analyze(BrandOf(jobs[r].brand), jobs[r].ctx,
                    IF plan.audit THEN IMPERSONATION_ONLY_RULE_IDS ELSE {})
WithReuse(r) ==
  IF plan.audit \/ jobs[r].brand = 0 THEN Ruled(r)
  ELSE Ruled(r) \o Reuse(Stored(BrandOf(jobs[r].brand)), jobs[r].ctx)
Confirmed(r) ==
  IF plan.audit \/ Meaningful(WithReuse(r)) = <<>> THEN WithReuse(r)
  ELSE WithReuse(r) \o CheckLiveness(BrandOf(jobs[r].brand), jobs[r].ctx, Now(r))

LEMMA DetectIs ==
  ASSUME NEW r, Detect(r)
  PROVE  jobs' = [jobs EXCEPT ![r] =
           [stage |-> "detected", round |-> jobs[r].round, guess |-> jobs[r].guess,
            brand |-> jobs[r].brand, ctx |-> jobs[r].ctx, detections |-> Confirmed(r)]]
BY DEF Detect, Confirmed, WithReuse, Ruled

LEMMA ConfirmedWeighed ==
  ASSUME CorpusFinite, NEW r, InLists(jobs[r].ctx), Asks(BrandOf(jobs[r].brand))
  PROVE  AreWeighed(Confirmed(r))
<1> PICK brand, ctx, exclude : /\ brand = BrandOf(jobs[r].brand) /\ ctx = jobs[r].ctx
                               /\ exclude = IF plan.audit THEN IMPERSONATION_ONLY_RULE_IDS ELSE {}
  OBVIOUS
<1>1. AreWeighed(Ruled(r))
  <2>1. AreWeighed(Analyze(brand, ctx, exclude))
    BY AnalyzeWeighed DEF Asks
  <2>2. Ruled(r) = Analyze(brand, ctx, exclude)
    BY DEF Ruled
  <2>3. QED
    BY <2>1, <2>2
<1>2. AreWeighed(WithReuse(r))
  <2> PICK stored : stored = Stored(brand)
    OBVIOUS
  <2>1. IsFiniteSet(stored.phrases)
    BY FS_EmptySet DEF Stored, EmptyCorpus, CorpusFinite
  <2>2. AreWeighed(Reuse(stored, ctx))
    BY <2>1, ReuseWeighed
  <2>3. AreWeighed(Ruled(r) \o Reuse(stored, ctx))
    BY <1>1, <2>2, BothWeighed
  <2>4. QED
    BY <1>1, <2>3 DEF WithReuse
<1>3. QED
  <2> PICK repo : repo = Now(r)
    OBVIOUS
  <2>1. AreWeighed(CheckLiveness(brand, ctx, repo))
    BY LivenessWeighed
  <2>2. AreWeighed(WithReuse(r) \o CheckLiveness(brand, ctx, repo))
    BY <1>2, <2>1, BothWeighed
  <2>3. QED
    BY <1>2, <2>2 DEF Confirmed

\* What the score counts can be counted.
LEMMA OthersAreFinite ==
  ASSUME FindingsFinite, NEW r
  PROVE  Cardinality(GetOperatorContext(r)) \in Nat /\ Cardinality(GetCrossIdentityContext(r)) \in Nat
<1>1. ASSUME NEW S, S \subseteq DOMAIN Repo
      PROVE  IsFiniteSet(S)
  BY <1>1, RepositoriesAssumption, FS_Subset
<1>2. IsFiniteSet(GetOperatorContext(r))
  <2> DEFINE others == {q \in DOMAIN Repo \ {r} : Now(q).owner = Now(r).owner}
             standing == {f \in UNION {findings[q] : q \in others} : f.status # "false_positive"}
             g == [f \in standing |-> f.brand]
  <2>1. IsFiniteSet(others)
    BY <1>1
  <2>2. IsFiniteSet({findings[q] : q \in others})
    BY <2>1, ImageIsFinite
  <2>3. \A all \in {findings[q] : q \in others} : IsFiniteSet(all)
    BY DEF FindingsFinite
  <2>4. IsFiniteSet(UNION {findings[q] : q \in others})
    BY <2>2, <2>3, FS_UNION
  <2>5. IsFiniteSet(standing)
    BY <2>4, FS_Subset
  <2>6. GetOperatorContext(r) = {f.brand : f \in standing} \ {""}
    BY DEF GetOperatorContext
  <2> HIDE DEF standing
  <2>7. \A e : IsFiniteSet({e[x] : x \in standing})
    BY <2>5, ImageIsFinite
  <2>8. IsFiniteSet({g[x] : x \in standing})
    BY <2>7
  <2>9. GetOperatorContext(r) \subseteq {g[x] : x \in standing}
    BY <2>6
  <2>10. QED
    BY <2>8, <2>9, FS_Subset
<1>3. IsFiniteSet(GetCrossIdentityContext(r))
  <2> DEFINE linked == {q \in DOMAIN Repo \ {r} :
                          /\ Now(q).owner # Now(r).owner
                          /\ prints[q] \cap ExtractOperatorFingerprints(jobs[r].ctx) # {}
                          /\ Stands(q)}
             g == [q \in linked |-> Now(q).owner]
  <2>1. IsFiniteSet(linked)
    BY <1>1
  <2>2. GetCrossIdentityContext(r) = {Now(q).owner : q \in linked}
    BY DEF GetCrossIdentityContext
  <2> HIDE DEF linked
  <2>3. \A e : IsFiniteSet({e[x] : x \in linked})
    BY <2>1, ImageIsFinite
  <2>4. IsFiniteSet({g[x] : x \in linked})
    BY <2>3
  <2>5. GetCrossIdentityContext(r) = {g[x] : x \in linked}
    BY <2>2
  <2>6. QED
    BY <2>4, <2>5
<1>4. QED
  BY <1>2, <1>3, FS_CardinalityType

-----------------------------------------------------------------------------
\* A step of one repository's work.
LEMMA FairKeeps ==
  ASSUME \A q \in DOMAIN Repo : JobFair(jobs[q]), DOMAIN jobs = DOMAIN Repo, NEW r \in DOMAIN Repo,
         NEW x, jobs' = [jobs EXCEPT ![r] = x], JobFair(x)
  PROVE  \A q \in DOMAIN Repo : JobFair(jobs'[q])
<1> SUFFICES ASSUME NEW q \in DOMAIN Repo PROVE JobFair(jobs'[q])
  OBVIOUS
<1>1. jobs'[r] = x /\ (q # r => jobs'[q] = jobs[q])
  OBVIOUS
<1>2. QED
  BY <1>1

JobsFair == \A q \in DOMAIN Repo : JobFair(jobs[q])

LEMMA FairFetch ==
  ASSUME FairInv, NEW r \in DOMAIN Repo, NEW greps, NEW treeKnown,
         Clone(r, greps) \/ FetchOverRest(r, treeKnown)
  PROVE  JobsFair'
<1>1. \A q \in DOMAIN Repo : JobFair(jobs[q])
  BY DEF FairInv
<1>2. DOMAIN jobs = DOMAIN Repo
  BY DEF FairInv, ReadInv
<1>3. PICK ctx, profile : jobs' = [jobs EXCEPT ![r] = Attribute(jobs[r], ctx, profile)]
  BY DEF Clone, FetchOverRest
<1> PICK x : x = Attribute(jobs[r], ctx, profile)
  OBVIOUS
<1>4. x.stage = "fetched" /\ "brand" \in DOMAIN x /\ x.brand = FindBestBrandMatch(ScannedBrands, ctx)
  BY DEF Attribute
<1>5. JobFair(x)
  BY <1>4, BestAsks DEF JobFair
<1>6. jobs' = [jobs EXCEPT ![r] = x]
  BY <1>3
<1>7. \A q \in DOMAIN Repo : JobFair(jobs'[q])
  BY <1>1, <1>2, <1>5, <1>6, FairKeeps
<1>8. QED
  BY <1>7 DEF JobsFair, JobFair, BrandOf

LEMMA FairStep ==
  ASSUME FairInv, NEW r \in DOMAIN Repo,
         \/ Find(r) \/ Enumerate(r) \/ AskForBranch(r)
         \/ ReadHistory(r) \/ Detect(r) \/ StoreFingerprints(r) \/ PruneFingerprints(r)
         \/ Score(r) \/ Persist(r) \/ Crash(r) \/ Dismiss(r) \/ Again(r)
  PROVE  JobsFair'
<1> PICK job : job = jobs[r]
  OBVIOUS
<1>1. \A q \in DOMAIN Repo : JobFair(jobs[q])
  BY DEF FairInv
<1>2. /\ DOMAIN jobs = DOMAIN Repo /\ {"stage", "round"} \subseteq DOMAIN job
      /\ job.stage \notin {"idle", "found"} => "ctx" \in DOMAIN job /\ InLists(job.ctx)
  BY DEF FairInv, ReadInv
<1>3. ASSUME NEW x, jobs' = [jobs EXCEPT ![r] = x], JobFair(x)
      PROVE  JobsFair'
  <2>1. \A q \in DOMAIN Repo : JobFair(jobs'[q])
    BY <1>1, <1>2, <1>3, FairKeeps
  <2>2. QED
    BY <2>1 DEF JobsFair, JobFair, BrandOf
<1>4. ASSUME NEW guess, Start(r, guess)
      PROVE  JobsFair'
  <2> PICK x : x = [job EXCEPT !.stage = "found", !.guess = guess]
    OBVIOUS
  <2>1. jobs' = [jobs EXCEPT ![r] = x]
    BY <1>4 DEF Start
  <2>2. x.stage = "found"
    BY <1>2
  <2>3. JobFair(x)
    BY <2>2 DEF JobFair
  <2>4. QED
    BY <1>3, <2>1, <2>3
<1>5. CASE Find(r) \/ Enumerate(r) \/ AskForBranch(r)
  BY <1>4, <1>5 DEF Find, Enumerate, AskForBranch
<1>6. CASE ReadHistory(r)
  <2> PICK ctx : ctx = AppendHistory(job.ctx, Now(r).commits)
    OBVIOUS
  <2> PICK x : x = [job EXCEPT !.ctx = ctx, !.stage = "read"]
    OBVIOUS
  <2>1. jobs' = [jobs EXCEPT ![r] = x] /\ job.stage = "fetched"
    BY <1>6 DEF ReadHistory
  <2>2. "brand" \in DOMAIN job /\ Asks(BrandOf(job.brand))
    BY <1>1, <2>1 DEF JobFair
  <2>3. DOMAIN x = DOMAIN job /\ x.stage = "read" /\ x.brand = job.brand
    BY <1>2, <2>1, <2>2
  <2>4. JobFair(x)
    BY <2>2, <2>3 DEF JobFair
  <2>5. QED
    BY <1>3, <2>1, <2>4
<1>7. CASE Detect(r)
  <2> PICK x : x = [stage |-> "detected", round |-> job.round, guess |-> job.guess,
                    brand |-> job.brand, ctx |-> job.ctx, detections |-> Confirmed(r)]
    OBVIOUS
  <2>1. jobs' = [jobs EXCEPT ![r] = x]
    BY <1>7, DetectIs
  <2>2. job.stage \in {"fetched", "read"}
    BY <1>7 DEF Detect
  <2>3. InLists(job.ctx) /\ Asks(BrandOf(job.brand))
    BY <1>1, <1>2, <2>2 DEF JobFair
  <2>4. AreWeighed(Confirmed(r))
    BY <2>3, ConfirmedWeighed DEF FairInv
  <2>5. /\ x.stage = "detected" /\ "brand" \in DOMAIN x /\ x.brand = job.brand
        /\ "detections" \in DOMAIN x /\ x.detections = Confirmed(r)
    OBVIOUS
  <2>6. JobFair(x)
    BY <2>3, <2>4, <2>5 DEF JobFair
  <2>7. QED
    BY <1>3, <2>1, <2>6
<1>8. CASE StoreFingerprints(r) \/ PruneFingerprints(r) \/ Persist(r)
  <2>1. PICK stage \in {"stored", "pruned", "done"} :
          /\ jobs' = [jobs EXCEPT ![r].stage = stage]
          /\ job.stage \in {"detected", "stored", "scored"}
    BY <1>8 DEF StoreFingerprints, Persist, PruneFingerprints
  <2> PICK x : x = [job EXCEPT !.stage = stage]
    OBVIOUS
  <2>2. jobs' = [jobs EXCEPT ![r] = x]
    BY <2>1
  <2>3. /\ "brand" \in DOMAIN job /\ Asks(BrandOf(job.brand))
        /\ "detections" \in DOMAIN job /\ AreWeighed(job.detections)
    BY <1>1, <2>1 DEF JobFair
  <2>4. /\ DOMAIN x = DOMAIN job /\ x.stage = stage
        /\ x.brand = job.brand /\ x.detections = job.detections
    BY <1>2, <2>3
  <2>5. JobFair(x)
    BY <2>1, <2>3, <2>4 DEF JobFair
  <2>6. QED
    BY <1>3, <2>2, <2>5
<1>9. CASE Score(r)
  <2> PICK m, n : /\ m = Cardinality(GetOperatorContext(r))
                  /\ n = Cardinality(GetCrossIdentityContext(r))
    OBVIOUS
  <2> PICK x : x = [stage |-> "scored", round |-> job.round, guess |-> job.guess, brand |-> job.brand,
                    ctx |-> job.ctx, detections |-> job.detections,
                    linked |-> GetCrossIdentityContext(r),
                    score |-> Calculate(job.detections, job.ctx, m, n)]
    OBVIOUS
  <2>1. jobs' = [jobs EXCEPT ![r] = x] /\ job.stage = "pruned"
    BY <1>9 DEF Score
  <2>2. /\ "brand" \in DOMAIN job /\ Asks(BrandOf(job.brand))
        /\ "detections" \in DOMAIN job /\ AreWeighed(job.detections)
    BY <1>1, <2>1 DEF JobFair
  <2>3. m \in Nat /\ n \in Nat
    BY OthersAreFinite DEF FairInv
  <2>4. /\ x.stage = "scored" /\ {"brand", "detections"} \subseteq DOMAIN x
        /\ x.brand = job.brand /\ x.detections = job.detections
        /\ x.score = Calculate(job.detections, job.ctx, m, n)
    OBVIOUS
  <2>5. Points(job.detections) \in Nat
    BY <2>2, PointsGo
  <2>6. ~HasMaliciousIntentSignal(job.detections) => x.score >= Min({100, Points(job.detections)})
    BY <2>3, <2>4, <2>5, ScoreTakesNothing
  <2>7. JobFair(x)
    BY <2>2, <2>4, <2>6 DEF JobFair
  <2>8. QED
    BY <1>3, <2>1, <2>7
<1>10. CASE Crash(r)
  <2> PICK x : x = [stage |-> "read", round |-> job.round, guess |-> job.guess,
                    brand |-> job.brand, ctx |-> job.ctx]
    OBVIOUS
  <2>1. jobs' = [jobs EXCEPT ![r] = x] /\ job.stage \in {"detected", "stored", "pruned", "scored"}
    BY <1>10 DEF Crash
  <2>2. Asks(BrandOf(job.brand))
    BY <1>1, <2>1 DEF JobFair
  <2>3. x.stage = "read" /\ "brand" \in DOMAIN x /\ x.brand = job.brand
    OBVIOUS
  <2>4. JobFair(x)
    BY <2>2, <2>3 DEF JobFair
  <2>5. QED
    BY <1>3, <2>1, <2>4
<1>11. CASE Dismiss(r)
  <2>1. jobs' = jobs
    BY <1>11 DEF Dismiss
  <2>2. QED
    BY <1>1, <2>1 DEF JobsFair, JobFair, BrandOf
<1>12. CASE Again(r)
  <2> PICK x : x = Idle(job.round + 1)
    OBVIOUS
  <2>1. jobs' = [jobs EXCEPT ![r] = x]
    BY <1>12 DEF Again
  <2>2. JobFair(x)
    BY DEF JobFair, Idle
  <2>3. QED
    BY <1>3, <2>1, <2>2
<1>13. QED
  BY <1>5, <1>6, <1>7, <1>8, <1>9, <1>10, <1>11, <1>12

LEMMA FairNext ==
  ASSUME FairInv, [Next]_vars
  PROVE  FairInv'
<1>1. ReadInv' /\ FindingsFinite' /\ CorpusFinite'
  BY ReadingNext, FindingsStay, CorpusStays DEF FairInv
<1>2. CASE UNCHANGED jobs
  <2>1. \A q \in DOMAIN Repo : JobFair(jobs[q])
    BY DEF FairInv
  <2>2. JobsFair'
    BY <1>2, <2>1 DEF JobsFair, JobFair, BrandOf
  <2>3. QED
    BY <1>1, <2>2 DEF JobsFair, FairInv
<1>3. CASE AnalysisNext
  <2>1. CASE BuildSearchQueries
    BY <1>2, <2>1 DEF BuildSearchQueries
  <2>2. ASSUME NEW r \in DOMAIN Repo, NEW greps, NEW treeKnown,
               Clone(r, greps) \/ FetchOverRest(r, treeKnown)
        PROVE  JobsFair'
    BY <2>2, FairFetch
  <2>3. CASE JobsFair'
    BY <1>1, <2>3 DEF JobsFair, FairInv
  <2>4. QED
    BY <1>3, <2>1, <2>2, <2>3, FairStep DEF AnalysisNext
<1>4. CASE IngestNext
  BY <1>1, <1>2, <1>4 DEF IngestNext, pipelineVars
<1>5. CASE AssessmentNext
  <2>1. UNCHANGED jobs
    BY <1>5 DEF AssessmentNext, TakeTask, ForgetTask, Reanalyze, BackfillIntentAssessments, Build,
                Record, Apply, CrashAssessor, Ask, RunDeepReview, pipelineVars
  <2>2. QED
    BY <1>2, <2>1
<1>6. CASE UNCHANGED vars
  BY <1>2, <1>6 DEF vars, pipelineVars
<1>7. QED
  BY <1>3, <1>4, <1>5, <1>6 DEF Next, PipelineNext

LEMMA FairInvIsEnough ==
  ASSUME FairInv
  PROVE  ScoreIsFair
<1>1. ASSUME NEW r \in DOMAIN Repo
      PROVE  JobFair(jobs[r])
  BY DEF FairInv
<1>2. ASSUME NEW r \in DOMAIN Repo, Examined(r), NEW rule
      PROVE  LET own == Those(jobs[r].detections,
                              {k \in DOMAIN jobs[r].detections : jobs[r].detections[k].rule = rule})
             IN (\A d \in ToSet(own) : d.points <= 25) => SeverityFromScore(Points(own)) # "critical"
  <2>1. AreWeighed(jobs[r].detections)
    BY <1>1, <1>2 DEF JobFair, Examined
  <2>2. NotCriticalBy(jobs[r].detections, rule)
    BY <2>1, RepeatsAreNotCritical
  <2>3. QED
    BY <2>2 DEF NotCriticalBy
<1>3. ASSUME NEW r \in DOMAIN Repo, jobs[r].stage = "scored",
             "malicious_intent" \notin ClassifyThreat(Categories(jobs[r].detections))
      PROVE  jobs[r].score >= Min({100, Points(jobs[r].detections)})
  <2>1. ~HasMaliciousIntentSignal(jobs[r].detections)
    BY <1>3 DEF HasMaliciousIntentSignal, ClassifyThreat
  <2>2. QED
    BY <1>1, <1>3, <2>1 DEF JobFair
<1>4. QED
  BY <1>2, <1>3 DEF ScoreIsFair

\* However often a weak or moderate rule fires, it does not make a repository
\* critical by itself (RULE_REPEAT_DECAY), and without a malicious intent a
\* reputation takes nothing from a score (RiskScoringService.calculate), whatever
\* is monitored and whatever the repositories hold.
THEOREM ScoresAreFair == Spec => []ScoreIsFair
<1>1. Init => FairInv
  <2> SUFFICES ASSUME Init PROVE FairInv
    OBVIOUS
  <2>1. ReadInv /\ FindingsFinite
    BY FS_EmptySet DEF Init, PipelineInit, ReadInv, Idle, FindingsFinite
  <2>2. \A r \in DOMAIN Repo : JobFair(jobs[r])
    <3>1. JobFair(Idle(1))
      BY DEF JobFair, Idle
    <3>2. \A r \in DOMAIN Repo : jobs[r] = Idle(1)
      BY DEF Init, PipelineInit
    <3>3. QED
      BY <3>1, <3>2
  <2>3. QED
    BY <2>1, <2>2, CorpusBegins DEF FairInv
<1>2. FairInv /\ [Next]_vars => FairInv'
  BY FairNext
<1>3. FairInv => ScoreIsFair
  BY FairInvIsEnough
<1>4. QED
  BY <1>1, <1>2, <1>3, PTL DEF Spec
=============================================================================
