--------------------------- MODULE AnalysisProofs ---------------------------
(***************************************************************************)
(* The analysis of a repository and what is stored of it, for any number   *)
(* of scans, attempts, rules, versions, rulesets, failures and verdicts.   *)
(***************************************************************************)
EXTENDS RepositoryAnalysis, TLAPS

-----------------------------------------------------------------------------
(* What an action needs of the types.                                       *)

Ruleset == 0 .. MaxRuleset
RepoTyped == repo \in Repository
Jobs == [state : {"none", "queued", "running", "failing", "ended"}, attempt : Attempt,
         content : Version, sha : Version, dates : Version, ruleset : Ruleset]
JobTyped == job \in [Scan -> Jobs]
UnitTyped == unit \in [Scan -> {"open", "completed", "failed"}]
Runs == [at : Label, rules : SUBSET Rule, known : Status \cup {"none"},
         closing : SUBSET Fingerprint, news : BOOLEAN]
RunTyped == run \in [Run -> Runs]
Verdicts == [finding : Fingerprint, read : Status, want : Status] \cup {NoVerdict}
FindingTyped ==
  /\ finding \in [Fingerprint -> Status \cup {"none"}] /\ evidence \in [Fingerprint -> SUBSET Run]
  /\ verdict \in Verdicts /\ touched \subseteq Fingerprint
AlertTyped ==
  /\ alerts \in [Fingerprint -> Nat] /\ creating \in [Fingerprint -> Nat]
  /\ queue \in [waiting : SUBSET (Scan \X Fingerprint), added : SUBSET (Scan \X Fingerprint)]
HistoryTyped ==
  /\ ruleset \in 1 .. MaxRuleset /\ cancelled \subseteq Scan /\ faults \in 0 .. MaxFaults
  /\ newest \in Version /\ disorder \in BOOLEAN /\ doubled \in BOOLEAN
Analyses == [at : Stage, kind : Kinds \cup {"none"}, attempt : Attempt, ruleset : Ruleset,
             dates : Version, sha : Version, content : Version, existing : Repository]
AnalysisTyped ==
  /\ head \in 1 .. MaxVersion /\ discovering \in BOOLEAN /\ swallowed \in BOOLEAN
  /\ analysis \in [Scan -> Analyses]

Typed == /\ RepoTyped /\ JobTyped /\ UnitTyped /\ RunTyped /\ FindingTyped /\ AlertTyped
         /\ HistoryTyped /\ AnalysisTyped

LEMMA TypeParts == TypeOK <=> Typed
BY DEF TypeOK, FindingsTypeOK, Typed, RepoTyped, JobTyped, Jobs, Ruleset, UnitTyped, RunTyped,
       Runs, FindingTyped, Verdicts, AlertTyped, HistoryTyped, AnalysisTyped, Analyses

Sound == /\ Typed /\ OneWayThrough /\ (\A r \in Run : RunSound(r)) /\ BacklogSound /\ AlertSound
         /\ StoringAlone /\ AgesSound /\ ContentSound /\ MarksSound

LEMMA Parts == AnalysisInv <=> Sound
BY TypeParts DEF AnalysisInv, Sound

LEMMA ConstantsAre ==
  /\ MaxAttempts \in Nat \ {0} /\ MaxVersion \in Nat \ {0} /\ MaxRuleset \in Nat \ {0}
  /\ MaxFaults \in Nat /\ 0 \in Version /\ 0 \in Ruleset /\ 1 \in Attempt
  /\ (\A v \in Version : v \in Nat) /\ (\A n \in Ruleset : n \in Nat) /\ (\A a \in Attempt : a \in Nat)
BY FindingsConstantsOK DEF FindingsConstantsOK, Version, Ruleset, Attempt

LEMMA RunIs ==
  ASSUME NEW r \in Run
  PROVE  r[1] \in Scan /\ r[2] \in Attempt /\ r = <<r[1], r[2]>> /\ BranchOf[r[1]] \in Branches
BY DEF Run, Branches

LEMMA FpIs ==
  ASSUME RunTyped, NEW r \in Run, run[r].rules # {}
  PROVE  Fp(r) \in Fingerprint /\ Fp(r).rules = run[r].rules /\ Fp(r).branch = BranchOf[r[1]]
BY RunIs DEF RunTyped, Runs, Fp, Fingerprint

LEMMA IdleIs ==
  Idle \in Runs /\ Idle.at = "none" /\ Idle.rules = {} /\ Idle.closing = {} /\ Idle.news = FALSE
BY DEF Idle, Runs, Label

\* Every attempt that has begun is of a job that has been queued, and is no later than its
\* present attempt.
LEMMA BegunIs ==
  ASSUME JobTyped, OneWayThrough, NEW r \in Run, run[r].at # "none"
  PROVE  /\ job[r[1]].state # "none" /\ r[2] <= job[r[1]].attempt
         /\ r[2] = job[r[1]].attempt => job[r[1]].state # "queued"
         /\ OnDefault(r) => analysis[r[1]].at = "ended"
<1>1. run[<<r[1], r[2]>>] # Idle /\ r[1] \in Scan /\ r[2] \in Attempt
  BY RunIs, IdleIs
<1>2. ~(r[2] > job[r[1]].attempt)
      /\ ~(r[2] = job[r[1]].attempt /\ job[r[1]].state \in {"none", "queued"})
  BY <1>1 DEF OneWayThrough
<1>3. job[r[1]].attempt \in Attempt /\ job[r[1]].attempt \in Nat /\ r[2] \in Nat /\ r[2] # 0
  BY <1>1, ConstantsAre DEF JobTyped, Jobs, Attempt
<1>4. r[2] <= job[r[1]].attempt
  BY <1>2, <1>3
<1>5. job[r[1]].state # "none"
  <2>1. SUFFICES ASSUME job[r[1]].state = "none" PROVE FALSE
    OBVIOUS
  <2>2. job[r[1]].attempt = 1
    BY <1>1, <2>1 DEF OneWayThrough
  <2>3. QED
    BY <1>2, <1>3, <1>4, <2>1, <2>2
<1>6. OnDefault(r) => analysis[r[1]].at = "ended"
  BY <1>1, <1>5 DEF OneWayThrough, OnDefault
<1>7. QED
  BY <1>2, <1>4, <1>5, <1>6

\* The marks.
LEMMA MarksAre ==
  ASSUME RepoTyped, NEW dates \in Version, NEW sha \in Version, NEW rules \in Ruleset
  PROVE  /\ Upsert(dates) \in Repository /\ MarkSuccess(sha, rules, dates) \in Repository
         /\ MarkFailed(dates) \in Repository
         /\ Upsert(dates).sha = repo.sha /\ Upsert(dates).ruleset = repo.ruleset
         /\ Upsert(dates).success = repo.success
         /\ MarkFailed(dates).sha = repo.sha /\ MarkFailed(dates).ruleset = repo.ruleset
         /\ MarkFailed(dates).success = repo.success /\ MarkFailed(dates).failed
         /\ MarkSuccess(sha, rules, dates).success
         /\ MarkSuccess(sha, rules, dates).sha = (IF sha # 0 THEN sha ELSE repo.sha)
         /\ MarkSuccess(sha, rules, dates).ruleset = rules
<1>1. PICK up : up = Upsert(dates)
  OBVIOUS
<1>2. up \in Repository /\ up.sha = repo.sha /\ up.ruleset = repo.ruleset /\ up.success = repo.success
  BY <1>1 DEF Upsert, RepoTyped, Repository
<1>3. PICK failed : failed = MarkFailed(dates)
  OBVIOUS
<1>4. failed = [up EXCEPT !.failed = TRUE]
  BY <1>1, <1>3 DEF MarkFailed
<1>5. /\ failed \in Repository /\ failed.sha = repo.sha /\ failed.ruleset = repo.ruleset
      /\ failed.success = repo.success /\ failed.failed
  BY <1>2, <1>4 DEF Repository
<1>6. PICK good : good = MarkSuccess(sha, rules, dates)
  OBVIOUS
<1>7. PICK commit \in Version : commit = IF sha # 0 THEN sha ELSE up.sha
  BY <1>2 DEF Repository
<1>8. good = [up EXCEPT !.success = TRUE, !.failed = FALSE, !.sha = commit, !.ruleset = rules]
  BY <1>1, <1>2, <1>6, <1>7 DEF MarkSuccess, Repository
<1>9. good \in Repository /\ good.success /\ good.sha = commit /\ good.ruleset = rules
  BY <1>2, <1>8 DEF Repository, Ruleset
<1>10. QED
  BY <1>1, <1>2, <1>3, <1>5, <1>6, <1>7, <1>9

-----------------------------------------------------------------------------
(* Steps of an analysis: they leave the attempts, the findings and the      *)
(* alerts alone.                                                            *)

Aside == UNCHANGED <<run, finding, evidence, alerts, queue, creating, verdict, touched, newest,
                     disorder, doubled>>

LEMMA AsideKeeps ==
  ASSUME Sound, Aside, repo.success => repo'.success, faults' = 0 => faults = 0,
         \A s \in Scan : unit[s] # "open" => unit'[s] # "open"
  PROVE  /\ RunTyped' /\ FindingTyped' /\ AlertTyped'
         /\ (\A r \in Run : RunSound(r)') /\ AlertSound' /\ StoringAlone'
<1>1. /\ RunTyped /\ FindingTyped /\ AlertTyped
      /\ (\A r \in Run : RunSound(r)) /\ AlertSound /\ StoringAlone
  BY DEF Sound, Typed
<1>2. RunTyped' /\ FindingTyped' /\ AlertTyped'
  BY <1>1 DEF RunTyped, FindingTyped, AlertTyped, Aside
<1>3. ASSUME NEW r \in Run PROVE RunSound(r)'
  <2>1. RunSound(r) /\ r[1] \in Scan
    BY <1>1, RunIs
  <2>2. QED
    BY <2>1 DEF RunSound, Exists, Fp, OnDefault, Aside
<1>4. AlertSound'
  BY <1>1 DEF AlertSound, Announcing, Exists, Fp, Aside
<1>5. StoringAlone'
  BY <1>1 DEF StoringAlone, Storing, OnDefault, Fp, Aside
<1>6. QED
  BY <1>2, <1>3, <1>4, <1>5

\* What the findings are compared with does not change.
LEMMA AgreesSame ==
  ASSUME UNCHANGED <<finding, touched, newest, ruleset>>
  PROVE  /\ Agrees(newest)' = Agrees(newest) /\ Reported' = Reported
BY DEF Agrees, Reported, Exists

\* One scan's analysis goes on.
LEMMA OneScan ==
  ASSUME Sound, Aside, NEW s \in Scan, NEW a \in Analyses, analysis' = [analysis EXCEPT ![s] = a],
         NEW u \in {"open", "completed", "failed"}, unit' = [unit EXCEPT ![s] = u],
         UNCHANGED <<job, cancelled, ruleset, head, discovering>>,
         faults' \in 0 .. MaxFaults, faults' = 0 => faults = 0,
         swallowed' \in BOOLEAN, swallowed => swallowed',
         repo' \in Repository, repo.success => repo'.success,
         BranchOf[s] = Default, analysis[s].at # "ended",
         a.at # "none", a.at # "ended" => u = "open",
         a.at = "ended" => cancelled # {} \/ repo'.success \/ repo'.failed,
         a.at = "skipped" => repo'.success,
         a.sha <= head, a.ruleset <= ruleset,
         a.existing \in {analysis[s].existing, NoRepo, repo},
         a.at = "skip" => a.existing.sha # 0 /\ a.existing.ruleset = a.ruleset,
         a.at = "enqueue" /\ ~swallowed' => a.content # 0 /\ a.sha <= a.content /\ a.content <= head,
         \/ repo'.sha = repo.sha /\ repo'.ruleset = repo.ruleset
         \/ repo'.sha = analysis[s].existing.sha /\ repo'.ruleset = analysis[s].existing.ruleset
  PROVE  Sound'
<1>1. /\ Typed /\ OneWayThrough /\ BacklogSound /\ AgesSound /\ ContentSound /\ MarksSound
  BY DEF Sound
<1>2. /\ analysis'[s] = a /\ unit'[s] = u
      /\ \A t \in Scan \ {s} : analysis'[t] = analysis[t] /\ unit'[t] = unit[t]
      /\ AnalysisTyped' /\ UnitTyped'
  BY <1>1 DEF Typed, AnalysisTyped, UnitTyped
<1>3. job[s].state = "none" /\ unit[s] = "open"
  BY <1>1 DEF OneWayThrough
<1>4. RepoTyped' /\ JobTyped' /\ HistoryTyped'
  BY <1>1 DEF Typed, RepoTyped, JobTyped, HistoryTyped, Aside
<1>5. \A t \in Scan : unit[t] # "open" => unit'[t] # "open"
  BY <1>2, <1>3
<1>6. /\ RunTyped' /\ FindingTyped' /\ AlertTyped'
      /\ (\A r \in Run : RunSound(r)') /\ AlertSound' /\ StoringAlone'
  BY <1>5, AsideKeeps
<1>7. OneWayThrough'
  BY <1>1, <1>2, <1>3 DEF OneWayThrough, Aside
<1>8. BacklogSound'
  <2>1. \A t \in Scan : analysis'[t].at = "skipped" => repo'.success
    BY <1>1, <1>2 DEF BacklogSound
  <2>2. cancelled' # {} \/ repo'.success \/ repo'.failed \/ Active(s)'
    BY <1>2 DEF Active
  <2>3. QED
    BY <2>1, <2>2 DEF BacklogSound
<1>9. repo.sha \in Nat /\ newest \in Nat /\ repo.ruleset \in Nat /\ ruleset \in Nat
      /\ analysis[s].existing.sha \in Nat /\ analysis[s].existing.ruleset \in Nat
      /\ NoRepo.sha = 0 /\ NoRepo.ruleset = 0
  BY <1>1, ConstantsAre DEF Typed, RepoTyped, Repository, HistoryTyped, AnalysisTyped, Analyses,
                            Ruleset, NoRepo
<1>10. AgesSound'
  <2>1. a.existing.ruleset <= ruleset /\ (~disorder /\ ~swallowed => a.existing.sha <= newest)
    BY <1>1, <1>9 DEF AgesSound
  <2>2. repo'.ruleset <= ruleset /\ (~disorder /\ ~swallowed => repo'.sha <= newest)
    BY <1>1, <1>9 DEF AgesSound
  <2>3. QED
    BY <1>1, <1>2, <2>1, <2>2 DEF AgesSound, Aside
<1>11. ContentSound'
  <2>1. \A r \in Run : run'[r] = run[r] /\ FoundIs(r)' = FoundIs(r)
    BY DEF FoundIs, Aside
  <2>2. QED
    BY <1>1, <1>2, <2>1 DEF ContentSound, Storing, OnDefault, Aside
<1>12. MarksSound'
  <2>1. Agrees(newest)' = Agrees(newest) /\ Reported' = Reported
    BY AgreesSame DEF Aside
  <2>2. SUFFICES ASSUME ~disorder, ~swallowed PROVE MarksSound'
    BY DEF MarksSound, Aside
  <2>3. Holds(repo) /\ (\A t \in Scan : Holds(analysis[t].existing)) /\ Holds(NoRepo)
    BY <1>1, <1>9, <2>2 DEF MarksSound, Holds
  <2>4. \A mark : Holds(mark) => (mark.sha # 0 /\ mark.sha = newest' /\ mark.ruleset = ruleset' => Agrees(newest)')
    BY <2>1 DEF Holds, Aside
  <2>5. Holds(repo)' /\ \A t \in Scan : Holds(analysis[t].existing)'
    BY <1>2, <2>3, <2>4 DEF Holds
  <2>6. QED
    BY <1>1, <2>1, <2>2, <2>5 DEF MarksSound, Storing, OnDefault, Fp, Aside
<1>13. QED
  BY <1>2, <1>4, <1>6, <1>7, <1>8, <1>10, <1>11, <1>12 DEF Sound, Typed

\* The record of an analysis, and of the repository, has these types.
LEMMA AnalysisIs ==
  ASSUME Typed, OneWayThrough, AgesSound, NEW s \in Scan
  PROVE  /\ analysis[s] \in Analyses /\ analysis[s].existing \in Repository
         /\ analysis[s].dates \in Version /\ analysis[s].sha \in Version
         /\ analysis[s].content \in Version /\ analysis[s].ruleset \in Ruleset
         /\ analysis[s].existing.sha \in Version
         /\ analysis[s].sha <= head /\ analysis[s].ruleset <= ruleset
         /\ unit[s] \in {"open", "completed", "failed"} /\ unit = [unit EXCEPT ![s] = unit[s]]
         /\ analysis[s].at # "none" => BranchOf[s] = Default
         /\ analysis[s].at \notin {"none", "ended"} => unit[s] = "open"
         /\ repo \in Repository /\ head \in Version /\ head # 0 /\ 0 <= head /\ 0 <= ruleset
         /\ ruleset \in Ruleset /\ faults \in 0 .. MaxFaults
<1>1. analysis[s] \in Analyses /\ head \in 1 .. MaxVersion /\ ruleset \in 1 .. MaxRuleset
      /\ faults \in 0 .. MaxFaults /\ repo \in Repository
      /\ unit \in [Scan -> {"open", "completed", "failed"}]
  BY DEF Typed, AnalysisTyped, HistoryTyped, RepoTyped, UnitTyped
<1>2. /\ analysis[s].existing \in Repository /\ analysis[s].dates \in Version
      /\ analysis[s].sha \in Version /\ analysis[s].content \in Version
      /\ analysis[s].ruleset \in Ruleset /\ analysis[s].existing.sha \in Version
  BY <1>1 DEF Analyses, Repository
<1>3. head \in Version /\ head # 0 /\ 0 <= head /\ ruleset \in Ruleset /\ 0 <= ruleset
  BY <1>1, ConstantsAre DEF Version, Ruleset
<1>4. analysis[s].sha <= head /\ analysis[s].ruleset <= ruleset
  BY DEF AgesSound
<1>5. /\ analysis[s].at # "none" => BranchOf[s] = Default
      /\ analysis[s].at \notin {"none", "ended"} => unit[s] = "open"
  BY DEF OneWayThrough
<1>6. unit[s] \in {"open", "completed", "failed"} /\ unit = [unit EXCEPT ![s] = unit[s]]
  BY <1>1
<1>7. QED
  BY <1>1, <1>2, <1>3, <1>4, <1>5, <1>6

LEMMA EndsAre ==
  /\ [Unseen EXCEPT !.at = "ended"] \in Analyses
  /\ LET a == [Unseen EXCEPT !.at = "ended"]
     IN a.at = "ended" /\ a.sha = 0 /\ a.ruleset = 0 /\ a.existing = NoRepo
<1>1. NoRepo \in Repository
  BY ConstantsAre DEF NoRepo, Repository, Ruleset
<1>2. Unseen \in Analyses /\ Unseen.sha = 0 /\ Unseen.ruleset = 0 /\ Unseen.existing = NoRepo
  BY <1>1, ConstantsAre DEF Unseen, Analyses, Stage
<1>3. QED
  BY <1>2 DEF Analyses, Stage

LEMMA AssignKeeps ==
  ASSUME Sound, NEW s \in Scan, NEW kind \in Kinds, Assign(s, kind)
  PROVE  Sound'
<1>1. Typed /\ OneWayThrough /\ AgesSound
  BY DEF Sound
<1>2. PICK dates : dates = IF kind = "search" THEN head ELSE repo.dates
  OBVIOUS
<1>3. PICK a : a = [Unseen EXCEPT !.at = "queued", !.kind = kind, !.ruleset = ruleset, !.dates = dates]
  OBVIOUS
<1>4. analysis[s].at = "none" /\ BranchOf[s] = Default /\ analysis' = [analysis EXCEPT ![s] = a]
  BY <1>2, <1>3 DEF Assign
<1>5. dates \in Version
  BY <1>1, <1>2, AnalysisIs DEF Repository
<1>6. NoRepo \in Repository
  BY ConstantsAre DEF NoRepo, Repository, Ruleset
<1>7. /\ a \in Analyses /\ a.at = "queued" /\ a.sha = 0 /\ a.ruleset = ruleset /\ a.existing = NoRepo
  BY <1>1, <1>3, <1>5, <1>6, AnalysisIs, ConstantsAre DEF Unseen, Analyses, Stage
<1>8. unit[s] = "open" /\ unit' = [unit EXCEPT ![s] = "open"]
  BY <1>1, <1>4, AnalysisIs DEF OneWayThrough, Assign, findingVars
<1>9. /\ Aside /\ UNCHANGED <<job, cancelled, ruleset, head, discovering, faults, swallowed, repo>>
  BY DEF Assign, findingVars, Aside
<1>10. /\ repo' \in Repository /\ faults' \in 0 .. MaxFaults /\ a.sha <= head /\ a.ruleset <= ruleset
       /\ swallowed' \in BOOLEAN
  BY <1>1, <1>7, <1>9, AnalysisIs, ConstantsAre DEF Typed, AnalysisTyped, Ruleset
<1>11. QED
  BY <1>4, <1>7, <1>8, <1>9, <1>10, OneScan

LEMMA LookKeeps ==
  ASSUME Sound, NEW s \in Scan, Look(s)
  PROVE  Sound'
<1>1. Typed /\ OneWayThrough /\ AgesSound
  BY DEF Sound
<1>2. /\ analysis[s].at = "queued" /\ Aside
      /\ UNCHANGED <<job, cancelled, ruleset, head, discovering, repo, faults, swallowed>>
  BY DEF Look, StoreUntouched, Aside
<1>3. /\ repo' \in Repository /\ faults' \in 0 .. MaxFaults /\ swallowed' \in BOOLEAN
      /\ BranchOf[s] = Default /\ unit[s] = "open"
  BY <1>1, <1>2, AnalysisIs DEF Typed, AnalysisTyped
<1>4. CASE s \in cancelled /\ Return(s)
  <2>1. PICK u : u = IF unit[s] = "open" THEN "completed" ELSE unit[s]
    OBVIOUS
  <2>2. u \in {"open", "completed", "failed"} /\ unit' = [unit EXCEPT ![s] = u]
    BY <1>3, <1>4, <2>1 DEF Look
  <2>3. PICK a : a = [Unseen EXCEPT !.at = "ended"]
    OBVIOUS
  <2>4. /\ a \in Analyses /\ a.at = "ended" /\ a.sha = 0 /\ a.ruleset = 0 /\ a.existing = NoRepo
        /\ analysis' = [analysis EXCEPT ![s] = a] /\ cancelled # {}
    BY <1>4, <2>3, EndsAre DEF Return
  <2>5. a.sha <= head /\ a.ruleset <= ruleset
    BY <1>1, <2>4, AnalysisIs
  <2>6. QED
    BY <1>2, <1>3, <2>2, <2>4, <2>5, OneScan
<1>5. CASE s \notin cancelled
  <2>1. PICK a : a = [analysis[s] EXCEPT !.at = "head", !.existing = repo]
    OBVIOUS
  <2>2. analysis' = [analysis EXCEPT ![s] = a] /\ unit' = [unit EXCEPT ![s] = "open"]
    BY <1>1, <1>3, <1>5, <2>1, AnalysisIs DEF Look, Typed, AnalysisTyped, Analyses
  <2>3. /\ a \in Analyses /\ a.at = "head" /\ a.existing = repo /\ a.sha <= head /\ a.ruleset <= ruleset
    BY <1>1, <2>1, AnalysisIs DEF Analyses, Stage
  <2>4. QED
    BY <1>2, <1>3, <2>2, <2>3, OneScan
<1>6. QED
  BY <1>3, <1>4, <1>5 DEF Look

LEMMA AskHeadKeeps ==
  ASSUME Sound, NEW s \in Scan, AskHead(s)
  PROVE  Sound'
<1>1. Typed /\ OneWayThrough /\ AgesSound
  BY DEF Sound
<1>2. PICK sha \in {0, head} :
        LET b == analysis[s]
            skips == UnchangedSince(Forced(b.kind), b.existing, b.ruleset, sha, b.dates)
        IN /\ analysis' = [analysis EXCEPT ![s].at = IF skips THEN "skip" ELSE "store", ![s].sha = sha,
                             ![s].existing = IF skips THEN @ ELSE NoRepo]
           /\ sha = 0 => faults < MaxFaults
           /\ faults' = faults + (IF sha = 0 THEN 1 ELSE 0)
           /\ swallowed' = (swallowed \/ sha = 0)
  BY DEF AskHead
<1>3. PICK skips \in BOOLEAN : skips =
        UnchangedSince(Forced(analysis[s].kind), analysis[s].existing, analysis[s].ruleset, sha,
                       analysis[s].dates)
  BY DEF UnchangedSince
<1>4. PICK seen : seen = IF skips THEN analysis[s].existing ELSE NoRepo
  OBVIOUS
<1>5. PICK stage : stage = IF skips THEN "skip" ELSE "store"
  OBVIOUS
<1>6. PICK a : a = [analysis[s] EXCEPT !.at = stage, !.sha = sha, !.existing = seen]
  OBVIOUS
<1>7. analysis[s] \in Analyses /\ analysis \in [Scan -> Analyses]
  BY <1>1 DEF Typed, AnalysisTyped
<1>8. analysis' = [analysis EXCEPT ![s] = a]
  BY <1>2, <1>3, <1>4, <1>5, <1>6, <1>7 DEF Analyses
<1>9. seen \in Repository /\ sha \in Version /\ sha <= head
  <2>1. NoRepo \in Repository
    BY ConstantsAre DEF NoRepo, Repository, Ruleset
  <2>2. QED
    BY <1>1, <1>4, <2>1, AnalysisIs, ConstantsAre
<1>10. /\ a \in Analyses /\ a.at = stage /\ a.sha = sha /\ a.existing = seen
       /\ a.ruleset = analysis[s].ruleset
  BY <1>5, <1>6, <1>7, <1>9 DEF Analyses, Stage
<1>11. skips => seen.sha # 0 /\ seen.ruleset = analysis[s].ruleset
  BY <1>3, <1>4 DEF UnchangedSince
<1>12. /\ analysis[s].at = "head" /\ Aside
       /\ UNCHANGED <<job, cancelled, ruleset, head, discovering, repo, unit>>
  BY DEF AskHead, StoreUntouched, Aside
<1>13. BranchOf[s] = Default /\ unit[s] = "open" /\ unit' = [unit EXCEPT ![s] = "open"]
       /\ a.ruleset <= ruleset /\ repo' \in Repository
  BY <1>1, <1>10, <1>12, AnalysisIs
<1>14. swallowed' \in BOOLEAN /\ (swallowed => swallowed')
  BY <1>2
<1>15. faults' \in 0 .. MaxFaults /\ (faults' = 0 => faults = 0)
  <2>1. faults \in 0 .. MaxFaults /\ MaxFaults \in Nat
    BY <1>1, AnalysisIs, ConstantsAre
  <2>2. (sha = 0 /\ faults < MaxFaults /\ faults' = faults + 1) \/ faults' = faults + 0
    BY <1>2
  <2>3. QED
    BY <2>1, <2>2
<1>16. a.existing \in {analysis[s].existing, NoRepo, repo}
  BY <1>4, <1>10
<1>17. a.at \in {"skip", "store"}
       /\ (a.at = "skip" => a.existing.sha # 0 /\ a.existing.ruleset = a.ruleset)
  BY <1>5, <1>10, <1>11
<1>18. a.sha <= head
  BY <1>9, <1>10
<1>19. QED
  BY <1>8, <1>10, <1>12, <1>13, <1>14, <1>15, <1>16, <1>17, <1>18, OneScan

\* A step of an analysis that only moves on or returns, with the repository marked or not.
LEMMA MovesOn ==
  ASSUME Sound, NEW s \in Scan, Aside, UNCHANGED <<job, cancelled, ruleset, head, discovering, faults, swallowed>>,
         analysis[s].at \notin {"none", "ended"},
         NEW stage \in {"skipped", "fetch"}, Stay(s, stage), UNCHANGED unit,
         repo' \in Repository, repo.success \/ stage = "skipped" => repo'.success,
         \/ repo'.sha = repo.sha /\ repo'.ruleset = repo.ruleset
         \/ repo'.sha = analysis[s].existing.sha /\ repo'.ruleset = analysis[s].existing.ruleset
  PROVE  Sound'
<1>1. Typed /\ OneWayThrough /\ AgesSound
  BY DEF Sound
<1>2. PICK a : a = [analysis[s] EXCEPT !.at = stage]
  OBVIOUS
<1>3. analysis[s] \in Analyses /\ analysis' = [analysis EXCEPT ![s] = a]
  BY <1>1, <1>2 DEF Typed, AnalysisTyped, Stay, Analyses
<1>4. /\ a \in Analyses /\ a.at = stage /\ a.sha = analysis[s].sha /\ a.existing = analysis[s].existing
      /\ a.ruleset = analysis[s].ruleset
  BY <1>2, <1>3 DEF Analyses, Stage
<1>5. /\ BranchOf[s] = Default /\ unit[s] = "open" /\ unit' = [unit EXCEPT ![s] = "open"]
      /\ a.ruleset <= ruleset /\ a.sha <= head /\ faults' \in 0 .. MaxFaults /\ swallowed' \in BOOLEAN
  BY <1>1, <1>4, AnalysisIs DEF Typed, AnalysisTyped
<1>6. QED
  BY <1>3, <1>4, <1>5, OneScan

\* An analysis that returns.
LEMMA Returns ==
  ASSUME Sound, NEW s \in Scan, Aside, UNCHANGED <<job, cancelled, ruleset, head, discovering, swallowed>>,
         faults' \in 0 .. MaxFaults, faults' = 0 => faults = 0,
         analysis[s].at \notin {"none", "ended"}, Return(s),
         NEW u \in {"completed", "failed"}, unit' = [unit EXCEPT ![s] = IF @ = "open" THEN u ELSE @],
         repo' \in Repository, repo.success => repo'.success,
         repo'.sha = repo.sha, repo'.ruleset = repo.ruleset,
         cancelled # {} \/ repo'.success \/ repo'.failed
  PROVE  Sound'
<1>1. Typed /\ OneWayThrough /\ AgesSound
  BY DEF Sound
<1>2. PICK a : a = [Unseen EXCEPT !.at = "ended"]
  OBVIOUS
<1>3. /\ a \in Analyses /\ a.at = "ended" /\ a.sha = 0 /\ a.ruleset = 0 /\ a.existing = NoRepo
      /\ analysis' = [analysis EXCEPT ![s] = a]
  BY <1>2, EndsAre DEF Return
<1>4. BranchOf[s] = Default /\ unit[s] = "open" /\ a.sha <= head /\ a.ruleset <= ruleset
  BY <1>1, <1>3, AnalysisIs
<1>5. unit' = [unit EXCEPT ![s] = u] /\ u \in {"open", "completed", "failed"}
  BY <1>1, <1>4 DEF Typed, UnitTyped
<1>6. swallowed' \in BOOLEAN
  BY <1>1 DEF Typed, AnalysisTyped
<1>7. QED
  BY <1>3, <1>4, <1>5, <1>6, OneScan

LEMMA SkipKeeps ==
  ASSUME Sound, NEW s \in Scan, Skip(s)
  PROVE  Sound'
<1>1. Typed /\ OneWayThrough /\ AgesSound
  BY DEF Sound
<1>2. /\ analysis[s].at = "skip" /\ Aside /\ Stay(s, "skipped")
      /\ UNCHANGED <<job, cancelled, ruleset, head, discovering, faults, swallowed, unit>>
      /\ repo' = MarkSuccess(analysis[s].existing.sha, analysis[s].ruleset, analysis[s].dates)
  BY DEF Skip, StoreUntouched, Aside
<1>3. analysis[s].existing.sha # 0 /\ analysis[s].existing.ruleset = analysis[s].ruleset
  BY <1>1, <1>2 DEF AgesSound
<1>4. repo' \in Repository /\ repo'.success /\ repo'.sha = analysis[s].existing.sha
      /\ repo'.ruleset = analysis[s].existing.ruleset
  BY <1>1, <1>2, <1>3, AnalysisIs, MarksAre DEF RepoTyped
<1>5. QED
  BY <1>2, <1>4, MovesOn

LEMMA CompleteSkippedKeeps ==
  ASSUME Sound, NEW s \in Scan, CompleteSkipped(s)
  PROVE  Sound'
<1>1. Typed /\ BacklogSound
  BY DEF Sound
<1>2. /\ analysis[s].at = "skipped" /\ Aside /\ Return(s)
      /\ UNCHANGED <<job, cancelled, ruleset, head, discovering, faults, swallowed, repo>>
      /\ unit' = [unit EXCEPT ![s] = IF @ = "open" THEN "completed" ELSE @]
  BY DEF CompleteSkipped, StoreUntouched, Aside
<1>3. repo'.success /\ repo' \in Repository /\ faults' \in 0 .. MaxFaults
  BY <1>1, <1>2 DEF BacklogSound, Typed, RepoTyped, HistoryTyped
<1>4. QED
  BY <1>2, <1>3, Returns

LEMMA StoreMetadataKeeps ==
  ASSUME Sound, NEW s \in Scan, StoreMetadata(s)
  PROVE  Sound'
<1>1. Typed /\ OneWayThrough /\ AgesSound
  BY DEF Sound
<1>2. /\ analysis[s].at = "store" /\ Aside /\ Stay(s, "fetch")
      /\ UNCHANGED <<job, cancelled, ruleset, head, discovering, faults, swallowed, unit>>
      /\ repo' = Upsert(analysis[s].dates)
  BY DEF StoreMetadata, StoreUntouched, Aside
<1>3. repo' \in Repository /\ repo'.success = repo.success /\ repo'.sha = repo.sha
      /\ repo'.ruleset = repo.ruleset
  BY <1>1, <1>2, AnalysisIs, MarksAre DEF RepoTyped
<1>4. QED
  BY <1>2, <1>3, MovesOn

LEMMA GiveUpAnalysisKeeps ==
  ASSUME Sound, NEW s \in Scan, GiveUpAnalysis(s)
  PROVE  Sound'
<1>1. Typed /\ OneWayThrough /\ AgesSound
  BY DEF Sound
<1>2. /\ analysis[s].at = "failing" /\ Aside /\ Return(s)
      /\ UNCHANGED <<job, cancelled, ruleset, head, discovering, faults, swallowed>>
      /\ unit' = [unit EXCEPT ![s] = IF @ = "open" THEN "failed" ELSE @]
      /\ repo' = MarkFailed(analysis[s].dates)
  BY DEF GiveUpAnalysis, StoreUntouched, Aside
<1>3. repo' \in Repository /\ repo'.success = repo.success /\ repo'.sha = repo.sha
      /\ repo'.ruleset = repo.ruleset /\ repo'.failed
  BY <1>1, <1>2, AnalysisIs, MarksAre DEF RepoTyped
<1>4. faults' \in 0 .. MaxFaults
  BY <1>1, <1>2 DEF Typed, HistoryTyped
<1>5. QED
  BY <1>2, <1>3, <1>4, Returns

LEMMA FetchKeeps ==
  ASSUME Sound, NEW s \in Scan, Fetch(s)
  PROVE  Sound'
<1>1. Typed /\ OneWayThrough /\ AgesSound
  BY DEF Sound
<1>2. PICK complete \in BOOLEAN :
        /\ analysis' = [analysis EXCEPT ![s].at = "enqueue", ![s].content = IF complete THEN head ELSE 0]
        /\ complete \/ faults < MaxFaults
        /\ faults' = faults + (IF complete THEN 0 ELSE 1)
        /\ swallowed' = (swallowed \/ ~complete)
  BY DEF Fetch
<1>3. PICK content : content = IF complete THEN head ELSE 0
  OBVIOUS
<1>4. PICK a : a = [analysis[s] EXCEPT !.at = "enqueue", !.content = content]
  OBVIOUS
<1>5. analysis[s] \in Analyses /\ analysis \in [Scan -> Analyses]
  BY <1>1 DEF Typed, AnalysisTyped
<1>6. analysis' = [analysis EXCEPT ![s] = a] /\ content \in Version
  BY <1>1, <1>2, <1>3, <1>4, <1>5, AnalysisIs, ConstantsAre DEF Analyses
<1>7. /\ a \in Analyses /\ a.at = "enqueue" /\ a.sha = analysis[s].sha /\ a.content = content
      /\ a.existing = analysis[s].existing /\ a.ruleset = analysis[s].ruleset
  BY <1>4, <1>5, <1>6 DEF Analyses, Stage
<1>8. /\ analysis[s].at = "fetch" /\ Aside
      /\ UNCHANGED <<job, cancelled, ruleset, head, discovering, repo, unit>>
  BY DEF Fetch, StoreUntouched, Aside
<1>9. BranchOf[s] = Default /\ unit[s] = "open" /\ unit' = [unit EXCEPT ![s] = "open"]
      /\ a.ruleset <= ruleset /\ a.sha <= head /\ repo' \in Repository /\ head # 0 /\ head \in Nat
  BY <1>1, <1>7, <1>8, AnalysisIs, ConstantsAre
<1>10. swallowed' \in BOOLEAN /\ (swallowed => swallowed')
  BY <1>2
<1>11. faults' \in 0 .. MaxFaults /\ (faults' = 0 => faults = 0)
  <2>1. faults \in 0 .. MaxFaults /\ MaxFaults \in Nat
    BY <1>1, AnalysisIs, ConstantsAre
  <2>2. (~complete /\ faults < MaxFaults /\ faults' = faults + 1) \/ faults' = faults + 0
    BY <1>2
  <2>3. QED
    BY <2>1, <2>2
<1>12. ~swallowed' => a.content # 0 /\ a.sha <= a.content /\ a.content <= head
  <2>1. ~swallowed' => a.content = head
    BY <1>2, <1>3, <1>7
  <2>2. QED
    BY <1>9, <2>1
<1>13. QED
  BY <1>6, <1>7, <1>8, <1>9, <1>10, <1>11, <1>12, OneScan

LEMMA ThrowAnalysisKeeps ==
  ASSUME Sound, NEW s \in Scan, ThrowAnalysis(s)
  PROVE  Sound'
<1>1. Typed /\ OneWayThrough /\ AgesSound
  BY DEF Sound
<1>2. /\ analysis[s].at \in {"head", "skip", "skipped", "store", "fetch", "enqueue"} /\ Aside
      /\ UNCHANGED <<job, cancelled, ruleset, head, discovering, repo, swallowed>>
  BY DEF ThrowAnalysis, StoreUntouched, Aside
<1>3. faults' \in 0 .. MaxFaults /\ (faults' = 0 => faults = 0)
  <2>1. faults \in 0 .. MaxFaults /\ MaxFaults \in Nat
    BY <1>1, AnalysisIs, ConstantsAre
  <2>2. (faults < MaxFaults /\ faults' = faults + 1) \/ faults' = faults
    BY DEF ThrowAnalysis
  <2>3. QED
    BY <2>1, <2>2
<1>4. /\ BranchOf[s] = Default /\ unit[s] = "open" /\ repo' \in Repository /\ swallowed' \in BOOLEAN
      /\ analysis[s] \in Analyses /\ analysis \in [Scan -> Analyses]
  BY <1>1, <1>2, AnalysisIs DEF Typed, AnalysisTyped
<1>5. CASE s \in cancelled
  <2>1. unit' = [unit EXCEPT ![s] = IF @ = "open" THEN "completed" ELSE @] /\ Return(s) /\ cancelled # {}
    BY <1>5 DEF ThrowAnalysis
  <2>2. QED
    BY <1>2, <1>3, <1>4, <2>1, Returns
<1>6. CASE s \notin cancelled
  <2>1. unit' = [unit EXCEPT ![s] = "open"]
    BY <1>1, <1>4, <1>6, AnalysisIs DEF ThrowAnalysis
  <2>2. CASE analysis[s].attempt < MaxAttempts
    <3>1. PICK n : n = analysis[s].attempt + 1
      OBVIOUS
    <3>2. n \in Attempt
      BY <1>4, <2>2, <3>1, ConstantsAre DEF Analyses, Attempt
    <3>3. PICK a : a = [analysis[s] EXCEPT !.at = "queued", !.attempt = n, !.existing = NoRepo,
                                           !.sha = 0, !.content = 0]
      OBVIOUS
    <3>4. analysis' = [analysis EXCEPT ![s] = a]
      BY <1>4, <1>6, <2>2, <3>1, <3>3 DEF ThrowAnalysis, Analyses
    <3>5. NoRepo \in Repository
      BY ConstantsAre DEF NoRepo, Repository, Ruleset
    <3>6. /\ a \in Analyses /\ a.at = "queued" /\ a.sha = 0 /\ a.existing = NoRepo
          /\ a.ruleset = analysis[s].ruleset
      BY <1>4, <3>2, <3>3, <3>5, ConstantsAre DEF Analyses, Stage
    <3>7. a.sha <= head /\ a.ruleset <= ruleset
      BY <1>1, <3>6, AnalysisIs
    <3>8. QED
      BY <1>2, <1>3, <1>4, <2>1, <3>4, <3>6, <3>7, OneScan
  <2>3. CASE ~(analysis[s].attempt < MaxAttempts)
    <3>1. PICK a : a = [analysis[s] EXCEPT !.at = "failing"]
      OBVIOUS
    <3>2. analysis' = [analysis EXCEPT ![s] = a]
      BY <1>4, <1>6, <2>3, <3>1 DEF ThrowAnalysis, Stay, Analyses
    <3>3. /\ a \in Analyses /\ a.at = "failing" /\ a.sha = analysis[s].sha
          /\ a.existing = analysis[s].existing /\ a.ruleset = analysis[s].ruleset
      BY <1>4, <3>1 DEF Analyses, Stage
    <3>4. a.sha <= head /\ a.ruleset <= ruleset
      BY <1>1, <3>3, AnalysisIs
    <3>5. QED
      BY <1>2, <1>3, <1>4, <2>1, <3>2, <3>3, <3>4, OneScan
  <2>4. QED
    BY <2>2, <2>3
<1>7. QED
  BY <1>5, <1>6

\* A detection job is added, by an analysis that returns or for a side branch.
LEMMA QueuedKeeps ==
  ASSUME Sound, Aside, NEW s \in Scan, job[s].state = "none",
         NEW j \in Jobs, job' = [job EXCEPT ![s] = j], j.state = "queued", j.attempt = 1,
         UNCHANGED <<unit, repo, faults, cancelled, ruleset, head, discovering, swallowed>>,
         \/ BranchOf[s] # Default /\ UNCHANGED analysis
         \/ BranchOf[s] = Default /\ Return(s),
         j.ruleset <= ruleset,
         BranchOf[s] = Default /\ ~swallowed => j.content # 0 /\ j.sha <= j.content /\ j.content <= head
  PROVE  Sound'
<1>1. /\ Typed /\ OneWayThrough /\ BacklogSound /\ AgesSound /\ ContentSound /\ MarksSound
  BY DEF Sound
<1>2. PICK a : a = IF BranchOf[s] = Default THEN [Unseen EXCEPT !.at = "ended"] ELSE analysis[s]
  OBVIOUS
<1>3. a \in Analyses /\ analysis' = [analysis EXCEPT ![s] = a]
  BY <1>1, <1>2, EndsAre DEF Typed, AnalysisTyped, Return
<1>4. /\ analysis'[s] = a /\ \A t \in Scan \ {s} : analysis'[t] = analysis[t]
      /\ AnalysisTyped'
  BY <1>1, <1>3 DEF Typed, AnalysisTyped
<1>5. \/ BranchOf[s] # Default /\ a = analysis[s] /\ a.at = "none"
      \/ BranchOf[s] = Default /\ a.at = "ended" /\ a.sha = 0 /\ a.ruleset = 0 /\ a.existing = NoRepo
  BY <1>1, <1>2, EndsAre DEF OneWayThrough
<1>6. /\ job'[s] = j /\ (\A t \in Scan \ {s} : job'[t] = job[t]) /\ JobTyped'
  BY <1>1 DEF Typed, JobTyped
<1>7. RepoTyped' /\ UnitTyped' /\ HistoryTyped'
  BY <1>1 DEF Typed, RepoTyped, UnitTyped, HistoryTyped, Aside
<1>8. /\ RunTyped' /\ FindingTyped' /\ AlertTyped'
      /\ (\A r \in Run : RunSound(r)') /\ AlertSound' /\ StoringAlone'
  BY AsideKeeps
<1>9. \A r \in Run : run[r].at # "none" => r[1] # s
  BY <1>1, BegunIs DEF Typed
<1>10. OneWayThrough'
  <2>1. \A n \in Attempt : run[<<s, n>>] = Idle
    <3>1. \A n \in Attempt : n \in Nat /\ (n = 1 \/ n > 1)
      BY ConstantsAre DEF Attempt
    <3>2. job[s].attempt = 1
      BY <1>1 DEF OneWayThrough
    <3>3. QED
      BY <1>1, <3>1, <3>2 DEF OneWayThrough
  <2>2. QED
    BY <1>1, <1>4, <1>5, <1>6, <2>1 DEF OneWayThrough, Aside
<1>11. BacklogSound'
  <2>1. AtWork(s)'
    BY <1>6 DEF AtWork
  <2>2. \A t \in Scan : analysis'[t].at = "skipped" => repo'.success
    BY <1>1, <1>4, <1>5 DEF BacklogSound
  <2>3. QED
    BY <2>1, <2>2 DEF BacklogSound
<1>12. AgesSound'
  <2>1. NoRepo.sha = 0 /\ NoRepo.ruleset = 0 /\ 0 <= head /\ 0 <= ruleset /\ 0 <= newest
    BY <1>1, ConstantsAre DEF NoRepo, Typed, HistoryTyped, AnalysisTyped, Version
  <2>2. QED
    BY <1>1, <1>4, <1>5, <1>6, <2>1 DEF AgesSound, Aside
<1>13. ContentSound'
  <2>1. \A r \in Run : r[1] # s => FoundIs(r)' = FoundIs(r)
    BY <1>6, RunIs DEF FoundIs, Aside
  <2>2. \A r \in Run : run[r].at = "lookup" \/ Storing(r) => r[1] # s
    BY <1>9 DEF Storing
  <2>3. SUFFICES ASSUME ~swallowed PROVE ContentSound'
    BY DEF ContentSound
  <2>4. \A r \in Run : OnDefault(r) /\ (run[r].at = "lookup" \/ Storing(r)) => FoundIs(r)'
    BY <1>1, <2>1, <2>2, <2>3 DEF ContentSound
  <2>5. \A t \in Scan : analysis'[t].at = "enqueue" =>
          analysis'[t].content # 0 /\ analysis'[t].sha <= analysis'[t].content /\ analysis'[t].content <= head
    BY <1>1, <1>4, <1>5, <2>3 DEF ContentSound
  <2>6. \A t \in Scan : BranchOf[t] = Default /\ job'[t].state # "none" =>
          job'[t].content # 0 /\ job'[t].sha <= job'[t].content /\ job'[t].content <= head
    BY <1>1, <1>6, <2>3 DEF ContentSound
  <2>7. QED
    BY <2>4, <2>5, <2>6 DEF ContentSound, Storing, OnDefault, Aside
<1>14. MarksSound'
  <2>1. Agrees(newest)' = Agrees(newest) /\ Reported' = Reported
    BY AgreesSame DEF Aside
  <2>2. SUFFICES ASSUME ~disorder, ~swallowed PROVE MarksSound'
    BY DEF MarksSound, Aside
  <2>3. NoRepo.sha = 0
    BY DEF NoRepo
  <2>4. Holds(repo)' /\ \A t \in Scan : Holds(analysis[t].existing)'
    BY <1>1, <1>4, <1>5, <2>1, <2>2, <2>3 DEF MarksSound, Holds, Aside
  <2>5. \A r \in Run : OnDefault(r) /\ Storing(r) => job'[r[1]].content = newest
    BY <1>1, <1>6, <1>9, <2>2, RunIs DEF MarksSound, Storing
  <2>6. QED
    BY <1>1, <2>1, <2>2, <2>4, <2>5 DEF MarksSound, Storing, OnDefault, Fp, Aside
<1>15. QED
  BY <1>4, <1>6, <1>7, <1>8, <1>10, <1>11, <1>12, <1>13, <1>14 DEF Sound, Typed

LEMMA NoJobIs ==
  NoJob \in Jobs /\ NoJob.attempt = 1 /\ NoJob.sha = 0 /\ NoJob.ruleset = 0
BY ConstantsAre DEF NoJob, Jobs

LEMMA EnqueueDetectionKeeps ==
  ASSUME Sound, NEW s \in Scan, EnqueueDetection(s)
  PROVE  Sound'
<1>1. Typed /\ OneWayThrough /\ AgesSound /\ ContentSound
  BY DEF Sound
<1>2. PICK a : a = analysis[s]
  OBVIOUS
<1>3. /\ a.at = "enqueue" /\ Aside /\ Return(s)
      /\ UNCHANGED <<unit, repo, faults, cancelled, ruleset, head, discovering, swallowed>>
  BY <1>2 DEF EnqueueDetection, Aside
<1>4. BranchOf[s] = Default /\ unit[s] = "open" /\ job[s].state = "none"
  BY <1>1, <1>2, <1>3 DEF OneWayThrough
<1>5. PICK j : j = [NoJob EXCEPT !.state = "queued", !.content = a.content, !.sha = a.sha,
                                 !.dates = a.dates, !.ruleset = a.ruleset]
  OBVIOUS
<1>6. job' = [job EXCEPT ![s] = j]
  BY <1>2, <1>4, <1>5 DEF EnqueueDetection
<1>7. a.content \in Version /\ a.sha \in Version /\ a.dates \in Version /\ a.ruleset \in Ruleset
      /\ a.ruleset <= ruleset
  BY <1>1, <1>2, AnalysisIs
<1>8. /\ j \in Jobs /\ j.state = "queued" /\ j.attempt = 1 /\ j.content = a.content /\ j.sha = a.sha
      /\ j.ruleset = a.ruleset
  BY <1>5, <1>7, NoJobIs DEF Jobs
<1>9. ~swallowed => j.content # 0 /\ j.sha <= j.content /\ j.content <= head
  BY <1>1, <1>2, <1>3, <1>8 DEF ContentSound
<1>10. j.ruleset <= ruleset
  BY <1>7, <1>8
<1>11. QED
  BY <1>3, <1>4, <1>6, <1>8, <1>9, <1>10, QueuedKeeps

LEMMA AnalyseBranchKeeps ==
  ASSUME Sound, NEW s \in Scan, AnalyseBranch(s)
  PROVE  Sound'
<1>1. Typed
  BY DEF Sound
<1>2. PICK j : j = [NoJob EXCEPT !.state = "queued", !.content = 1]
  OBVIOUS
<1>3. /\ BranchOf[s] # Default /\ job[s].state = "none" /\ job' = [job EXCEPT ![s] = j] /\ Aside
      /\ UNCHANGED <<analysis, unit, repo, faults, cancelled, ruleset, head, discovering, swallowed>>
  BY <1>2 DEF AnalyseBranch, Aside, outside
<1>4. 1 \in Version /\ 0 <= ruleset
  BY <1>1, ConstantsAre DEF Version, Typed, HistoryTyped
<1>5. j \in Jobs /\ j.state = "queued" /\ j.attempt = 1 /\ j.ruleset = 0
  BY <1>2, <1>4, NoJobIs DEF Jobs
<1>6. j.ruleset <= ruleset
  BY <1>4, <1>5
<1>7. QED
  BY <1>3, <1>5, <1>6, QueuedKeeps

-----------------------------------------------------------------------------
(* GitHub, discovery and deployment.                                        *)

LEMMA DiscoveryKeeps ==
  ASSUME Sound, FindNew \/ Discover
  PROVE  Sound'
<1>1. /\ Typed /\ OneWayThrough /\ BacklogSound /\ AgesSound /\ ContentSound /\ MarksSound
  BY DEF Sound
<1>2. /\ Aside /\ UNCHANGED <<job, unit, cancelled, faults, ruleset, head, analysis, swallowed>>
      /\ discovering' \in BOOLEAN
  BY DEF FindNew, Discover, findingVars, Aside
<1>3. repo' = repo \/ repo' = [repo EXCEPT !.known = TRUE, !.pending = TRUE, !.dates = head]
  BY DEF FindNew, Discover, findingVars
<1>4. repo \in Repository /\ head \in Version
  BY <1>1 DEF Typed, RepoTyped, AnalysisTyped, Version
<1>5. /\ repo' \in Repository /\ repo'.sha = repo.sha /\ repo'.ruleset = repo.ruleset
      /\ repo'.success = repo.success /\ (repo' = repo \/ repo'.pending)
  BY <1>3, <1>4 DEF Repository
<1>6. /\ RunTyped' /\ FindingTyped' /\ AlertTyped'
      /\ (\A r \in Run : RunSound(r)') /\ AlertSound' /\ StoringAlone'
  BY <1>2, <1>5, AsideKeeps
<1>7. RepoTyped' /\ JobTyped' /\ UnitTyped' /\ HistoryTyped' /\ AnalysisTyped'
  BY <1>1, <1>2, <1>5 DEF Typed, RepoTyped, JobTyped, UnitTyped, HistoryTyped, AnalysisTyped, Aside
<1>8. OneWayThrough'
  BY <1>1, <1>2 DEF OneWayThrough, Aside
<1>9. BacklogSound'
  BY <1>1, <1>2, <1>5 DEF BacklogSound, Active, AtWork
<1>10. AgesSound'
  BY <1>1, <1>2, <1>5 DEF AgesSound, Aside
<1>11. ContentSound'
  BY <1>1, <1>2 DEF ContentSound, FoundIs, Storing, OnDefault, Aside
<1>12. MarksSound'
  <2>1. Agrees(newest)' = Agrees(newest) /\ Reported' = Reported
    BY <1>2, AgreesSame DEF Aside
  <2>2. QED
    BY <1>1, <1>2, <1>5, <2>1 DEF MarksSound, Holds, Storing, OnDefault, Fp, Aside
<1>13. QED
  BY <1>6, <1>7, <1>8, <1>9, <1>10, <1>11, <1>12 DEF Sound, Typed

LEMMA PushKeeps ==
  ASSUME Sound, Push
  PROVE  Sound'
<1>1. /\ Typed /\ OneWayThrough /\ BacklogSound /\ AgesSound /\ ContentSound /\ MarksSound
  BY DEF Sound
<1>2. /\ Aside /\ UNCHANGED <<repo, job, unit, cancelled, faults, ruleset, analysis, discovering, swallowed>>
      /\ head < MaxVersion /\ head' = head + 1
  BY DEF Push, findingVars, Aside
<1>3. /\ RunTyped' /\ FindingTyped' /\ AlertTyped'
      /\ (\A r \in Run : RunSound(r)') /\ AlertSound' /\ StoringAlone'
  BY <1>2, AsideKeeps
<1>4. head \in 1 .. MaxVersion /\ MaxVersion \in Nat /\ newest \in Nat
      /\ \A s \in Scan : /\ analysis[s].sha \in Nat /\ analysis[s].content \in Nat
                         /\ job[s].content \in Nat
  BY <1>1, ConstantsAre DEF Typed, AnalysisTyped, Analyses, HistoryTyped, JobTyped, Jobs
<1>5. head' \in 1 .. MaxVersion /\ \A n \in Nat : n <= head => n <= head'
  BY <1>2, <1>4
<1>6. RepoTyped' /\ JobTyped' /\ UnitTyped' /\ HistoryTyped' /\ AnalysisTyped'
  BY <1>1, <1>2, <1>5 DEF Typed, RepoTyped, JobTyped, UnitTyped, HistoryTyped, AnalysisTyped, Aside
<1>7. OneWayThrough'
  BY <1>1, <1>2 DEF OneWayThrough, Aside
<1>8. BacklogSound'
  BY <1>1, <1>2 DEF BacklogSound, Active, AtWork
<1>9. AgesSound'
  BY <1>1, <1>2, <1>4, <1>5 DEF AgesSound, Aside
<1>10. ContentSound'
  BY <1>1, <1>2, <1>4, <1>5 DEF ContentSound, FoundIs, Storing, OnDefault, Aside
<1>11. MarksSound'
  <2>1. Agrees(newest)' = Agrees(newest) /\ Reported' = Reported
    BY <1>2, AgreesSame DEF Aside
  <2>2. QED
    BY <1>1, <1>2, <2>1 DEF MarksSound, Holds, Storing, OnDefault, Fp, Aside
<1>12. QED
  BY <1>3, <1>6, <1>7, <1>8, <1>9, <1>10, <1>11 DEF Sound, Typed

\* New rules: no mark is of these yet, and no attempt has applied the old ones.
LEMMA DeployKeeps ==
  ASSUME Sound, Deploy
  PROVE  Sound'
<1>1. /\ Typed /\ OneWayThrough /\ BacklogSound /\ AgesSound /\ ContentSound /\ MarksSound
  BY DEF Sound
<1>2. /\ Aside /\ UNCHANGED <<repo, job, unit, cancelled, faults, head, analysis, discovering, swallowed>>
      /\ ruleset < MaxRuleset /\ ruleset' = ruleset + 1
      /\ \A r \in Run : run[r].at \in {"none", "over"}
  BY DEF Deploy, Aside, outside
<1>3. /\ RunTyped' /\ FindingTyped' /\ AlertTyped'
      /\ (\A r \in Run : RunSound(r)') /\ AlertSound' /\ StoringAlone'
  BY <1>2, AsideKeeps
<1>4. ruleset \in 1 .. MaxRuleset /\ MaxRuleset \in Nat /\ repo.ruleset \in Nat
      /\ \A s \in Scan : /\ analysis[s].ruleset \in Nat /\ analysis[s].existing.ruleset \in Nat
                         /\ job[s].ruleset \in Nat
  BY <1>1, ConstantsAre DEF Typed, RepoTyped, Repository, Ruleset, AnalysisTyped, Analyses,
                            HistoryTyped, JobTyped, Jobs
<1>5. ruleset' \in 1 .. MaxRuleset
      /\ \A n \in Nat : n <= ruleset => n <= ruleset' /\ n # ruleset'
  BY <1>2, <1>4
<1>6. RepoTyped' /\ JobTyped' /\ UnitTyped' /\ HistoryTyped' /\ AnalysisTyped'
  BY <1>1, <1>2, <1>5 DEF Typed, RepoTyped, JobTyped, UnitTyped, HistoryTyped, AnalysisTyped, Aside
<1>7. OneWayThrough'
  BY <1>1, <1>2 DEF OneWayThrough, Aside
<1>8. BacklogSound'
  BY <1>1, <1>2 DEF BacklogSound, Active, AtWork
<1>9. AgesSound'
  BY <1>1, <1>2, <1>4, <1>5 DEF AgesSound, Aside
<1>10. ContentSound'
  BY <1>1, <1>2 DEF ContentSound, Storing, OnDefault, Aside
<1>11. MarksSound'
  <2>1. repo.ruleset # ruleset' /\ \A s \in Scan : analysis[s].existing.ruleset # ruleset'
    BY <1>1, <1>4, <1>5 DEF AgesSound
  <2>2. QED
    BY <1>2, <2>1 DEF MarksSound, Holds, Storing, OnDefault, Aside
<1>12. QED
  BY <1>3, <1>6, <1>7, <1>8, <1>9, <1>10, <1>11 DEF Sound, Typed

-----------------------------------------------------------------------------
(* Steps of an attempt.                                                     *)

LEMMA AgainIs ==
  ASSUME JobTyped, NEW s \in Scan, NEW next, next = Again(s)
  PROVE  /\ next \in [Scan -> Jobs] /\ \A t \in Scan \ {s} : next[t] = job[t]
         /\ next[s].content = job[s].content /\ next[s].sha = job[s].sha
         /\ next[s].ruleset = job[s].ruleset
         /\ \/ next[s].state = "queued" /\ next[s].attempt = job[s].attempt + 1
            \/ next[s].state = "failing" /\ next[s].attempt = job[s].attempt
<1>1. job[s] \in Jobs /\ job[s].attempt \in Attempt
  BY DEF JobTyped, Jobs
<1>2. CASE job[s].attempt < MaxAttempts
  <2>1. PICK n : n = job[s].attempt + 1
    OBVIOUS
  <2>2. n \in Attempt
    BY <1>1, <1>2, <2>1, ConstantsAre DEF Attempt
  <2>3. PICK j : j = [job[s] EXCEPT !.attempt = n, !.state = "queued"]
    OBVIOUS
  <2>4. /\ j \in Jobs /\ j.content = job[s].content /\ j.sha = job[s].sha
        /\ j.ruleset = job[s].ruleset /\ j.state = "queued" /\ j.attempt = n
    BY <1>1, <2>2, <2>3 DEF Jobs
  <2>5. next = [job EXCEPT ![s] = j]
    BY <1>1, <1>2, <2>1, <2>3 DEF Again, JobTyped, Jobs
  <2>6. QED
    BY <2>1, <2>4, <2>5 DEF JobTyped
<1>3. CASE ~(job[s].attempt < MaxAttempts)
  <2>1. PICK j : j = [job[s] EXCEPT !.state = "failing"]
    OBVIOUS
  <2>2. /\ j \in Jobs /\ j.content = job[s].content /\ j.sha = job[s].sha
        /\ j.ruleset = job[s].ruleset /\ j.state = "failing" /\ j.attempt = job[s].attempt
    BY <1>1, <2>1 DEF Jobs
  <2>3. next = [job EXCEPT ![s] = j]
    BY <1>1, <1>3, <2>1 DEF Again, JobTyped, Jobs
  <2>4. QED
    BY <2>2, <2>3 DEF JobTyped
<1>4. QED
  BY <1>2, <1>3

\* What may become of the job: nothing, an attempt, the next one or the last resort, its end.
JobStep(s) ==
  \/ job' = job
  \/ job[s].state = "queued" /\ job' = [job EXCEPT ![s].state = "running"]
  \/ job[s].state = "running" /\ job' = Again(s)
  \/ job[s].state # "none" /\ job' = [job EXCEPT ![s].state = "ended"] /\ unit'[s] # "open"

LEMMA JobStepIs ==
  ASSUME JobTyped, NEW s \in Scan, JobStep(s)
  PROVE  /\ JobTyped' /\ \A t \in Scan \ {s} : job'[t] = job[t]
         /\ \A t \in Scan : /\ job'[t].content = job[t].content /\ job'[t].sha = job[t].sha
                            /\ job'[t].ruleset = job[t].ruleset
                            /\ (job'[t].state = "none" <=> job[t].state = "none")
         /\ AtWork(s) => AtWork(s)' \/ unit'[s] # "open"
<1>1. job[s] \in Jobs /\ job \in [Scan -> Jobs]
  BY DEF JobTyped
<1>0. CASE job[s].state = "queued" /\ job' = [job EXCEPT ![s].state = "running"]
  <2>1. PICK j : j = [job[s] EXCEPT !.state = "running"]
    OBVIOUS
  <2>2. /\ j \in Jobs /\ j.content = job[s].content /\ j.sha = job[s].sha
        /\ j.ruleset = job[s].ruleset /\ j.state = "running"
    BY <1>1, <2>1 DEF Jobs
  <2>3. job' = [job EXCEPT ![s] = j]
    BY <1>1, <1>0, <2>1 DEF Jobs
  <2>4. QED
    BY <1>0, <1>1, <2>2, <2>3 DEF JobTyped, AtWork
<1>2. CASE job' = job
  BY <1>2 DEF JobTyped, AtWork
<1>3. CASE job[s].state = "running" /\ job' = Again(s)
  <2>1. /\ job' \in [Scan -> Jobs] /\ \A t \in Scan \ {s} : job'[t] = job[t]
        /\ job'[s].content = job[s].content /\ job'[s].sha = job[s].sha
        /\ job'[s].ruleset = job[s].ruleset /\ job'[s].state \in {"queued", "failing"}
    BY <1>3, AgainIs
  <2>2. QED
    BY <1>3, <2>1 DEF JobTyped, AtWork
<1>4. CASE job[s].state # "none" /\ job' = [job EXCEPT ![s].state = "ended"] /\ unit'[s] # "open"
  <2>1. PICK j : j = [job[s] EXCEPT !.state = "ended"]
    OBVIOUS
  <2>2. /\ j \in Jobs /\ j.content = job[s].content /\ j.sha = job[s].sha
        /\ j.ruleset = job[s].ruleset /\ j.state = "ended"
    BY <1>1, <2>1 DEF Jobs
  <2>3. job' = [job EXCEPT ![s] = j]
    BY <1>1, <1>4, <2>1 DEF Jobs
  <2>4. QED
    BY <1>1, <1>4, <2>2, <2>3 DEF JobTyped
<1>5. QED
  BY <1>0, <1>2, <1>3, <1>4 DEF JobStep

\* The job of a scan goes on or ends; no attempt begins but the one it waits for.
Begins(s) == job[s].state = "queued" /\ job'[s].state \in {"running", "ended"}
             /\ job'[s].attempt = job[s].attempt
LEMMA JobGoesOn ==
  ASSUME JobTyped, UnitTyped, OneWayThrough, NEW s \in Scan, JobStep(s), job[s].state # "none",
         \A r \in Run : run[r] = Idle => run'[r] = Idle \/ (Begins(s) /\ r = Current(s)), UNCHANGED analysis,
         \A t \in Scan \ {s} : unit'[t] = unit[t],
         unit'[s] = unit[s] \/ unit'[s] # "open"
  PROVE  OneWayThrough'
<1>1. /\ JobTyped' /\ \A t \in Scan \ {s} : job'[t] = job[t]
      /\ \A t \in Scan : job'[t].state = "none" <=> job[t].state = "none"
  BY JobStepIs
<1>2. ASSUME NEW t \in Scan, t # s
      PROVE  /\ BranchOf[t] # Default => analysis'[t].at = "none"
             /\ BranchOf[t] = Default /\ analysis'[t].at # "ended" => job'[t].state = "none" /\ unit'[t] = "open"
             /\ job'[t].state = "none" => job'[t].attempt = 1
             /\ job'[t].state = "ended" => unit'[t] # "open"
             /\ \A n \in Attempt :
                  n > job'[t].attempt \/ (n = job'[t].attempt /\ job'[t].state \in {"none", "queued"}) =>
                     run'[<<t, n>>] = Idle
  <2>1. \A n \in Attempt : <<t, n>> \in Run
    BY DEF Run
  <2>2. \A n \in Attempt : <<t, n>> # Current(s)
    BY <1>2 DEF Current
  <2>3. job'[t] = job[t] /\ unit'[t] = unit[t] /\ analysis'[t] = analysis[t]
    BY <1>1, <1>2
  <2>4. QED
    BY <2>1, <2>2, <2>3 DEF OneWayThrough
<1>3. /\ BranchOf[s] # Default => analysis'[s].at = "none"
      /\ ~(BranchOf[s] = Default /\ analysis'[s].at # "ended")
      /\ job'[s].state # "none"
  BY <1>1 DEF OneWayThrough
<1>4. job'[s].state = "ended" => unit'[s] # "open"
  <2>1. CASE job' = job
    BY <2>1 DEF OneWayThrough
  <2>2. CASE job[s].state = "running" /\ job' = Again(s)
    BY <2>2, AgainIs
  <2>3. CASE job' = [job EXCEPT ![s].state = "running"]
    BY <2>3 DEF JobTyped, Jobs
  <2>4. QED
    BY <2>1, <2>2, <2>3 DEF JobStep
<1>5. \A n \in Attempt :
        n > job'[s].attempt \/ (n = job'[s].attempt /\ job'[s].state \in {"none", "queued"}) =>
           run'[<<s, n>>] = Idle
  <2>1. SUFFICES ASSUME NEW n \in Attempt,
                        n > job'[s].attempt \/ (n = job'[s].attempt /\ job'[s].state = "queued")
                 PROVE  run'[<<s, n>>] = Idle
    BY <1>3
  <2>2. n \in Nat /\ job[s].attempt \in Nat /\ job'[s].attempt \in Nat /\ <<s, n>> \in Run
    BY <1>1, ConstantsAre DEF JobTyped, Jobs, Run
  <2>3. ~(Begins(s) /\ <<s, n>> = Current(s))
    BY <2>1, <2>2 DEF Begins, Current
  <2>4. CASE job' = job
    BY <2>1, <2>2, <2>3, <2>4 DEF OneWayThrough
  <2>5. CASE job[s].state = "running" /\ job' = Again(s)
    <3>1. \/ job'[s].state = "queued" /\ job'[s].attempt = job[s].attempt + 1
          \/ job'[s].state = "failing" /\ job'[s].attempt = job[s].attempt
      BY <2>5, AgainIs
    <3>2. n > job[s].attempt
      BY <2>1, <2>2, <3>1
    <3>3. QED
      BY <2>2, <2>3, <3>2 DEF OneWayThrough
  <2>6. CASE \/ job' = [job EXCEPT ![s].state = "ended"] \/ job' = [job EXCEPT ![s].state = "running"]
    <3>1. job'[s].state \in {"running", "ended"} /\ job'[s].attempt = job[s].attempt
      BY <2>6 DEF JobTyped, Jobs
    <3>2. n > job[s].attempt
      BY <2>1, <3>1
    <3>3. QED
      BY <2>2, <2>3, <3>2 DEF OneWayThrough
  <2>7. QED
    BY <2>4, <2>5, <2>6 DEF JobStep
<1>6. QED
  BY <1>2, <1>3, <1>4, <1>5 DEF OneWayThrough

\* An attempt begins or goes on, its job with it; findings and units may be added to, not
\* taken back.
RunStep(r, new) ==
  /\ run[r].at # "none" \/ (Begins(r[1]) /\ r = Current(r[1]))
  /\ run' = [run EXCEPT ![r] = new] /\ JobStep(r[1])
  /\ UNCHANGED <<analysis, head, discovering, swallowed, ruleset, cancelled>>
  /\ UnitTyped' /\ (\A s \in Scan \ {r[1]} : unit'[s] = unit[s])
  /\ unit'[r[1]] = unit[r[1]] \/ unit'[r[1]] # "open"
  /\ repo.success => repo'.success
  /\ \A f \in Fingerprint : Exists(f) => Exists(f)'

LEMMA RunStepDoes ==
  ASSUME Sound, NEW r \in Run, NEW new \in Runs, RunStep(r, new)
  PROVE  /\ run'[r] = new /\ \A other \in Run \ {r} : run'[other] = run[other] /\ Fp(other)' = Fp(other)
         /\ RunTyped' /\ JobTyped' /\ AnalysisTyped' /\ OneWayThrough'
         /\ \A other \in Run \ {r} : RunSound(other)'
         /\ \A s \in Scan : /\ job'[s].content = job[s].content /\ job'[s].sha = job[s].sha
                            /\ job'[s].ruleset = job[s].ruleset
                            /\ (job'[s].state = "none" <=> job[s].state = "none")
<1>1. /\ Typed /\ OneWayThrough /\ (\A x \in Run : RunSound(x)) /\ r[1] \in Scan
  BY RunIs DEF Sound
<1>2. JobTyped /\ UnitTyped /\ RunTyped
  BY <1>1 DEF Typed
<1>3. run'[r] = new /\ (\A other \in Run \ {r} : run'[other] = run[other]) /\ RunTyped'
  BY <1>2 DEF RunStep, RunTyped
<1>4. \A other \in Run \ {r} : Fp(other)' = Fp(other)
  BY <1>3 DEF Fp
<1>5. job[r[1]].state # "none"
  BY <1>1, <1>2, BegunIs DEF RunStep, Begins
<1>6. \A x \in Run : run[x] = Idle => run'[x] = Idle \/ (Begins(r[1]) /\ x = Current(r[1]))
  BY <1>3, IdleIs DEF RunStep
<1>7. OneWayThrough'
  BY <1>1, <1>2, <1>5, <1>6, JobGoesOn DEF RunStep
<1>8. /\ JobTyped'
      /\ \A s \in Scan : /\ job'[s].content = job[s].content /\ job'[s].sha = job[s].sha
                         /\ job'[s].ruleset = job[s].ruleset
                         /\ (job'[s].state = "none" <=> job[s].state = "none")
  BY <1>1, <1>2, JobStepIs DEF RunStep
<1>9. AnalysisTyped'
  BY <1>1 DEF Typed, AnalysisTyped, RunStep
<1>10. ASSUME NEW other \in Run \ {r} PROVE RunSound(other)'
  <2>1. RunSound(other) /\ run'[other] = run[other] /\ Fp(other)' = Fp(other) /\ other[1] \in Scan
    BY <1>1, <1>3, <1>4, RunIs
  <2>2. unit[other[1]] # "open" => unit'[other[1]] # "open"
    BY <2>1 DEF RunStep
  <2>3. run[other].rules # {} => Fp(other) \in Fingerprint
    BY <1>2, FpIs
  <2>4. run[other].at = "save" => Fp(other) \in Fingerprint
    BY <2>1, <2>3 DEF RunSound
  <2>5. run[other].closing \subseteq Fingerprint
    BY <1>2 DEF RunTyped, Runs
  <2>6. \A f \in Fingerprint : Exists(f) => Exists(f)'
    BY DEF RunStep
  <2>7. repo.success => repo'.success
    BY DEF RunStep
  <2>8. QED
    BY <2>1, <2>2, <2>3, <2>4, <2>5, <2>6, <2>7 DEF RunSound, OnDefault
<1>11. QED
  BY <1>3, <1>4, <1>7, <1>8, <1>9, <1>10

LEMMA BacklogFrame ==
  ASSUME Sound, NEW r \in Run, NEW new \in Runs, RunStep(r, new), repo' = repo,
         job' = job \/ AtWork(r[1])' \/ cancelled # {} \/ (OnDefault(r) => repo.success)
  PROVE  BacklogSound'
<1>1. Typed /\ BacklogSound /\ r[1] \in Scan /\ JobTyped
  BY RunIs DEF Sound, Typed
<1>2. /\ \A s \in Scan \ {r[1]} : job'[s] = job[s]
      /\ AtWork(r[1]) => AtWork(r[1])' \/ unit'[r[1]] # "open"
  BY <1>1, JobStepIs DEF RunStep
<1>3. AtWork(r[1]) => \/ AtWork(r[1])' \/ repo.success \/ cancelled # {}
                      \/ BranchOf[r[1]] # Default /\ unit'[r[1]] # "open"
  <2>1. CASE job' = job
    BY <2>1 DEF AtWork
  <2>2. CASE OnDefault(r) => repo.success
    BY <1>2, <2>2 DEF OnDefault
  <2>3. QED
    BY <2>1, <2>2
<1>4. \A s \in Scan : Active(s)' = Active(s) /\ (unit[s] # "open" => unit'[s] # "open")
  BY DEF RunStep, Active
<1>5. \A s \in Scan \ {r[1]} : AtWork(s)' = AtWork(s)
  BY <1>2 DEF AtWork
<1>6. cancelled' = cancelled /\ analysis' = analysis
  BY DEF RunStep
<1>7. QED
  BY <1>1, <1>3, <1>4, <1>5, <1>6 DEF BacklogSound

LEMMA AgesFrame ==
  ASSUME Sound, NEW r \in Run, NEW new \in Runs, RunStep(r, new), UNCHANGED <<repo, newest, disorder>>
  PROVE  AgesSound'
<1>1. AgesSound /\ \A s \in Scan : job'[s].ruleset = job[s].ruleset
  BY RunStepDoes DEF Sound
<1>2. QED
  BY <1>1 DEF AgesSound, RunStep

LEMMA ContentFrame ==
  ASSUME Sound, NEW r \in Run, NEW new \in Runs, RunStep(r, new),
         OnDefault(r) /\ (new.at = "lookup" \/ Storing(r)') =>
            \/ (run[r].at = "lookup" \/ Storing(r)) /\ new.rules = run[r].rules
            \/ ~swallowed => FoundIs(r)'
  PROVE  ContentSound'
<1>1. ContentSound
  BY DEF Sound
<1>2. /\ run'[r] = new /\ (\A other \in Run \ {r} : run'[other] = run[other])
      /\ \A s \in Scan : /\ job'[s].content = job[s].content /\ job'[s].sha = job[s].sha
                         /\ (job'[s].state = "none" <=> job[s].state = "none")
  BY RunStepDoes
<1>3. UNCHANGED <<analysis, head, swallowed, ruleset>>
  BY DEF RunStep
<1>4. \A x \in Run : run'[x].rules = run[x].rules => FoundIs(x)' = FoundIs(x)
  BY <1>2, <1>3, RunIs DEF FoundIs
<1>5. \A x \in Run \ {r} : Storing(x)' = Storing(x)
  BY <1>2 DEF Storing
<1>6. SUFFICES ASSUME ~swallowed PROVE ContentSound'
  BY <1>3 DEF ContentSound
<1>7. \A x \in Run : OnDefault(x) /\ (run[x].at = "lookup" \/ Storing(x)) => FoundIs(x)
  BY <1>1, <1>6 DEF ContentSound
<1>8. \A x \in Run : OnDefault(x)' /\ (run'[x].at = "lookup" \/ Storing(x)') => FoundIs(x)'
  BY <1>2, <1>4, <1>5, <1>6, <1>7 DEF OnDefault
<1>9. QED
  BY <1>1, <1>2, <1>3, <1>6, <1>8 DEF ContentSound

LEMMA StoringFrame ==
  ASSUME Sound, NEW r \in Run, NEW new \in Runs, RunStep(r, new), disorder' = disorder,
         OnDefault(r) /\ Storing(r)' => Storing(r),
         \A x \in Run : ~disorder /\ run'[x].at = "prune" /\ OnDefault(x) => x \in evidence'[Fp(x)']
  PROVE  StoringAlone'
<1>1. StoringAlone
  BY DEF Sound
<1>2. \A other \in Run \ {r} : run'[other] = run[other]
  BY RunStepDoes
<1>3. \A other \in Run \ {r} : Storing(other)' = Storing(other)
  BY <1>2 DEF Storing
<1>4. QED
  BY <1>1, <1>3 DEF StoringAlone, OnDefault

LEMMA MarksFrame ==
  ASSUME Sound, NEW r \in Run, NEW new \in Runs, RunStep(r, new),
         UNCHANGED <<newest, disorder, finding, touched>>,
         repo'.sha = repo.sha, repo'.ruleset = repo.ruleset,
         OnDefault(r) /\ Storing(r)' => Storing(r),
         ~disorder /\ ~swallowed /\ OnDefault(r) /\ new.at \in {"resolve", "mark"} =>
            Reported \ touched \subseteq {Fp(r)'} \cup new.closing
  PROVE  MarksSound'
<1>1. MarksSound
  BY DEF Sound
<1>2. /\ run'[r] = new /\ \A other \in Run \ {r} : run'[other] = run[other] /\ Fp(other)' = Fp(other)
      /\ \A s \in Scan : job'[s].content = job[s].content
  BY RunStepDoes
<1>3. Agrees(newest)' = Agrees(newest) /\ Reported' = Reported
  BY AgreesSame DEF RunStep
<1>4. \A other \in Run \ {r} : Storing(other)' = Storing(other)
  BY <1>2 DEF Storing
<1>5. UNCHANGED <<analysis, swallowed, ruleset>>
  BY DEF RunStep
<1>6. SUFFICES ASSUME ~disorder, ~swallowed PROVE MarksSound'
  BY <1>5 DEF MarksSound
<1>7. Holds(repo)' /\ \A s \in Scan : Holds(analysis[s].existing)'
  BY <1>1, <1>3, <1>5, <1>6 DEF MarksSound, Holds
<1>8. \A x \in Run : OnDefault(x)' /\ Storing(x)' => job'[x[1]].content = newest'
  BY <1>1, <1>2, <1>4, <1>6, RunIs DEF MarksSound, OnDefault
<1>9. \A x \in Run : OnDefault(x)' /\ run'[x].at \in {"resolve", "mark"} =>
        Reported' \ touched' \subseteq {Fp(x)'} \cup run'[x].closing
  BY <1>1, <1>2, <1>3, <1>6 DEF MarksSound, OnDefault
<1>10. QED
  BY <1>7, <1>8, <1>9 DEF MarksSound

LEMMA AlertFrame ==
  ASSUME Sound, NEW r \in Run, NEW new \in Runs, RunStep(r, new),
         UNCHANGED <<finding, alerts, creating, queue, verdict, doubled>>,
         faults' = 0 => faults = 0,
         faults' = 0 /\ Announcing(r) /\ OnDefault(r) /\ IsHigh(Fp(r)) =>
            Announcing(r)' /\ new.rules = run[r].rules
  PROVE  AlertSound'
<1>1. AlertSound
  BY DEF Sound
<1>2. /\ run'[r] = new /\ \A other \in Run \ {r} : run'[other] = run[other] /\ Fp(other)' = Fp(other)
  BY RunStepDoes
<1>3. \A other \in Run \ {r} : Announcing(other)' = Announcing(other)
  BY <1>2 DEF Announcing
<1>4. new.rules = run[r].rules => Fp(r)' = Fp(r)
  BY <1>2 DEF Fp
<1>5. \A f \in Fingerprint : Exists(f)' = Exists(f)
  BY DEF Exists
<1>6. ASSUME faults' = 0, NEW f \in Fingerprint, f.branch = Default, IsHigh(f),
             NEW x \in Run, Announcing(x), Fp(x) = f
      PROVE  \E y \in Run : Announcing(y)' /\ Fp(y)' = f
  <2>1. x = r => OnDefault(r)
    BY <1>6 DEF Fp, OnDefault
  <2>2. Announcing(x)' /\ Fp(x)' = f
    BY <1>2, <1>3, <1>4, <1>6, <2>1
  <2>3. QED
    BY <2>2
<1>7. faults' = 0 => \A f \in Fingerprint : Exists(f)' /\ f.branch = Default /\ IsHigh(f) =>
        \/ alerts[f] > 0 \/ creating[f] > 0 \/ \E a \in queue.waiting : a[2] = f
        \/ \E x \in Run : Announcing(x)' /\ Fp(x)' = f
  BY <1>1, <1>5, <1>6 DEF AlertSound
<1>8. verdict' # NoVerdict => Exists(verdict.finding)'
  BY <1>1 DEF AlertSound, Exists
<1>9. QED
  BY <1>1, <1>7, <1>8 DEF AlertSound, IsHigh

\* A step of an attempt that does not begin to store, nor mark the repository.
LEMMA StepKeeps ==
  ASSUME Sound, NEW r \in Run, NEW new \in Runs, RunStep(r, new), RunSound(r)',
         UNCHANGED <<repo, newest, disorder, doubled>>, FindingTyped', AlertTyped',
         AlertSound', MarksSound', faults' \in 0 .. MaxFaults,
         job' = job \/ AtWork(r[1])' \/ cancelled # {} \/ (OnDefault(r) => repo.success),
         OnDefault(r) /\ (new.at = "lookup" \/ Storing(r)') =>
            \/ (run[r].at = "lookup" \/ Storing(r)) /\ new.rules = run[r].rules
            \/ ~swallowed => FoundIs(r)',
         OnDefault(r) /\ Storing(r)' => Storing(r),
         \A x \in Run : ~disorder /\ run'[x].at = "prune" /\ OnDefault(x) => x \in evidence'[Fp(x)']
  PROVE  Sound'
<1>1. Typed
  BY DEF Sound
<1>2. RunTyped' /\ JobTyped' /\ AnalysisTyped' /\ OneWayThrough' /\ \A other \in Run \ {r} : RunSound(other)'
  BY RunStepDoes
<1>3. RepoTyped' /\ HistoryTyped' /\ UnitTyped'
  BY <1>1 DEF Typed, RepoTyped, HistoryTyped, RunStep
<1>4. BacklogSound'
  BY BacklogFrame
<1>5. AgesSound'
  BY AgesFrame
<1>6. ContentSound'
  BY ContentFrame
<1>7. StoringAlone'
  BY StoringFrame
<1>8. QED
  BY <1>2, <1>3, <1>4, <1>5, <1>6, <1>7 DEF Sound, Typed

\* A step that leaves the repository, the findings and the alerts alone.
LEMMA PlainStep ==
  ASSUME Sound, NEW r \in Run, NEW new \in Runs, RunStep(r, new), RunSound(r)',
         UNCHANGED <<repo, finding, verdict, touched, alerts, creating, queue, newest, disorder, doubled>>,
         evidence' \in [Fingerprint -> SUBSET Run],
         faults' \in 0 .. MaxFaults, faults' = 0 => faults = 0,
         job' = job \/ AtWork(r[1])' \/ cancelled # {} \/ (OnDefault(r) => repo.success),
         OnDefault(r) /\ (new.at = "lookup" \/ Storing(r)') =>
            \/ (run[r].at = "lookup" \/ Storing(r)) /\ new.rules = run[r].rules
            \/ ~swallowed => FoundIs(r)',
         OnDefault(r) /\ Storing(r)' => Storing(r),
         \A x \in Run : ~disorder /\ run'[x].at = "prune" /\ OnDefault(x) => x \in evidence'[Fp(x)'],
         ~disorder /\ ~swallowed /\ OnDefault(r) /\ new.at \in {"resolve", "mark"} =>
            Reported \ touched \subseteq {Fp(r)'} \cup new.closing,
         faults' = 0 /\ Announcing(r) /\ OnDefault(r) /\ IsHigh(Fp(r)) =>
            Announcing(r)' /\ new.rules = run[r].rules
  PROVE  Sound'
<1>1. Typed
  BY DEF Sound
<1>2. FindingTyped' /\ AlertTyped'
  BY <1>1 DEF Typed, FindingTyped, AlertTyped
<1>3. MarksSound'
  BY MarksFrame
<1>4. AlertSound'
  BY AlertFrame
<1>5. QED
  BY <1>2, <1>3, <1>4, StepKeeps

\* What an attempt knows of itself, and the record it goes on with.
LEMMA RunFields ==
  ASSUME Typed, NEW r \in Run
  PROVE  /\ run[r] \in Runs /\ run[r].rules \in SUBSET Rule /\ run[r].known \in Status \cup {"none"}
         /\ run[r].closing \in SUBSET Fingerprint /\ run[r].news \in BOOLEAN /\ run[r].at \in Label
         /\ r[1] \in Scan /\ faults \in 0 .. MaxFaults
         /\ evidence \in [Fingerprint -> SUBSET Run] /\ unit \in [Scan -> {"open", "completed", "failed"}]
BY RunIs DEF Typed, RunTyped, Runs, HistoryTyped, FindingTyped, UnitTyped

LEMMA GoesTo ==
  ASSUME Typed, NEW r \in Run, NEW label \in Label, GoTo(r, label)
  PROVE  \E new \in Runs : /\ run' = [run EXCEPT ![r] = new] /\ run'[r] = new /\ new.at = label
                           /\ new.rules = run[r].rules /\ new.known = run[r].known
                           /\ new.closing = run[r].closing /\ new.news = run[r].news
<1>1. PICK new : new = [run[r] EXCEPT !.at = label]
  OBVIOUS
<1>2. /\ new \in Runs /\ new.at = label /\ new.rules = run[r].rules /\ new.known = run[r].known
      /\ new.closing = run[r].closing /\ new.news = run[r].news
  BY <1>1, RunFields DEF Runs
<1>3. run' = [run EXCEPT ![r] = new] /\ run'[r] = new
  BY <1>1 DEF GoTo, Typed, RunTyped, Runs
<1>4. QED
  BY <1>2, <1>3

LEMMA InsertKeeps ==
  ASSUME Sound, NEW r \in Run, Insert(r), UNCHANGED outside
  PROVE  Sound'
<1>1. Typed /\ RunSound(r) /\ StoringAlone /\ RunTyped
  BY DEF Sound, Typed
<1>2. /\ run[r].at = "insert" /\ GoTo(r, "prune")
      /\ evidence' = [evidence EXCEPT ![Fp(r)] = @ \cup {r}]
      /\ UNCHANGED <<ruleset, repo, job, unit, finding, alerts, queue, creating, verdict, cancelled, faults,
                     touched, newest, disorder, doubled, head, analysis, discovering, swallowed>>
  BY DEF Insert, outside
<1>3. PICK new \in Runs : /\ run' = [run EXCEPT ![r] = new] /\ run'[r] = new /\ new.at = "prune"
                          /\ new.rules = run[r].rules /\ new.closing = run[r].closing /\ new.news = run[r].news
  BY <1>1, <1>2, GoesTo DEF Label
<1>4. RunStep(r, new)
  BY <1>1, <1>2, <1>3 DEF RunStep, JobStep, Typed, UnitTyped, Exists
<1>5. Fp(r)' = Fp(r) /\ Fp(r) \in Fingerprint
  BY <1>1, <1>2, <1>3, FpIs DEF RunSound, Fp
<1>6. RunSound(r)'
  BY <1>1, <1>2, <1>3, <1>5 DEF RunSound, Exists, OnDefault
<1>7. evidence' \in [Fingerprint -> SUBSET Run] /\ r \in evidence'[Fp(r)]
      /\ \A f \in Fingerprint : evidence[f] \subseteq evidence'[f]
  BY <1>1, <1>2, <1>5, RunFields
<1>8. ASSUME NEW x \in Run, ~disorder, run'[x].at = "prune", OnDefault(x)
      PROVE  x \in evidence'[Fp(x)']
  <2>1. CASE x = r
    BY <1>5, <1>7, <2>1
  <2>2. CASE x # r
    <3>1. run'[x] = run[x] /\ Fp(x)' = Fp(x) /\ RunSound(x)
      BY <1>4, <2>2, RunStepDoes DEF Sound
    <3>2. x \in evidence[Fp(x)] /\ Fp(x) \in Fingerprint
      BY <1>1, <1>8, <3>1, FpIs DEF StoringAlone, RunSound
    <3>3. QED
      BY <1>7, <3>1, <3>2
  <2>3. QED
    BY <2>1, <2>2
<1>9. Storing(r) /\ (Announcing(r) => Announcing(r)')
  BY <1>2, <1>3 DEF Storing, Announcing
<1>10. faults' \in 0 .. MaxFaults
  BY <1>1, <1>2, RunFields
<1>11. new.at \notin {"resolve", "mark"}
  BY <1>3
<1>12. QED
  BY <1>2, <1>3, <1>4, <1>6, <1>7, <1>8, <1>9, <1>10, <1>11, PlainStep

LEMMA PruneKeeps ==
  ASSUME Sound, NEW r \in Run, Prune(r), UNCHANGED outside
  PROVE  Sound'
<1>1. Typed /\ RunSound(r) /\ StoringAlone /\ RunTyped
  BY DEF Sound, Typed
<1>2. PICK label : label = IF OnDefault(r) THEN "list" ELSE "mark"
  OBVIOUS
<1>3. /\ run[r].at = "prune" /\ GoTo(r, label)
      /\ evidence' = [evidence EXCEPT ![Fp(r)] = @ \cap {r}]
      /\ UNCHANGED <<ruleset, repo, job, unit, finding, alerts, queue, creating, verdict, cancelled, faults,
                     touched, newest, disorder, doubled, head, analysis, discovering, swallowed>>
  BY <1>2 DEF Prune, outside
<1>4. PICK new \in Runs : /\ run' = [run EXCEPT ![r] = new] /\ run'[r] = new /\ new.at = label
                          /\ new.rules = run[r].rules /\ new.closing = run[r].closing /\ new.news = run[r].news
  BY <1>1, <1>2, <1>3, GoesTo DEF Label
<1>5. RunStep(r, new)
  BY <1>1, <1>3, <1>4 DEF RunStep, JobStep, Typed, UnitTyped, Exists
<1>6. Fp(r)' = Fp(r) /\ Fp(r) \in Fingerprint /\ Fp(r).branch = BranchOf[r[1]]
  BY <1>1, <1>3, <1>4, FpIs DEF RunSound, Fp
<1>7. RunSound(r)'
  BY <1>1, <1>2, <1>3, <1>4, <1>6 DEF RunSound, Exists, OnDefault
<1>8. evidence' \in [Fingerprint -> SUBSET Run]
      /\ \A f \in Fingerprint \ {Fp(r)} : evidence'[f] = evidence[f]
  BY <1>1, <1>3, <1>6, RunFields
<1>9. Storing(r) /\ (Announcing(r) => Announcing(r)')
  BY <1>2, <1>3, <1>4 DEF Storing, Announcing
<1>10. ASSUME NEW x \in Run, ~disorder, run'[x].at = "prune", OnDefault(x)
       PROVE  x \in evidence'[Fp(x)']
  <2>1. x # r
    BY <1>2, <1>4, <1>10
  <2>2. run'[x] = run[x] /\ Fp(x)' = Fp(x) /\ RunSound(x)
    BY <1>5, <2>1, RunStepDoes DEF Sound
  <2>3. x \in evidence[Fp(x)] /\ Fp(x) \in Fingerprint /\ Fp(x).branch = Default /\ Storing(x)
    BY <1>1, <1>10, <2>2, FpIs DEF StoringAlone, RunSound, OnDefault, Storing
  <2>4. ~OnDefault(r)
    BY <1>1, <1>9, <1>10, <2>1, <2>3 DEF StoringAlone
  <2>5. Fp(x) # Fp(r)
    BY <1>6, <2>3, <2>4 DEF OnDefault
  <2>6. QED
    BY <1>8, <2>2, <2>3, <2>5
<1>11. faults' \in 0 .. MaxFaults
  BY <1>1, <1>3, RunFields
<1>12. OnDefault(r) => new.at \notin {"resolve", "mark"}
  BY <1>2, <1>4
<1>13. QED
  BY <1>3, <1>4, <1>5, <1>7, <1>8, <1>9, <1>10, <1>11, <1>12, PlainStep

LEMMA ListKeeps ==
  ASSUME Sound, NEW r \in Run, List(r), UNCHANGED outside
  PROVE  Sound'
<1>1. Typed /\ RunSound(r) /\ StoringAlone /\ RunTyped
  BY DEF Sound, Typed
<1>2. PICK closing \in SUBSET Fingerprint :
        closing = {f \in Fingerprint : finding[f] \in {"open", "acknowledged"} /\ f # Fp(r)}
  OBVIOUS
<1>3. PICK label : label = IF closing = {} THEN "mark" ELSE "resolve"
  OBVIOUS
<1>4. PICK new : new = [run[r] EXCEPT !.closing = closing, !.at = label]
  OBVIOUS
<1>5. /\ run[r].at = "list" /\ run' = [run EXCEPT ![r].closing = closing, ![r].at = label]
      /\ UNCHANGED <<ruleset, repo, job, unit, finding, evidence, alerts, queue, creating, verdict, cancelled, faults,
                     touched, newest, disorder, doubled, head, analysis, discovering, swallowed>>
  BY <1>2, <1>3 DEF List, outside
<1>6. /\ new \in Runs /\ new.at = label /\ new.rules = run[r].rules /\ new.closing = closing
      /\ new.news = run[r].news
  BY <1>1, <1>3, <1>4, RunFields DEF Runs, Label
<1>7. run' = [run EXCEPT ![r] = new] /\ run'[r] = new
  BY <1>1, <1>4, <1>5 DEF RunTyped, Runs
<1>8. RunStep(r, new)
  BY <1>1, <1>5, <1>7 DEF RunStep, JobStep, Typed, UnitTyped, Exists
<1>9. Fp(r)' = Fp(r)
  BY <1>6, <1>7 DEF Fp
<1>10. RunSound(r)'
  <2>1. (label = "mark" /\ closing = {}) \/ label = "resolve"
    BY <1>3
  <2>2. \A f \in closing : Exists(f)'
    BY <1>2, <1>5 DEF Exists
  <2>3. QED
    BY <1>1, <1>5, <1>6, <1>7, <1>9, <2>1, <2>2 DEF RunSound, Exists, OnDefault
<1>11. Storing(r) /\ (Announcing(r) => Announcing(r)')
  BY <1>3, <1>5, <1>6, <1>7 DEF Storing, Announcing
<1>12. ASSUME NEW x \in Run, ~disorder, run'[x].at = "prune", OnDefault(x)
       PROVE  x \in evidence'[Fp(x)']
  <2>1. x # r
    BY <1>3, <1>6, <1>7, <1>12
  <2>2. run'[x] = run[x] /\ Fp(x)' = Fp(x)
    BY <1>8, <1>6, <2>1, RunStepDoes
  <2>3. QED
    BY <1>1, <1>5, <1>12, <2>2 DEF StoringAlone
<1>13. faults' \in 0 .. MaxFaults /\ evidence' \in [Fingerprint -> SUBSET Run]
  BY <1>1, <1>5, RunFields
<1>14. Reported \ touched \subseteq {Fp(r)'} \cup new.closing
  BY <1>2, <1>6, <1>9 DEF Reported
<1>15. QED
  BY <1>5, <1>6, <1>8, <1>10, <1>11, <1>12, <1>13, <1>14, PlainStep

\* The evidence of the others is left alone.
LEMMA PrunesStay ==
  ASSUME Sound, NEW r \in Run, NEW new \in Runs, RunStep(r, new), new.at # "prune", evidence' = evidence
  PROVE  \A x \in Run : ~disorder /\ run'[x].at = "prune" /\ OnDefault(x) => x \in evidence'[Fp(x)']
<1>1. SUFFICES ASSUME NEW x \in Run, ~disorder, run'[x].at = "prune", OnDefault(x)
               PROVE  x \in evidence'[Fp(x)']
  OBVIOUS
<1>2. x # r
  BY <1>1, RunStepDoes
<1>3. run'[x] = run[x] /\ Fp(x)' = Fp(x)
  BY <1>2, RunStepDoes
<1>4. QED
  BY <1>1, <1>3 DEF Sound, StoringAlone

LEMMA OverIs ==
  /\ [Idle EXCEPT !.at = "over"] \in Runs
  /\ LET over == [Idle EXCEPT !.at = "over"] IN over.at = "over" /\ over.closing = {} /\ over.news = FALSE
BY IdleIs DEF Runs, Label

\* An attempt ends, and what it was to announce is not lost but by a fault.
LEMMA EndKeeps ==
  ASSUME Sound, NEW r \in Run, run[r].at # "none", JobStep(r[1]),
         run' = [run EXCEPT ![r] = [Idle EXCEPT !.at = "over"]],
         UNCHANGED <<repo, finding, evidence, alerts, creating, verdict, touched, newest, disorder, doubled,
                     cancelled, ruleset, head, analysis, discovering, swallowed>>,
         UnitTyped', \A s \in Scan \ {r[1]} : unit'[s] = unit[s],
         unit'[r[1]] = unit[r[1]] \/ unit'[r[1]] # "open",
         AlertTyped', faults' \in 0 .. MaxFaults, faults' = 0 => faults = 0,
         \/ queue' = queue /\ (faults' = 0 /\ Announcing(r) => ~(OnDefault(r) /\ IsHigh(Fp(r))))
         \/ AlertSound',
         job' = job \/ AtWork(r[1])' \/ cancelled # {} \/ (OnDefault(r) => repo.success)
  PROVE  Sound'
<1>1. Typed /\ RunTyped
  BY DEF Sound, Typed
<1>2. PICK over : over = [Idle EXCEPT !.at = "over"]
  OBVIOUS
<1>3. over \in Runs /\ over.at = "over" /\ over.closing = {}
  BY <1>2, OverIs
<1>4. run' = [run EXCEPT ![r] = over] /\ run'[r] = over
  BY <1>1, <1>2 DEF RunTyped
<1>5. RunStep(r, over)
  BY <1>4 DEF RunStep, Exists
<1>6. RunSound(r)'
  BY <1>3, <1>4 DEF RunSound
<1>7. ~Storing(r)' /\ over.at # "lookup" /\ over.at \notin {"prune", "resolve", "mark"}
  BY <1>3, <1>4 DEF Storing
<1>8. \A x \in Run : ~disorder /\ run'[x].at = "prune" /\ OnDefault(x) => x \in evidence'[Fp(x)']
  BY <1>3, <1>5, <1>7, PrunesStay
<1>9. FindingTyped'
  BY <1>1 DEF Typed, FindingTyped
<1>10. MarksSound'
  BY <1>3, <1>5, <1>7, MarksFrame
<1>11. AlertSound'
  <2>1. SUFFICES ASSUME queue' = queue, faults' = 0 /\ Announcing(r) => ~(OnDefault(r) /\ IsHigh(Fp(r)))
                 PROVE  AlertSound'
    OBVIOUS
  <2>2. QED
    BY <1>3, <1>5, <2>1, AlertFrame
<1>12. QED
  BY <1>3, <1>5, <1>6, <1>7, <1>8, <1>9, <1>10, <1>11, StepKeeps

\* An attempt that fails: its job has another one, or is at its last resort, unless it has
\* given up waiting before.
LEMMA FailDoes ==
  ASSUME Typed, NEW r \in Run, Fail(r)
  PROVE  /\ run' = [run EXCEPT ![r] = [Idle EXCEPT !.at = "over"]] /\ JobStep(r[1])
         /\ job' = job \/ AtWork(r[1])'
<1>1. r[1] \in Scan /\ JobTyped
  BY RunIs DEF Typed
<1>2. CASE IsCurrent(r)
  <2>1. job[r[1]].state = "running" /\ job' = Again(r[1])
    BY <1>2 DEF IsCurrent, Fail
  <2>2. AtWork(r[1])'
    BY <1>1, <2>1, AgainIs DEF AtWork
  <2>3. QED
    BY <2>1, <2>2 DEF Fail, JobStep
<1>3. CASE ~IsCurrent(r)
  BY <1>3 DEF Fail, JobStep
<1>4. QED
  BY <1>2, <1>3

LEMMA FaultsTyped ==
  ASSUME Typed, faults < MaxFaults, faults' = faults + 1
  PROVE  faults' \in 0 .. MaxFaults /\ faults' # 0
BY ConstantsAre DEF Typed, HistoryTyped

LEMMA ThrowKeeps ==
  ASSUME Sound, NEW r \in Run, Throw(r), UNCHANGED outside
  PROVE  Sound'
<1>1. Typed
  BY DEF Sound
<1>2. /\ run[r].at \notin {"none", "over"} /\ faults < MaxFaults /\ faults' = faults + 1 /\ Fail(r)
      /\ UNCHANGED <<repo, unit, finding, evidence, alerts, queue, creating, verdict, cancelled, ruleset,
                     touched, newest, disorder, doubled, head, analysis, discovering, swallowed>>
  BY DEF Throw, outside
<1>3. faults' \in 0 .. MaxFaults /\ faults' # 0
  BY <1>1, <1>2, FaultsTyped
<1>4. UnitTyped' /\ AlertTyped'
  BY <1>1, <1>2 DEF Typed, UnitTyped, AlertTyped
<1>5. QED
  BY <1>1, <1>2, <1>3, <1>4, FailDoes, EndKeeps

\* An attempt that returns: its job ends, when its unit is no longer open.
LEMMA FinishDoes ==
  ASSUME Typed, NEW r \in Run, Finish(r), unit'[r[1]] # "open"
  PROVE  /\ run' = [run EXCEPT ![r] = [Idle EXCEPT !.at = "over"]] /\ JobStep(r[1])
<1>1. CASE IsCurrent(r)
  BY <1>1 DEF IsCurrent, Finish, JobStep
<1>2. CASE ~IsCurrent(r)
  BY <1>2 DEF Finish, JobStep
<1>3. QED
  BY <1>1, <1>2 DEF Finish

LEMMA CompleteKeeps ==
  ASSUME Sound, NEW r \in Run, Complete(r), UNCHANGED outside
  PROVE  Sound'
<1>1. Typed /\ RunSound(r) /\ RunTyped /\ r[1] \in Scan /\ UnitTyped
  BY RunIs DEF Sound, Typed
<1>2. /\ run[r].at = "complete"
      /\ unit' = [unit EXCEPT ![r[1]] = IF @ = "open" THEN "completed" ELSE @]
      /\ UNCHANGED <<ruleset, repo, finding, evidence, alerts, queue, creating, verdict, cancelled, faults,
                     touched, newest, disorder, doubled, head, analysis, discovering, swallowed>>
  BY DEF Complete, outside
<1>3. UnitTyped' /\ unit'[r[1]] # "open" /\ \A s \in Scan \ {r[1]} : unit'[s] = unit[s]
  BY <1>1, <1>2 DEF UnitTyped
<1>4. OnDefault(r) => repo.success
  BY <1>1, <1>2 DEF RunSound
<1>5. faults' \in 0 .. MaxFaults /\ AlertTyped' /\ evidence' \in [Fingerprint -> SUBSET Run]
  BY <1>1, <1>2, RunFields DEF Typed, AlertTyped
<1>6. CASE run[r].news /\ OnDefault(r) /\ IsHigh(Fp(r))
  <2>1. GoTo(r, "alert") /\ job' = job
    BY <1>6 DEF Complete
  <2>2. PICK new \in Runs : /\ run' = [run EXCEPT ![r] = new] /\ run'[r] = new /\ new.at = "alert"
                            /\ new.rules = run[r].rules /\ new.closing = run[r].closing /\ new.news = run[r].news
    BY <1>1, <2>1, GoesTo DEF Label
  <2>3. RunStep(r, new)
    BY <1>2, <1>3, <2>1, <2>2 DEF RunStep, JobStep, Exists
  <2>4. RunSound(r)'
    <3>1. run[r].rules # {}
      BY <1>6 DEF IsHigh, Fp
    <3>2. QED
      BY <1>1, <1>2, <1>3, <1>4, <1>6, <2>2, <3>1 DEF RunSound, OnDefault
  <2>5. ~Storing(r)' /\ new.at \notin {"lookup", "prune", "resolve", "mark"} /\ Announcing(r)'
    BY <1>6, <2>2 DEF Storing, Announcing
  <2>6. \A x \in Run : ~disorder /\ run'[x].at = "prune" /\ OnDefault(x) => x \in evidence'[Fp(x)']
    BY <1>2, <2>3, <2>5, PrunesStay
  <2>7. QED
    BY <1>2, <1>5, <2>1, <2>2, <2>3, <2>4, <2>5, <2>6, PlainStep
<1>7. CASE ~(run[r].news /\ OnDefault(r) /\ IsHigh(Fp(r)))
  <2>1. Finish(r)
    BY <1>7 DEF Complete
  <2>2. Announcing(r) => ~(OnDefault(r) /\ IsHigh(Fp(r)))
    BY <1>7 DEF Announcing
  <2>3. QED
    BY <1>1, <1>2, <1>3, <1>4, <1>5, <2>1, <2>2, FinishDoes, EndKeeps
<1>8. QED
  BY <1>6, <1>7

LEMMA EnqueueAlertKeeps ==
  ASSUME Sound, NEW r \in Run, EnqueueAlert(r), UNCHANGED outside
  PROVE  Sound'
<1>1. Typed /\ RunSound(r) /\ RunTyped /\ r[1] \in Scan /\ UnitTyped /\ AlertSound
  BY RunIs DEF Sound, Typed
<1>2. /\ run[r].at = "alert" /\ Finish(r)
      /\ UNCHANGED <<ruleset, repo, unit, finding, evidence, alerts, creating, verdict, cancelled, faults,
                     touched, newest, disorder, doubled, head, analysis, discovering, swallowed>>
  BY DEF EnqueueAlert, outside
<1>3. PICK a : a = <<r[1], Fp(r)>>
  OBVIOUS
<1>4. a[2] = Fp(r)
  BY <1>3
<1>5. \/ a \in queue.added /\ queue' = queue
      \/ queue' = [waiting |-> queue.waiting \cup {a}, added |-> queue.added \cup {a}]
  BY <1>3 DEF EnqueueAlert
<1>6. a \in Scan \X Fingerprint
  BY <1>1, <1>2, <1>3, FpIs DEF RunSound
<1>7. AlertTyped' /\ UnitTyped'
  BY <1>1, <1>2, <1>5, <1>6 DEF Typed, AlertTyped, UnitTyped
<1>8. PICK over : over = [Idle EXCEPT !.at = "over"]
  OBVIOUS
<1>9. over \in Runs /\ over.at = "over"
  BY <1>8, OverIs
<1>10. unit'[r[1]] # "open" /\ (OnDefault(r) => repo.success)
  BY <1>1, <1>2 DEF RunSound
<1>11. run' = [run EXCEPT ![r] = over] /\ JobStep(r[1])
  BY <1>1, <1>2, <1>8, <1>10, FinishDoes
<1>12. \A x \in Run \ {r} : Announcing(x)' = Announcing(x) /\ Fp(x)' = Fp(x)
  BY <1>1, <1>11 DEF RunTyped, Announcing, Fp
<1>13. \A b \in queue.added : b \in queue.waiting \/ creating[b[2]] > 0 \/ alerts[b[2]] > 0
  BY <1>1 DEF AlertSound
<1>14. /\ \A b \in queue'.added : b \in queue'.waiting \/ creating[b[2]] > 0 \/ alerts[b[2]] > 0
       /\ queue.waiting \subseteq queue'.waiting
       /\ \/ \E b \in queue'.waiting : b[2] = Fp(r)
          \/ creating[Fp(r)] > 0 \/ alerts[Fp(r)] > 0
  <2>1. CASE a \in queue.added /\ queue' = queue
    BY <1>4, <1>13, <2>1
  <2>2. CASE queue' = [waiting |-> queue.waiting \cup {a}, added |-> queue.added \cup {a}]
    <3>1. queue'.waiting = queue.waiting \cup {a} /\ queue'.added = queue.added \cup {a}
      BY <2>2
    <3>2. QED
      BY <1>4, <1>13, <3>1
  <2>3. QED
    BY <1>5, <2>1, <2>2
<1>15. AlertSound'
  <2>1. ASSUME faults' = 0, NEW f \in Fingerprint, Exists(f)', f.branch = Default, IsHigh(f)
        PROVE  \/ alerts[f] > 0 \/ creating[f] > 0 \/ \E b \in queue'.waiting : b[2] = f
               \/ \E x \in Run : Announcing(x)' /\ Fp(x)' = f
    <3>1. Exists(f) /\ faults = 0
      BY <1>2, <2>1 DEF Exists
    <3>2. \/ alerts[f] > 0 \/ creating[f] > 0 \/ \E b \in queue.waiting : b[2] = f
          \/ \E x \in Run : Announcing(x) /\ Fp(x) = f
      BY <1>1, <2>1, <3>1 DEF AlertSound
    <3>3. CASE \E x \in Run : Announcing(x) /\ Fp(x) = f
      BY <1>12, <1>14, <3>3
    <3>4. QED
      BY <1>14, <3>2, <3>3
  <2>2. verdict' # NoVerdict => Exists(verdict.finding)'
    BY <1>1, <1>2 DEF AlertSound, Exists
  <2>3. doubled' \/ \A f \in Fingerprint : alerts'[f] + creating'[f] <= 1
    BY <1>1, <1>2 DEF AlertSound
  <2>4. QED
    BY <1>2, <1>14, <2>1, <2>2, <2>3 DEF AlertSound, IsHigh
<1>16. faults' \in 0 .. MaxFaults
  BY <1>1, <1>2, RunFields
<1>17. QED
  BY <1>1, <1>2, <1>7, <1>8, <1>10, <1>11, <1>15, <1>16, EndKeeps

\* What is on display still agrees when a finding of the newest version is added, or others
\* are taken away.
LEMMA AgreesMore ==
  ASSUME UNCHANGED <<newest, ruleset>>, \A f \in Fingerprint : Exists(f) => Exists(f)',
         Reported' \ touched' \subseteq (Reported \ touched) \cup
           {f \in Fingerprint : f.branch = Default /\ f.rules \ LiveRules = Shows[newest][ruleset]}
  PROVE  Agrees(newest) => Agrees(newest)'
<1>1. PICK ofVersion \in SUBSET Fingerprint : ofVersion =
        {f \in Fingerprint : f.branch = Default /\ f.rules \ LiveRules = Shows[newest][ruleset]}
  OBVIOUS
<1>2. Agrees(newest) <=> /\ Reported \ touched \subseteq ofVersion
                         /\ Shows[newest][ruleset] # {} => \E f \in ofVersion : Exists(f)
  BY <1>1 DEF Agrees
<1>3. Agrees(newest)' <=> /\ Reported' \ touched' \subseteq ofVersion
                          /\ Shows[newest][ruleset] # {} => \E f \in ofVersion : Exists(f)'
  BY <1>1 DEF Agrees
<1>4. Agrees(newest) => \A f \in Reported' \ touched' : f \in ofVersion
  BY <1>1, <1>2
<1>5. QED
  BY <1>1, <1>2, <1>3, <1>4

LEMMA SaveKeeps ==
  ASSUME Sound, NEW r \in Run, Save(r), UNCHANGED outside
  PROVE  Sound'
<1>1. /\ Typed /\ RunSound(r) /\ RunTyped /\ r[1] \in Scan /\ AlertSound /\ StoringAlone
      /\ ContentSound /\ MarksSound
  BY RunIs DEF Sound, Typed
<1>2. PICK f : f = Fp(r)
  OBVIOUS
<1>3. PICK opens \in BOOLEAN : opens = (run[r].known = "none" \/ run[r].known = "resolved")
  OBVIOUS
<1>4. /\ run[r].at = "save"
      /\ UNCHANGED <<ruleset, repo, unit, evidence, alerts, queue, creating, verdict, cancelled, faults,
                     touched, newest, disorder, doubled, head, analysis, discovering, swallowed>>
  BY DEF Save, outside
<1>5. \/ Fail(r) /\ finding' = finding
      \/ /\ finding' = IF opens THEN [finding EXCEPT ![f] = "open"] ELSE finding
         /\ run' = [run EXCEPT ![r].at = "insert", ![r].news = opens]
         /\ job' = job
  BY <1>2, <1>3 DEF Save, Reopens
<1>6. faults' \in 0 .. MaxFaults /\ AlertTyped' /\ UnitTyped'
  BY <1>1, <1>4, RunFields DEF Typed, AlertTyped, UnitTyped
<1>7. CASE Fail(r) /\ finding' = finding
  <2>1. ~Announcing(r)
    BY <1>4 DEF Announcing
  <2>2. QED
    BY <1>1, <1>4, <1>6, <1>7, <2>1, FailDoes, EndKeeps
<1>8. CASE /\ finding' = IF opens THEN [finding EXCEPT ![f] = "open"] ELSE finding
           /\ run' = [run EXCEPT ![r].at = "insert", ![r].news = opens]
           /\ job' = job
  <2>1. PICK new : new = [run[r] EXCEPT !.at = "insert", !.news = opens]
    OBVIOUS
  <2>2. /\ new \in Runs /\ new.at = "insert" /\ new.rules = run[r].rules /\ new.closing = run[r].closing
        /\ new.news = opens
    BY <1>1, <1>3, <2>1, RunFields DEF Runs, Label
  <2>3. run' = [run EXCEPT ![r] = new] /\ run'[r] = new
    BY <1>1, <1>8, <2>1 DEF RunTyped, Runs
  <2>4. f \in Fingerprint /\ f.rules = run[r].rules /\ f.branch = BranchOf[r[1]] /\ Fp(r)' = f
    BY <1>1, <1>2, <1>4, <2>2, <2>3, FpIs DEF RunSound, Fp
  <2>5. /\ opens => finding'[f] = "open"
        /\ ~opens => finding'[f] = finding[f] /\ Exists(f)
        /\ \A g \in Fingerprint \ {f} : finding'[g] = finding[g]
        /\ finding' \in [Fingerprint -> Status \cup {"none"}]
    BY <1>1, <1>2, <1>3, <1>4, <1>8, <2>4 DEF Typed, FindingTyped, RunSound, Status
  <2>6. Exists(f)' /\ \A g \in Fingerprint : Exists(g) => Exists(g)'
    BY <2>5 DEF Exists
  <2>7. RunStep(r, new)
    BY <1>1, <1>4, <1>6, <1>8, <2>3, <2>6 DEF RunStep, JobStep
  <2>8. RunSound(r)'
    BY <1>1, <1>4, <2>2, <2>3, <2>4, <2>6 DEF RunSound, OnDefault
  <2>9. FindingTyped'
    BY <1>1, <1>4, <2>5 DEF Typed, FindingTyped
  <2>10. Storing(r) /\ ~Announcing(r) /\ (opens => Announcing(r)')
    BY <1>4, <2>2, <2>3 DEF Storing, Announcing
  <2>11. \A x \in Run : ~disorder /\ run'[x].at = "prune" /\ OnDefault(x) => x \in evidence'[Fp(x)']
    BY <1>4, <2>2, <2>7, PrunesStay
  <2>12. \A x \in Run \ {r} : run'[x] = run[x] /\ Fp(x)' = Fp(x)
    BY <2>2, <2>7, RunStepDoes
  <2>13. AlertSound'
    <3>1. ASSUME faults' = 0, NEW g \in Fingerprint, Exists(g)', g.branch = Default, IsHigh(g)
          PROVE  \/ alerts[g] > 0 \/ creating[g] > 0 \/ \E a \in queue.waiting : a[2] = g
                 \/ \E x \in Run : Announcing(x)' /\ Fp(x)' = g
      <4>1. CASE g = f /\ opens
        BY <2>4, <2>10, <4>1
      <4>2. CASE ~(g = f /\ opens)
        <5>1. Exists(g) /\ faults = 0
          BY <1>4, <2>5, <3>1, <4>2 DEF Exists
        <5>2. \/ alerts[g] > 0 \/ creating[g] > 0 \/ \E a \in queue.waiting : a[2] = g
              \/ \E x \in Run : Announcing(x) /\ Fp(x) = g
          BY <1>1, <3>1, <5>1 DEF AlertSound
        <5>3. \A x \in Run : Announcing(x) => Announcing(x)' /\ Fp(x)' = Fp(x)
          BY <2>10, <2>12 DEF Announcing
        <5>4. QED
          BY <5>2, <5>3
      <4>3. QED
        BY <4>1, <4>2
    <3>2. verdict' # NoVerdict => Exists(verdict.finding)'
      <4>1. verdict # NoVerdict => verdict.finding \in Fingerprint /\ Exists(verdict.finding)
        BY <1>1 DEF AlertSound, Typed, FindingTyped, Verdicts
      <4>2. QED
        BY <1>4, <2>6, <4>1
    <3>3. QED
      BY <1>1, <1>4, <3>1, <3>2 DEF AlertSound, IsHigh
  <2>14. MarksSound'
    <3>1. SUFFICES ASSUME ~disorder, ~swallowed PROVE MarksSound'
      BY <1>4 DEF MarksSound
    <3>2. OnDefault(r) => f.rules \ LiveRules = Shows[newest][ruleset]
      <4>1. OnDefault(r) => FoundIs(r) /\ job[r[1]].content = newest
        BY <1>1, <2>10, <3>1 DEF ContentSound, MarksSound
      <4>2. QED
        BY <2>4, <4>1 DEF FoundIs
    <3>3. Reported' \ touched' \subseteq (Reported \ touched) \cup
             {g \in Fingerprint : g.branch = Default /\ g.rules \ LiveRules = Shows[newest][ruleset]}
      BY <1>4, <2>4, <2>5, <3>2 DEF Reported, OnDefault
    <3>4. Agrees(newest) => Agrees(newest)'
      BY <1>4, <2>6, <3>3, AgreesMore
    <3>5. Holds(repo)' /\ \A s \in Scan : Holds(analysis[s].existing)'
      BY <1>1, <1>4, <3>1, <3>4 DEF MarksSound, Holds
    <3>6. \A x \in Run : OnDefault(x) /\ Storing(x)' => job[x[1]].content = newest
      BY <1>1, <2>10, <2>12, <3>1 DEF MarksSound, Storing
    <3>7. \A x \in Run : OnDefault(x) /\ run'[x].at \in {"resolve", "mark"} =>
            Reported' \ touched' \subseteq {Fp(x)'} \cup run'[x].closing
      <4>1. SUFFICES ASSUME NEW x \in Run, OnDefault(x), run'[x].at \in {"resolve", "mark"}
                     PROVE  Reported' \ touched' \subseteq {Fp(x)'} \cup run'[x].closing
        OBVIOUS
      <4>2. x # r
        BY <2>2, <2>3, <4>1
      <4>3. run[x].at \in {"resolve", "mark"} /\ Storing(x)
        BY <2>12, <4>1, <4>2 DEF Storing
      <4>4. ~OnDefault(r)
        BY <1>1, <2>10, <3>1, <4>1, <4>2, <4>3 DEF StoringAlone
      <4>5. Reported' = Reported
        BY <2>4, <2>5, <4>4 DEF Reported, OnDefault
      <4>6. QED
        BY <1>1, <1>4, <2>12, <3>1, <4>1, <4>2, <4>3, <4>5 DEF MarksSound
    <3>8. QED
      BY <1>4, <1>8, <3>5, <3>6, <3>7 DEF MarksSound, OnDefault
  <2>15. QED
    BY <1>4, <1>6, <1>8, <2>2, <2>7, <2>8, <2>9, <2>10, <2>11, <2>13, <2>14, StepKeeps
<1>9. QED
  BY <1>5, <1>7, <1>8

LEMMA ResolveKeeps ==
  ASSUME Sound, NEW r \in Run, NEW f \in run[r].closing, Resolve(r, f), UNCHANGED outside
  PROVE  Sound'
<1>1. /\ Typed /\ RunSound(r) /\ RunTyped /\ r[1] \in Scan /\ AlertSound /\ MarksSound
      /\ f \in Fingerprint /\ run[r].closing \in SUBSET Fingerprint
  BY RunIs, RunFields DEF Sound, Typed
<1>2. PICK closing \in SUBSET Fingerprint : closing = run[r].closing \ {f}
  BY <1>1
<1>3. PICK label : label = IF run[r].closing = {f} THEN "mark" ELSE "resolve"
  OBVIOUS
<1>4. PICK new : new = [run[r] EXCEPT !.closing = closing, !.at = label]
  OBVIOUS
<1>5. /\ run[r].at = "resolve" /\ finding' = [finding EXCEPT ![f] = "resolved"]
      /\ run' = [run EXCEPT ![r].closing = @ \ {f}, ![r].at = label]
      /\ UNCHANGED <<ruleset, repo, job, unit, evidence, alerts, queue, creating, verdict, cancelled, faults,
                     touched, newest, disorder, doubled, head, analysis, discovering, swallowed>>
  BY <1>3 DEF Resolve, outside
<1>6. /\ new \in Runs /\ new.at = label /\ new.rules = run[r].rules /\ new.closing = closing
      /\ new.news = run[r].news
  BY <1>1, <1>3, <1>4, RunFields DEF Runs, Label
<1>7. run' = [run EXCEPT ![r] = new] /\ run'[r] = new
  BY <1>1, <1>2, <1>4, <1>5 DEF RunTyped, Runs
<1>8. /\ finding'[f] = "resolved" /\ (\A g \in Fingerprint \ {f} : finding'[g] = finding[g])
      /\ finding' \in [Fingerprint -> Status \cup {"none"}] /\ Exists(f)
  BY <1>1, <1>5 DEF Typed, FindingTyped, Status, RunSound
<1>9. \A g \in Fingerprint : Exists(g)' <=> Exists(g)
  BY <1>8 DEF Exists
<1>10. RunStep(r, new) /\ Fp(r)' = Fp(r)
  BY <1>1, <1>5, <1>6, <1>7, <1>9 DEF RunStep, JobStep, Typed, UnitTyped, Fp
<1>11. label \in {"resolve", "mark"} /\ (label # "resolve" => closing = {})
  BY <1>2, <1>3
<1>12. RunSound(r)'
  <2>1. run[r].rules # {} => Exists(Fp(r)) /\ Fp(r) \in Fingerprint
    BY <1>1, <1>5, FpIs DEF RunSound
  <2>2. OnDefault(r) /\ \A g \in closing : Exists(g)
    BY <1>1, <1>2, <1>5 DEF RunSound
  <2>3. run[r].rules # {} => Exists(Fp(r))'
    BY <1>9, <1>10, <2>1
  <2>4. \A g \in closing : Exists(g)'
    BY <1>9, <2>2
  <2>5. QED
    BY <1>6, <1>7, <1>11, <2>2, <2>3, <2>4 DEF RunSound, OnDefault
<1>13. Storing(r) /\ (Announcing(r) => Announcing(r)')
  BY <1>5, <1>6, <1>7, <1>11 DEF Storing, Announcing
<1>14. \A x \in Run \ {r} : run'[x] = run[x] /\ Fp(x)' = Fp(x)
  BY <1>6, <1>10, RunStepDoes
<1>15. \A x \in Run : ~disorder /\ run'[x].at = "prune" /\ OnDefault(x) => x \in evidence'[Fp(x)']
  BY <1>5, <1>6, <1>10, <1>11, PrunesStay
<1>16. FindingTyped' /\ AlertTyped' /\ faults' \in 0 .. MaxFaults
  BY <1>1, <1>5, <1>8, RunFields DEF Typed, FindingTyped, AlertTyped
<1>17. AlertSound'
  <2>1. \A x \in Run : Announcing(x) => Announcing(x)' /\ Fp(x)' = Fp(x)
    BY <1>10, <1>13, <1>14 DEF Announcing
  <2>2. verdict # NoVerdict => verdict.finding \in Fingerprint /\ Exists(verdict.finding)
    BY <1>1 DEF AlertSound, Typed, FindingTyped, Verdicts
  <2>3. verdict' # NoVerdict => Exists(verdict.finding)'
    BY <1>5, <1>9, <2>2
  <2>4. faults' = 0 => \A g \in Fingerprint : Exists(g)' /\ g.branch = Default /\ IsHigh(g) =>
          \/ alerts[g] > 0 \/ creating[g] > 0 \/ \E a \in queue.waiting : a[2] = g
          \/ \E x \in Run : Announcing(x)' /\ Fp(x)' = g
    BY <1>1, <1>5, <1>9, <2>1 DEF AlertSound
  <2>5. QED
    BY <1>1, <1>5, <2>3, <2>4 DEF AlertSound, IsHigh
<1>18. MarksSound'
  <2>1. SUFFICES ASSUME ~disorder, ~swallowed PROVE MarksSound'
    BY <1>5 DEF MarksSound
  <2>2. Reported' \subseteq Reported \ {f}
    BY <1>8 DEF Reported
  <2>3. Agrees(newest) => Agrees(newest)'
    BY <1>5, <1>9, <2>2, AgreesMore
  <2>4. Holds(repo)' /\ \A s \in Scan : Holds(analysis[s].existing)'
    BY <1>1, <1>5, <2>1, <2>3 DEF MarksSound, Holds
  <2>5. \A x \in Run : OnDefault(x) /\ Storing(x)' => job[x[1]].content = newest
    BY <1>1, <1>13, <1>14, <2>1 DEF MarksSound, Storing
  <2>6. \A x \in Run : OnDefault(x) /\ run'[x].at \in {"resolve", "mark"} =>
          Reported' \ touched' \subseteq {Fp(x)'} \cup run'[x].closing
    <3>1. SUFFICES ASSUME NEW x \in Run, OnDefault(x), run'[x].at \in {"resolve", "mark"}
                   PROVE  Reported' \ touched' \subseteq {Fp(x)'} \cup run'[x].closing
      OBVIOUS
    <3>2. run[x].at \in {"resolve", "mark"}
      BY <1>5, <1>14, <3>1
    <3>3. Reported \ touched \subseteq {Fp(x)} \cup run[x].closing
      BY <1>1, <2>1, <3>1, <3>2 DEF MarksSound
    <3>4. Fp(x)' = Fp(x) /\ run[x].closing \ {f} \subseteq run'[x].closing
      BY <1>2, <1>6, <1>7, <1>10, <1>14
    <3>5. QED
      BY <1>5, <2>2, <3>3, <3>4
  <2>7. QED
    BY <1>5, <2>4, <2>5, <2>6 DEF MarksSound, OnDefault
<1>19. QED
  BY <1>5, <1>6, <1>10, <1>12, <1>13, <1>15, <1>16, <1>17, <1>18, StepKeeps

LEMMA MarkKeeps ==
  ASSUME Sound, NEW r \in Run, Mark(r), UNCHANGED outside
  PROVE  Sound'
<1>1. /\ Typed /\ RunSound(r) /\ RunTyped /\ r[1] \in Scan /\ OneWayThrough /\ BacklogSound
      /\ AgesSound /\ ContentSound /\ MarksSound /\ StoringAlone
  BY RunIs DEF Sound, Typed
<1>2. PICK j : j = job[r[1]]
  OBVIOUS
<1>3. /\ run[r].at = "mark" /\ GoTo(r, "complete")
      /\ repo' = IF OnDefault(r) THEN MarkSuccess(j.sha, j.ruleset, j.dates)
                                 ELSE [repo EXCEPT !.pending = FALSE]
      /\ UNCHANGED <<ruleset, job, unit, finding, evidence, alerts, queue, creating, verdict, cancelled,
                     faults, touched, newest, disorder, doubled, head, analysis, discovering, swallowed>>
  BY <1>2 DEF Mark, outside
<1>4. /\ j \in Jobs /\ j.sha \in Version /\ j.dates \in Version /\ j.ruleset \in Ruleset
      /\ j.ruleset <= ruleset /\ repo \in Repository
  BY <1>1, <1>2 DEF Typed, JobTyped, Jobs, RepoTyped, AgesSound
<1>5. PICK new \in Runs : /\ run' = [run EXCEPT ![r] = new] /\ run'[r] = new /\ new.at = "complete"
                          /\ new.rules = run[r].rules /\ new.closing = run[r].closing /\ new.news = run[r].news
  BY <1>1, <1>3, GoesTo DEF Label
<1>6. /\ repo' \in Repository /\ (repo.success => repo'.success)
      /\ OnDefault(r) => /\ repo'.success /\ repo'.ruleset = j.ruleset
                         /\ repo'.sha = IF j.sha # 0 THEN j.sha ELSE repo.sha
      /\ ~OnDefault(r) => /\ repo'.sha = repo.sha /\ repo'.ruleset = repo.ruleset
                          /\ repo'.success = repo.success
  <2>1. CASE OnDefault(r)
    BY <1>1, <1>3, <1>4, <2>1, MarksAre DEF Typed
  <2>2. CASE ~OnDefault(r)
    BY <1>3, <1>4, <2>2 DEF Repository
  <2>3. QED
    BY <2>1, <2>2
<1>7. RunStep(r, new)
  BY <1>1, <1>3, <1>5, <1>6 DEF RunStep, JobStep, Typed, UnitTyped, Exists
<1>8. RunSound(r)'
  BY <1>1, <1>3, <1>5, <1>6 DEF RunSound, OnDefault
<1>9. /\ Storing(r) /\ ~Storing(r)' /\ new.at \notin {"lookup", "prune", "resolve", "mark"}
      /\ (Announcing(r) => Announcing(r)')
  BY <1>3, <1>5 DEF Storing, Announcing
<1>10. \A x \in Run : ~disorder /\ run'[x].at = "prune" /\ OnDefault(x) => x \in evidence'[Fp(x)']
  BY <1>3, <1>7, <1>9, PrunesStay
<1>11. RunTyped' /\ JobTyped' /\ AnalysisTyped' /\ OneWayThrough' /\ \A other \in Run \ {r} : RunSound(other)'
  BY <1>7, RunStepDoes
<1>12. RepoTyped' /\ FindingTyped' /\ AlertTyped' /\ HistoryTyped' /\ UnitTyped'
  BY <1>1, <1>3, <1>6 DEF Typed, RepoTyped, FindingTyped, AlertTyped, HistoryTyped, UnitTyped
<1>13. ContentSound' /\ StoringAlone' /\ AlertSound'
  BY <1>3, <1>5, <1>7, <1>9, <1>10, ContentFrame, StoringFrame, AlertFrame
<1>14. BacklogSound'
  <2>1. \A s \in Scan : analysis'[s].at = "skipped" => repo'.success
    BY <1>1, <1>3, <1>6 DEF BacklogSound
  <2>2. ~OnDefault(r) => BranchOf[r[1]] # Default /\ (AtWork(r[1])' \/ unit'[r[1]] # "open")
    <3>1. job[r[1]].state # "none" /\ (job[r[1]].state = "ended" => unit[r[1]] # "open")
      BY <1>1, <1>3, BegunIs DEF Typed, OneWayThrough
    <3>2. QED
      BY <1>3, <3>1 DEF OnDefault, AtWork
  <2>3. OnDefault(r) => repo'.success
    BY <1>6
  <2>4. QED
    BY <1>1, <2>1, <2>2, <2>3 DEF BacklogSound
\* On the default branch, what the attempt leaves on display is what its content shows.
<1>15. OnDefault(r) /\ ~disorder /\ ~swallowed => Agrees(newest) /\ (j.sha # 0 => j.sha <= newest)
  <2>1. SUFFICES ASSUME OnDefault(r), ~disorder, ~swallowed
                 PROVE  Agrees(newest) /\ j.sha <= newest
    OBVIOUS
  <2>2. j.content = newest /\ FoundIs(r) /\ Reported \ touched \subseteq {Fp(r)} \cup run[r].closing
    BY <1>1, <1>2, <1>3, <1>9, <2>1 DEF MarksSound, ContentSound
  <2>3. run[r].closing = {} /\ (run[r].rules # {} => Exists(Fp(r)))
    BY <1>1, <1>3 DEF RunSound
  <2>4. run[r].rules \ LiveRules = Shows[newest][ruleset] /\ (run[r].rules = {} <=> Shows[newest][ruleset] = {})
    BY <1>2, <2>2 DEF FoundIs
  <2>5. run[r].rules # {} => /\ Fp(r) \in Fingerprint /\ Fp(r).branch = Default
                             /\ Fp(r).rules \ LiveRules = Shows[newest][ruleset]
    BY <1>1, <2>1, <2>4, FpIs DEF OnDefault
  <2>6. Fp(r) \in Fingerprint => run[r].rules # {}
    BY DEF Fp, Fingerprint
  <2>7. Reported \subseteq Fingerprint
    BY DEF Reported
  <2>8. Agrees(newest)
    BY <2>2, <2>3, <2>4, <2>5, <2>6, <2>7 DEF Agrees
  <2>9. j.sha <= j.content
    BY <1>1, <1>2, <1>3, <2>1, BegunIs DEF ContentSound, OnDefault, Typed
  <2>10. QED
    BY <2>2, <2>8, <2>9
<1>16. AgesSound'
  <2>1. repo'.ruleset <= ruleset /\ (~disorder /\ ~swallowed => repo'.sha <= newest)
    BY <1>1, <1>4, <1>6, <1>15 DEF AgesSound
  <2>2. QED
    BY <1>1, <1>3, <2>1 DEF AgesSound
<1>17. MarksSound'
  <2>1. CASE ~OnDefault(r)
    BY <1>3, <1>6, <1>7, <1>9, <2>1, MarksFrame
  <2>2. CASE OnDefault(r)
    <3>1. SUFFICES ASSUME ~disorder, ~swallowed PROVE MarksSound'
      BY <1>3 DEF MarksSound
    <3>2. Agrees(newest)' /\ Reported' = Reported
      BY <1>3, <1>15, <2>2, <3>1, AgreesSame
    <3>3. \A x \in Run \ {r} : run'[x] = run[x] /\ Fp(x)' = Fp(x)
      BY <1>7, RunStepDoes
    <3>4. \A x \in Run : Storing(x)' => Storing(x) /\ x # r
      BY <1>9, <3>3 DEF Storing
    <3>5. \A x \in Run : OnDefault(x) /\ Storing(x)' => job[x[1]].content = newest
      BY <1>1, <3>1, <3>4 DEF MarksSound
    <3>6. \A x \in Run : OnDefault(x) /\ run'[x].at \in {"resolve", "mark"} =>
            Reported \ touched \subseteq {Fp(x)'} \cup run'[x].closing
      BY <1>1, <1>5, <3>1, <3>3 DEF MarksSound
    <3>7. QED
      BY <1>3, <3>2, <3>5, <3>6 DEF MarksSound, Holds, OnDefault
  <2>3. QED
    BY <2>1, <2>2
<1>18. QED
  BY <1>8, <1>11, <1>12, <1>13, <1>14, <1>16, <1>17 DEF Sound, Typed

\* An attempt of the default branch begins to store.
LEMMA StartKeeps ==
  ASSUME Sound, NEW r \in Run, NEW new \in Runs, RunStep(r, new), RunSound(r)', OnDefault(r),
         BeginsToStore(r[1]), new.at \in {"save", "list"}, ~Storing(r), ~Announcing(r),
         UNCHANGED <<repo, finding, evidence, verdict, touched, alerts, creating, queue, doubled, faults>>,
         job' = job \/ AtWork(r[1])',
         ~swallowed => FoundIs(r)'
  PROVE  Sound'
<1>1. /\ Typed /\ RunTyped /\ AgesSound /\ ContentSound /\ MarksSound /\ StoringAlone /\ OneWayThrough
      /\ r[1] \in Scan
  BY RunIs DEF Sound, Typed
<1>2. PICK content : content = job[r[1]].content
  OBVIOUS
<1>3. /\ newest' = IF content > newest THEN content ELSE newest
      /\ disorder' = (disorder \/ content < newest \/ \E x \in Run : Storing(x))
  BY <1>2 DEF BeginsToStore, OnDefault
<1>4. content \in Version /\ content \in Nat /\ newest \in Version /\ newest \in Nat /\ repo.sha \in Nat
      /\ \A s \in Scan : analysis[s].existing.sha \in Nat
  <2>1. content \in Version /\ newest \in Version /\ repo.sha \in Version
        /\ \A s \in Scan : analysis[s].existing.sha \in Version
    BY <1>1, <1>2 DEF Typed, JobTyped, Jobs, HistoryTyped, RepoTyped, Repository, AnalysisTyped, Analyses
  <2>2. QED
    BY <2>1, ConstantsAre
<1>5. newest' \in Version /\ newest <= newest' /\ content <= newest'
      /\ (newest' = newest \/ newest' = content) /\ (~(content < newest) => newest' = content)
  <2>1. newest' = IF content > newest THEN content ELSE newest
    BY <1>3
  <2>2. QED
    BY <1>4, <2>1
<1>6. ~disorder' => /\ newest' = content /\ ~disorder /\ (\A x \in Run : ~Storing(x))
                    /\ newest < newest' \/ newest' = newest
  <2>1. ~disorder' => ~disorder /\ ~(content < newest) /\ \A x \in Run : ~Storing(x)
    BY <1>3
  <2>2. newest < newest' \/ newest' = newest
    BY <1>4, <1>5, ConstantsAre
  <2>3. QED
    BY <1>5, <2>1, <2>2
<1>7. /\ run'[r] = new /\ (\A x \in Run \ {r} : run'[x] = run[x] /\ Fp(x)' = Fp(x))
      /\ RunTyped' /\ JobTyped' /\ AnalysisTyped' /\ OneWayThrough' /\ \A other \in Run \ {r} : RunSound(other)'
      /\ \A s \in Scan : job'[s].content = job[s].content /\ job'[s].ruleset = job[s].ruleset
  BY RunStepDoes
<1>8. RepoTyped' /\ FindingTyped' /\ AlertTyped' /\ UnitTyped'
  BY <1>1 DEF Typed, RepoTyped, FindingTyped, AlertTyped, RunStep
<1>9. HistoryTyped'
  <2>1. disorder' \in BOOLEAN
    BY <1>1, <1>3 DEF Typed, HistoryTyped
  <2>2. QED
    BY <1>1, <1>5, <2>1 DEF Typed, HistoryTyped, RunStep
<1>10. BacklogSound'
  BY BacklogFrame
<1>11. ContentSound'
  BY ContentFrame
<1>12. AlertSound'
  BY AlertFrame
<1>13. \A x \in Run : ~disorder' /\ Storing(x)' => x = r
  BY <1>6, <1>7 DEF Storing
<1>14. StoringAlone'
  <2>1. ASSUME NEW x \in Run, ~disorder', run'[x].at = "prune" PROVE FALSE
    <3>1. x = r
      BY <1>13, <2>1 DEF Storing
    <3>2. QED
      BY <1>7, <2>1, <3>1
  <2>2. QED
    BY <1>13, <2>1 DEF StoringAlone
<1>15. AgesSound'
  <2>1. UNCHANGED <<analysis, head, swallowed, ruleset>>
    BY DEF RunStep
  <2>2. ~swallowed => newest' <= head
    <3>1. SUFFICES ASSUME ~swallowed PROVE content <= head /\ newest <= head
      BY <1>5
    <3>2. job[r[1]].state # "none"
      BY <1>1, BegunIs DEF RunStep, Begins, Typed
    <3>3. QED
      BY <1>1, <1>2, <3>1, <3>2 DEF ContentSound, AgesSound, OnDefault
  <2>3. ~disorder' /\ ~swallowed =>
          repo.sha <= newest' /\ \A s \in Scan : analysis[s].existing.sha <= newest'
    <3>1. \A n \in Nat : n <= newest => n <= newest'
      BY <1>4, <1>5, ConstantsAre
    <3>2. QED
      BY <1>1, <1>4, <1>6, <3>1 DEF AgesSound
  <2>4. QED
    BY <1>1, <1>7, <2>1, <2>2, <2>3 DEF AgesSound
<1>16. MarksSound'
  <2>1. UNCHANGED <<analysis, swallowed, ruleset>>
    BY DEF RunStep
  <2>2. SUFFICES ASSUME ~disorder', ~swallowed PROVE MarksSound'
    BY <2>1 DEF MarksSound
  <2>3. Holds(repo)' /\ \A s \in Scan : Holds(analysis[s].existing)'
    <3>1. CASE newest < newest'
      <4>1. \A n \in Nat : n <= newest => n # newest'
        BY <1>4, <1>5, <3>1, ConstantsAre
      <4>2. repo.sha # newest' /\ \A s \in Scan : analysis[s].existing.sha # newest'
        BY <1>1, <1>4, <1>6, <2>2, <4>1 DEF AgesSound
      <4>3. QED
        BY <2>1, <4>2 DEF Holds
    <3>2. CASE newest' = newest
      <4>1. Agrees(newest)' = Agrees(newest)
        BY <2>1, <3>2, AgreesSame
      <4>2. QED
        BY <1>1, <1>6, <2>1, <2>2, <3>2, <4>1 DEF MarksSound, Holds
    <3>3. QED
      BY <1>6, <2>2, <3>1, <3>2
  <2>4. \A x \in Run : Storing(x)' => job'[x[1]].content = newest'
    BY <1>1, <1>2, <1>6, <1>7, <1>13, <2>2
  <2>5. \A x \in Run : run'[x].at \notin {"resolve", "mark"}
    <3>1. \A x \in Run : run'[x].at \in {"resolve", "mark"} => Storing(x)' /\ x # r
      BY <1>7 DEF Storing
    <3>2. QED
      BY <1>13, <2>2, <3>1
  <2>6. QED
    BY <2>3, <2>4, <2>5 DEF MarksSound
<1>17. QED
  BY <1>7, <1>8, <1>9, <1>10, <1>11, <1>12, <1>14, <1>15, <1>16 DEF Sound, Typed

LEMMA LookupKeeps ==
  ASSUME Sound, NEW r \in Run, Lookup(r), UNCHANGED outside
  PROVE  Sound'
<1>1. /\ Typed /\ RunSound(r) /\ RunTyped /\ r[1] \in Scan /\ ContentSound
  BY RunIs DEF Sound, Typed
<1>2. PICK known : known = finding[Fp(r)]
  OBVIOUS
<1>3. /\ run[r].at = "lookup" /\ run' = [run EXCEPT ![r].at = "save", ![r].known = known]
      /\ BeginsToStore(r[1])
      /\ UNCHANGED <<ruleset, repo, job, unit, finding, evidence, alerts, queue, creating, verdict, cancelled,
                     faults, touched, doubled, head, analysis, discovering, swallowed>>
  BY <1>2 DEF Lookup, outside
<1>4. Fp(r) \in Fingerprint /\ known \in Status \cup {"none"} /\ (known # "none" => Exists(Fp(r)))
  BY <1>1, <1>2, <1>3, FpIs DEF RunSound, Typed, FindingTyped, Exists
<1>5. PICK new : new = [run[r] EXCEPT !.at = "save", !.known = known]
  OBVIOUS
<1>6. /\ new \in Runs /\ new.at = "save" /\ new.known = known /\ new.rules = run[r].rules
      /\ new.closing = run[r].closing /\ new.news = run[r].news
  BY <1>1, <1>4, <1>5, RunFields DEF Runs, Label
<1>7. run' = [run EXCEPT ![r] = new] /\ run'[r] = new
  BY <1>1, <1>3, <1>5 DEF RunTyped, Runs
<1>8. RunStep(r, new) /\ Fp(r)' = Fp(r)
  BY <1>1, <1>3, <1>6, <1>7 DEF RunStep, JobStep, Typed, UnitTyped, Exists, Fp
<1>9. RunSound(r)'
  BY <1>1, <1>3, <1>4, <1>6, <1>7, <1>8 DEF RunSound, Exists
<1>10. ~Storing(r) /\ ~Announcing(r) /\ new.at \notin {"lookup", "prune", "resolve", "mark"}
  BY <1>3, <1>6 DEF Storing, Announcing
<1>11. CASE OnDefault(r)
  <2>1. ~swallowed => FoundIs(r)
    BY <1>1, <1>3, <1>11 DEF ContentSound
  <2>2. FoundIs(r)' = FoundIs(r)
    BY <1>3, <1>6, <1>7 DEF FoundIs
  <2>3. QED
    BY <1>3, <1>6, <1>8, <1>9, <1>10, <1>11, <2>1, <2>2, StartKeeps
<1>12. CASE ~OnDefault(r)
  <2>1. newest' = newest /\ disorder' = disorder
    BY <1>3, <1>12 DEF BeginsToStore, OnDefault
  <2>2. \A x \in Run : ~disorder /\ run'[x].at = "prune" /\ OnDefault(x) => x \in evidence'[Fp(x)']
    BY <1>3, <1>6, <1>8, <1>10, PrunesStay
  <2>3. faults' \in 0 .. MaxFaults /\ evidence' \in [Fingerprint -> SUBSET Run]
    BY <1>1, <1>3, RunFields
  <2>4. QED
    BY <1>3, <1>6, <1>8, <1>9, <1>10, <1>12, <2>1, <2>2, <2>3, PlainStep
<1>13. QED
  BY <1>11, <1>12

LEMMA CurrentIs ==
  ASSUME JobTyped, NEW s \in Scan
  PROVE  Current(s) \in Run /\ Current(s)[1] = s /\ Current(s)[2] = job[s].attempt
BY DEF Current, Run, JobTyped, Jobs

\* What the rules find in a known version.
LEMMA FoundShows ==
  ASSUME JobTyped, HistoryTyped, NEW s \in Scan
  PROVE  /\ Found(s) \in SUBSET Rule
         /\ job[s].content # 0 /\ BranchOf[s] = Default =>
              Found(s) = Shows[job[s].content][ruleset] /\ Found(s) \cap LiveRules = {}
<1>1. job[s].content \in Version /\ ruleset \in 1 .. MaxRuleset
  BY DEF JobTyped, Jobs, HistoryTyped
<1>2. job[s].content # 0 => job[s].content \in 1 .. MaxVersion
  BY <1>1, ConstantsAre DEF Version
<1>3. job[s].content # 0 => Shows[job[s].content][ruleset] \in SUBSET (Rule \ LiveRules)
  BY <1>1, <1>2, FindingsConstantsOK DEF FindingsConstantsOK
<1>4. BranchShows \in SUBSET (Rule \ LiveRules)
  BY FindingsConstantsOK DEF FindingsConstantsOK
<1>5. QED
  BY <1>3, <1>4 DEF Found

LEMMA DetectKeeps ==
  ASSUME Sound, NEW s \in Scan, Detect(s), UNCHANGED outside
  PROVE  Sound'
<1>1. /\ Typed /\ OneWayThrough /\ ContentSound /\ JobTyped /\ HistoryTyped /\ RunTyped
  BY DEF Sound, Typed
<1>2. PICK r \in Run : r = Current(s) /\ r[1] = s /\ r[2] = job[s].attempt /\ r = <<r[1], r[2]>>
  BY <1>1, CurrentIs, RunIs
<1>3. /\ job[s].state = "queued"
      /\ UNCHANGED <<ruleset, repo, finding, evidence, alerts, queue, creating, verdict, cancelled, faults,
                     touched, doubled, head, analysis, discovering, swallowed>>
  BY DEF Detect, outside
<1>4. \/ /\ s \in cancelled
         /\ unit' = [unit EXCEPT ![s] = "completed"]
         /\ run' = [run EXCEPT ![r].at = "over"] /\ job' = [job EXCEPT ![s].state = "ended"]
      \/ /\ s \notin cancelled /\ Found(s) # {}
         /\ \E live \in SUBSET LiveRules :
              run' = [run EXCEPT ![r].at = "lookup", ![r].rules = Found(s) \cup live]
         /\ job' = [job EXCEPT ![s].state = "running"] /\ unit' = unit
      \/ /\ s \notin cancelled /\ Found(s) = {}
         /\ run' = [run EXCEPT ![r].at = IF OnDefault(r) THEN "list" ELSE "mark"]
         /\ job' = [job EXCEPT ![s].state = "running"] /\ unit' = unit
  BY <1>2 DEF Detect
<1>5. (s \notin cancelled /\ Found(s) = {}) \/ (newest' = newest /\ disorder' = disorder)
  BY DEF Detect
<1>6. run[r] = Idle
  BY <1>1, <1>2, <1>3 DEF OneWayThrough, JobTyped, Jobs
<1>7. /\ run[r].at = "none" /\ run[r].rules = {} /\ run[r].closing = {} /\ run[r].news = FALSE
      /\ run[r] \in Runs
  BY <1>6, IdleIs
<1>8. faults' \in 0 .. MaxFaults /\ evidence' \in [Fingerprint -> SUBSET Run] /\ ~Storing(r) /\ ~Announcing(r)
  BY <1>1, <1>3, <1>7, RunFields DEF Storing, Announcing
<1>9. BranchOf[s] = Default /\ ~swallowed => job[s].content # 0
  BY <1>1, <1>3 DEF ContentSound
<1>10. unit \in [Scan -> {"open", "completed", "failed"}]
  BY <1>1 DEF Typed, UnitTyped
<1>11. CASE s \in cancelled
  <2>1. unit' = [unit EXCEPT ![s] = "completed"] /\ job' = [job EXCEPT ![s].state = "ended"]
        /\ run' = [run EXCEPT ![r].at = "over"]
    BY <1>4, <1>11
  <2>2. PICK new : new = [run[r] EXCEPT !.at = "over"]
    OBVIOUS
  <2>3. new \in Runs /\ new.at = "over" /\ new.closing = {}
    BY <1>7, <2>2 DEF Runs, Label
  <2>4. run' = [run EXCEPT ![r] = new] /\ run'[r] = new
    BY <1>1, <2>1, <2>2 DEF RunTyped, Runs
  <2>5. UnitTyped' /\ unit'[s] = "completed" /\ \A t \in Scan \ {s} : unit'[t] = unit[t]
    BY <1>10, <2>1 DEF UnitTyped
  <2>6. Begins(s) /\ JobStep(s)
    BY <1>1, <1>3, <2>1, <2>5 DEF Begins, JobStep, JobTyped, Jobs
  <2>7. RunStep(r, new)
    BY <1>2, <1>3, <2>4, <2>5, <2>6 DEF RunStep, Exists
  <2>8. RunSound(r)'
    BY <2>3, <2>4 DEF RunSound
  <2>9. ~Storing(r)' /\ new.at \notin {"lookup", "prune", "resolve", "mark"}
    BY <2>3, <2>4 DEF Storing
  <2>10. \A x \in Run : ~disorder /\ run'[x].at = "prune" /\ OnDefault(x) => x \in evidence'[Fp(x)']
    BY <1>3, <2>3, <2>7, <2>9, PrunesStay
  <2>11. cancelled # {} /\ newest' = newest /\ disorder' = disorder
    BY <1>5, <1>11
  <2>12. QED
    BY <1>3, <1>8, <2>3, <2>7, <2>8, <2>9, <2>10, <2>11, PlainStep
<1>12. CASE s \notin cancelled /\ Found(s) # {}
  <2>1. PICK live \in SUBSET LiveRules :
          run' = [run EXCEPT ![r].at = "lookup", ![r].rules = Found(s) \cup live]
    BY <1>4, <1>12
  <2>2. PICK rules : rules = Found(s) \cup live
    OBVIOUS
  <2>3. rules \in SUBSET Rule /\ rules # {}
    BY <1>1, <1>12, <2>2, FoundShows, FindingsConstantsOK DEF FindingsConstantsOK
  <2>4. PICK new : new = [run[r] EXCEPT !.at = "lookup", !.rules = rules]
    OBVIOUS
  <2>5. new \in Runs /\ new.at = "lookup" /\ new.rules = rules /\ new.closing = {}
    BY <1>7, <2>3, <2>4 DEF Runs, Label
  <2>6. run' = [run EXCEPT ![r] = new] /\ run'[r] = new
    BY <1>1, <2>1, <2>2, <2>4 DEF RunTyped, Runs
  <2>7. job' = [job EXCEPT ![s].state = "running"] /\ unit' = unit
    BY <1>4, <1>12
  <2>8. Begins(s) /\ JobStep(s) /\ job'[s].content = job[s].content /\ AtWork(s)'
    BY <1>1, <1>3, <2>7 DEF Begins, JobStep, JobTyped, Jobs, AtWork
  <2>9. RunStep(r, new)
    BY <1>2, <1>3, <1>10, <2>6, <2>7, <2>8 DEF RunStep, Exists, UnitTyped
  <2>10. RunSound(r)'
    BY <2>3, <2>5, <2>6 DEF RunSound
  <2>11. ~Storing(r)' /\ new.at \notin {"prune", "resolve", "mark"}
    BY <2>5, <2>6 DEF Storing
  <2>12. \A x \in Run : ~disorder /\ run'[x].at = "prune" /\ OnDefault(x) => x \in evidence'[Fp(x)']
    BY <1>3, <2>5, <2>9, <2>11, PrunesStay
  <2>13. OnDefault(r) => (~swallowed => FoundIs(r)')
    <3>1. SUFFICES ASSUME OnDefault(r), ~swallowed PROVE FoundIs(r)'
      OBVIOUS
    <3>2. Found(s) = Shows[job[s].content][ruleset] /\ Found(s) \cap LiveRules = {}
      BY <1>1, <1>2, <1>9, <3>1, FoundShows DEF OnDefault
    <3>3. rules \ LiveRules = Shows[job[s].content][ruleset] /\ Shows[job[s].content][ruleset] # {}
      BY <1>12, <2>2, <3>2
    <3>4. QED
      BY <1>2, <1>3, <2>3, <2>5, <2>6, <2>8, <3>3 DEF FoundIs
  <2>14. newest' = newest /\ disorder' = disorder
    BY <1>5, <1>12
  <2>15. QED
    BY <1>2, <1>3, <1>8, <2>5, <2>8, <2>9, <2>10, <2>11, <2>12, <2>13, <2>14, PlainStep
<1>13. CASE s \notin cancelled /\ Found(s) = {}
  <2>1. PICK label : label = IF OnDefault(r) THEN "list" ELSE "mark"
    OBVIOUS
  <2>2. /\ run' = [run EXCEPT ![r].at = label]
        /\ job' = [job EXCEPT ![s].state = "running"] /\ unit' = unit
    BY <1>4, <1>13, <2>1
  <2>3. PICK new : new = [run[r] EXCEPT !.at = label]
    OBVIOUS
  <2>4. new \in Runs /\ new.at = label /\ new.rules = {} /\ new.closing = {}
    BY <1>7, <2>1, <2>3 DEF Runs, Label
  <2>5. run' = [run EXCEPT ![r] = new] /\ run'[r] = new
    BY <1>1, <2>2, <2>3 DEF RunTyped, Runs
  <2>6. Begins(s) /\ JobStep(s) /\ job'[s].content = job[s].content /\ AtWork(s)'
    BY <1>1, <1>3, <2>2 DEF Begins, JobStep, JobTyped, Jobs, AtWork
  <2>7. RunStep(r, new)
    BY <1>2, <1>3, <1>10, <2>2, <2>5, <2>6 DEF RunStep, Exists, UnitTyped
  <2>8. RunSound(r)'
    BY <2>1, <2>4, <2>5 DEF RunSound, OnDefault
  <2>9. BeginsToStore(r[1])
    BY <1>2, <1>13 DEF Detect
  <2>10. CASE OnDefault(r)
    <3>1. ~swallowed => FoundIs(r)'
      <4>1. SUFFICES ASSUME ~swallowed PROVE FoundIs(r)'
        OBVIOUS
      <4>2. Shows[job[s].content][ruleset] = {}
        BY <1>1, <1>2, <1>9, <1>13, <2>10, <4>1, FoundShows DEF OnDefault
      <4>3. QED
        BY <1>2, <1>3, <2>4, <2>5, <2>6, <4>2 DEF FoundIs
    <3>2. new.at = "list"
      BY <2>1, <2>4, <2>10
    <3>3. QED
      BY <1>2, <1>3, <1>8, <2>4, <2>6, <2>7, <2>8, <2>9, <2>10, <3>1, <3>2, StartKeeps
  <2>11. CASE ~OnDefault(r)
    <3>1. newest' = newest /\ disorder' = disorder
      BY <2>9, <2>11 DEF BeginsToStore, OnDefault
    <3>2. new.at = "mark"
      BY <2>1, <2>4, <2>11
    <3>3. \A x \in Run : ~disorder /\ run'[x].at = "prune" /\ OnDefault(x) => x \in evidence'[Fp(x)']
      BY <1>3, <2>4, <2>7, <3>2, PrunesStay
    <3>4. QED
      BY <1>2, <1>3, <1>8, <2>4, <2>6, <2>7, <2>8, <2>11, <3>1, <3>2, <3>3, PlainStep
  <2>12. QED
    BY <2>10, <2>11
<1>14. QED
  BY <1>11, <1>12, <1>13

-----------------------------------------------------------------------------
(* The job, when no attempt of it moves.                                    *)

LEMMA JobOnly ==
  ASSUME Sound, NEW s \in Scan, JobStep(s), job[s].state # "none",
         UNCHANGED <<run, finding, evidence, alerts, queue, creating, verdict, touched, newest, disorder,
                     doubled, cancelled, ruleset, head, analysis, discovering, swallowed>>,
         UnitTyped', \A t \in Scan \ {s} : unit'[t] = unit[t], unit'[s] = unit[s] \/ unit'[s] # "open",
         repo' \in Repository, repo'.sha = repo.sha, repo'.ruleset = repo.ruleset,
         repo.success => repo'.success,
         faults' \in 0 .. MaxFaults, faults' = 0 => faults = 0,
         \/ AtWork(s)' \/ repo'.failed
         \/ BranchOf[s] # Default /\ unit'[s] # "open" /\ repo' = repo
  PROVE  Sound'
<1>1. /\ Typed /\ OneWayThrough /\ BacklogSound /\ AgesSound /\ ContentSound /\ MarksSound
      /\ JobTyped /\ UnitTyped
  BY DEF Sound, Typed
<1>2. Aside
  BY DEF Aside
<1>3. /\ JobTyped' /\ \A t \in Scan \ {s} : job'[t] = job[t]
      /\ \A t \in Scan : /\ job'[t].content = job[t].content /\ job'[t].sha = job[t].sha
                         /\ job'[t].ruleset = job[t].ruleset
                         /\ (job'[t].state = "none" <=> job[t].state = "none")
  BY <1>1, JobStepIs
<1>4. /\ RunTyped' /\ FindingTyped' /\ AlertTyped'
      /\ (\A r \in Run : RunSound(r)') /\ AlertSound' /\ StoringAlone'
  <2>1. \A t \in Scan : unit[t] # "open" => unit'[t] # "open"
    OBVIOUS
  <2>2. QED
    BY <1>2, <2>1, AsideKeeps
<1>5. RepoTyped' /\ HistoryTyped' /\ AnalysisTyped'
  BY <1>1 DEF Typed, RepoTyped, HistoryTyped, AnalysisTyped
<1>6. OneWayThrough'
  BY <1>1, JobGoesOn
<1>7. BacklogSound'
  <2>1. \A t \in Scan : analysis'[t].at = "skipped" => repo'.success
    BY <1>1 DEF BacklogSound
  <2>2. SUFFICES ASSUME BranchOf[s] # Default, unit'[s] # "open" PROVE BacklogSound'
    BY <2>1 DEF BacklogSound
  <2>3. QED
    BY <2>1, <2>2 DEF BacklogSound
<1>8. AgesSound'
  BY <1>1, <1>3 DEF AgesSound
<1>9. ContentSound'
  <2>1. \A r \in Run : FoundIs(r)' = FoundIs(r)
    BY <1>3, RunIs DEF FoundIs
  <2>2. QED
    BY <1>1, <1>3, <2>1 DEF ContentSound, Storing, OnDefault
<1>10. MarksSound'
  <2>1. Agrees(newest)' = Agrees(newest) /\ Reported' = Reported
    BY AgreesSame
  <2>2. SUFFICES ASSUME ~disorder, ~swallowed PROVE MarksSound'
    BY DEF MarksSound
  <2>3. Holds(repo)' /\ \A t \in Scan : Holds(analysis[t].existing)'
    BY <1>1, <2>1, <2>2 DEF MarksSound, Holds
  <2>4. \A r \in Run : OnDefault(r) /\ Storing(r) => job'[r[1]].content = newest
    BY <1>1, <1>3, <2>2, RunIs DEF MarksSound
  <2>5. QED
    BY <1>1, <2>1, <2>2, <2>3, <2>4 DEF MarksSound, Storing, OnDefault, Fp
<1>11. QED
  BY <1>3, <1>4, <1>5, <1>6, <1>7, <1>8, <1>9, <1>10 DEF Sound, Typed

LEMMA GiveUpKeeps ==
  ASSUME Sound, NEW s \in Scan, GiveUp(s), UNCHANGED outside
  PROVE  Sound'
<1>1. Typed /\ JobTyped /\ UnitTyped /\ RepoTyped
  BY DEF Sound, Typed
<1>2. /\ job[s].state = "failing" /\ job' = [job EXCEPT ![s].state = "ended"]
      /\ repo' = IF BranchOf[s] = Default THEN MarkFailed(job[s].dates) ELSE repo
      /\ unit' = [unit EXCEPT ![s] = IF @ = "open" THEN "failed" ELSE @]
      /\ UNCHANGED <<ruleset, run, finding, evidence, alerts, queue, creating, verdict, cancelled, faults,
                     touched, newest, disorder, doubled, head, analysis, discovering, swallowed>>
  BY DEF GiveUp, outside
<1>3. UnitTyped' /\ unit'[s] # "open" /\ \A t \in Scan \ {s} : unit'[t] = unit[t]
  BY <1>1, <1>2 DEF UnitTyped
<1>4. JobStep(s)
  BY <1>2, <1>3 DEF JobStep
<1>5. job[s].dates \in Version
  BY <1>1 DEF JobTyped, Jobs
<1>6. /\ repo' \in Repository /\ repo'.sha = repo.sha /\ repo'.ruleset = repo.ruleset
      /\ (repo.success => repo'.success) /\ (BranchOf[s] # Default => repo' = repo)
      /\ (BranchOf[s] = Default => repo'.failed)
  <2>1. CASE BranchOf[s] = Default
    BY <1>1, <1>2, <1>5, <2>1, ConstantsAre, MarksAre
  <2>2. CASE BranchOf[s] # Default
    BY <1>1, <1>2, <2>2 DEF RepoTyped
  <2>3. QED
    BY <2>1, <2>2
<1>7. faults' \in 0 .. MaxFaults
  BY <1>1, <1>2 DEF Typed, HistoryTyped
<1>8. QED
  BY <1>2, <1>3, <1>4, <1>6, <1>7, JobOnly

LEMMA TimeOutKeeps ==
  ASSUME Sound, NEW s \in Scan, TimeOut(s), UNCHANGED outside
  PROVE  Sound'
<1>1. Typed /\ JobTyped /\ UnitTyped /\ RepoTyped
  BY DEF Sound, Typed
<1>2. /\ job[s].state = "running" /\ faults < MaxFaults /\ faults' = faults + 1 /\ job' = Again(s)
      /\ UNCHANGED <<ruleset, repo, unit, run, finding, evidence, alerts, queue, creating, verdict, cancelled,
                     touched, newest, disorder, doubled, head, analysis, discovering, swallowed>>
  BY DEF TimeOut, outside
<1>3. faults' \in 0 .. MaxFaults /\ faults' # 0
  BY <1>1, <1>2, FaultsTyped
<1>4. JobStep(s) /\ AtWork(s)' /\ UnitTyped' /\ repo' \in Repository
  BY <1>1, <1>2, AgainIs DEF JobStep, AtWork, UnitTyped, RepoTyped
<1>5. QED
  BY <1>2, <1>3, <1>4, JobOnly

-----------------------------------------------------------------------------
(* Alerts and users.                                                        *)

\* Neither jobs nor findings move.
LEMMA AlertOnly ==
  ASSUME Sound,
         UNCHANGED <<repo, job, unit, run, finding, evidence, touched, newest, disorder,
                     cancelled, ruleset, head, analysis, discovering, swallowed>>,
         AlertTyped', verdict' \in Verdicts, doubled' \in BOOLEAN, faults' \in 0 .. MaxFaults, AlertSound'
  PROVE  Sound'
<1>1. /\ Typed /\ OneWayThrough /\ BacklogSound /\ AgesSound /\ ContentSound /\ MarksSound /\ StoringAlone
      /\ \A r \in Run : RunSound(r)
  BY DEF Sound
<1>2. RepoTyped' /\ JobTyped' /\ UnitTyped' /\ RunTyped' /\ FindingTyped' /\ HistoryTyped' /\ AnalysisTyped'
  BY <1>1 DEF Typed, RepoTyped, JobTyped, UnitTyped, RunTyped, FindingTyped, HistoryTyped, AnalysisTyped
<1>3. OneWayThrough' /\ BacklogSound'
  BY <1>1 DEF OneWayThrough, BacklogSound, Active, AtWork
<1>4. \A r \in Run : RunSound(r)'
  BY <1>1 DEF RunSound, Exists, Fp, OnDefault
<1>5. AgesSound' /\ ContentSound'
  BY <1>1 DEF AgesSound, ContentSound, FoundIs, Storing, OnDefault
<1>6. StoringAlone'
  BY <1>1 DEF StoringAlone, Storing, OnDefault, Fp
<1>7. MarksSound'
  <2>1. Agrees(newest)' = Agrees(newest) /\ Reported' = Reported
    BY AgreesSame
  <2>2. QED
    BY <1>1, <2>1 DEF MarksSound, Holds, Storing, OnDefault, Fp
<1>8. QED
  BY <1>2, <1>3, <1>4, <1>5, <1>6, <1>7 DEF Sound, Typed

\* An alert of a finding that exists is to be found somewhere, as before.
LEMMA AlertsMove ==
  ASSUME AlertSound, UNCHANGED <<run, finding, verdict>>,
         doubled' \/ \A f \in Fingerprint : alerts'[f] + creating'[f] <= 1,
         \A a \in queue'.added : a \in queue'.waiting \/ creating'[a[2]] > 0 \/ alerts'[a[2]] > 0,
         faults' = 0 => faults = 0,
         faults' = 0 => \A f \in Fingerprint :
           alerts[f] > 0 \/ creating[f] > 0 \/ (\E a \in queue.waiting : a[2] = f) =>
              alerts'[f] > 0 \/ creating'[f] > 0 \/ \E a \in queue'.waiting : a[2] = f
  PROVE  AlertSound'
<1>1. \A f \in Fingerprint : Exists(f)' <=> Exists(f)
  BY DEF Exists
<1>2. \A r \in Run : Announcing(r)' = Announcing(r) /\ Fp(r)' = Fp(r)
  BY DEF Announcing, Fp
<1>3. verdict' # NoVerdict => Exists(verdict.finding)'
  BY DEF AlertSound, Exists
<1>4. faults' = 0 => \A f \in Fingerprint : Exists(f)' /\ f.branch = Default /\ IsHigh(f) =>
        \/ alerts'[f] > 0 \/ creating'[f] > 0 \/ \E a \in queue'.waiting : a[2] = f
        \/ \E r \in Run : Announcing(r)' /\ Fp(r)' = f
  BY <1>1, <1>2 DEF AlertSound
<1>5. QED
  BY <1>3, <1>4 DEF AlertSound, IsHigh

LEMMA DispatchKeeps ==
  ASSUME Sound, NEW a \in queue.waiting, Dispatch(a), UNCHANGED outside
  PROVE  Sound'
<1>1. Typed /\ AlertTyped /\ AlertSound
  BY DEF Sound, Typed
<1>2. /\ queue' = [queue EXCEPT !.waiting = @ \ {a}]
      /\ creating' = IF alerts[a[2]] = 0 THEN [creating EXCEPT ![a[2]] = @ + 1] ELSE creating
      /\ doubled' = (doubled \/ (alerts[a[2]] = 0 /\ creating[a[2]] > 0))
      /\ UNCHANGED <<ruleset, repo, job, unit, run, finding, evidence, alerts, verdict, cancelled, faults,
                     touched, newest, disorder, head, analysis, discovering, swallowed>>
  BY DEF Dispatch, outside
<1>3. PICK f \in Fingerprint : f = a[2]
  BY <1>1 DEF AlertTyped
<1>4. /\ queue'.waiting = queue.waiting \ {a} /\ queue'.added = queue.added
      /\ queue' \in [waiting : SUBSET (Scan \X Fingerprint), added : SUBSET (Scan \X Fingerprint)]
  BY <1>1, <1>2 DEF AlertTyped
<1>5. \A g \in Fingerprint : alerts[g] \in Nat /\ creating[g] \in Nat
  BY <1>1 DEF AlertTyped
<1>6. /\ creating' \in [Fingerprint -> Nat]
      /\ \A g \in Fingerprint : creating[g] > 0 => creating'[g] > 0
      /\ creating'[f] > 0 \/ alerts[f] > 0
      /\ \A g \in Fingerprint \ {f} : creating'[g] = creating[g]
      /\ creating'[f] = IF alerts[f] = 0 THEN creating[f] + 1 ELSE creating[f]
  <2>1. CASE alerts[f] = 0
    <3>1. creating' = [creating EXCEPT ![f] = creating[f] + 1]
      BY <1>2, <1>3, <2>1
    <3>2. creating'[f] = creating[f] + 1 /\ \A g \in Fingerprint \ {f} : creating'[g] = creating[g]
      BY <1>1, <3>1 DEF AlertTyped
    <3>3. creating' \in [Fingerprint -> Nat]
      BY <1>1, <1>5, <3>1 DEF AlertTyped
    <3>4. QED
      BY <1>5, <2>1, <3>2, <3>3
  <2>2. CASE alerts[f] # 0
    BY <1>1, <1>2, <1>3, <1>5, <2>2 DEF AlertTyped
  <2>3. QED
    BY <2>1, <2>2
<1>7. AlertTyped' /\ verdict' \in Verdicts /\ faults' \in 0 .. MaxFaults /\ doubled' \in BOOLEAN
  BY <1>1, <1>2, <1>4, <1>6 DEF Typed, AlertTyped, FindingTyped, HistoryTyped
<1>8. doubled' \/ \A g \in Fingerprint : alerts'[g] + creating'[g] <= 1
  <2>1. SUFFICES ASSUME ~doubled', NEW g \in Fingerprint PROVE alerts[g] + creating'[g] <= 1
    BY <1>2
  <2>2. alerts[g] + creating[g] <= 1
    BY <1>1, <1>2, <2>1 DEF AlertSound
  <2>3. alerts[f] = 0 => ~(creating[f] > 0)
    BY <1>2, <1>3, <2>1
  <2>4. QED
    BY <1>5, <1>6, <2>2, <2>3
<1>9. \A b \in queue'.added : b \in queue'.waiting \/ creating'[b[2]] > 0 \/ alerts'[b[2]] > 0
  <2>1. SUFFICES ASSUME NEW b \in queue.added, b # a PROVE b \in queue.waiting \/ creating'[b[2]] > 0 \/ alerts[b[2]] > 0
    BY <1>2, <1>3, <1>4, <1>6
  <2>2. b[2] \in Fingerprint
    BY <1>1 DEF AlertTyped
  <2>3. QED
    BY <1>1, <1>6, <2>2 DEF AlertSound
<1>10. \A g \in Fingerprint :
         alerts[g] > 0 \/ creating[g] > 0 \/ (\E b \in queue.waiting : b[2] = g) =>
            alerts'[g] > 0 \/ creating'[g] > 0 \/ \E b \in queue'.waiting : b[2] = g
  BY <1>2, <1>3, <1>4, <1>6
<1>11. AlertSound'
  BY <1>1, <1>2, <1>8, <1>9, <1>10, AlertsMove
<1>12. QED
  BY <1>2, <1>7, <1>11, AlertOnly

LEMMA CreateAlertKeeps ==
  ASSUME Sound, NEW f \in Fingerprint, CreateAlert(f), UNCHANGED outside
  PROVE  Sound'
<1>1. Typed /\ AlertTyped /\ AlertSound
  BY DEF Sound, Typed
<1>2. /\ creating[f] > 0
      /\ creating' = [creating EXCEPT ![f] = @ - 1] /\ alerts' = [alerts EXCEPT ![f] = @ + 1]
      /\ UNCHANGED <<ruleset, repo, job, unit, run, finding, evidence, queue, verdict, cancelled, faults,
                     touched, newest, disorder, doubled, head, analysis, discovering, swallowed>>
  BY DEF CreateAlert, outside
<1>3. \A g \in Fingerprint : alerts[g] \in Nat /\ creating[g] \in Nat
  BY <1>1 DEF AlertTyped
<1>4. creating[f] - 1 \in Nat /\ alerts[f] + 1 \in Nat
  BY <1>2, <1>3
<1>5. creating' \in [Fingerprint -> Nat] /\ alerts' \in [Fingerprint -> Nat]
  BY <1>1, <1>2, <1>4 DEF AlertTyped
<1>6. /\ creating'[f] = creating[f] - 1 /\ alerts'[f] = alerts[f] + 1
      /\ \A g \in Fingerprint \ {f} : creating'[g] = creating[g] /\ alerts'[g] = alerts[g]
  BY <1>1, <1>2 DEF AlertTyped
<1>7. \A g \in Fingerprint : /\ alerts'[g] + creating'[g] = alerts[g] + creating[g]
                             /\ alerts[g] > 0 \/ creating[g] > 0 => alerts'[g] > 0 \/ creating'[g] > 0
  BY <1>3, <1>6
<1>8. AlertTyped' /\ verdict' \in Verdicts /\ faults' \in 0 .. MaxFaults /\ doubled' \in BOOLEAN
  BY <1>1, <1>2, <1>5 DEF Typed, AlertTyped, FindingTyped, HistoryTyped
<1>9. doubled' \/ \A g \in Fingerprint : alerts'[g] + creating'[g] <= 1
  BY <1>1, <1>2, <1>7 DEF AlertSound
<1>10. \A a \in queue'.added : a \in queue'.waiting \/ creating'[a[2]] > 0 \/ alerts'[a[2]] > 0
  <2>1. SUFFICES ASSUME NEW a \in queue.added
                 PROVE  a \in queue.waiting \/ creating'[a[2]] > 0 \/ alerts'[a[2]] > 0
    BY <1>2
  <2>2. a[2] \in Fingerprint
    BY <1>1 DEF AlertTyped
  <2>3. QED
    BY <1>1, <1>7, <2>2 DEF AlertSound
<1>11. AlertSound'
  BY <1>1, <1>2, <1>7, <1>9, <1>10, AlertsMove
<1>12. QED
  BY <1>2, <1>8, <1>11, AlertOnly

LEMMA RedeliverAlertKeeps ==
  ASSUME Sound, NEW a \in queue.added, RedeliverAlert(a), UNCHANGED outside
  PROVE  Sound'
<1>1. Typed /\ AlertTyped /\ AlertSound
  BY DEF Sound, Typed
<1>2. /\ queue' = [queue EXCEPT !.waiting = @ \cup {a}] /\ faults < MaxFaults /\ faults' = faults + 1
      /\ UNCHANGED <<ruleset, repo, job, unit, run, finding, evidence, alerts, creating, verdict, cancelled,
                     touched, newest, disorder, doubled, head, analysis, discovering, swallowed>>
  BY DEF RedeliverAlert, outside
<1>3. /\ queue'.waiting = queue.waiting \cup {a} /\ queue'.added = queue.added
      /\ queue' \in [waiting : SUBSET (Scan \X Fingerprint), added : SUBSET (Scan \X Fingerprint)]
  BY <1>1, <1>2 DEF AlertTyped
<1>4. faults' \in 0 .. MaxFaults /\ faults' # 0
  BY <1>1, <1>2, FaultsTyped
<1>5. AlertTyped' /\ verdict' \in Verdicts /\ doubled' \in BOOLEAN
  BY <1>1, <1>2, <1>3 DEF Typed, AlertTyped, FindingTyped, HistoryTyped
<1>6. doubled' \/ \A g \in Fingerprint : alerts'[g] + creating'[g] <= 1
  BY <1>1, <1>2 DEF AlertSound
<1>7. \A b \in queue'.added : b \in queue'.waiting \/ creating'[b[2]] > 0 \/ alerts'[b[2]] > 0
  BY <1>1, <1>2, <1>3 DEF AlertSound
<1>8. AlertSound'
  BY <1>1, <1>2, <1>4, <1>6, <1>7, AlertsMove
<1>9. QED
  BY <1>2, <1>4, <1>5, <1>8, AlertOnly

LEMMA JudgeKeeps ==
  ASSUME Sound, NEW f \in Fingerprint, NEW want \in Status, Judge(f, want), UNCHANGED outside
  PROVE  Sound'
<1>1. Typed /\ AlertSound /\ FindingTyped
  BY DEF Sound, Typed
<1>2. /\ finding[f] # "none" /\ verdict' = [finding |-> f, read |-> finding[f], want |-> want]
      /\ UNCHANGED <<ruleset, repo, job, unit, run, finding, evidence, alerts, queue, creating, cancelled,
                     faults, touched, newest, disorder, doubled, head, analysis, discovering, swallowed>>
  BY DEF Judge, outside
<1>3. finding[f] \in Status
  BY <1>1, <1>2 DEF FindingTyped
<1>4. verdict' \in Verdicts /\ verdict'.finding = f
  BY <1>2, <1>3 DEF Verdicts
<1>5. AlertTyped' /\ faults' \in 0 .. MaxFaults /\ doubled' \in BOOLEAN
  BY <1>1, <1>2 DEF Typed, AlertTyped, HistoryTyped
<1>6. AlertSound'
  <2>1. Exists(verdict.finding)'
    BY <1>2, <1>4 DEF Exists
  <2>2. \A g \in Fingerprint : Exists(g)' <=> Exists(g)
    BY <1>2 DEF Exists
  <2>3. \A r \in Run : Announcing(r)' = Announcing(r) /\ Fp(r)' = Fp(r)
    BY <1>2 DEF Announcing, Fp
  <2>4. faults' = 0 => \A g \in Fingerprint : Exists(g)' /\ g.branch = Default /\ IsHigh(g) =>
          \/ alerts'[g] > 0 \/ creating'[g] > 0 \/ \E a \in queue'.waiting : a[2] = g
          \/ \E r \in Run : Announcing(r)' /\ Fp(r)' = g
    BY <1>1, <1>2, <2>2, <2>3 DEF AlertSound
  <2>5. QED
    BY <1>1, <1>2, <2>1, <2>4 DEF AlertSound, IsHigh
<1>7. QED
  BY <1>2, <1>4, <1>5, <1>6, AlertOnly

LEMMA SaveVerdictKeeps ==
  ASSUME Sound, SaveVerdict, UNCHANGED outside
  PROVE  Sound'
<1>1. /\ Typed /\ FindingTyped /\ OneWayThrough /\ BacklogSound /\ AlertSound /\ AgesSound /\ ContentSound
      /\ MarksSound /\ StoringAlone /\ RunTyped /\ \A r \in Run : RunSound(r)
  BY DEF Sound, Typed
<1>2. PICK v : v = verdict
  OBVIOUS
<1>3. /\ v # NoVerdict /\ verdict' = NoVerdict /\ touched' = touched \cup {v.finding}
      /\ finding' = IF v.want # v.read THEN [finding EXCEPT ![v.finding] = v.want] ELSE finding
      /\ UNCHANGED <<ruleset, repo, job, unit, run, evidence, alerts, queue, creating, cancelled, faults,
                     newest, disorder, doubled, head, analysis, discovering, swallowed>>
  BY <1>2 DEF SaveVerdict, outside
<1>4. v.finding \in Fingerprint /\ v.want \in Status /\ Exists(v.finding)
  BY <1>1, <1>2, <1>3 DEF FindingTyped, Verdicts, AlertSound
<1>5. /\ finding' \in [Fingerprint -> Status \cup {"none"}]
      /\ \A f \in Fingerprint \ {v.finding} : finding'[f] = finding[f]
      /\ finding'[v.finding] \in {finding[v.finding], v.want}
  BY <1>1, <1>3, <1>4 DEF FindingTyped
<1>6. \A f \in Fingerprint : Exists(f)' <=> Exists(f)
  BY <1>4, <1>5 DEF Exists, Status
<1>7. Reported' \ touched' \subseteq Reported \ touched
  BY <1>3, <1>5 DEF Reported
<1>8. RepoTyped' /\ JobTyped' /\ UnitTyped' /\ RunTyped' /\ AlertTyped' /\ HistoryTyped' /\ AnalysisTyped'
  BY <1>1, <1>3 DEF Typed, RepoTyped, JobTyped, UnitTyped, RunTyped, AlertTyped, HistoryTyped, AnalysisTyped
<1>9. FindingTyped'
  BY <1>1, <1>3, <1>4, <1>5 DEF FindingTyped, Verdicts
<1>10. OneWayThrough' /\ BacklogSound'
  BY <1>1, <1>3 DEF OneWayThrough, BacklogSound, Active, AtWork
<1>11. \A r \in Run : Fp(r)' = Fp(r) /\ Announcing(r)' = Announcing(r) /\ run'[r] = run[r]
  BY <1>3 DEF Fp, Announcing
<1>12. ASSUME NEW r \in Run PROVE RunSound(r)'
  <2>1. RunSound(r) /\ Fp(r)' = Fp(r) /\ run'[r] = run[r]
    BY <1>1, <1>11
  <2>2. (run[r].rules # {} => Fp(r) \in Fingerprint) /\ run[r].closing \subseteq Fingerprint
    BY <1>1, FpIs, RunFields
  <2>3. run[r].at = "save" => Fp(r) \in Fingerprint
    BY <2>1, <2>2 DEF RunSound
  <2>4. QED
    BY <1>3, <1>6, <2>1, <2>2, <2>3 DEF RunSound, OnDefault
<1>13. AlertSound'
  <2>1. faults' = 0 => \A f \in Fingerprint : Exists(f)' /\ f.branch = Default /\ IsHigh(f) =>
          \/ alerts'[f] > 0 \/ creating'[f] > 0 \/ \E a \in queue'.waiting : a[2] = f
          \/ \E r \in Run : Announcing(r)' /\ Fp(r)' = f
    BY <1>1, <1>3, <1>6, <1>11 DEF AlertSound
  <2>2. QED
    BY <1>1, <1>3, <2>1 DEF AlertSound, IsHigh
<1>14. AgesSound' /\ ContentSound'
  BY <1>1, <1>3 DEF AgesSound, ContentSound, FoundIs, Storing, OnDefault
<1>15. StoringAlone'
  BY <1>1, <1>3 DEF StoringAlone, Storing, OnDefault, Fp
<1>16. MarksSound'
  <2>1. SUFFICES ASSUME ~disorder, ~swallowed PROVE MarksSound'
    BY <1>3 DEF MarksSound
  <2>2. Agrees(newest) => Agrees(newest)'
    BY <1>3, <1>6, <1>7, AgreesMore
  <2>3. Holds(repo)' /\ \A s \in Scan : Holds(analysis[s].existing)'
    BY <1>1, <1>3, <2>1, <2>2 DEF MarksSound, Holds
  <2>4. \A r \in Run : OnDefault(r) /\ run[r].at \in {"resolve", "mark"} =>
          Reported' \ touched' \subseteq {Fp(r)} \cup run[r].closing
    BY <1>1, <1>7, <2>1 DEF MarksSound
  <2>5. \A r \in Run : OnDefault(r) /\ Storing(r) => job[r[1]].content = newest
    BY <1>1, <2>1 DEF MarksSound
  <2>6. QED
    BY <1>3, <1>11, <2>3, <2>4, <2>5 DEF MarksSound, Storing, OnDefault
<1>17. QED
  BY <1>8, <1>9, <1>10, <1>12, <1>13, <1>14, <1>15, <1>16 DEF Sound, Typed

LEMMA CancelKeeps ==
  ASSUME Sound, NEW s \in Scan, Cancel(s), UNCHANGED outside
  PROVE  Sound'
<1>1. /\ Typed /\ OneWayThrough /\ BacklogSound /\ AgesSound /\ ContentSound /\ MarksSound
  BY DEF Sound
<1>2. /\ cancelled' = cancelled \cup {s} /\ Aside
      /\ UNCHANGED <<repo, job, unit, faults, ruleset, head, analysis, discovering, swallowed>>
  BY DEF Cancel, Aside, outside
<1>3. /\ RunTyped' /\ FindingTyped' /\ AlertTyped'
      /\ (\A r \in Run : RunSound(r)') /\ AlertSound' /\ StoringAlone'
  BY <1>2, AsideKeeps
<1>4. RepoTyped' /\ JobTyped' /\ UnitTyped' /\ HistoryTyped' /\ AnalysisTyped'
  BY <1>1, <1>2 DEF Typed, RepoTyped, JobTyped, UnitTyped, HistoryTyped, AnalysisTyped, Aside
<1>5. OneWayThrough' /\ AgesSound'
  BY <1>1, <1>2 DEF OneWayThrough, AgesSound, Aside
<1>6. BacklogSound'
  BY <1>1, <1>2 DEF BacklogSound
<1>7. ContentSound'
  BY <1>1, <1>2 DEF ContentSound, FoundIs, Storing, OnDefault, Aside
<1>8. MarksSound'
  <2>1. Agrees(newest)' = Agrees(newest) /\ Reported' = Reported
    BY <1>2, AgreesSame DEF Aside
  <2>2. QED
    BY <1>1, <1>2, <2>1 DEF MarksSound, Holds, Storing, OnDefault, Fp, Aside
<1>9. QED
  BY <1>3, <1>4, <1>5, <1>6, <1>7, <1>8 DEF Sound, Typed

-----------------------------------------------------------------------------
(* The invariant holds of every reachable state.                            *)

LEMMA StutterKeeps ==
  ASSUME Sound, UNCHANGED vars
  PROVE  Sound'
<1>1. /\ AlertTyped /\ FindingTyped /\ HistoryTyped /\ AlertSound
  BY DEF Sound, Typed
<1>2. UNCHANGED <<repo, job, unit, run, finding, evidence, alerts, queue, creating, verdict, cancelled, ruleset,
                  faults, touched, newest, disorder, doubled, head, analysis, discovering, swallowed>>
  BY DEF vars, findingVars
<1>3. AlertTyped' /\ verdict' \in Verdicts /\ doubled' \in BOOLEAN /\ faults' \in 0 .. MaxFaults
  BY <1>1, <1>2 DEF AlertTyped, FindingTyped, HistoryTyped
<1>4. AlertSound'
  BY <1>1, <1>2, AlertsMove DEF AlertSound
<1>5. QED
  BY <1>2, <1>3, <1>4, AlertOnly

LEMMA WorkingKeeps ==
  ASSUME Sound, NEW r \in Run, Working(r), UNCHANGED outside
  PROVE  Sound'
BY LookupKeeps, SaveKeeps, InsertKeeps, PruneKeeps, ListKeeps, ResolveKeeps, MarkKeeps, CompleteKeeps,
   EnqueueAlertKeeps DEF Working

LEMMA FindingsKeep ==
  ASSUME Sound, FindingsNext, UNCHANGED outside
  PROVE  Sound'
<1>1. CASE \E s \in Scan : FindingsWork(s) \/ Cancel(s) \/ TimeOut(s)
  <2>1. PICK s \in Scan : FindingsWork(s) \/ Cancel(s) \/ TimeOut(s)
    BY <1>1
  <2>2. CASE \E n \in Attempt : Working(<<s, n>>)
    <3>1. \A n \in Attempt : <<s, n>> \in Run
      BY DEF Run
    <3>2. QED
      BY <2>2, <3>1, WorkingKeeps
  <2>3. QED
    BY <2>1, <2>2, DetectKeeps, GiveUpKeeps, CancelKeeps, TimeOutKeeps DEF FindingsWork
<1>2. CASE AlertWork
  BY <1>2, DispatchKeeps, CreateAlertKeeps DEF AlertWork
<1>3. CASE \E r \in Run : Throw(r)
  BY <1>3, ThrowKeeps
<1>4. CASE \E f \in Fingerprint, want \in Status : Judge(f, want)
  BY <1>4, JudgeKeeps
<1>5. CASE SaveVerdict
  BY <1>5, SaveVerdictKeeps
<1>6. CASE \E a \in queue.added : RedeliverAlert(a)
  BY <1>6, RedeliverAlertKeeps
<1>7. QED
  BY <1>1, <1>2, <1>3, <1>4, <1>5, <1>6 DEF FindingsNext

LEMMA NextKeeps ==
  ASSUME Sound, [Next]_vars
  PROVE  Sound'
<1>1. CASE UNCHANGED vars
  BY <1>1, StutterKeeps
<1>2. CASE FindNew \/ Discover \/ Push \/ Deploy
  BY <1>2, DiscoveryKeeps, PushKeeps, DeployKeeps
<1>3. ASSUME NEW s \in Scan, AnalysisWork(s) \/ ThrowAnalysis(s) \/ AnalyseBranch(s)
      PROVE  Sound'
  BY <1>3, LookKeeps, AskHeadKeeps, SkipKeeps, CompleteSkippedKeeps, StoreMetadataKeeps, FetchKeeps,
     EnqueueDetectionKeeps, GiveUpAnalysisKeeps, ThrowAnalysisKeeps, AnalyseBranchKeeps DEF AnalysisWork
<1>4. ASSUME NEW s \in Scan, NEW kind \in Kinds, Assign(s, kind)
      PROVE  Sound'
  BY <1>4, AssignKeeps
<1>5. CASE FindingsNext /\ UNCHANGED outside
  BY <1>5, FindingsKeep
<1>6. QED
  BY <1>1, <1>2, <1>3, <1>4, <1>5 DEF Next

LEMMA InitSound ==
  ASSUME Init
  PROVE  Sound
<1>1. /\ repo = NoRepo /\ job = [s \in Scan |-> NoJob] /\ unit = [s \in Scan |-> "open"]
      /\ run = [r \in Run |-> Idle] /\ finding = [f \in Fingerprint |-> "none"]
      /\ evidence = [f \in Fingerprint |-> {}]
      /\ alerts = [f \in Fingerprint |-> 0] /\ creating = [f \in Fingerprint |-> 0]
      /\ queue = [waiting |-> {}, added |-> {}] /\ verdict = NoVerdict
      /\ ruleset = 1 /\ cancelled = {} /\ faults = 0 /\ touched = {} /\ newest = 0 /\ disorder = FALSE
      /\ doubled = FALSE /\ head = 1 /\ analysis = [s \in Scan |-> Unseen] /\ discovering = FALSE
      /\ swallowed = FALSE
  BY DEF Init, FindingsInit, NoRepo
<1>2. /\ NoRepo \in Repository /\ NoRepo.known = FALSE /\ NoRepo.sha = 0 /\ NoRepo.ruleset = 0
  BY ConstantsAre DEF NoRepo, Repository, Ruleset
<1>3. /\ Unseen \in Analyses /\ Unseen.at = "none" /\ Unseen.sha = 0 /\ Unseen.ruleset = 0
      /\ Unseen.existing = NoRepo
  BY <1>2, ConstantsAre DEF Unseen, Analyses, Stage
<1>4. NoJob \in Jobs /\ NoJob.attempt = 1 /\ NoJob.sha = 0 /\ NoJob.ruleset = 0 /\ NoJob.state = "none"
  BY NoJobIs DEF NoJob
<1>5. 1 \in 1 .. MaxRuleset /\ 1 \in 1 .. MaxVersion /\ 0 \in 0 .. MaxFaults
  BY ConstantsAre
<1>6. RepoTyped /\ JobTyped /\ UnitTyped /\ RunTyped /\ AnalysisTyped
  BY <1>1, <1>2, <1>3, <1>4, <1>5, IdleIs DEF RepoTyped, JobTyped, UnitTyped, RunTyped, AnalysisTyped
<1>7. FindingTyped /\ AlertTyped /\ HistoryTyped
  BY <1>1, <1>5, ConstantsAre DEF FindingTyped, AlertTyped, HistoryTyped, Verdicts
<1>8. \A r \in Run : run[r] = Idle /\ ~Storing(r) /\ ~Announcing(r) /\ RunSound(r)
  BY <1>1, IdleIs DEF Storing, Announcing, RunSound
<1>9. OneWayThrough
  BY <1>1, <1>3, <1>4, <1>8 DEF OneWayThrough, Run
<1>10. BacklogSound
  BY <1>1, <1>2, <1>3 DEF BacklogSound
<1>11. AlertSound
  BY <1>1 DEF AlertSound, Exists
<1>12. StoringAlone
  BY <1>8, IdleIs DEF StoringAlone
<1>13. AgesSound
  BY <1>1, <1>2, <1>3, <1>4 DEF AgesSound
<1>14. ContentSound
  BY <1>1, <1>3, <1>4, <1>8, IdleIs DEF ContentSound
<1>15. MarksSound
  BY <1>1, <1>2, <1>3, <1>8, IdleIs DEF MarksSound, Holds
<1>16. QED
  BY <1>6, <1>7, <1>8, <1>9, <1>10, <1>11, <1>12, <1>13, <1>14, <1>15 DEF Sound, Typed

\* What keeps a repository, its findings, their evidence and their alerts together while scans
\* of one workspace analyse and store in attempts that overlap: every scan goes one way
\* through, an attempt has done what its place says, and a mark in force, or read by an
\* analysis, is one the findings agree with (RepositoryAnalysisProcessor,
\* runDetectionAndPersist).
THEOREM AnalysisHolds == Spec => []AnalysisInv
<1>1. Init => Sound
  BY InitSound
<1>2. Sound /\ [Next]_vars => Sound'
  BY NextKeeps
<1>3. Sound => AnalysisInv
  BY Parts
<1>4. QED
  BY <1>1, <1>2, <1>3, PTL DEF Spec

\* A repository that leaves the backlog does not drop out of every list (pendingAnalysis,
\* lastSuccessfulScanAt, lastProcessingFailed).
THEOREM BacklogIsKept == Spec => []BacklogKept
<1>1. AnalysisInv => BacklogKept
  BY DEF AnalysisInv, BacklogSound, BacklogKept
<1>2. QED
  BY <1>1, AnalysisHolds, PTL

\* What a later scan will skip as processed at the head has on display what the head shows:
\* at any time, for any number of versions, rulesets, scans and failures, unless a failed
\* request was taken for an empty answer or attempts stored at once (decideRescan, and the
\* marks of upsertRepository).
THEOREM NothingIsMissed == Spec => []NothingMissed
<1>1. AnalysisInv => NothingMissed
  <2>1. SUFFICES ASSUME AnalysisInv, ~disorder, ~swallowed, repo.sha = head, repo.ruleset = ruleset
                 PROVE  Agrees(head)
    BY DEF NothingMissed
  <2>2. Typed /\ AgesSound /\ MarksSound
    BY <2>1, Parts DEF Sound
  <2>3. newest \in Nat /\ head \in Nat /\ head # 0
    BY <2>2, ConstantsAre DEF Typed, HistoryTyped, AnalysisTyped
  <2>4. head <= newest /\ newest <= head
    BY <2>1, <2>2 DEF AgesSound
  <2>5. newest = head
    BY <2>3, <2>4
  <2>6. Holds(repo)
    BY <2>1, <2>2 DEF MarksSound
  <2>7. QED
    BY <2>1, <2>3, <2>5, <2>6 DEF Holds
<1>2. QED
  BY <1>1, AnalysisHolds, PTL

\* A finding has one alert, unless two of its alert jobs overlapped; and at rest, with no
\* failure on the way, every severe finding of the default branch has been alerted
\* (createForFinding, enqueueAlerts).
THEOREM AlertedIsOnce == Spec => []AlertedOnce
<1>1. AnalysisInv => AlertedOnce
  <2>1. SUFFICES ASSUME AnalysisInv PROVE AlertedOnce
    OBVIOUS
  <2>2. AlertSound /\ AlertTyped
    BY <2>1, Parts DEF Sound, Typed
  <2>3. ASSUME Quiet, faults = 0, queue.waiting = {}, \A f \in Fingerprint : creating[f] = 0,
               NEW f \in Fingerprint, Exists(f), f.branch = Default, IsHigh(f)
        PROVE  alerts[f] > 0
    <3>1. \A r \in Run : ~Announcing(r)
      <4>1. SUFFICES ASSUME NEW r \in Run PROVE run[r].at \in {"none", "over"}
        BY DEF Announcing
      <4>2. QED
        BY <2>3, <4>1, RunIs DEF Quiet
    <3>2. ~(creating[f] > 0)
      BY <2>3
    <3>3. QED
      BY <2>2, <2>3, <3>1, <3>2 DEF AlertSound
  <2>4. QED
    BY <2>2, <2>3 DEF AlertSound, AlertedOnce
<1>2. QED
  BY <1>1, AnalysisHolds, PTL

-----------------------------------------------------------------------------
(* What a step may never do.                                                *)

\* Who writes findings, evidence and attempts.
LEMMA Writers ==
  ASSUME [Next]_vars
  PROVE  \/ UNCHANGED <<run, finding, evidence>>
         \/ SaveVerdict
         \/ \E s \in Scan : Detect(s)
         \/ \E r \in Run : Throw(r) \/ Working(r)
<1>1. CASE UNCHANGED vars \/ FindNew \/ Discover \/ Push \/ Deploy
  BY <1>1 DEF vars, findingVars, FindNew, Discover, Push, Deploy
<1>2. ASSUME NEW s \in Scan, AnalysisWork(s) \/ ThrowAnalysis(s) \/ AnalyseBranch(s)
      PROVE  UNCHANGED <<run, finding, evidence>>
  <2>1. CASE Look(s) \/ AskHead(s) \/ Skip(s) \/ CompleteSkipped(s)
    BY <2>1 DEF Look, AskHead, Skip, CompleteSkipped, StoreUntouched
  <2>2. CASE StoreMetadata(s) \/ Fetch(s) \/ EnqueueDetection(s) \/ GiveUpAnalysis(s)
    BY <2>2 DEF StoreMetadata, Fetch, EnqueueDetection, GiveUpAnalysis, StoreUntouched
  <2>3. CASE ThrowAnalysis(s) \/ AnalyseBranch(s)
    BY <2>3 DEF ThrowAnalysis, AnalyseBranch, StoreUntouched
  <2>4. QED
    BY <1>2, <2>1, <2>2, <2>3 DEF AnalysisWork
<1>3. ASSUME NEW s \in Scan, NEW kind \in Kinds, Assign(s, kind)
      PROVE  UNCHANGED <<run, finding, evidence>>
  BY <1>3 DEF Assign, findingVars
<1>4. CASE FindingsNext
  <2>1. ASSUME NEW s \in Scan, GiveUp(s) \/ Cancel(s) \/ TimeOut(s) PROVE UNCHANGED <<run, finding, evidence>>
    BY <2>1 DEF GiveUp, Cancel, TimeOut
  <2>2. ASSUME NEW s \in Scan, NEW n \in Attempt PROVE <<s, n>> \in Run
    BY DEF Run
  <2>3. CASE AlertWork
    BY <2>3 DEF AlertWork, Dispatch, CreateAlert
  <2>4. CASE \/ \E f \in Fingerprint, want \in Status : Judge(f, want)
             \/ \E a \in queue.added : RedeliverAlert(a)
    BY <2>4 DEF Judge, RedeliverAlert
  <2>5. QED
    BY <1>4, <2>1, <2>2, <2>3, <2>4 DEF FindingsNext, FindingsWork
<1>5. QED
  BY <1>1, <1>2, <1>3, <1>4 DEF Next

\* What an attempt at work may write of them.
LEMMA WorkerWrites ==
  ASSUME NEW r \in Run, Working(r)
  PROVE  /\ \/ UNCHANGED <<finding, evidence>>
            \/ Save(r) /\ evidence' = evidence
            \/ (Insert(r) \/ Prune(r)) /\ finding' = finding
            \/ \E f \in run[r].closing : Resolve(r, f) /\ evidence' = evidence
<1>1. CASE Lookup(r) \/ List(r) \/ Mark(r) \/ Complete(r) \/ EnqueueAlert(r)
  BY <1>1 DEF Lookup, List, Mark, Complete, EnqueueAlert
<1>2. CASE Save(r) \/ Insert(r) \/ Prune(r)
  BY <1>2 DEF Save, Insert, Prune
<1>3. CASE \E f \in run[r].closing : Resolve(r, f)
  BY <1>3 DEF Resolve
<1>4. QED
  BY <1>1, <1>2, <1>3 DEF Working

\* An attempt at work writes no other attempt's record.
LEMMA WorkerAlone ==
  ASSUME RunTyped, NEW r \in Run, Working(r) \/ Throw(r), NEW other \in Run, run'[other] # run[other]
  PROVE  other = r
<1>1. SUFFICES ASSUME other # r PROVE run'[other] = run[other]
  OBVIOUS
<1>2. CASE Lookup(r) \/ Insert(r) \/ Prune(r) \/ List(r) \/ Mark(r)
  BY <1>1, <1>2 DEF Lookup, Insert, Prune, List, Mark, GoTo, RunTyped
<1>3. CASE Save(r) \/ Complete(r) \/ EnqueueAlert(r)
  BY <1>1, <1>3 DEF Save, Complete, EnqueueAlert, Fail, Finish, GoTo, RunTyped
<1>4. CASE \E f \in run[r].closing : Resolve(r, f)
  BY <1>1, <1>4 DEF Resolve, RunTyped
<1>5. CASE Throw(r)
  BY <1>1, <1>5 DEF Throw, Fail, RunTyped
<1>6. QED
  BY <1>2, <1>3, <1>4, <1>5 DEF Working

\* Evidence once stored is only lost when attempts overlap (insertMany before deleteMany).
THEOREM EvidenceIsKept == Spec => EvidenceKept
<1>1. AnalysisInv /\ [Next]_vars =>
        \A f \in Fingerprint : (evidence[f] # {} /\ evidence'[f] = {}) =>
          \E r \in Run : /\ run[r].at = "prune" /\ Fp(r) = f
                         /\ IF OnDefault(r) THEN disorder ELSE r \notin evidence[f]
  <2>1. SUFFICES ASSUME AnalysisInv, [Next]_vars, NEW f \in Fingerprint, evidence[f] # {}, evidence'[f] = {}
                 PROVE  \E r \in Run : /\ run[r].at = "prune" /\ Fp(r) = f
                                       /\ IF OnDefault(r) THEN disorder ELSE r \notin evidence[f]
    OBVIOUS
  <2>2. FindingTyped /\ StoringAlone
    BY <2>1, Parts DEF Sound, Typed
  <2>3. \A s \in Scan : Detect(s) => evidence' = evidence
    BY DEF Detect
  <2>4. (SaveVerdict => evidence' = evidence) /\ \A r \in Run : Throw(r) => evidence' = evidence
    BY DEF SaveVerdict, Throw
  <2>5. PICK r \in Run : Insert(r) \/ Prune(r)
    <3>1. evidence' # evidence
      BY <2>1
    <3>2. PICK r \in Run : Working(r)
      BY <2>1, <2>3, <2>4, <3>1, Writers
    <3>3. QED
      BY <3>1, <3>2, WorkerWrites
  <2>6. ~Insert(r)
    BY <2>1, <2>2 DEF Insert, FindingTyped
  <2>7. run[r].at = "prune" /\ evidence' = [evidence EXCEPT ![Fp(r)] = @ \cap {r}]
    BY <2>5, <2>6 DEF Prune
  <2>8. Fp(r) = f /\ r \notin evidence[f]
    BY <2>1, <2>2, <2>7 DEF FindingTyped
  <2>9. OnDefault(r) => disorder
    BY <2>2, <2>7, <2>8 DEF StoringAlone
  <2>10. QED
    BY <2>7, <2>8, <2>9
<1>2. QED
  BY <1>1, AnalysisHolds, PTL DEF Spec, EvidenceKept

\* A FALSE_POSITIVE is only undone by a user, or by an attempt that read the finding before
\* the verdict (updateStatus, resolveMissingFindings, runDetectionAndPersist).
THEOREM VerdictsHold == Spec => VerdictHolds
<1>1. AnalysisInv /\ [Next]_vars =>
        \A f \in Fingerprint :
          (finding[f] = "falsePositive" /\ finding'[f] # "falsePositive") =>
             \/ verdict # NoVerdict /\ verdict' = NoVerdict
             \/ \E r \in Run : \/ f \in run[r].closing
                               \/ run[r].at = "save" /\ Fp(r) = f /\ run[r].known = "resolved"
  <2>1. SUFFICES ASSUME AnalysisInv, [Next]_vars, NEW f \in Fingerprint,
                        finding[f] = "falsePositive", finding'[f] # "falsePositive"
                 PROVE  \/ verdict # NoVerdict /\ verdict' = NoVerdict
                        \/ \E r \in Run : \/ f \in run[r].closing
                                          \/ run[r].at = "save" /\ Fp(r) = f /\ run[r].known = "resolved"
    OBVIOUS
  <2>2. FindingTyped
    BY <2>1, Parts DEF Sound, Typed
  <2>3. finding' # finding
    BY <2>1
  <2>4. (\A s \in Scan : Detect(s) => finding' = finding) /\ (\A r \in Run : Throw(r) => finding' = finding)
    BY DEF Detect, Throw
  <2>5. CASE SaveVerdict
    BY <2>5 DEF SaveVerdict
  <2>6. CASE ~SaveVerdict
    <3>1. PICK r \in Run : Working(r)
      BY <2>1, <2>3, <2>4, <2>6, Writers
    <3>2. Save(r) \/ \E g \in run[r].closing : Resolve(r, g)
      BY <2>3, <3>1, WorkerWrites
    <3>3. CASE Save(r)
      <4>1. run[r].at = "save" /\ finding' = [finding EXCEPT ![Fp(r)] = "open"]
            /\ ~(run[r].known = "none" /\ finding[Fp(r)] # "none")
            /\ (run[r].known = "none" \/ run[r].known = "resolved")
        BY <2>3, <3>3 DEF Save, Reopens
      <4>2. Fp(r) = f
        BY <2>1, <2>2, <4>1 DEF FindingTyped
      <4>3. QED
        BY <2>1, <4>1, <4>2
    <3>4. CASE \E g \in run[r].closing : Resolve(r, g)
      <4>1. PICK g \in run[r].closing : finding' = [finding EXCEPT ![g] = "resolved"]
        BY <3>4 DEF Resolve
      <4>2. g = f
        BY <2>1, <2>2, <4>1 DEF FindingTyped
      <4>3. QED
        BY <4>2
    <3>5. QED
      BY <3>2, <3>3, <3>4
  <2>7. QED
    BY <2>5, <2>6
<1>2. QED
  BY <1>1, AnalysisHolds, PTL DEF Spec, VerdictHolds

\* The analysis of a side branch never touches what was found on the default branch
\* (BranchAnalysisProcessor: its fingerprints carry the branch, and nothing is resolved).
THEOREM BranchesApart == Spec => BranchApart
<1>1. AnalysisInv /\ [Next]_vars =>
        \A r \in Run : (run'[r] # run[r] /\ ~OnDefault(r)) =>
          \A f \in Fingerprint : f.branch = Default =>
             finding'[f] = finding[f] /\ evidence'[f] = evidence[f]
  <2>1. SUFFICES ASSUME AnalysisInv, [Next]_vars, NEW r \in Run, run'[r] # run[r], ~OnDefault(r),
                        NEW f \in Fingerprint, f.branch = Default
                 PROVE  finding'[f] = finding[f] /\ evidence'[f] = evidence[f]
    OBVIOUS
  <2>2. FindingTyped /\ RunTyped /\ RunSound(r)
    BY <2>1, Parts DEF Sound, Typed
  <2>3. Fp(r) # f
    BY <2>1 DEF Fp, OnDefault
  <2>4. run' # run
    BY <2>1
  <2>5. ~SaveVerdict
    BY <2>4 DEF SaveVerdict
  <2>6. CASE \E s \in Scan : Detect(s)
    BY <2>6 DEF Detect
  <2>7. CASE \E x \in Run : Throw(x)
    BY <2>7 DEF Throw
  <2>8. CASE \E x \in Run : Working(x)
    <3>1. Working(r)
      BY <2>1, <2>2, <2>8, WorkerAlone
    <3>2. ~\E g \in run[r].closing : Resolve(r, g)
      BY <2>1, <2>2 DEF Resolve, RunSound
    <3>3. CASE Save(r) /\ evidence' = evidence
      BY <2>2, <2>3, <3>3 DEF Save, FindingTyped
    <3>4. CASE (Insert(r) \/ Prune(r)) /\ finding' = finding
      BY <2>2, <2>3, <3>4 DEF Insert, Prune, FindingTyped
    <3>5. QED
      BY <3>1, <3>2, <3>3, <3>4, WorkerWrites
  <2>9. QED
    BY <2>1, <2>4, <2>5, <2>6, <2>7, <2>8, Writers
<1>2. QED
  BY <1>1, AnalysisHolds, PTL DEF Spec, BranchApart
=============================================================================
