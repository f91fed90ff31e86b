---------------------------- MODULE RotationProofs ----------------------------
(***************************************************************************)
(* The keyword rotation for any number of handlers, keywords and slots:    *)
(* while handlers follow one another there is one scan, with one timer,    *)
(* and it is the current slot's; and whatever they do to one another, no   *)
(* save undoes another's change to the queue.                              *)
(***************************************************************************)
EXTENDS KeywordRotation, SequenceTheorems, WellFoundedInduction, FiniteSetTheorems, TLAPS

-----------------------------------------------------------------------------
(* Sequences of slots.                                                      *)

LEMMA LeastIs ==
  ASSUME NEW I \in SUBSET Nat, I # {}
  PROVE  Min(I) \in I
<1>1. PICK n \in I : \A m \in I : ~ (<<m, n>> \in OpToRel(<, Nat))
  BY NatLessThanWellFounded, WFMin
<1>2. \A m, k \in Nat : <<m, k>> \in OpToRel(<, Nat) <=> m < k
  BY DEF OpToRel
<1>3. ASSUME NEW m \in I PROVE n <= m
  <2>1. m \in Nat /\ n \in Nat
    OBVIOUS
  <2>2. ~ (m < n)
    BY <2>1, <1>1, <1>2
  <2>3. QED
    BY <2>1, <2>2
<1>4. QED
  BY <1>3 DEF Min

LEMMA IndexOfIs ==
  ASSUME NEW doc \in Doc, NEW k \in Queued(doc)
  PROVE  /\ IndexOf(doc, k) \in Nat /\ IndexOf(doc, k) + 1 \in 1 .. Len(doc.slots)
         /\ doc.slots[IndexOf(doc, k) + 1].kw = k
<1> DEFINE I == {i \in 1 .. Len(doc.slots) : doc.slots[i].kw = k}
<1>1. Len(doc.slots) \in Nat /\ DOMAIN doc.slots = 1 .. Len(doc.slots)
  BY LenProperties DEF Doc
<1>2. I \in SUBSET Nat /\ I # {}
  BY <1>1 DEF Queued
<1>3. IndexOf(doc, k) = Min(I) - 1
  BY <1>2 DEF IndexOf, SelectInSeq
<1>4. Min(I) \in I
  <2> HIDE DEF I
  <2>1. QED
    BY <1>2, LeastIs
<1>5. PICK i \in 1 .. Len(doc.slots) : doc.slots[i].kw = k /\ IndexOf(doc, k) = i - 1
  BY <1>3, <1>4
<1>6. i \in Nat /\ IndexOf(doc, k) \in Nat /\ IndexOf(doc, k) + 1 = i
  BY <1>1, <1>5
<1>7. QED
  BY <1>5, <1>6

LEMMA RemovedIs ==
  ASSUME NEW s \in Seq(Slot), NEW i \in 1 .. Len(s)
  PROVE  /\ RemoveAt(s, i) \in Seq(Slot) /\ Len(RemoveAt(s, i)) = Len(s) - 1
         /\ \A n \in 1 .. Len(s) - 1 : RemoveAt(s, i)[n] = IF n < i THEN s[n] ELSE s[n + 1]
<1> DEFINE a == SubSeq(s, 1, i - 1)
           b == SubSeq(s, i + 1, Len(s))
<1>1. Len(s) \in Nat /\ \A n \in 1 .. Len(s) : s[n] \in Slot
  BY LenProperties
<1>2. a \in Seq(Slot) /\ Len(a) = i - 1 /\ \A n \in 1 .. i - 1 : a[n] = s[n]
  BY <1>1, SubSeqProperties
<1>3. b \in Seq(Slot) /\ Len(b) = Len(s) - i /\ \A n \in 1 .. Len(s) - i : b[n] = s[n + i]
  BY <1>1, SubSeqProperties
<1>4. RemoveAt(s, i) = a \o b
  BY DEF RemoveAt
<1> HIDE DEF a, b
<1>5. /\ a \o b \in Seq(Slot) /\ Len(a \o b) = Len(a) + Len(b)
      /\ \A n \in 1 .. Len(a) + Len(b) : (a \o b)[n] = IF n <= Len(a) THEN a[n] ELSE b[n - Len(a)]
  BY <1>2, <1>3, ConcatProperties
<1>6. QED
  BY <1>1, <1>2, <1>3, <1>4, <1>5

-----------------------------------------------------------------------------
(* Documents and copies.                                                    *)

Fields == {"enabled", "slots", "index", "scan", "token", "ext"}

LEMMA ConstantsNat ==
  /\ MaxExtensions \in Nat /\ MaxLen \in Nat /\ MaxRequests \in Nat
  /\ Ids \subseteq Nat \ {0} /\ \A q \in Queues : q \in Seq(Slot) /\ Len(q) \in Nat \ {0}
BY RotationConstantsOK, EmptySeq DEF RotationConstantsOK

LEMMA DocIs ==
  ASSUME NEW doc \in Doc
  PROVE  /\ DOMAIN doc = Fields
         /\ doc.enabled \in BOOLEAN /\ doc.slots \in Seq(Slot) /\ doc.index \in Nat
         /\ doc.scan \in Ids \cup {None} /\ doc.token \in Ids \cup {None}
         /\ doc.ext \in 0 .. MaxExtensions
         /\ Len(doc.slots) \in Nat /\ DOMAIN doc.slots = 1 .. Len(doc.slots)
         /\ \A i \in 1 .. Len(doc.slots) : doc.slots[i] \in Slot
BY LenProperties, ElementOfSeq DEF Doc, Fields

LEMMA BlankIs == Blank \in Doc /\ NoJob \in Job
<1>1. <<>> \in Seq(Slot) /\ 0 \in 0 .. MaxExtensions
  BY ConstantsNat
<1>2. Blank \in Doc
  BY <1>1 DEF Blank, Doc
<1>3. NoJob \in Job
  BY <1>2 DEF NoJob, Load, Job, Label
<1>4. QED
  BY <1>2, <1>3

JobOf(fields) ==
  [op : {"none", "start", "stop", "add", "pause", "resume", "restart", "remove",
         "advance", "watchdog"},
   kws : SUBSET Keyword, doc : Doc, dirty : SUBSET fields,
   stale : BOOLEAN, scan : Ids \cup {None}, token : Ids \cup {None},
   then : Label, at : Nat, left : Nat]

LEMMA JobIs == ASSUME rotation \in Doc PROVE Job = JobOf(Fields)
BY DocIs DEF Job, JobOf

\* What stays of a job when its copy is worked on.
Same(job, next) ==
  /\ next.op = job.op /\ next.kws = job.kws /\ next.stale = job.stale
  /\ next.scan = job.scan /\ next.token = job.token /\ next.then = job.then

LEMMA EditIs ==
  ASSUME NEW job \in JobOf(Fields), NEW doc \in Doc, NEW marked \in SUBSET Fields
  PROVE  /\ Edit(job, doc, marked) \in JobOf(Fields) /\ Edit(job, doc, marked).doc = doc
         /\ Same(job, Edit(job, doc, marked))
         /\ Edit(job, doc, marked).at = job.at /\ Edit(job, doc, marked).left = job.left
         /\ \A f \in Fields : f \in Edit(job, doc, marked).dirty
                                <=> f \in job.dirty \/ f \in marked \/ doc[f] # job.doc[f]
<1>1. DOMAIN doc = Fields
  BY DocIs
<1>2. {f \in DOMAIN doc : doc[f] # job.doc[f]} \in SUBSET Fields
  BY <1>1
<1>3. QED
  BY <1>1, <1>2 DEF Edit, JobOf, Same

LEMMA LoadIs ==
  ASSUME NEW op \in {"none", "start", "stop", "add", "pause", "resume", "restart", "remove",
                     "advance", "watchdog"},
         NEW kws \in SUBSET Keyword, NEW doc \in Doc
  PROVE  /\ Load(op, kws, doc) \in JobOf(Fields) /\ Load(op, kws, doc).doc = doc
         /\ Load(op, kws, doc).op = op /\ Load(op, kws, doc).kws = kws
         /\ Load(op, kws, doc).dirty = {} /\ ~Load(op, kws, doc).stale
         /\ Load(op, kws, doc).left = 0
BY DEF Load, JobOf, Label

LEMMA CancellingIs ==
  ASSUME rotation \in Doc, NEW job \in JobOf(Fields), NEW then \in Label
  PROVE  /\ Cancelling(job, then) \in JobOf(Fields)
         /\ Cancelling(job, then).scan = rotation.scan
         /\ Cancelling(job, then).token = rotation.token
         /\ Cancelling(job, then).then = then
         /\ Cancelling(job, then).op = job.op /\ Cancelling(job, then).kws = job.kws
         /\ Cancelling(job, then).doc = job.doc /\ Cancelling(job, then).dirty = job.dirty
         /\ Cancelling(job, then).stale = job.stale
         /\ Cancelling(job, then).at = job.at /\ Cancelling(job, then).left = job.left
BY DocIs DEF Cancelling, JobOf

LEMMA ModIs ==
  ASSUME NEW a \in Nat, NEW b \in Nat \ {0}
  PROVE  a % b \in Nat /\ a % b < b
OBVIOUS

LEMMA FromSlotIs ==
  ASSUME NEW job \in JobOf(Fields), NEW i \in Nat
  PROVE  /\ FromSlot(job, i) \in JobOf(Fields) /\ Same(job, FromSlot(job, i))
         /\ FromSlot(job, i).doc = job.doc /\ FromSlot(job, i).dirty = job.dirty
         /\ FromSlot(job, i).left > 0 => FromSlot(job, i).at < Len(job.doc.slots)
<1>1. Len(job.doc.slots) \in Nat
  BY DocIs DEF JobOf
<1>2. Len(job.doc.slots) # 0 => /\ i % Len(job.doc.slots) \in Nat
                                /\ i % Len(job.doc.slots) < Len(job.doc.slots)
  BY <1>1, ModIs
<1>3. QED
  BY <1>1, <1>2 DEF FromSlot, JobOf, Same

LEMMA NextSlotIs ==
  ASSUME NEW job \in JobOf(Fields), job.left > 0, job.at < Len(job.doc.slots)
  PROVE  /\ NextSlot(job) \in JobOf(Fields) /\ Same(job, NextSlot(job))
         /\ NextSlot(job).doc = job.doc /\ NextSlot(job).dirty = job.dirty
         /\ NextSlot(job).at < Len(job.doc.slots)
<1>1. Len(job.doc.slots) \in Nat \ {0} /\ job.at \in Nat /\ job.left \in Nat
  BY DocIs DEF JobOf
<1>2. /\ (job.at + 1) % Len(job.doc.slots) \in Nat
      /\ (job.at + 1) % Len(job.doc.slots) < Len(job.doc.slots)
  BY <1>1, ModIs
<1>3. job.left - 1 \in Nat
  BY <1>1
<1>4. NextSlot(job) = [job EXCEPT !.at = (job.at + 1) % Len(job.doc.slots),
                                  !.left = job.left - 1]
  BY DEF NextSlot
<1>5. /\ NextSlot(job) \in JobOf(Fields)
      /\ NextSlot(job).at = (job.at + 1) % Len(job.doc.slots)
  BY <1>2, <1>3, <1>4 DEF JobOf
<1>6. QED
  BY <1>2, <1>4, <1>5 DEF JobOf, Same
-----------------------------------------------------------------------------
(* Steps that save nothing: the handler h goes on to label with job.          *)

LEMMA InvIs ==
  ASSUME RotationInv
  PROVE  /\ rotation \in Doc /\ live \subseteq Scan /\ timers \subseteq Ids
         /\ pc \in [Handler -> Label] /\ my \in [Handler -> JobOf(Fields)]
         /\ requests \in 0 .. MaxRequests /\ disturbed \in BOOLEAN
         /\ \A h \in Handler : Sound(my[h], pc[h]) /\ (~Idle(h) => CopyOf(my[h], pc[h]))
         /\ ~disturbed =>
              /\ \A h, u \in Handler : ~Idle(h) /\ ~Idle(u) => h = u
              /\ Quiet => TurnIs(rotation)
              /\ \A h \in Handler : ~Idle(h) => Alone(my[h], pc[h])
BY JobIs DEF RotationInv, TypeOK

LEMMA JobToo == ASSUME rotation' \in Doc PROVE Job' = JobOf(Fields)
BY DocIs DEF Job, JobOf

LEMMA NoJobIs == NoJob \in JobOf(Fields) /\ Sound(NoJob, "idle")
<1>1. Blank \in Doc
  BY BlankIs
<1>2. NoJob \in JobOf(Fields)
  BY <1>1, LoadIs DEF NoJob
<1>3. Sound(NoJob, "idle")
  BY DEF NoJob, Load, Sound
<1>4. QED
  BY <1>2, <1>3

LEMMA WorkKeeps ==
  ASSUME RotationInv,
         NEW h \in Handler, NEW job \in JobOf(Fields), NEW label \in Label,
         pc' = [pc EXCEPT ![h] = label], my' = [my EXCEPT ![h] = job],
         rotation' = rotation, live' \subseteq Scan, timers' \subseteq Ids,
         requests' \in 0 .. MaxRequests, disturbed' \in BOOLEAN,
         Sound(job, label), label # "idle" => CopyOf(job, label),
         ~disturbed' => /\ ~disturbed /\ \A u \in Handler \ {h} : Idle(u)
                        /\ label = "idle" => TurnIs(rotation)'
                        /\ label # "idle" => Alone(job, label)'
  PROVE  RotationInv'
<1>1. /\ rotation \in Doc /\ pc \in [Handler -> Label] /\ my \in [Handler -> JobOf(Fields)]
      /\ \A u \in Handler : Sound(my[u], pc[u]) /\ (~Idle(u) => CopyOf(my[u], pc[u]))
  BY InvIs
<1>2. /\ pc'[h] = label /\ my'[h] = job
      /\ \A u \in Handler \ {h} : pc'[u] = pc[u] /\ my'[u] = my[u]
  BY <1>1
<1>3. TypeOK'
  <2>1. my' \in [Handler -> JobOf(Fields)] /\ pc' \in [Handler -> Label]
    BY <1>1
  <2>2. Job' = JobOf(Fields)
    BY <1>1, JobToo
  <2>3. QED
    BY <1>1, <2>1, <2>2 DEF TypeOK
<1>4. ASSUME NEW u \in Handler
      PROVE  Sound(my[u], pc[u])' /\ (~Idle(u) => CopyOf(my[u], pc[u]))'
  <2>1. CASE u = h
    <3>1. Sound(my[u], pc[u])'
      BY <1>2, <2>1 DEF Sound
    <3>2. (~Idle(u) => CopyOf(my[u], pc[u]))'
      BY <1>2, <2>1 DEF CopyOf, MayBecome, Queued, Resting, Idle
    <3>3. QED
      BY <3>1, <3>2
  <2>2. CASE u # h
    <3>1. Sound(my[u], pc[u])'
      BY <1>1, <1>2, <2>2 DEF Sound
    <3>2. (~Idle(u) => CopyOf(my[u], pc[u]))'
      BY <1>1, <1>2, <2>2 DEF CopyOf, MayBecome, Queued, Resting, Idle
    <3>3. QED
      BY <3>1, <3>2
  <2>3. QED
    BY <2>1, <2>2
<1>5. ASSUME ~disturbed'
      PROVE  /\ \A u, w \in Handler : ~Idle(u)' /\ ~Idle(w)' => u = w
             /\ (Quiet => TurnIs(rotation))'
             /\ \A u \in Handler : ~Idle(u)' => Alone(my[u], pc[u])'
  <2>1. \A u \in Handler \ {h} : Idle(u)'
    BY <1>2, <1>5 DEF Idle
  <2>2. (Quiet => TurnIs(rotation))'
    BY <1>2, <1>5 DEF Quiet, Idle
  <2>3. ~Idle(h)' => Alone(my[h], pc[h])'
    <3>1. Idle(h)' <=> label = "idle"
      BY <1>2 DEF Idle
    <3>2. Alone(job, label)' => Alone(my[h], pc[h])'
      BY <1>2 DEF Alone, Phase
    <3>3. QED
      BY <3>1, <3>2, <1>5
  <2>4. QED
    BY <2>1, <2>2, <2>3
<1>6. QED
  BY <1>3, <1>4, <1>5 DEF RotationInv

\* A handler at work that is not disturbed is the only one, and what is said of it
\* when it is alone holds.
LEMMA AtWork ==
  ASSUME RotationInv, NEW h \in Handler, ~Idle(h)
  PROVE  /\ my[h] \in JobOf(Fields) /\ my[h].doc \in Doc /\ pc[h] \in Label
         /\ Sound(my[h], pc[h]) /\ CopyOf(my[h], pc[h])
         /\ ~disturbed => /\ \A u \in Handler \ {h} : Idle(u)
                          /\ Alone(my[h], pc[h])
<1>1. my[h] \in JobOf(Fields) /\ pc[h] \in Label
  BY InvIs
<1>2. my[h].doc \in Doc
  BY <1>1 DEF JobOf
<1>3. QED
  BY <1>1, <1>2, InvIs

LEMMA MoveKeeps ==
  ASSUME RotationInv, NEW h \in Handler, ~Idle(h),
         NEW job \in JobOf(Fields), NEW label \in Label,
         Move(h, job, label),
         rotation' = rotation, live' \subseteq Scan, timers' \subseteq Ids,
         requests' = requests, disturbed' \in BOOLEAN, disturbed => disturbed',
         label # "idle" => Sound(job, label) /\ CopyOf(job, label),
         ~disturbed' => /\ label = "idle" => TurnIs(rotation)'
                        /\ label # "idle" => Alone(job, label)'
  PROVE  RotationInv'
<1>1. PICK next \in JobOf(Fields) : next = IF label = "idle" THEN NoJob ELSE job
  BY NoJobIs
<1>2. /\ my' = [my EXCEPT ![h] = next] /\ pc' = [pc EXCEPT ![h] = label]
      /\ label # "idle" => next = job
  BY <1>1 DEF Move
<1>3. Sound(next, label)
  BY <1>1, NoJobIs
<1>4. requests' \in 0 .. MaxRequests
  BY InvIs
<1>5. ~disturbed' => ~disturbed /\ \A u \in Handler \ {h} : Idle(u)
  BY AtWork
<1>6. label # "idle" => CopyOf(next, label)
  BY <1>2
<1>7. ~disturbed' => (label # "idle" => Alone(next, label)')
  BY <1>2
<1>8. QED
  BY <1>2, <1>3, <1>4, <1>5, <1>6, <1>7, WorkKeeps

-----------------------------------------------------------------------------
(* Each step of a handler in flight that saves nothing.                      *)

\* Nothing of a copy is changed but where its lap has come to.
Lap(job, next) == Same(job, next) /\ next.doc = job.doc /\ next.dirty = job.dirty

LEMMA LapKeeps ==
  ASSUME NEW job \in JobOf(Fields), NEW next \in JobOf(Fields), Lap(job, next),
         NEW label, NEW to, to # "push", label # "push", CopyOf(job, label)
  PROVE  CopyOf(next, to)
BY DEF CopyOf, MayBecome, Lap, Same

\* Nor of its slots.
LEMMA SlotsKeep ==
  ASSUME NEW job \in JobOf(Fields), NEW next \in JobOf(Fields), Same(job, next),
         next.doc.slots = job.doc.slots, "slots" \in next.dirty <=> "slots" \in job.dirty,
         NEW label, NEW to, to # "push", label # "push", CopyOf(job, label)
  PROVE  CopyOf(next, to)
<1>1. Queued(next.doc) = Queued(job.doc) /\ Resting(next.doc) = Resting(job.doc)
  BY DEF Queued, Resting
<1>2. MayBecome(rotation, job.doc, job) => MayBecome(rotation, next.doc, next)
  BY <1>1 DEF MayBecome, Same
<1>3. QED
  BY <1>2 DEF CopyOf, Same

LEMMA UsedIs ==
  ASSUME Ids \ Used # {}
  PROVE  Fresh \in Ids
BY DEF Fresh

LEMMA ExtendKeeps ==
  ASSUME RotationInv, NEW h \in Handler, Extend(h)
  PROVE  RotationInv'
<1> DEFINE doc == my[h].doc
<1>1. /\ ~Idle(h) /\ pc[h] = "quota" /\ Ids \ Used # {} /\ doc.ext < MaxExtensions
  BY DEF Extend, Idle
<1>2. /\ my[h] \in JobOf(Fields) /\ doc \in Doc /\ Sound(my[h], pc[h]) /\ CopyOf(my[h], pc[h])
      /\ ~disturbed => Alone(my[h], pc[h])
  BY <1>1, AtWork
<1>3. PICK id \in Ids : id = Fresh
  BY <1>1, UsedIs
<1>4. PICK new : new = [doc EXCEPT !.token = id, !.ext = doc.ext + 1]
  OBVIOUS
<1>5. /\ new \in Doc /\ new.slots = doc.slots /\ new.enabled = doc.enabled
      /\ new.index = doc.index /\ new.scan = doc.scan /\ new.token = id
  <2>1. doc.ext + 1 \in 0 .. MaxExtensions
    BY <1>1, <1>2, DocIs, ConstantsNat
  <2>2. QED
    BY <1>2, <1>4, <2>1 DEF Doc
<1>6. PICK job : job = Edit(my[h], new, {})
  OBVIOUS
<1>7. /\ job \in JobOf(Fields) /\ job.doc = new /\ Same(my[h], job)
      /\ job.at = my[h].at /\ job.left = my[h].left
      /\ \A f \in Fields : f \in job.dirty <=> f \in my[h].dirty \/ new[f] # doc[f]
  BY <1>2, <1>5, <1>6, EditIs
<1>8. Move(h, job, "saveExtension")
  BY <1>3, <1>4, <1>6 DEF Extend
<1>9. Sound(job, "saveExtension")
  BY <1>2, <1>1, <1>5, <1>7 DEF Sound, Same
<1>10. CopyOf(job, "saveExtension")
  <2>1. "slots" \in job.dirty <=> "slots" \in my[h].dirty
    BY <1>5, <1>7 DEF Fields
  <2>2. QED
    BY <1>1, <1>2, <1>5, <1>7, <2>1, SlotsKeep
<1>11. ASSUME ~disturbed' PROVE Alone(job, "saveExtension")'
  <2>1. ~disturbed /\ rotation' = rotation /\ live' = live /\ timers' = timers
    BY <1>11 DEF Extend
  <2>2. Alone(my[h], "quota")
    BY <1>1, <1>2, <2>1
  <2>3. /\ ~job.stale /\ Runs(rotation) /\ rotation.enabled /\ Placed(rotation)
        /\ timers = {} /\ doc = rotation
    BY <2>2, <1>7 DEF Alone, Phase, Same
  <2>4. Phase(job, "saveExtension")'
    BY <2>1, <2>3, <1>5, <1>7 DEF Phase, Runs, Placed
  <2>5. \A f \in Fields \ job.dirty : job.doc[f] = rotation[f]
    BY <2>3, <1>7
  <2>6. DOMAIN rotation = Fields
    BY DocIs, InvIs
  <2>7. QED
    BY <2>1, <2>3, <2>4, <2>5, <2>6 DEF Alone
<1>12. "saveExtension" \in Label
  BY DEF Label, SaveLabel
<1>13. /\ rotation' = rotation /\ live' \subseteq Scan /\ timers' \subseteq Ids
       /\ requests' = requests /\ disturbed' \in BOOLEAN /\ (disturbed => disturbed')
  BY InvIs DEF Extend
<1>14. QED
  BY <1>1, <1>7, <1>8, <1>9, <1>10, <1>11, <1>12, <1>13, MoveKeeps

LEMMA CancelKeeps ==
  ASSUME RotationInv, NEW h \in Handler, cancelCurrentSlot(h)
  PROVE  RotationInv'
<1>1. PICK job : job = my[h]
  OBVIOUS
<1>2. PICK to : to = job.then
  OBVIOUS
<1>3. /\ ~Idle(h) /\ pc[h] = "cancel" /\ Move(h, job, to)
  BY <1>1, <1>2 DEF cancelCurrentSlot, Idle
<1>4. /\ job \in JobOf(Fields) /\ Sound(job, "cancel") /\ CopyOf(job, "cancel")
      /\ ~disturbed => Alone(job, "cancel")
  BY <1>1, <1>3, AtWork
<1>5. to \in {"try", "saveThenTry", "save"}
  BY <1>2, <1>4 DEF Sound
<1>6. Sound(job, to) /\ to \in Label
  BY <1>4, <1>5 DEF Sound, Label, SaveLabel
<1>7. CopyOf(job, to)
  BY <1>4, <1>5 DEF CopyOf
<1>8. /\ rotation' = rotation /\ requests' = requests /\ disturbed' = disturbed
      /\ live' = {l \in live : l.id # job.scan} /\ timers' = timers \ {job.token}
  BY <1>1 DEF cancelCurrentSlot
<1>9. ASSUME ~disturbed' PROVE Alone(job, to)'
  <2>1. Alone(job, "cancel")
    BY <1>4, <1>8, <1>9
  <2>2. /\ Runs(rotation) /\ job.scan = rotation.scan /\ timers \subseteq {job.token}
        /\ job.doc.enabled <=> to # "save"
    BY <2>1, <1>2 DEF Alone, Phase
  <2>3. live' = {} /\ timers' = {}
    BY <2>2, <1>8 DEF Runs
  <2>4. Phase(job, to)'
    BY <1>5, <2>2, <2>3 DEF Phase, Nothing, TurnIs, Runs, Placed, Timed
  <2>5. QED
    BY <2>1, <2>4, <1>8 DEF Alone
<1>10. live' \subseteq Scan /\ timers' \subseteq Ids /\ disturbed' \in BOOLEAN
  BY <1>8, InvIs
<1>11. to # "idle"
  BY <1>5
<1>12. QED
  BY <1>3, <1>4, <1>6, <1>7, <1>8, <1>9, <1>10, <1>11, MoveKeeps

LEMMA SkipKeeps ==
  ASSUME RotationInv, NEW h \in Handler, SkipSlot(h)
  PROVE  RotationInv'
<1>1. /\ ~Idle(h) /\ pc[h] = "try" /\ my[h].left > 0
  BY DEF SkipSlot, Idle
<1>2. /\ my[h] \in JobOf(Fields) /\ Sound(my[h], "try") /\ CopyOf(my[h], "try")
      /\ ~disturbed => Alone(my[h], "try")
  BY <1>1, AtWork
<1>3. PICK job : job = NextSlot(my[h])
  OBVIOUS
<1>4. job \in JobOf(Fields) /\ Lap(my[h], job) /\ job.at < Len(job.doc.slots)
  BY <1>1, <1>2, <1>3, NextSlotIs DEF Sound, Lap
<1>5. Move(h, job, "try")
  BY <1>3 DEF SkipSlot
<1>6. Sound(job, "try")
  BY <1>2, <1>4 DEF Sound, Lap, Same
<1>7. CopyOf(job, "try")
  BY <1>2, <1>4, LapKeeps
<1>8. /\ rotation' = rotation /\ live' = live /\ timers' = timers
      /\ requests' = requests /\ disturbed' = disturbed
  BY DEF SkipSlot
<1>9. ASSUME ~disturbed' PROVE Alone(job, "try")'
  BY <1>2, <1>4, <1>8, <1>9 DEF Alone, Phase, Lap, Same, Nothing
<1>10. live' \subseteq Scan /\ timers' \subseteq Ids /\ disturbed' \in BOOLEAN
  BY <1>8, InvIs
<1>11. "try" \in Label /\ "try" # "idle"
  BY DEF Label
<1>12. QED
  BY <1>1, <1>4, <1>5, <1>6, <1>7, <1>8, <1>9, <1>10, <1>11, MoveKeeps

LEMMA TryKeeps ==
  ASSUME RotationInv, NEW h \in Handler, TrySlot(h)
  PROVE  RotationInv'
<1>1. PICK job : job = my[h]
  OBVIOUS
<1>2. /\ ~Idle(h) /\ pc[h] = "try" /\ job.left > 0 /\ Move(h, job, "create")
      /\ ~job.doc.slots[job.at + 1].paused
  BY <1>1 DEF TrySlot, Idle
<1>3. /\ job \in JobOf(Fields) /\ Sound(job, "try") /\ CopyOf(job, "try")
      /\ ~disturbed => Alone(job, "try")
  BY <1>1, <1>2, AtWork
<1>4. Sound(job, "create") /\ CopyOf(job, "create")
  BY <1>2, <1>3 DEF Sound, CopyOf
<1>5. /\ rotation' = rotation /\ live' = live /\ timers' = timers
      /\ requests' = requests /\ disturbed' = disturbed
  BY DEF TrySlot
<1>6. ASSUME ~disturbed' PROVE Alone(job, "create")'
  BY <1>2, <1>3, <1>5, <1>6 DEF Alone, Phase, Nothing
<1>7. live' \subseteq Scan /\ timers' \subseteq Ids /\ disturbed' \in BOOLEAN
  BY <1>5, InvIs
<1>8. "create" \in Label /\ "create" # "idle"
  BY DEF Label
<1>9. QED
  BY <1>2, <1>3, <1>4, <1>5, <1>6, <1>7, <1>8, MoveKeeps

LEMMA CreateKeeps ==
  ASSUME RotationInv, NEW h \in Handler, CreateScan(h)
  PROVE  RotationInv'
<1> DEFINE doc == my[h].doc
           slot == doc.slots[my[h].at + 1]
<1>1. /\ ~Idle(h) /\ pc[h] = "create" /\ Ids \ Used # {}
  BY DEF CreateScan, Idle
<1>2. /\ my[h] \in JobOf(Fields) /\ doc \in Doc /\ Sound(my[h], "create")
      /\ CopyOf(my[h], "create")
      /\ ~disturbed => Alone(my[h], "create")
  BY <1>1, AtWork
<1>3. PICK id \in Ids : id = Fresh
  BY <1>1, UsedIs
<1>4. PICK at \in Nat : at = my[h].at
  BY <1>2 DEF JobOf
<1>5. at < Len(doc.slots) /\ at + 1 \in 1 .. Len(doc.slots) /\ slot \in Slot
  <2>1. at < Len(doc.slots) /\ Len(doc.slots) \in Nat
    BY <1>2, <1>4, DocIs DEF Sound
  <2>2. at + 1 \in 1 .. Len(doc.slots)
    BY <2>1
  <2>3. QED
    BY <2>1, <2>2, <1>2, <1>4, DocIs
<1>6. PICK new : new = [doc EXCEPT !.index = at, !.scan = id, !.token = id, !.ext = 0]
  OBVIOUS
<1>7. /\ new \in Doc /\ new.slots = doc.slots /\ new.enabled = doc.enabled
      /\ new.index = at /\ new.scan = id /\ new.token = id
  <2>1. 0 \in 0 .. MaxExtensions
    BY ConstantsNat
  <2>2. QED
    BY <1>2, <1>6, <2>1 DEF Doc
<1>8. PICK job : job = Edit(my[h], new, {})
  OBVIOUS
<1>9. /\ job \in JobOf(Fields) /\ job.doc = new /\ Same(my[h], job)
      /\ job.at = my[h].at /\ job.left = my[h].left
      /\ \A f \in Fields : f \in job.dirty <=> f \in my[h].dirty \/ new[f] # doc[f]
  BY <1>2, <1>7, <1>8, EditIs
<1>10. Move(h, job, "saveTurn") /\ live' = live \cup {[id |-> id, kw |-> slot.kw]}
  BY <1>3, <1>4, <1>6, <1>8 DEF CreateScan
<1>11. Sound(job, "saveTurn")
  BY <1>2, <1>7, <1>9 DEF Sound, Same
<1>12. CopyOf(job, "saveTurn")
  <2>1. "slots" \in job.dirty <=> "slots" \in my[h].dirty
    BY <1>7, <1>9 DEF Fields
  <2>2. QED
    BY <1>2, <1>7, <1>9, <2>1, SlotsKeep
<1>13. /\ rotation' = rotation /\ timers' = timers
       /\ requests' = requests /\ disturbed' = disturbed
  BY DEF CreateScan
<1>14. ASSUME ~disturbed' PROVE Alone(job, "saveTurn")'
  <2>1. Alone(my[h], "create")
    BY <1>2, <1>13, <1>14
  <2>2. /\ ~my[h].stale /\ live = {} /\ timers = {} /\ doc.enabled /\ ~slot.paused
        /\ \A f \in DOMAIN rotation \ my[h].dirty : doc[f] = rotation[f]
    BY <2>1 DEF Alone, Phase, Nothing
  <2>3. live' = {[id |-> id, kw |-> slot.kw]}
    BY <2>2, <1>10
  <2>4. slot = [kw |-> slot.kw, paused |-> FALSE]
    BY <2>2, <1>5 DEF Slot
  <2>5. (Runs(job.doc) /\ Placed(job.doc) /\ job.doc.enabled /\ timers = {})'
    <3>1. /\ new.enabled /\ new.scan = id /\ new.index < Len(new.slots)
          /\ new.slots[new.index + 1] = slot
      <4>1. new.enabled
        BY <1>7, <2>2
      <4>2. new.slots[new.index + 1] = slot
        BY <1>4, <1>7
      <4>3. new.scan = id /\ new.index < Len(new.slots)
        BY <1>5, <1>7
      <4>4. QED
        BY <4>1, <4>2, <4>3
    <3> HIDE DEF slot
    <3>2. \A l \in live' : l.id = id /\ [kw |-> l.kw, paused |-> FALSE] = slot
      BY <2>3, <2>4
    <3>3. QED
      BY <1>9, <1>13, <2>2, <3>1, <3>2 DEF Runs, Placed
  <2>6. Phase(job, "saveTurn")'
    BY <2>5 DEF Phase
  <2>7. \A f \in Fields \ job.dirty : job.doc[f] = rotation[f]
    <3>1. DOMAIN rotation = Fields
      BY DocIs, InvIs
    <3>2. QED
      BY <3>1, <2>2, <1>9
  <2>8. DOMAIN rotation' = Fields
    BY <1>13, DocIs, InvIs
  <2>9. QED
    BY <2>2, <2>6, <2>7, <2>8, <1>9, <1>13 DEF Alone, Same
<1>15. live' \subseteq Scan /\ timers' \subseteq Ids /\ disturbed' \in BOOLEAN
  <2>1. [id |-> id, kw |-> slot.kw] \in Scan
    BY <1>5 DEF Scan, Slot
  <2>2. QED
    BY <2>1, <1>10, <1>13, InvIs
<1>16. "saveTurn" \in Label /\ "saveTurn" # "idle"
  BY DEF Label, SaveLabel
<1>17. QED
  BY <1>1, <1>9, <1>10, <1>11, <1>12, <1>13, <1>14, <1>15, <1>16, MoveKeeps

LEMMA NothingKeeps ==
  ASSUME RotationInv, NEW h \in Handler, NothingToRun(h)
  PROVE  RotationInv'
<1> DEFINE doc == my[h].doc
<1>1. /\ ~Idle(h) /\ pc[h] = "try" /\ my[h].left = 0
  BY DEF NothingToRun, Idle
<1>2. /\ my[h] \in JobOf(Fields) /\ doc \in Doc /\ Sound(my[h], "try")
      /\ CopyOf(my[h], "try")
      /\ ~disturbed => Alone(my[h], "try")
  BY <1>1, AtWork
<1>3. PICK new : new = Cleared(doc)
  OBVIOUS
<1>4. new \in Doc /\ new.slots = doc.slots /\ ~new.enabled
  BY <1>2, <1>3 DEF Doc, Cleared
<1>5. PICK job : job = Edit(my[h], new, {})
  OBVIOUS
<1>6. /\ job \in JobOf(Fields) /\ job.doc = new /\ Same(my[h], job)
      /\ job.at = my[h].at /\ job.left = my[h].left
      /\ \A f \in Fields : f \in job.dirty <=> f \in my[h].dirty \/ new[f] # doc[f]
  BY <1>2, <1>4, <1>5, EditIs
<1>7. Move(h, job, "disable")
  BY <1>3, <1>5 DEF NothingToRun
<1>8. Sound(job, "disable")
  BY <1>1, <1>2, <1>6 DEF Sound, Same
<1>9. CopyOf(job, "disable")
  <2>1. "slots" \in job.dirty <=> "slots" \in my[h].dirty
    BY <1>4, <1>6 DEF Fields
  <2>2. QED
    BY <1>2, <1>4, <1>6, <2>1, SlotsKeep
<1>10. /\ rotation' = rotation /\ live' = live /\ timers' = timers
       /\ requests' = requests /\ disturbed' = disturbed
  BY DEF NothingToRun
<1>11. ASSUME ~disturbed' PROVE Alone(job, "disable")'
  <2>1. Alone(my[h], "try")
    BY <1>2, <1>10, <1>11
  <2>2. /\ ~my[h].stale /\ live = {} /\ timers = {}
        /\ \A f \in DOMAIN rotation \ my[h].dirty : doc[f] = rotation[f]
    BY <2>1 DEF Alone, Phase, Nothing
  <2>3. Phase(job, "disable")'
    BY <2>2, <1>4, <1>6, <1>10 DEF Phase, TurnIs, Runs, Placed, Timed
  <2>4. DOMAIN rotation = Fields
    BY DocIs, InvIs
  <2>5. \A f \in Fields \ job.dirty : job.doc[f] = rotation[f]
    BY <2>2, <2>4, <1>6
  <2>6. QED
    BY <2>2, <2>3, <2>4, <2>5, <1>6, <1>10 DEF Alone, Same
<1>12. live' \subseteq Scan /\ timers' \subseteq Ids /\ disturbed' \in BOOLEAN
  BY <1>10, InvIs
<1>13. "disable" \in Label /\ "disable" # "idle"
  BY DEF Label, SaveLabel
<1>14. QED
  BY <1>1, <1>6, <1>7, <1>8, <1>9, <1>10, <1>11, <1>12, <1>13, MoveKeeps

\* What a failure leads to is sound, and it ends or goes on with the lap.
LEMMA FailIs ==
  ASSUME RotationInv, NEW h \in Handler, ~Idle(h), pc[h] # "push", Fail(h)
  PROVE  \E job \in JobOf(Fields), to \in {"try", "idle"} :
           /\ Move(h, job, to)
           /\ to = "try" => Sound(job, to) /\ CopyOf(job, to)
<1>1. my[h] \in JobOf(Fields) /\ Sound(my[h], pc[h]) /\ CopyOf(my[h], pc[h])
  BY AtWork
<1>2. CASE Move(h, my[h], "idle")
  BY <1>1, <1>2
<1>3. ASSUME my[h].left > 0, Move(h, NextSlot(my[h]), "try")
      PROVE  \E job \in JobOf(Fields) : /\ Move(h, job, "try")
                                        /\ Sound(job, "try") /\ CopyOf(job, "try")
  <2>1. PICK job : job = NextSlot(my[h])
    OBVIOUS
  <2>2. job \in JobOf(Fields) /\ Lap(my[h], job) /\ job.at < Len(job.doc.slots)
    BY <1>1, <1>3, <2>1, NextSlotIs DEF Sound, Lap
  <2>3. Sound(job, "try")
    BY <1>1, <2>2 DEF Sound, Lap, Same
  <2>4. CopyOf(job, "try")
    BY <1>1, <2>2, LapKeeps
  <2>5. QED
    BY <1>3, <2>1, <2>2, <2>3, <2>4
<1>4. QED
  BY <1>2, <1>3 DEF Fail

\* Once handlers have overlapped or one has failed, a failure asks no more.
LEMMA FailKeeps ==
  ASSUME RotationInv, NEW h \in Handler, ~Idle(h), pc[h] # "push", Fail(h), disturbed',
         rotation' = rotation, live' = live, timers' = timers, requests' = requests
  PROVE  RotationInv'
<1>1. PICK job \in JobOf(Fields), to \in {"try", "idle"} :
        /\ Move(h, job, to)
        /\ to = "try" => Sound(job, to) /\ CopyOf(job, to)
  BY FailIs
<1>2. to \in Label
  BY DEF Label
<1>3. live' \subseteq Scan /\ timers' \subseteq Ids /\ disturbed' \in BOOLEAN
  BY InvIs
<1>4. QED
  BY <1>1, <1>2, <1>3, MoveKeeps

LEMMA VersionErrorKeeps ==
  ASSUME RotationInv, NEW h \in Handler, VersionError(h)
  PROVE  RotationInv'
<1>1. /\ ~Idle(h) /\ pc[h] # "push" /\ my[h].stale /\ Fail(h)
      /\ rotation' = rotation /\ live' = live /\ timers' = timers
      /\ requests' = requests /\ disturbed' = disturbed
  BY DEF VersionError, VersionConflict, SaveLabel, Idle
<1>2. disturbed
  BY <1>1, AtWork DEF Alone
<1>3. QED
  BY <1>1, <1>2, FailKeeps

LEMMA AddTimerKeeps ==
  ASSUME RotationInv, NEW h \in Handler, AddTimer(h)
  PROVE  RotationInv'
<1>1. PICK job : job = my[h]
  OBVIOUS
<1>2. /\ ~Idle(h) /\ pc[h] = "addTimer" /\ Move(h, job, "idle")
      /\ timers' = timers \cup {job.doc.token}
      /\ rotation' = rotation /\ live' = live
      /\ requests' = requests /\ disturbed' = disturbed
  BY <1>1 DEF AddTimer, Idle
<1>3. /\ job \in JobOf(Fields) /\ Sound(job, "addTimer")
      /\ ~disturbed => Alone(job, "addTimer")
  BY <1>1, <1>2, AtWork
<1>4. live' \subseteq Scan /\ timers' \subseteq Ids /\ disturbed' \in BOOLEAN
  BY <1>2, <1>3, InvIs DEF Sound
<1>5. ASSUME ~disturbed' PROVE TurnIs(rotation)'
  <2>1. Alone(job, "addTimer")
    BY <1>2, <1>3, <1>5
  <2>2. /\ Runs(rotation) /\ Placed(rotation) /\ rotation.enabled /\ timers = {}
        /\ job.doc = rotation
    BY <2>1 DEF Alone, Phase
  <2>3. QED
    BY <2>2, <1>2 DEF TurnIs, Runs, Placed, Timed
<1>6. "idle" \in Label
  BY DEF Label
<1>7. QED
  BY <1>2, <1>3, <1>4, <1>5, <1>6, MoveKeeps

-----------------------------------------------------------------------------
(* What may become of a queue.                                              *)

LEMMA PausedIs ==
  ASSUME NEW doc \in Doc, NEW i \in Nat, i + 1 \in 1 .. Len(doc.slots), NEW p \in BOOLEAN
  PROVE  /\ SetPaused(doc, i, p) \in Doc
         /\ \A f \in Fields \ {"slots"} : SetPaused(doc, i, p)[f] = doc[f]
         /\ Len(SetPaused(doc, i, p).slots) = Len(doc.slots)
         /\ \A n \in 1 .. Len(doc.slots) :
              SetPaused(doc, i, p).slots[n] =
                [kw |-> doc.slots[n].kw, paused |-> IF n = i + 1 THEN p ELSE doc.slots[n].paused]
<1>1. /\ doc.slots \in Seq(Slot) /\ Len(doc.slots) \in Nat
      /\ \A n \in 1 .. Len(doc.slots) : doc.slots[n] \in Slot
  BY DocIs
<1>2. PICK slot : slot = [doc.slots[i + 1] EXCEPT !.paused = p]
  OBVIOUS
<1>3. slot \in Slot /\ slot = [kw |-> doc.slots[i + 1].kw, paused |-> p]
  BY <1>1, <1>2 DEF Slot
<1>4. PICK new : new = [doc.slots EXCEPT ![i + 1] = slot]
  OBVIOUS
<1>5. /\ new \in Seq(Slot) /\ Len(new) = Len(doc.slots)
      /\ \A n \in 1 .. Len(doc.slots) : new[n] = IF n = i + 1 THEN slot ELSE doc.slots[n]
  BY <1>1, <1>3, <1>4, ExceptSeq
<1>6. SetPaused(doc, i, p) = [doc EXCEPT !.slots = new]
  BY <1>2, <1>4 DEF SetPaused
<1>7. /\ SetPaused(doc, i, p) \in Doc /\ SetPaused(doc, i, p).slots = new
      /\ \A f \in Fields \ {"slots"} : SetPaused(doc, i, p)[f] = doc[f]
  BY <1>5, <1>6 DEF Doc, Fields
<1>8. \A n \in 1 .. Len(doc.slots) :
        doc.slots[n] = [kw |-> doc.slots[n].kw, paused |-> doc.slots[n].paused]
  BY <1>1 DEF Slot
<1>9. QED
  BY <1>3, <1>5, <1>7, <1>8

LEMMA RestingIs ==
  ASSUME NEW doc \in Doc, NEW k
  PROVE  /\ k \in Queued(doc) <=> \E n \in 1 .. Len(doc.slots) : doc.slots[n].kw = k
         /\ k \in Resting(doc) <=>
              /\ k \in Queued(doc)
              /\ \A n \in 1 .. Len(doc.slots) : doc.slots[n].kw = k => doc.slots[n].paused
<1>1. DOMAIN doc.slots = 1 .. Len(doc.slots)
  BY DocIs
<1>2. QED
  BY <1>1 DEF Queued, Resting

\* A slot that is paused, by whatever handler, is nobody's that was not before; and one
\* that is not is the keyword's the request names.
LEMMA PausedMay ==
  ASSUME NEW old, NEW doc \in Doc, NEW i \in Nat, i + 1 \in 1 .. Len(doc.slots),
         NEW p \in BOOLEAN, NEW job, MayBecome(old, doc, job),
         ~p => job.op = "resume" /\ doc.slots[i + 1].kw \in job.kws
  PROVE  MayBecome(old, SetPaused(doc, i, p), job)
<1>1. PICK new : new = SetPaused(doc, i, p)
  OBVIOUS
<1>2. /\ new \in Doc /\ Len(new.slots) = Len(doc.slots)
      /\ \A n \in 1 .. Len(doc.slots) :
           /\ new.slots[n].kw = doc.slots[n].kw
           /\ new.slots[n].paused = IF n = i + 1 THEN p ELSE doc.slots[n].paused
  <2>1. /\ new \in Doc /\ Len(new.slots) = Len(doc.slots)
        /\ \A n \in 1 .. Len(doc.slots) :
             new.slots[n] =
               [kw |-> doc.slots[n].kw, paused |-> IF n = i + 1 THEN p ELSE doc.slots[n].paused]
    BY <1>1, PausedIs
  <2>2. ASSUME NEW n \in 1 .. Len(doc.slots)
        PROVE  /\ new.slots[n].kw = doc.slots[n].kw
               /\ new.slots[n].paused = IF n = i + 1 THEN p ELSE doc.slots[n].paused
    <3>1. new.slots[n] =
            [kw |-> doc.slots[n].kw, paused |-> IF n = i + 1 THEN p ELSE doc.slots[n].paused]
      BY <2>1
    <3>2. QED
      BY <3>1
  <2>3. QED
    BY <2>1, <2>2
<1>3. \A k : k \in Queued(new) <=> k \in Queued(doc)
  <2>1. TAKE k
  <2>2. k \in Queued(new) <=> \E n \in 1 .. Len(new.slots) : new.slots[n].kw = k
    BY <1>2, RestingIs
  <2>3. k \in Queued(doc) <=> \E n \in 1 .. Len(doc.slots) : doc.slots[n].kw = k
    BY RestingIs
  <2>4. QED
    BY <1>2, <2>2, <2>3
<1>4. ASSUME NEW k, k \in Resting(doc), k \notin Resting(new)
      PROVE  ~p /\ doc.slots[i + 1].kw = k
  <2>1. \A n \in 1 .. Len(doc.slots) : doc.slots[n].kw = k => doc.slots[n].paused
    BY <1>4, RestingIs
  <2>2. k \in Queued(new)
    BY <1>3, <1>4, RestingIs
  <2>3. PICK n \in 1 .. Len(new.slots) : new.slots[n].kw = k /\ ~new.slots[n].paused
    BY <1>2, <1>4, <2>2, RestingIs
  <2>4. QED
    BY <1>2, <2>1, <2>3
<1>5. QED
  BY <1>1, <1>3, <1>4 DEF MayBecome

LEMMA SameMay ==
  ASSUME NEW old, NEW new, NEW job, old.slots = new.slots
  PROVE  MayBecome(old, new, job)
BY DEF MayBecome, Queued, Resting

LEMMA MayStill ==
  ASSUME NEW old, NEW new, NEW doc, NEW job, NEW other, MayBecome(old, doc, job),
         new.slots = old.slots, other.op = job.op, other.kws = job.kws
  PROVE  MayBecome(new, doc, other)
<1>1. Queued(new) = Queued(old) /\ Resting(new) = Resting(old)
  BY DEF Queued, Resting
<1>2. QED
  BY <1>1 DEF MayBecome

\* What remains of a queue without one slot.
LEMMA RemovedMay ==
  ASSUME NEW old \in Doc, NEW new \in Doc, NEW i \in 1 .. Len(old.slots),
         new.slots = RemoveAt(old.slots, i),
         NEW job, job.op = "remove", old.slots[i].kw \in job.kws
  PROVE  MayBecome(old, new, job)
<1>1. /\ Len(old.slots) \in Nat /\ Len(new.slots) = Len(old.slots) - 1
      /\ \A n \in 1 .. Len(old.slots) - 1 :
           new.slots[n] = IF n < i THEN old.slots[n] ELSE old.slots[n + 1]
  <2>1. PICK s : s = old.slots
    OBVIOUS
  <2>2. s \in Seq(Slot) /\ i \in 1 .. Len(s) /\ Len(s) \in Nat
    BY <2>1, DocIs
  <2>3. /\ Len(RemoveAt(s, i)) = Len(s) - 1
        /\ \A n \in 1 .. Len(s) - 1 : RemoveAt(s, i)[n] = IF n < i THEN s[n] ELSE s[n + 1]
    BY <2>2, RemovedIs
  <2>4. QED
    BY <2>1, <2>2, <2>3
<1>2. \A n \in 1 .. Len(new.slots) : \E m \in 1 .. Len(old.slots) : new.slots[n] = old.slots[m]
  BY <1>1
<1>3. \A m \in 1 .. Len(old.slots) : m = i \/ \E n \in 1 .. Len(new.slots) : new.slots[n] = old.slots[m]
  <2>1. TAKE m \in 1 .. Len(old.slots)
  <2>2. CASE m < i
    <3>1. m \in 1 .. Len(old.slots) - 1
      BY <1>1, <2>2
    <3>2. QED
      BY <1>1, <2>2, <3>1
  <2>3. CASE m > i
    <3>1. m - 1 \in 1 .. Len(old.slots) - 1 /\ ~ (m - 1 < i) /\ (m - 1) + 1 = m
      BY <1>1, <2>3
    <3>2. new.slots[m - 1] = old.slots[m]
      BY <1>1, <3>1
    <3>3. QED
      BY <1>1, <3>1, <3>2
  <2>4. QED
    BY <1>1, <2>2, <2>3
<1>4. ASSUME NEW k
      PROVE  /\ k \in Queued(new) => k \in Queued(old)
             /\ k \in Queued(old) => k \in Queued(new) \/ old.slots[i].kw = k
             /\ k \in Resting(old) /\ k \in Queued(new) => k \in Resting(new)
  <2>1. /\ k \in Queued(new) <=> \E n \in 1 .. Len(new.slots) : new.slots[n].kw = k
        /\ k \in Queued(old) <=> \E n \in 1 .. Len(old.slots) : old.slots[n].kw = k
        /\ k \in Resting(new) <=>
             /\ k \in Queued(new)
             /\ \A n \in 1 .. Len(new.slots) : new.slots[n].kw = k => new.slots[n].paused
        /\ k \in Resting(old) <=>
             /\ k \in Queued(old)
             /\ \A n \in 1 .. Len(old.slots) : old.slots[n].kw = k => old.slots[n].paused
    BY RestingIs
  <2>2. k \in Queued(new) => k \in Queued(old)
    BY <1>2, <2>1
  <2>3. k \in Queued(old) => k \in Queued(new) \/ old.slots[i].kw = k
    <3>1. ASSUME NEW m \in 1 .. Len(old.slots), old.slots[m].kw = k, old.slots[i].kw # k
          PROVE  \E n \in 1 .. Len(new.slots) : new.slots[n].kw = k
      BY <1>3, <3>1
    <3>2. QED
      BY <2>1, <3>1
  <2>4. k \in Resting(old) /\ k \in Queued(new) => k \in Resting(new)
    <3>1. ASSUME k \in Resting(old), NEW n \in 1 .. Len(new.slots), new.slots[n].kw = k
          PROVE  new.slots[n].paused
      BY <1>2, <2>1, <3>1
    <3>2. QED
      BY <2>1, <3>1
  <2>5. QED
    BY <2>2, <2>3, <2>4
<1>5. QED
  BY <1>4 DEF MayBecome

LEMMA HandOffKeeps ==
  ASSUME RotationInv, NEW h \in Handler, HandOff(h)
  PROVE  RotationInv'
<1> DEFINE doc == my[h].doc
<1>1. ~Idle(h) /\ pc[h] = "quota"
  BY DEF HandOff, Idle
<1>2. /\ my[h] \in JobOf(Fields) /\ doc \in Doc /\ Sound(my[h], "quota")
      /\ CopyOf(my[h], "quota")
      /\ ~disturbed => Alone(my[h], "quota")
  BY <1>1, AtWork
<1>3. doc.index \in Nat /\ Len(doc.slots) \in Nat
  BY <1>2, DocIs
<1>4. PICK job : job = IF doc.index < Len(doc.slots)
                         THEN Edit(my[h], SetPaused(doc, doc.index, TRUE), {"slots"})
                         ELSE my[h]
  OBVIOUS
<1>5. /\ job \in JobOf(Fields) /\ Same(my[h], job) /\ CopyOf(job, "quota")
      /\ job.doc.enabled = doc.enabled
      /\ \A f \in Fields \ job.dirty : f \notin my[h].dirty /\ job.doc[f] = doc[f]
  <2>1. ASSUME doc.index < Len(doc.slots)
        PROVE  /\ job \in JobOf(Fields) /\ Same(my[h], job) /\ CopyOf(job, "quota")
               /\ job.doc.enabled = doc.enabled
               /\ \A f \in Fields \ job.dirty : f \notin my[h].dirty /\ job.doc[f] = doc[f]
    <3>1. doc.index + 1 \in 1 .. Len(doc.slots)
      BY <1>3, <2>1
    <3>2. PICK new : new = SetPaused(doc, doc.index, TRUE)
      OBVIOUS
    <3>3. new \in Doc /\ \A f \in Fields \ {"slots"} : new[f] = doc[f]
      BY <1>2, <1>3, <3>1, <3>2, PausedIs
    <3>4. /\ job \in JobOf(Fields) /\ job.doc = new /\ Same(my[h], job)
          /\ \A f \in Fields : f \in job.dirty
                                 <=> f \in my[h].dirty \/ f \in {"slots"} \/ new[f] # doc[f]
      <4>1. {"slots"} \in SUBSET Fields /\ job = Edit(my[h], new, {"slots"})
        BY <1>4, <2>1, <3>2 DEF Fields
      <4>2. QED
        BY <1>2, <3>3, <4>1, EditIs
    <3>5. ASSUME ~job.stale PROVE MayBecome(rotation, new, job)
      <4>1. MayBecome(rotation, doc, job)
        <5>1. CASE "slots" \in my[h].dirty
          BY <1>2, <3>4, <3>5, <5>1 DEF CopyOf, MayBecome, Same
        <5>2. CASE "slots" \notin my[h].dirty
          <6>1. doc.slots = rotation.slots
            BY <1>2, <3>4, <3>5, <5>2 DEF CopyOf, Same
          <6>2. QED
            BY <6>1, SameMay
        <5>3. QED
          BY <5>1, <5>2
      <4>2. QED
        BY <1>2, <1>3, <3>1, <3>2, <4>1, PausedMay
    <3>6. "slots" \in job.dirty
      BY <3>4 DEF Fields
    <3>7. CopyOf(job, "quota")
      BY <3>4, <3>5, <3>6 DEF CopyOf
    <3>8. new.enabled = doc.enabled
      BY <3>3 DEF Fields
    <3>9. QED
      BY <3>4, <3>7, <3>8
  <2>2. CASE ~ (doc.index < Len(doc.slots))
    BY <1>2, <1>4, <2>2 DEF Same
  <2>3. QED
    BY <2>1, <2>2
<1>6. PICK next : next = FromSlot(job, doc.index + 1)
  OBVIOUS
<1>7. /\ next \in JobOf(Fields) /\ Same(job, next) /\ next.doc = job.doc /\ next.dirty = job.dirty
      /\ next.left > 0 => next.at < Len(next.doc.slots)
  <2>1. doc.index + 1 \in Nat
    BY <1>3
  <2>2. QED
    BY <1>5, <1>6, <2>1, FromSlotIs
<1>8. Move(h, next, "cancel")
  BY <1>4, <1>6 DEF HandOff
<1>9. Sound(next, "cancel")
  BY <1>2, <1>5, <1>7 DEF Sound, Same
<1>10. CopyOf(next, "cancel")
  BY <1>5, <1>7, LapKeeps DEF Lap
<1>11. /\ rotation' = rotation /\ live' = live /\ timers' = timers
       /\ requests' = requests /\ disturbed' = disturbed
  BY DEF HandOff
<1>12. ASSUME ~disturbed' PROVE Alone(next, "cancel")'
  <2>1. Alone(my[h], "quota")
    BY <1>2, <1>11, <1>12
  <2>2. /\ ~next.stale /\ Runs(rotation) /\ timers = {} /\ doc = rotation /\ rotation.enabled
        /\ next.scan = rotation.scan /\ next.then = "try"
    BY <2>1, <1>5, <1>7 DEF Alone, Phase, Same
  <2>3. Phase(next, "cancel")'
    BY <2>2, <1>5, <1>7, <1>11 DEF Phase, Runs
  <2>4. DOMAIN rotation = Fields
    BY DocIs, InvIs
  <2>5. QED
    BY <2>2, <2>3, <2>4, <1>5, <1>7, <1>11 DEF Alone
<1>13. live' \subseteq Scan /\ timers' \subseteq Ids /\ disturbed' \in BOOLEAN
  BY <1>11, InvIs
<1>14. "cancel" \in Label /\ "cancel" # "idle"
  BY DEF Label
<1>15. QED
  BY <1>1, <1>7, <1>8, <1>9, <1>10, <1>11, <1>12, <1>13, <1>14, MoveKeeps

-----------------------------------------------------------------------------
(* What is not the handlers' doing.                                         *)

LEMMA OutsideKeeps ==
  ASSUME RotationInv, pc' = pc, my' = my, rotation' = rotation, requests' = requests,
         disturbed' = disturbed, live' \subseteq live, timers' \subseteq timers,
         ~disturbed => /\ Quiet => TurnIs(rotation)'
                       /\ \A h \in Handler : ~Idle(h) => Phase(my[h], pc[h])'
  PROVE  RotationInv'
<1>1. TypeOK'
  <2>1. my' \in [Handler -> JobOf(Fields)] /\ pc' \in [Handler -> Label] /\ rotation' \in Doc
    BY InvIs
  <2>2. Job' = JobOf(Fields)
    BY <2>1, JobToo
  <2>3. QED
    BY <2>1, <2>2, InvIs DEF TypeOK
<1>2. ASSUME NEW h \in Handler
      PROVE  Sound(my[h], pc[h])' /\ (~Idle(h) => CopyOf(my[h], pc[h]))'
  <2>1. Sound(my[h], pc[h])'
    BY InvIs DEF Sound
  <2>2. (~Idle(h) => CopyOf(my[h], pc[h]))'
    BY InvIs DEF CopyOf, MayBecome, Queued, Resting, Idle
  <2>3. QED
    BY <2>1, <2>2
<1>3. ASSUME ~disturbed'
      PROVE  /\ \A u, w \in Handler : ~Idle(u)' /\ ~Idle(w)' => u = w
             /\ (Quiet => TurnIs(rotation))'
             /\ \A u \in Handler : ~Idle(u)' => Alone(my[u], pc[u])'
  <2>1. \A u, w \in Handler : ~Idle(u)' /\ ~Idle(w)' => u = w
    BY <1>3, InvIs DEF Idle
  <2>2. (Quiet => TurnIs(rotation))'
    BY <1>3 DEF Quiet, Idle
  <2>3. ASSUME NEW u \in Handler, ~Idle(u)' PROVE Alone(my[u], pc[u])'
    <3>1. ~Idle(u) /\ Alone(my[u], pc[u])
      BY <1>3, <2>3, InvIs DEF Idle
    <3>2. Phase(my[u], pc[u])'
      BY <1>3, <3>1
    <3>3. QED
      BY <3>1, <3>2 DEF Alone
  <2>4. QED
    BY <2>1, <2>2, <2>3
<1>4. QED
  BY <1>1, <1>2, <1>3 DEF RotationInv

LEMMA StaleTimerKeeps ==
  ASSUME RotationInv, NEW t \in Ids, StaleTimer(t)
  PROVE  RotationInv'
<1>1. /\ pc' = pc /\ my' = my /\ rotation' = rotation /\ requests' = requests
      /\ disturbed' = disturbed /\ live' = live /\ timers' = timers \ {t}
      /\ t \in timers /\ (~rotation.enabled \/ rotation.token # t)
  BY DEF StaleTimer
<1>2. ASSUME ~disturbed, Quiet PROVE TurnIs(rotation)'
  <2>1. TurnIs(rotation)
    BY <1>2, InvIs
  <2>2. QED
    BY <2>1, <1>1 DEF TurnIs, Timed
<1>3. ASSUME ~disturbed, NEW h \in Handler, ~Idle(h) PROVE Phase(my[h], pc[h])'
  <2>1. pc[h] \in Label \ {"idle"} /\ Phase(my[h], pc[h])
    BY <1>3, AtWork DEF Alone, Idle
  <2>2. CASE pc[h] = "cancel"
    BY <2>1, <2>2, <1>1 DEF Phase, Runs
  <2>3. CASE pc[h] \in {"save", "disable"}
    BY <2>1, <2>3, <1>1 DEF Phase, TurnIs, Timed
  <2>4. CASE pc[h] = "push"
    BY <2>1, <2>4, <1>1 DEF Phase, TurnIs, Timed
  <2>5. CASE pc[h] \notin {"cancel", "save", "disable", "push"}
    BY <2>1, <2>5, <1>1 DEF Phase, Nothing, Label, SaveLabel
  <2>6. QED
    BY <2>2, <2>3, <2>4, <2>5
<1>4. QED
  BY <1>1, <1>2, <1>3, OutsideKeeps

LEMMA ScanEndsKeeps ==
  ASSUME RotationInv, NEW l \in live, ScanEnds(l)
  PROVE  RotationInv'
<1>1. /\ pc' = pc /\ my' = my /\ rotation' = rotation /\ requests' = requests
      /\ disturbed' = disturbed /\ live' \subseteq live /\ timers' = timers
  BY DEF ScanEnds
<1>2. ASSUME ~disturbed, Quiet PROVE TurnIs(rotation)'
  <2>1. TurnIs(rotation)
    BY <1>2, InvIs
  <2>2. QED
    BY <2>1, <1>1 DEF TurnIs, Timed, Runs, Placed
<1>3. ASSUME ~disturbed, NEW h \in Handler, ~Idle(h) PROVE Phase(my[h], pc[h])'
  <2>1. Phase(my[h], pc[h])
    BY <1>3, AtWork DEF Alone
  <2>2. QED
    BY <2>1, <1>1 DEF Phase, Nothing, TurnIs, Timed, Runs, Placed
<1>4. QED
  BY <1>1, <1>2, <1>3, OutsideKeeps

LEMMA ThrowKeeps ==
  ASSUME RotationInv, NEW h \in Handler, Throw(h)
  PROVE  RotationInv'
<1>1. /\ disturbed' = TRUE /\ rotation' = rotation /\ live' = live /\ timers' = timers
      /\ requests' = requests
  BY DEF Throw
<1>2. ASSUME pc[h] = "cancel", Move(h, my[h], my[h].then) PROVE RotationInv'
  <2>1. PICK job : job = my[h]
    OBVIOUS
  <2>2. PICK to : to = job.then
    OBVIOUS
  <2>3. ~Idle(h) /\ Move(h, job, to)
    BY <1>2, <2>1, <2>2 DEF Idle
  <2>4. job \in JobOf(Fields) /\ Sound(job, "cancel") /\ CopyOf(job, "cancel")
    BY <1>2, <2>1, <2>3, AtWork
  <2>5. to \in {"try", "saveThenTry", "save"} /\ to \in Label
    BY <2>2, <2>4 DEF Sound, Label, SaveLabel
  <2>6. Sound(job, to) /\ CopyOf(job, to)
    BY <2>4, <2>5 DEF Sound, CopyOf
  <2>7. live' \subseteq Scan /\ timers' \subseteq Ids /\ disturbed' \in BOOLEAN
    BY <1>1, InvIs
  <2>8. QED
    BY <1>1, <2>3, <2>4, <2>5, <2>6, <2>7, MoveKeeps
<1>3. ASSUME pc[h] \in SaveLabel \cup {"addTimer"}, Fail(h) PROVE RotationInv'
  <2>1. ~Idle(h) /\ pc[h] # "push"
    BY <1>3 DEF SaveLabel, Idle
  <2>2. QED
    BY <1>1, <1>3, <2>1, FailKeeps
<1>4. ASSUME pc[h] = "push", Fail(h) PROVE RotationInv'
  <2>1. PICK job : job = my[h]
    OBVIOUS
  <2>2. ~Idle(h) /\ Move(h, job, "idle")
    BY <1>4, <2>1 DEF Fail, Idle
  <2>3. job \in JobOf(Fields) /\ "idle" \in Label
    BY <2>1, <2>2, AtWork DEF Label
  <2>4. live' \subseteq Scan /\ timers' \subseteq Ids /\ disturbed' \in BOOLEAN
    BY <1>1, InvIs
  <2>5. QED
    BY <1>1, <2>2, <2>3, <2>4, MoveKeeps
<1>5. QED
  BY <1>2, <1>3, <1>4 DEF Throw

LEMMA CrashKeeps ==
  ASSUME RotationInv, NEW h \in Handler, Crash(h)
  PROVE  RotationInv'
<1>1. PICK job : job = my[h]
  OBVIOUS
<1>2. /\ ~Idle(h) /\ Move(h, job, "idle") /\ disturbed' = TRUE
      /\ rotation' = rotation /\ live' = live /\ requests' = requests
      /\ timers' = timers \cup (IF job.op = "advance" THEN {job.token} ELSE {})
  BY <1>1 DEF Crash
<1>3. job \in JobOf(Fields) /\ Sound(job, pc[h])
  BY <1>1, <1>2, AtWork
<1>4. live' \subseteq Scan /\ timers' \subseteq Ids /\ disturbed' \in BOOLEAN
  BY <1>2, <1>3, InvIs DEF Sound
<1>5. "idle" \in Label
  BY DEF Label
<1>6. QED
  BY <1>2, <1>3, <1>4, <1>5, MoveKeeps

-----------------------------------------------------------------------------
(* The saves.                                                               *)

\* The saver goes on to label with next; where it saved the slots, every other copy
\* of them is stale.
LEMMA SavedKeeps ==
  ASSUME RotationInv, NEW h \in Handler, ~Idle(h), NEW toSlots \in BOOLEAN, NEW label \in Label,
         NEW next \in JobOf(Fields), next = IF label = "idle" THEN NoJob
                                                              ELSE [my[h] EXCEPT !.dirty = {}],
         Saved(h, toSlots, label),
         rotation' \in Doc, ~toSlots => rotation'.slots = rotation.slots,
         Sound(next, label), label # "idle" => CopyOf(next, label)',
         ~disturbed => /\ label = "idle" => TurnIs(rotation)'
                       /\ label # "idle" => Alone(next, label)'
  PROVE  RotationInv'
<1>1. /\ rotation \in Doc /\ pc \in [Handler -> Label] /\ my \in [Handler -> JobOf(Fields)]
      /\ \A u \in Handler : Sound(my[u], pc[u]) /\ (~Idle(u) => CopyOf(my[u], pc[u]))
  BY InvIs
<1>2. /\ pc' = [pc EXCEPT ![h] = label]
      /\ live' = live /\ timers' = timers /\ requests' = requests /\ disturbed' = disturbed
  BY DEF Saved
<1>3. /\ my'[h] = next /\ DOMAIN my' = Handler
      /\ \A u \in Handler \ {h} : my'[u] = [my[u] EXCEPT !.stale = my[u].stale \/ (toSlots /\ ~Idle(u))]
  BY DEF Saved
<1>4. pc'[h] = label /\ \A u \in Handler \ {h} : pc'[u] = pc[u]
  BY <1>1, <1>2
<1>5. ASSUME NEW u \in Handler \ {h}
      PROVE  /\ my'[u] \in JobOf(Fields) /\ my'[u].op = my[u].op /\ my'[u].kws = my[u].kws
             /\ my'[u].doc = my[u].doc /\ my'[u].dirty = my[u].dirty /\ my'[u].scan = my[u].scan
             /\ my'[u].token = my[u].token /\ my'[u].then = my[u].then
             /\ my'[u].at = my[u].at /\ my'[u].left = my[u].left
             /\ my'[u].stale <=> my[u].stale \/ (toSlots /\ ~Idle(u))
  <2>1. PICK stale \in BOOLEAN : stale <=> my[u].stale \/ (toSlots /\ ~Idle(u))
    OBVIOUS
  <2>2. my[u] \in JobOf(Fields)
    BY <1>1
  <2>3. my[u].stale \in BOOLEAN
    BY <2>2 DEF JobOf
  <2>4. my'[u] = [my[u] EXCEPT !.stale = stale]
    BY <1>3, <2>1, <2>3
  <2>5. QED
    BY <2>1, <2>2, <2>4 DEF JobOf
<1>6. TypeOK'
  <2>1. my' \in [Handler -> JobOf(Fields)]
    <3>1. my' = [u \in Handler |-> my'[u]]
      BY DEF Saved
    <3>2. \A u \in Handler \ {h} : my'[u] \in JobOf(Fields)
      BY <1>5
    <3>3. my'[h] \in JobOf(Fields)
      BY <1>3
    <3>4. \A u \in Handler : my'[u] \in JobOf(Fields)
      BY <3>2, <3>3
    <3>5. QED
      BY <3>1, <3>4
  <2>2. Job' = JobOf(Fields)
    BY JobToo
  <2>3. pc' \in [Handler -> Label]
    BY <1>1, <1>2
  <2>4. /\ live' \subseteq Scan /\ timers' \subseteq Ids
        /\ requests' \in 0 .. MaxRequests /\ disturbed' \in BOOLEAN
    BY <1>2, InvIs
  <2>5. QED
    BY <2>1, <2>2, <2>3, <2>4 DEF TypeOK
<1>7. ASSUME NEW u \in Handler
      PROVE  Sound(my[u], pc[u])' /\ (~Idle(u) => CopyOf(my[u], pc[u]))'
  <2>1. CASE u = h
    <3>1. Sound(my[u], pc[u])'
      BY <1>3, <1>4, <2>1 DEF Sound
    <3>2. ASSUME ~Idle(u)' PROVE CopyOf(my[u], pc[u])'
      <4>1. CopyOf(next, label)'
        BY <1>4, <2>1, <3>2 DEF Idle
      <4>2. my'[u] = next /\ pc'[u] = label
        BY <1>3, <1>4, <2>1
      <4>3. QED
        BY ONLY <4>1, <4>2 DEF CopyOf
    <3>3. QED
      BY <3>1, <3>2
  <2>2. CASE u # h
    <3>1. Sound(my[u], pc[u])'
      BY <1>1, <1>4, <1>5, <2>2 DEF Sound
    <3>2. ASSUME ~Idle(u)' PROVE CopyOf(my[u], pc[u])'
      <4>1. ~Idle(u)
        BY <1>4, <2>2, <3>2 DEF Idle
      <4>2. CASE toSlots
        BY <1>5, <2>2, <4>1, <4>2 DEF CopyOf
      <4>3. CASE ~toSlots
        <5>1. rotation'.slots = rotation.slots /\ CopyOf(my[u], pc[u])
          BY <1>1, <4>1, <4>3
        <5>2. QED
          <6>1. PICK old, new, at, r1, r2 :
                  /\ old = my[u] /\ new = my'[u] /\ at = pc[u] /\ at = pc'[u]
                  /\ r1 = rotation /\ r2 = rotation'
            BY <1>4, <2>2
          <6>2. /\ r2.slots = r1.slots /\ new.doc = old.doc /\ new.dirty = old.dirty
                /\ new.op = old.op /\ new.kws = old.kws /\ (new.stale <=> old.stale)
            BY <1>5, <2>2, <4>3, <5>1, <6>1
          <6>3. CopyOf(old, at)
            BY ONLY <5>1, <6>1 DEF CopyOf
          <6>4. MayBecome(r1, old.doc, old) => MayBecome(r2, new.doc, new)
            BY <6>2, MayStill
          <6>5. CopyOf(new, at)'
            BY <6>1, <6>2, <6>3, <6>4 DEF CopyOf
          <6>6. QED
            BY ONLY <6>1, <6>5 DEF CopyOf
      <4>4. QED
        BY <4>2, <4>3
    <3>3. QED
      BY <3>1, <3>2
  <2>3. QED
    BY <2>1, <2>2
<1>8. ASSUME ~disturbed'
      PROVE  /\ \A u, w \in Handler : ~Idle(u)' /\ ~Idle(w)' => u = w
             /\ (Quiet => TurnIs(rotation))'
             /\ \A u \in Handler : ~Idle(u)' => Alone(my[u], pc[u])'
  <2>1. \A u \in Handler \ {h} : Idle(u)'
    BY <1>2, <1>4, <1>8, AtWork DEF Idle
  <2>2. (Quiet => TurnIs(rotation))'
    BY <1>2, <1>4, <1>8 DEF Quiet, Idle
  <2>3. ~Idle(h)' => Alone(my[h], pc[h])'
    <3>1. Idle(h)' <=> label = "idle"
      BY <1>4 DEF Idle
    <3>2. Alone(next, label)' => Alone(my[h], pc[h])'
      BY <1>3, <1>4 DEF Alone, Phase
    <3>3. QED
      BY <3>1, <3>2, <1>2, <1>8
  <2>4. QED
    BY <2>1, <2>2, <2>3
<1>9. QED
  BY <1>6, <1>7, <1>8 DEF RotationInv

\* A save writes the modified paths, and nothing else.
LEMMA SaveIs ==
  ASSUME RotationInv, NEW h \in Handler, Save(h)
  PROVE  /\ rotation' \in Doc
         /\ \A f \in Fields : rotation'[f] = IF f \in my[h].dirty THEN my[h].doc[f] ELSE rotation[f]
<1>1. rotation \in Doc /\ my[h].doc \in Doc
  BY InvIs DEF JobOf
<1>2. DOMAIN rotation = Fields
  BY <1>1, DocIs
<1>3. rotation' = [f \in Fields |-> IF f \in my[h].dirty THEN my[h].doc[f] ELSE rotation[f]]
  BY <1>2 DEF Save
<1>4. rotation' = [enabled |-> rotation'.enabled, slots |-> rotation'.slots,
                   index |-> rotation'.index, scan |-> rotation'.scan,
                   token |-> rotation'.token, ext |-> rotation'.ext]
  BY <1>3 DEF Fields
<1>5. /\ rotation'.enabled \in BOOLEAN /\ rotation'.slots \in Seq(Slot) /\ rotation'.index \in Nat
      /\ rotation'.scan \in Ids \cup {None} /\ rotation'.token \in Ids \cup {None}
      /\ rotation'.ext \in 0 .. MaxExtensions
  <2>1. /\ rotation.enabled \in BOOLEAN /\ rotation.slots \in Seq(Slot) /\ rotation.index \in Nat
        /\ rotation.scan \in Ids \cup {None} /\ rotation.token \in Ids \cup {None}
        /\ rotation.ext \in 0 .. MaxExtensions
    BY <1>1, DocIs
  <2>2. /\ my[h].doc.enabled \in BOOLEAN /\ my[h].doc.slots \in Seq(Slot)
        /\ my[h].doc.index \in Nat /\ my[h].doc.scan \in Ids \cup {None}
        /\ my[h].doc.token \in Ids \cup {None} /\ my[h].doc.ext \in 0 .. MaxExtensions
    BY <1>1, DocIs
  <2>3. QED
    BY <1>3, <2>1, <2>2 DEF Fields
<1>6. rotation' \in Doc
  BY <1>4, <1>5 DEF Doc
<1>7. QED
  BY <1>3, <1>6

\* Two documents that agree on every path are one.
LEMMA DocsEqual ==
  ASSUME NEW one \in Doc, NEW other \in Doc, \A f \in Fields : one[f] = other[f]
  PROVE  one = other
BY DEF Doc, Fields

LEMMA SaveKeeps ==
  ASSUME RotationInv, NEW h \in Handler, Save(h)
  PROVE  RotationInv'
<1>1. PICK job : job = my[h]
  OBVIOUS
<1>2. PICK label : label = AfterSave(pc[h])
  OBVIOUS
<1>3. PICK toSlots \in BOOLEAN : toSlots <=> "slots" \in job.dirty
  OBVIOUS
<1>4. /\ ~Idle(h) /\ pc[h] \in SaveLabel /\ Saved(h, toSlots, label)
      /\ "slots" \in job.dirty => ~job.stale
  <2>1. ("slots" \in my[h].dirty) = toSlots
    BY <1>1, <1>3
  <2>2. Saved(h, "slots" \in my[h].dirty, label)
    BY <1>2 DEF Save
  <2>3. Saved(h, toSlots, label)
    BY <2>1, <2>2 DEF Saved
  <2>4. QED
    BY <1>1, <2>3 DEF Save, SaveLabel, Idle, VersionConflict
<1>5. /\ job \in JobOf(Fields) /\ job.doc \in Doc /\ Sound(job, pc[h]) /\ CopyOf(job, pc[h])
      /\ ~disturbed => Alone(job, pc[h])
  BY <1>1, <1>4, AtWork
<1>6. /\ rotation' \in Doc
      /\ \A f \in Fields : rotation'[f] = IF f \in job.dirty THEN job.doc[f] ELSE rotation[f]
  BY <1>1, SaveIs
<1>7. /\ label \in Label
      /\ label = IF pc[h] = "saveThenTry" THEN "try"
                 ELSE IF pc[h] \in {"saveTurn", "saveExtension"} THEN "addTimer"
                 ELSE "idle"
  BY <1>2 DEF AfterSave, Label
<1>8. PICK next : next = IF label = "idle" THEN NoJob ELSE [job EXCEPT !.dirty = {}]
  OBVIOUS
<1>9. /\ next \in JobOf(Fields)
      /\ label # "idle" => /\ next.op = job.op /\ next.kws = job.kws /\ next.doc = job.doc
                           /\ next.dirty = {} /\ next.stale = job.stale /\ next.scan = job.scan
                           /\ next.token = job.token /\ next.then = job.then
                           /\ next.at = job.at /\ next.left = job.left
  BY <1>5, <1>8, NoJobIs DEF JobOf
<1>10. Sound(next, label)
  <2>1. CASE label = "idle"
    BY <1>8, <2>1, NoJobIs
  <2>2. CASE label # "idle"
    BY <1>5, <1>7, <1>9, <2>2 DEF Sound
  <2>3. QED
    BY <2>1, <2>2
<1>11. ~toSlots => rotation'.slots = rotation.slots
  BY <1>3, <1>6 DEF Fields
<1>12. ASSUME label # "idle" PROVE CopyOf(next, label)'
  <2>1. ~job.stale => job.doc.slots = rotation'.slots
    <3>1. CASE toSlots
      BY <1>3, <1>6, <3>1 DEF Fields
    <3>2. CASE ~toSlots
      BY <1>3, <1>5, <1>11, <3>2 DEF CopyOf
    <3>3. QED
      BY <3>1, <3>2
  <2>2. QED
    BY <1>9, <1>12, <2>1 DEF CopyOf
<1>13. ASSUME ~disturbed
       PROVE  /\ label = "idle" => TurnIs(rotation)'
              /\ label # "idle" => Alone(next, label)'
  <2>1. /\ ~job.stale /\ Phase(job, pc[h])
        /\ \A f \in Fields \ job.dirty : job.doc[f] = rotation[f]
    <3>1. DOMAIN rotation = Fields
      BY DocIs, InvIs
    <3>2. QED
      BY <1>5, <1>13, <3>1 DEF Alone
  <2>2. rotation' = job.doc
    BY <1>5, <1>6, <2>1, DocsEqual
  <2>3. live' = live /\ timers' = timers
    BY <1>4 DEF Saved
  <2>4. ASSUME label = "idle" PROVE TurnIs(rotation)'
    <3>1. pc[h] \in {"save", "disable"}
      BY <1>4, <1>7, <2>4 DEF SaveLabel
    <3>2. TurnIs(job.doc)
      BY <2>1, <3>1 DEF Phase
    <3>3. QED
      BY <2>2, <2>3, <3>2 DEF TurnIs, Runs, Placed, Timed
  <2>5. ASSUME label # "idle" PROVE Alone(next, label)'
    <3>1. \/ pc[h] = "saveThenTry" /\ label = "try"
          \/ pc[h] \in {"saveTurn", "saveExtension"} /\ label = "addTimer"
      BY <1>7, <2>5
    <3>2. Phase(next, label)'
      BY <1>9, <2>1, <2>2, <2>3, <2>5, <3>1 DEF Phase, Nothing, Runs, Placed
    <3>3. QED
      BY <1>9, <2>1, <2>2, <2>5, <3>2 DEF Alone
  <2>6. QED
    BY <2>4, <2>5
<1>14. next = IF label = "idle" THEN NoJob ELSE [my[h] EXCEPT !.dirty = {}]
  BY <1>1, <1>8
<1>15. QED
  BY <1>4, <1>6, <1>7, <1>9, <1>10, <1>11, <1>12, <1>13, <1>14, SavedKeeps

LEMMA PushedIs ==
  ASSUME RotationInv, NEW h \in Handler, Push(h)
  PROVE  /\ rotation' \in Doc /\ \A f \in Fields \ {"slots"} : rotation'[f] = rotation[f]
         /\ Len(rotation.slots) \in Nat /\ Len(rotation'.slots) = Len(rotation.slots) + 1
         /\ \A n \in 1 .. Len(rotation.slots) : rotation'.slots[n] = rotation.slots[n]
         /\ my[h].op = "add" /\ rotation'.slots[Len(rotation.slots) + 1].kw \in my[h].kws
<1>1. /\ rotation \in Doc /\ my[h].doc \in Doc /\ my[h].doc.slots # <<>> /\ my[h].op = "add"
      /\ Last(my[h].doc.slots).kw \in my[h].kws
  BY InvIs DEF Push, Sound, JobOf
<1>2. PICK slot : slot = Last(my[h].doc.slots)
  OBVIOUS
<1>3. slot \in Slot /\ slot.kw \in my[h].kws
  <2>1. /\ my[h].doc.slots \in Seq(Slot) /\ Len(my[h].doc.slots) \in Nat
        /\ \A n \in 1 .. Len(my[h].doc.slots) : my[h].doc.slots[n] \in Slot
    BY <1>1, DocIs
  <2>2. Len(my[h].doc.slots) # 0
    BY <1>1, <2>1, EmptySeq
  <2>3. Len(my[h].doc.slots) \in 1 .. Len(my[h].doc.slots)
    BY <2>1, <2>2
  <2>4. QED
    BY <1>1, <1>2, <2>1, <2>3 DEF Last
<1>4. PICK new : new = Append(rotation.slots, slot)
  OBVIOUS
<1>5. rotation.slots \in Seq(Slot) /\ Len(rotation.slots) \in Nat
  BY <1>1, DocIs
<1>6. /\ new \in Seq(Slot) /\ Len(new) = Len(rotation.slots) + 1
      /\ \A n \in 1 .. Len(rotation.slots) : new[n] = rotation.slots[n]
      /\ new[Len(rotation.slots) + 1] = slot
  BY <1>3, <1>4, <1>5, AppendProperties
<1>7. rotation' = [rotation EXCEPT !.slots = new]
  BY <1>2, <1>4 DEF Push
<1>8. /\ rotation' \in Doc /\ rotation'.slots = new
      /\ \A f \in Fields \ {"slots"} : rotation'[f] = rotation[f]
  BY <1>1, <1>6, <1>7 DEF Doc, Fields
<1>9. QED
  BY <1>1, <1>3, <1>5, <1>6, <1>8

LEMMA PushKeeps ==
  ASSUME RotationInv, NEW h \in Handler, Push(h)
  PROVE  RotationInv'
<1>1. /\ ~Idle(h) /\ pc[h] = "push" /\ Saved(h, TRUE, "idle")
      /\ live' = live /\ timers' = timers
  BY DEF Push, Idle, Saved
<1>2. /\ rotation' \in Doc /\ \A f \in Fields \ {"slots"} : rotation'[f] = rotation[f]
      /\ Len(rotation.slots) \in Nat /\ Len(rotation'.slots) = Len(rotation.slots) + 1
      /\ \A n \in 1 .. Len(rotation.slots) : rotation'.slots[n] = rotation.slots[n]
  BY PushedIs
<1>3. PICK next \in JobOf(Fields) : next = NoJob
  BY NoJobIs
<1>4. ASSUME ~disturbed PROVE TurnIs(rotation)'
  <2>1. TurnIs(rotation)
    BY <1>1, <1>4, AtWork DEF Alone, Phase
  <2>2. /\ rotation'.enabled = rotation.enabled /\ rotation'.scan = rotation.scan
        /\ rotation'.index = rotation.index /\ rotation'.token = rotation.token
    BY <1>2 DEF Fields
  <2>3. rotation.index \in Nat
    BY InvIs, DocIs
  <2>4. Timed(rotation)'
    BY <1>1, <2>1, <2>2 DEF TurnIs, Timed
  <2>5. Placed(rotation)'
    BY <1>2, <2>1, <2>2, <2>3 DEF TurnIs, Placed
  <2>6. Runs(rotation)'
    <3>1. ASSUME rotation.index < Len(rotation.slots)
          PROVE  /\ rotation.index < Len(rotation'.slots)
                 /\ rotation'.slots[rotation.index + 1] = rotation.slots[rotation.index + 1]
      <4>1. rotation.index + 1 \in 1 .. Len(rotation.slots)
        BY <1>2, <2>3, <3>1
      <4>2. QED
        BY <1>2, <2>3, <3>1, <4>1
    <3>2. QED
      BY <1>1, <2>1, <2>2, <3>1 DEF TurnIs, Runs
  <2>7. QED
    BY <2>4, <2>5, <2>6 DEF TurnIs
<1>5. Sound(next, "idle") /\ "idle" \in Label
  BY <1>3, NoJobIs DEF Label
<1>6. PICK toSlots \in BOOLEAN, label \in Label : toSlots = TRUE /\ label = "idle"
  BY <1>5
<1>7. Saved(h, toSlots, label)
  BY <1>1, <1>6
<1>8. next = IF label = "idle" THEN NoJob ELSE [my[h] EXCEPT !.dirty = {}]
  BY <1>3, <1>6
<1>9. QED
  BY <1>1, <1>2, <1>3, <1>4, <1>5, <1>6, <1>7, <1>8, SavedKeeps

-----------------------------------------------------------------------------
(* A handler begins.                                                        *)

Ready(job, label) ==
  /\ job \in JobOf(Fields) /\ ~job.stale /\ label \in Label \ {"idle"}
  /\ Sound(job, label) /\ CopyOf(job, label)
  /\ \A f \in Fields \ job.dirty : job.doc[f] = rotation[f]

LEMMA BeginKeeps ==
  ASSUME RotationInv, NEW h \in Handler, NEW job, NEW label,
         Begin(h, job, label), Ready(job, label),
         rotation' = rotation, live' = live, timers' \subseteq Ids, requests' \in 0 .. MaxRequests,
         TurnIs(rotation) => Phase(job, label)'
  PROVE  RotationInv'
<1>1. /\ Idle(h) /\ pc' = [pc EXCEPT ![h] = label] /\ my' = [my EXCEPT ![h] = job]
      /\ disturbed' = (disturbed \/ \E u \in Handler \ {h} : ~Idle(u))
  BY DEF Begin
<1>2. disturbed \in BOOLEAN /\ live' \subseteq Scan
  BY InvIs
<1>3. disturbed' \in BOOLEAN
  BY <1>1, <1>2
<1>4. ASSUME ~disturbed'
      PROVE  ~disturbed /\ (\A u \in Handler \ {h} : Idle(u)) /\ Alone(job, label)'
  <2>1. ~disturbed /\ \A u \in Handler \ {h} : Idle(u)
    BY <1>1, <1>2, <1>4
  <2>2. Quiet
    BY <1>1, <2>1 DEF Quiet
  <2>3. Phase(job, label)'
    BY <2>1, <2>2, InvIs
  <2>4. DOMAIN rotation = Fields
    BY DocIs, InvIs
  <2>5. QED
    BY <2>1, <2>3, <2>4 DEF Ready, Alone
<1>5. /\ job \in JobOf(Fields) /\ label \in Label /\ label # "idle"
      /\ Sound(job, label) /\ CopyOf(job, label)
  BY DEF Ready
<1>6. QED
  BY <1>1, <1>2, <1>3, <1>4, <1>5, WorkKeeps

\* What is loaded and worked on for one request.
Loaded(job, op, kws, doc) ==
  /\ job \in JobOf(Fields) /\ ~job.stale /\ job.op = op /\ job.kws = kws /\ job.doc = doc
  /\ \A f \in Fields \ job.dirty : doc[f] = rotation[f]

Operation == {"start", "stop", "add", "pause", "resume", "restart", "remove", "watchdog"}

LEMMA LoadedIs ==
  ASSUME rotation \in Doc, NEW op \in Operation \cup {"advance"}, NEW kws \in SUBSET Keyword,
         NEW doc \in Doc, NEW marked \in SUBSET Fields
  PROVE  /\ Loaded(Edit(Load(op, kws, rotation), doc, marked), op, kws, doc)
         /\ Edit(Load(op, kws, rotation), doc, marked).left = 0
         /\ Loaded(Load(op, kws, rotation), op, kws, rotation)
<1>1. PICK job : job = Load(op, kws, rotation)
  OBVIOUS
<1>2. /\ job \in JobOf(Fields) /\ job.doc = rotation /\ job.op = op /\ job.kws = kws
      /\ job.dirty = {} /\ ~job.stale /\ job.left = 0
  <2>1. op \in {"none", "start", "stop", "add", "pause", "resume", "restart", "remove",
                "advance", "watchdog"}
    BY DEF Operation
  <2>2. QED
    BY <1>1, <2>1 DEF Load, JobOf, Label
<1>3. PICK next : next = Edit(job, doc, marked)
  OBVIOUS
<1>4. /\ next \in JobOf(Fields) /\ next.doc = doc /\ Same(job, next) /\ next.left = job.left
      /\ \A f \in Fields : f \in next.dirty <=> f \in job.dirty \/ f \in marked \/ doc[f] # job.doc[f]
  BY <1>2, <1>3, EditIs
<1>5. Loaded(next, op, kws, doc) /\ next.left = 0
  BY <1>2, <1>4 DEF Loaded, Same
<1>6. Loaded(job, op, kws, rotation)
  BY <1>2 DEF Loaded
<1>7. QED
  BY <1>1, <1>3, <1>5, <1>6

LEMMA LoadedCopy ==
  ASSUME NEW job, NEW op, NEW kws, NEW doc, Loaded(job, op, kws, doc), NEW label,
         label # "push" => MayBecome(rotation, doc, job)
  PROVE  CopyOf(job, label)
BY DEF Loaded, CopyOf, Fields

\* A request that ends the scan first.
LEMMA CancelReady ==
  ASSUME rotation \in Doc, NEW op \in Operation, NEW kws, NEW doc \in Doc, NEW job,
         Loaded(job, op, kws, doc), MayBecome(rotation, doc, job),
         NEW then \in {"try", "saveThenTry", "save"}, doc.enabled <=> then # "save",
         NEW i \in Nat, NEW next,
         \/ next = FromSlot(Cancelling(job, then), i)
         \/ next = Cancelling(job, then) /\ job.left = 0
  PROVE  Ready(next, "cancel") /\ (TurnIs(rotation) => Phase(next, "cancel"))
<1>1. PICK mid : mid = Cancelling(job, then)
  OBVIOUS
<1>2. /\ mid \in JobOf(Fields) /\ mid.scan = rotation.scan /\ mid.token = rotation.token
      /\ mid.then = then /\ mid.op = op /\ mid.kws = kws /\ mid.doc = doc /\ mid.dirty = job.dirty
      /\ ~mid.stale /\ mid.left = job.left
  <2>1. then \in Label
    BY DEF Label, SaveLabel
  <2>2. QED
    BY <1>1, <2>1, CancellingIs DEF Loaded
<1>3. /\ next \in JobOf(Fields) /\ Same(mid, next) /\ next.doc = doc /\ next.dirty = job.dirty
      /\ next.left > 0 => next.at < Len(next.doc.slots)
  <2>1. CASE next = FromSlot(mid, i)
    BY <1>2, <2>1, FromSlotIs
  <2>2. CASE next = mid /\ job.left = 0
    BY <1>2, <2>2 DEF Same
  <2>3. QED
    BY <1>1, <2>1, <2>2
<1>4. Loaded(next, op, kws, doc)
  BY <1>2, <1>3 DEF Loaded, Same
<1>5. MayBecome(rotation, doc, next)
  BY <1>4 DEF MayBecome, Loaded
<1>6. Sound(next, "cancel")
  BY <1>2, <1>3 DEF Sound, Same, Operation
<1>7. CopyOf(next, "cancel")
  BY <1>4, <1>5, LoadedCopy
<1>8. Ready(next, "cancel")
  BY <1>4, <1>6, <1>7 DEF Ready, Loaded, Label
<1>9. ASSUME TurnIs(rotation) PROVE Phase(next, "cancel")
  BY <1>2, <1>3, <1>9 DEF Phase, Same, TurnIs, Timed
<1>10. QED
  BY <1>8, <1>9

\* A request that saves at once.
LEMMA SaveReady ==
  ASSUME rotation \in Doc, NEW op \in Operation, NEW kws, NEW doc, NEW job,
         Loaded(job, op, kws, doc), MayBecome(rotation, doc, job),
         job.left > 0 => job.at < Len(doc.slots),
         NEW label \in {"saveThenTry", "save", "try"}
  PROVE  Ready(job, label)
<1>1. CopyOf(job, label)
  BY LoadedCopy
<1>2. Sound(job, label)
  BY DEF Loaded, Sound, Operation
<1>3. label \in Label \ {"idle"}
  BY DEF Label, SaveLabel
<1>4. QED
  BY <1>1, <1>2, <1>3 DEF Ready, Loaded

-----------------------------------------------------------------------------
(* Each request.                                                            *)

\* What a request leaves alone.
Asks(h) == /\ rotation' = rotation /\ live' = live /\ timers' = timers
           /\ requests' \in 0 .. MaxRequests

LEMMA ReadyKeeps ==
  ASSUME RotationInv, NEW h \in Handler, Asks(h), NEW job, NEW label,
         Begin(h, job, label), Ready(job, label), TurnIs(rotation) => Phase(job, label)
  PROVE  RotationInv'
<1>1. /\ rotation' = rotation /\ live' = live /\ timers' = timers /\ timers \subseteq Ids
      /\ requests' \in 0 .. MaxRequests
  BY InvIs DEF Asks
<1>2. Phase(job, label) => Phase(job, label)'
  BY <1>1 DEF Phase, Nothing, TurnIs, Timed, Runs, Placed
<1>3. QED
  BY <1>1, <1>2, BeginKeeps

LEMMA startKeeps ==
  ASSUME RotationInv, NEW h \in Handler, Asks(h), start(h)
  PROVE  RotationInv'
<1>1. rotation \in Doc
  BY InvIs
<1>2. PICK q \in Queues :
        Begin(h, FromSlot(Cancelling(Edit(Load("start", {}, rotation),
                                          [rotation EXCEPT !.enabled = TRUE, !.slots = q, !.index = 0],
                                          {"slots"}), "saveThenTry"), 0), "cancel")
  BY DEF start
<1>3. PICK doc : doc = [rotation EXCEPT !.enabled = TRUE, !.slots = q, !.index = 0]
  OBVIOUS
<1>4. doc \in Doc /\ doc.enabled
  <2>1. q \in Seq(Slot)
    BY ConstantsNat
  <2>2. QED
    BY <1>1, <1>3, <2>1 DEF Doc
<1>5. PICK job : job = Edit(Load("start", {}, rotation), doc, {"slots"})
  OBVIOUS
<1>6. Loaded(job, "start", {}, doc) /\ "start" \in Operation
  BY <1>1, <1>4, <1>5, LoadedIs DEF Operation, Fields
<1>7. MayBecome(rotation, doc, job)
  BY <1>6 DEF MayBecome, Loaded
<1>8. PICK next : next = FromSlot(Cancelling(job, "saveThenTry"), 0)
  OBVIOUS
<1>9. Ready(next, "cancel") /\ (TurnIs(rotation) => Phase(next, "cancel"))
  BY <1>1, <1>4, <1>6, <1>7, <1>8, CancelReady
<1>10. Begin(h, next, "cancel")
  BY <1>2, <1>3, <1>5, <1>8
<1>11. QED
  BY <1>9, <1>10, ReadyKeeps

LEMMA stopKeeps ==
  ASSUME RotationInv, NEW h \in Handler, Asks(h), stop(h)
  PROVE  RotationInv'
<1>1. rotation \in Doc
  BY InvIs
<1>2. PICK doc : doc = [Cleared(rotation) EXCEPT !.ext = 0]
  OBVIOUS
<1>3. doc \in Doc /\ doc.enabled = FALSE /\ doc.slots = rotation.slots
  <2>1. 0 \in 0 .. MaxExtensions
    BY ConstantsNat
  <2>2. QED
    BY <1>1, <1>2, <2>1 DEF Cleared, Doc
<1>4. PICK job : job = Edit(Load("stop", {}, rotation), doc, {})
  OBVIOUS
<1>5. Loaded(job, "stop", {}, doc) /\ job.left = 0 /\ "stop" \in Operation
  BY <1>1, <1>3, <1>4, LoadedIs DEF Operation
<1>6. MayBecome(rotation, doc, job)
  BY <1>3, SameMay
<1>7. PICK next : next = Cancelling(job, "save")
  OBVIOUS
<1>8. Ready(next, "cancel") /\ (TurnIs(rotation) => Phase(next, "cancel"))
  BY <1>1, <1>3, <1>5, <1>6, <1>7, CancelReady
<1>9. Begin(h, next, "cancel")
  BY <1>2, <1>4, <1>7 DEF stop
<1>10. QED
  BY <1>8, <1>9, ReadyKeeps

LEMMA addSlotsKeeps ==
  ASSUME RotationInv, NEW h \in Handler, Asks(h), addSlots(h)
  PROVE  RotationInv'
<1>1. rotation \in Doc
  BY InvIs
<1>2. PICK k \in Keyword :
        Begin(h, Edit(Load("add", {k}, rotation),
                      [rotation EXCEPT !.slots = Append(@, [kw |-> k, paused |-> FALSE])],
                      {"slots"}), "push")
  BY DEF addSlots
<1>3. PICK slot \in Slot : slot = [kw |-> k, paused |-> FALSE]
  BY DEF Slot
<1>4. PICK new : new = Append(rotation.slots, slot)
  OBVIOUS
<1>5. /\ new \in Seq(Slot) /\ Len(new) = Len(rotation.slots) + 1
      /\ new[Len(rotation.slots) + 1] = slot /\ new # <<>>
  <2>1. rotation.slots \in Seq(Slot) /\ Len(rotation.slots) \in Nat
    BY <1>1, DocIs
  <2>2. /\ new \in Seq(Slot) /\ Len(new) = Len(rotation.slots) + 1
        /\ new[Len(rotation.slots) + 1] = slot
    BY <1>3, <1>4, <2>1, AppendProperties
  <2>3. Len(new) # 0
    BY <2>1, <2>2
  <2>4. QED
    BY <2>2, <2>3, EmptySeq
<1>6. PICK doc : doc = [rotation EXCEPT !.slots = new]
  OBVIOUS
<1>7. doc \in Doc /\ doc.slots = new
  BY <1>1, <1>5, <1>6 DEF Doc
<1>8. PICK job : job = Edit(Load("add", {k}, rotation), doc, {"slots"})
  OBVIOUS
<1>9. Loaded(job, "add", {k}, doc) /\ job.left = 0
  BY <1>1, <1>7, <1>8, LoadedIs DEF Operation, Fields
<1>10. Begin(h, job, "push")
  BY <1>2, <1>3, <1>4, <1>6, <1>8
<1>11. Sound(job, "push")
  <2>1. Last(new).kw = k
    BY <1>3, <1>5 DEF Last
  <2>2. QED
    BY <1>5, <1>7, <1>9, <2>1 DEF Sound, Loaded
<1>12. CopyOf(job, "push")
  BY <1>9, LoadedCopy
<1>13. Ready(job, "push")
  BY <1>7, <1>9, <1>11, <1>12 DEF Ready, Loaded, Label
<1>14. TurnIs(rotation) => Phase(job, "push")
  BY DEF Phase
<1>15. QED
  BY <1>10, <1>13, <1>14, ReadyKeeps

LEMMA setSlotOptionKeeps ==
  ASSUME RotationInv, NEW h \in Handler, Asks(h), setSlotOption(h)
  PROVE  RotationInv'
<1>1. rotation \in Doc
  BY InvIs
<1>2. PICK k \in Queued(rotation) :
        LET i == IndexOf(rotation, k)
            job == Edit(Load("restart", {k}, rotation), rotation, {"slots"})
        IN IF rotation.enabled /\ rotation.index = i
             THEN Begin(h, FromSlot(Cancelling(job, "try"), i), "cancel")
             ELSE Begin(h, job, "save")
  BY DEF setSlotOption
<1>3. PICK i : i = IndexOf(rotation, k)
  OBVIOUS
<1>4. i \in Nat
  BY <1>1, <1>3, IndexOfIs
<1>5. PICK doc \in Doc : doc = rotation
  BY <1>1
<1>6. PICK job : job = Edit(Load("restart", {k}, rotation), rotation, {"slots"})
  OBVIOUS
<1>7. Loaded(job, "restart", {k}, doc) /\ job.left = 0 /\ "restart" \in Operation
  <2>1. k \in Keyword
    BY <1>1, DocIs DEF Queued, Slot
  <2>2. QED
    BY <1>1, <1>5, <1>6, <2>1, LoadedIs DEF Operation, Fields
<1>8. MayBecome(rotation, doc, job)
  BY <1>5, SameMay
<1>9. ASSUME rotation.enabled, Begin(h, FromSlot(Cancelling(job, "try"), i), "cancel")
      PROVE  RotationInv'
  <2>1. PICK next : next = FromSlot(Cancelling(job, "try"), i)
    OBVIOUS
  <2>2. Ready(next, "cancel") /\ (TurnIs(rotation) => Phase(next, "cancel"))
    BY <1>1, <1>4, <1>5, <1>7, <1>8, <1>9, <2>1, CancelReady
  <2>3. QED
    BY <1>9, <2>1, <2>2, ReadyKeeps
<1>10. ASSUME Begin(h, job, "save") PROVE RotationInv'
  <2>1. Ready(job, "save")
    BY <1>1, <1>7, <1>8, SaveReady
  <2>2. TurnIs(rotation) => Phase(job, "save")
    BY <1>5, <1>7 DEF Phase, Loaded
  <2>3. QED
    BY <1>10, <2>1, <2>2, ReadyKeeps
<1>11. QED
  BY <1>2, <1>3, <1>6, <1>9, <1>10

LEMMA PausedTurn ==
  ASSUME rotation \in Doc, NEW i \in Nat, i + 1 \in 1 .. Len(rotation.slots), NEW p \in BOOLEAN,
         TurnIs(rotation), p => ~ (rotation.enabled /\ rotation.index = i)
  PROVE  TurnIs(SetPaused(rotation, i, p))
<1>1. PICK doc : doc = SetPaused(rotation, i, p)
  OBVIOUS
<1>2. /\ doc \in Doc /\ \A f \in Fields \ {"slots"} : doc[f] = rotation[f]
      /\ Len(doc.slots) = Len(rotation.slots) /\ Len(rotation.slots) \in Nat
      /\ \A n \in 1 .. Len(rotation.slots) :
           doc.slots[n] = [kw |-> rotation.slots[n].kw,
                           paused |-> IF n = i + 1 THEN p ELSE rotation.slots[n].paused]
  <2>1. Len(rotation.slots) \in Nat
    BY DocIs
  <2>2. QED
    BY <1>1, <2>1, PausedIs
<1>3. /\ doc.enabled = rotation.enabled /\ doc.scan = rotation.scan
      /\ doc.index = rotation.index /\ doc.token = rotation.token /\ rotation.index \in Nat
  BY <1>2, DocIs DEF Fields
<1>4. Placed(doc) /\ Timed(doc)
  BY <1>2, <1>3 DEF TurnIs, Placed, Timed
<1>5. ASSUME NEW l \in live
      PROVE  /\ doc.enabled /\ doc.scan = l.id /\ doc.index < Len(doc.slots)
             /\ doc.slots[doc.index + 1] = [kw |-> l.kw, paused |-> FALSE]
  <2>1. /\ rotation.enabled /\ rotation.scan = l.id /\ rotation.index < Len(rotation.slots)
        /\ rotation.slots[rotation.index + 1] = [kw |-> l.kw, paused |-> FALSE]
    BY <1>5 DEF TurnIs, Runs
  <2>2. PICK n \in 1 .. Len(rotation.slots) : n = rotation.index + 1
    BY <1>2, <1>3, <2>1
  <2>3. rotation.slots[n].kw = l.kw /\ rotation.slots[n].paused = FALSE
    BY <2>1, <2>2
  <2>4. n = i + 1 => p = FALSE
    BY <1>3, <2>1, <2>2
  <2>5. (IF n = i + 1 THEN p ELSE rotation.slots[n].paused) = FALSE
    BY <2>3, <2>4
  <2>6. doc.slots[n] = [kw |-> l.kw, paused |-> FALSE]
    BY <1>2, <2>3, <2>5
  <2>7. QED
    BY <1>2, <1>3, <2>1, <2>2, <2>6
<1>6. QED
  BY <1>1, <1>4, <1>5 DEF TurnIs, Runs

\* The slot of a keyword that is queued.
LEMMA SlotOf ==
  ASSUME rotation \in Doc, NEW k \in Queued(rotation)
  PROVE  \E i \in Nat : /\ i = IndexOf(rotation, k) /\ i + 1 \in 1 .. Len(rotation.slots)
                        /\ rotation.slots[i + 1].kw = k /\ k \in Keyword
<1>1. /\ IndexOf(rotation, k) \in Nat /\ IndexOf(rotation, k) + 1 \in 1 .. Len(rotation.slots)
      /\ rotation.slots[IndexOf(rotation, k) + 1].kw = k
  BY IndexOfIs
<1>2. k \in Keyword
  <2>1. \A n \in 1 .. Len(rotation.slots) : rotation.slots[n] \in Slot
    BY DocIs
  <2>2. QED
    BY <1>1, <2>1 DEF Slot
<1>3. QED
  BY <1>1, <1>2

LEMMA pauseSlotKeeps ==
  ASSUME RotationInv, NEW h \in Handler, Asks(h), pauseSlot(h)
  PROVE  RotationInv'
<1>1. rotation \in Doc
  BY InvIs
<1>2. PICK k \in Queued(rotation) :
        LET i == IndexOf(rotation, k)
            job == Edit(Load("pause", {k}, rotation), SetPaused(rotation, i, TRUE), {"slots"})
        IN IF rotation.enabled /\ rotation.index = i
             THEN Begin(h, FromSlot(Cancelling(job, "try"), i + 1), "cancel")
             ELSE Begin(h, job, "save")
  BY DEF pauseSlot
<1>3. PICK i \in Nat : /\ i = IndexOf(rotation, k) /\ i + 1 \in 1 .. Len(rotation.slots)
                       /\ rotation.slots[i + 1].kw = k /\ k \in Keyword
  BY <1>1, SlotOf
<1>4. PICK doc : doc = SetPaused(rotation, i, TRUE)
  OBVIOUS
<1>5. /\ doc \in Doc /\ \A f \in Fields \ {"slots"} : doc[f] = rotation[f]
  BY <1>1, <1>3, <1>4, PausedIs
<1>6. PICK job : job = Edit(Load("pause", {k}, rotation), doc, {"slots"})
  OBVIOUS
<1>7. Loaded(job, "pause", {k}, doc) /\ job.left = 0 /\ "pause" \in Operation
  BY <1>1, <1>3, <1>5, <1>6, LoadedIs DEF Operation, Fields
<1>8. MayBecome(rotation, doc, job)
  <2>1. MayBecome(rotation, rotation, job)
    BY SameMay
  <2>2. QED
    BY <1>1, <1>3, <1>4, <2>1, PausedMay
<1>9. ASSUME rotation.enabled, Begin(h, FromSlot(Cancelling(job, "try"), i + 1), "cancel")
      PROVE  RotationInv'
  <2>1. PICK next : next = FromSlot(Cancelling(job, "try"), i + 1)
    OBVIOUS
  <2>2. doc.enabled /\ i + 1 \in Nat
    BY <1>5, <1>9 DEF Fields
  <2>3. Ready(next, "cancel") /\ (TurnIs(rotation) => Phase(next, "cancel"))
    BY <1>1, <1>5, <1>7, <1>8, <2>1, <2>2, CancelReady
  <2>4. QED
    BY <1>9, <2>1, <2>3, ReadyKeeps
<1>10. ASSUME ~ (rotation.enabled /\ rotation.index = i), Begin(h, job, "save")
       PROVE  RotationInv'
  <2>1. Ready(job, "save")
    BY <1>1, <1>7, <1>8, SaveReady
  <2>2. TurnIs(rotation) => TurnIs(doc)
    BY <1>1, <1>3, <1>4, <1>10, PausedTurn
  <2>3. doc.enabled = rotation.enabled /\ doc.token = rotation.token
    BY <1>5 DEF Fields
  <2>4. TurnIs(rotation) => Phase(job, "save")
    BY <1>7, <2>2, <2>3 DEF Phase, Loaded
  <2>5. QED
    BY <1>10, <2>1, <2>4, ReadyKeeps
<1>11. QED
  BY <1>2, <1>3, <1>4, <1>6, <1>9, <1>10

LEMMA resumeSlotKeeps ==
  ASSUME RotationInv, NEW h \in Handler, Asks(h), resumeSlot(h)
  PROVE  RotationInv'
<1>1. rotation \in Doc
  BY InvIs
<1>2. PICK k \in Queued(rotation) :
        LET i == IndexOf(rotation, k)
            doc == SetPaused(rotation, i, FALSE)
            job == Load("resume", {k}, rotation)
        IN IF ~rotation.enabled \/ Stalled(rotation)
             THEN Begin(h, FromSlot(Edit(job, [doc EXCEPT !.enabled = TRUE], {"slots"}), i),
                        "saveThenTry")
             ELSE Begin(h, Edit(job, doc, {"slots"}), "save")
  BY DEF resumeSlot
<1>3. PICK i \in Nat : /\ i = IndexOf(rotation, k) /\ i + 1 \in 1 .. Len(rotation.slots)
                       /\ rotation.slots[i + 1].kw = k /\ k \in Keyword
  BY <1>1, SlotOf
<1>4. PICK doc : doc = SetPaused(rotation, i, FALSE)
  OBVIOUS
<1>5. /\ doc \in Doc /\ \A f \in Fields \ {"slots"} : doc[f] = rotation[f]
  BY <1>1, <1>3, <1>4, PausedIs
<1>6. "resume" \in Operation /\ {"slots"} \in SUBSET Fields /\ {k} \in SUBSET Keyword
  BY <1>3 DEF Operation, Fields
<1>7. ASSUME NEW job, Loaded(job, "resume", {k}, doc) PROVE MayBecome(rotation, doc, job)
  <2>1. job.op = "resume" /\ job.kws = {k}
    BY <1>7 DEF Loaded
  <2>2. MayBecome(rotation, rotation, job)
    BY SameMay
  <2>3. QED
    BY <1>1, <1>3, <1>4, <2>1, <2>2, PausedMay
<1>8. ASSUME ~rotation.enabled \/ Stalled(rotation),
             Begin(h, FromSlot(Edit(Load("resume", {k}, rotation), [doc EXCEPT !.enabled = TRUE],
                                    {"slots"}), i), "saveThenTry")
      PROVE  RotationInv'
  <2>1. PICK on : on = [doc EXCEPT !.enabled = TRUE]
    OBVIOUS
  <2>2. on \in Doc /\ on.enabled /\ on.slots = doc.slots
    BY <1>5, <2>1 DEF Doc
  <2>3. PICK job : job = Edit(Load("resume", {k}, rotation), on, {"slots"})
    OBVIOUS
  <2>4. Loaded(job, "resume", {k}, on)
    BY <1>1, <1>6, <2>2, <2>3, LoadedIs
  <2>5. PICK next : next = FromSlot(job, i)
    OBVIOUS
  <2>6. /\ next \in JobOf(Fields) /\ Same(job, next) /\ next.doc = on /\ next.dirty = job.dirty
        /\ next.left > 0 => next.at < Len(on.slots)
    BY <2>4, <2>5, FromSlotIs DEF Loaded
  <2>7. Loaded(next, "resume", {k}, on)
    BY <2>4, <2>6 DEF Loaded, Same
  <2>8. MayBecome(rotation, on, next)
    <3>1. MayBecome(rotation, doc, next)
      <4>1. next.op = "resume" /\ next.kws = {k}
        BY <2>7 DEF Loaded
      <4>2. MayBecome(rotation, rotation, next)
        BY SameMay
      <4>3. QED
        BY <1>1, <1>3, <1>4, <4>1, <4>2, PausedMay
    <3>2. Queued(on) = Queued(doc) /\ Resting(on) = Resting(doc)
      BY <2>2 DEF Queued, Resting
    <3>3. QED
      BY <3>1, <3>2 DEF MayBecome
  <2>9. Ready(next, "saveThenTry")
    BY <1>1, <1>6, <2>6, <2>7, <2>8, SaveReady
  <2>10. TurnIs(rotation) => Phase(next, "saveThenTry")
    <3>1. ASSUME TurnIs(rotation) PROVE Nothing
      <4>1. ~rotation.enabled
        <5>1. ASSUME Stalled(rotation), rotation.enabled PROVE FALSE
          BY <5>1, <3>1, InvIs, ConstantsNat DEF Stalled, TurnIs, Timed, None
        <5>2. QED
          BY <1>8, <5>1
      <4>2. QED
        BY <3>1, <4>1 DEF TurnIs, Runs, Timed, Nothing
    <3>2. QED
      BY <2>2, <2>6, <3>1 DEF Phase
  <2>11. Begin(h, next, "saveThenTry")
    BY <1>8, <2>1, <2>3, <2>5
  <2>12. QED
    BY <2>9, <2>10, <2>11, ReadyKeeps
<1>9. ASSUME Begin(h, Edit(Load("resume", {k}, rotation), doc, {"slots"}), "save")
      PROVE  RotationInv'
  <2>1. PICK job : job = Edit(Load("resume", {k}, rotation), doc, {"slots"})
    OBVIOUS
  <2>2. Loaded(job, "resume", {k}, doc) /\ job.left = 0
    BY <1>1, <1>5, <1>6, <2>1, LoadedIs
  <2>3. MayBecome(rotation, doc, job)
    BY <1>7, <2>2
  <2>4. Ready(job, "save")
    BY <1>1, <1>6, <2>2, <2>3, SaveReady
  <2>5. TurnIs(rotation) => TurnIs(doc)
    BY <1>1, <1>3, <1>4, PausedTurn
  <2>6. doc.enabled = rotation.enabled /\ doc.token = rotation.token
    BY <1>5 DEF Fields
  <2>7. TurnIs(rotation) => Phase(job, "save")
    BY <2>2, <2>5, <2>6 DEF Phase, Loaded
  <2>8. QED
    BY <1>9, <2>1, <2>4, <2>7, ReadyKeeps
<1>10. QED
  BY <1>2, <1>3, <1>4, <1>8, <1>9

LEMMA removeSlotKeeps ==
  ASSUME RotationInv, NEW h \in Handler, Asks(h), removeSlot(h)
  PROVE  RotationInv'
<1>1. rotation \in Doc /\ rotation.index \in Nat /\ Len(rotation.slots) \in Nat
  BY InvIs, DocIs
<1>2. PICK k \in Queued(rotation) :
        LET i == IndexOf(rotation, k)
            current == rotation.enabled /\ rotation.index = i
            doc == [rotation EXCEPT
                      !.slots = RemoveAt(@, i + 1),
                      !.index = IF rotation.enabled /\ i < @ THEN @ - 1 ELSE @]
            job == Edit(Load("remove", {k}, rotation),
                        IF doc.slots = <<>> THEN [Cleared(doc) EXCEPT !.index = rotation.index]
                                            ELSE doc, {"slots"})
        IN IF ~current THEN Begin(h, job, "save")
           ELSE IF doc.slots = <<>> THEN Begin(h, Cancelling(job, "save"), "cancel")
           ELSE Begin(h, FromSlot(Cancelling(job, "try"), i), "cancel")
  BY DEF removeSlot
<1>3. PICK i \in Nat : /\ i = IndexOf(rotation, k) /\ i + 1 \in 1 .. Len(rotation.slots)
                       /\ rotation.slots[i + 1].kw = k /\ k \in Keyword
  BY <1>1, SlotOf
<1>4. PICK new : new = RemoveAt(rotation.slots, i + 1)
  OBVIOUS
<1>5. /\ new \in Seq(Slot) /\ Len(new) = Len(rotation.slots) - 1
      /\ \A n \in 1 .. Len(rotation.slots) - 1 :
           new[n] = IF n < i + 1 THEN rotation.slots[n] ELSE rotation.slots[n + 1]
  BY <1>1, <1>3, <1>4, DocIs, RemovedIs
<1>6. PICK index : index = IF rotation.enabled /\ i < rotation.index THEN rotation.index - 1
                                                                     ELSE rotation.index
  OBVIOUS
<1>7. index \in Nat
  BY <1>1, <1>3, <1>6
<1>8. PICK doc : doc = [rotation EXCEPT !.slots = new, !.index = index]
  OBVIOUS
<1>9. /\ doc \in Doc /\ doc.slots = new /\ doc.index = index /\ doc.enabled = rotation.enabled
      /\ doc.scan = rotation.scan /\ doc.token = rotation.token
  BY <1>1, <1>5, <1>7, <1>8 DEF Doc
<1>10. PICK end : end = IF new = <<>> THEN [Cleared(doc) EXCEPT !.index = rotation.index] ELSE doc
  OBVIOUS
<1>11. /\ end \in Doc /\ end.slots = new
       /\ new = <<>> => end.enabled = FALSE
       /\ new # <<>> => end = doc
  BY <1>1, <1>9, <1>10 DEF Doc, Cleared
<1>12. PICK job : job = Edit(Load("remove", {k}, rotation), end, {"slots"})
  OBVIOUS
<1>13. Loaded(job, "remove", {k}, end) /\ job.left = 0 /\ "remove" \in Operation
  BY <1>1, <1>3, <1>11, <1>12, LoadedIs DEF Operation, Fields
<1>14. MayBecome(rotation, end, job)
  BY <1>1, <1>3, <1>4, <1>11, <1>13, RemovedMay DEF Loaded
<1>15. ASSUME ~ (rotation.enabled /\ rotation.index = i), TurnIs(rotation)
       PROVE  /\ TurnIs(end)
              /\ end.enabled => rotation.enabled /\ rotation.token = end.token
  <2>1. CASE ~rotation.enabled
    <3>1. live = {} /\ timers = {} /\ ~end.enabled
      BY <1>9, <1>11, <1>15, <2>1 DEF TurnIs, Runs, Timed
    <3>2. QED
      BY <3>1 DEF TurnIs, Runs, Timed, Placed
  <2>2. CASE rotation.enabled
    <3>1. rotation.index < Len(rotation.slots) /\ rotation.index # i
      BY <1>15, <2>2 DEF TurnIs, Placed
    <3>2. Len(new) # 0 /\ new # <<>> /\ end = doc
      <4>1. Len(new) # 0
        BY <1>1, <1>3, <1>5, <3>1
      <4>2. QED
        BY <4>1, <1>5, <1>11, EmptySeq
    <3>3. index < Len(new) /\ new[index + 1] = rotation.slots[rotation.index + 1]
      <4>1. CASE i < rotation.index
        <5>1. index = rotation.index - 1
          BY <1>6, <2>2, <4>1
        <5>2. index + 1 \in 1 .. Len(rotation.slots) - 1 /\ ~ (index + 1 < i + 1)
          BY <1>1, <1>3, <3>1, <4>1, <5>1
        <5>3. index + 1 + 1 = rotation.index + 1 /\ index < Len(new)
          BY <1>1, <1>5, <3>1, <5>1
        <5>4. QED
          BY <1>5, <5>2, <5>3
      <4>2. CASE ~ (i < rotation.index)
        <5>1. index = rotation.index
          BY <1>6, <4>2
        <5>2. index + 1 \in 1 .. Len(rotation.slots) - 1 /\ index + 1 < i + 1
          BY <1>1, <1>3, <3>1, <4>2, <5>1
        <5>3. QED
          BY <1>1, <1>5, <5>1, <5>2
      <4>3. QED
        BY <4>1, <4>2
    <3>4. QED
      BY <1>9, <1>15, <2>2, <3>2, <3>3 DEF TurnIs, Runs, Timed, Placed
  <2>3. QED
    BY <2>1, <2>2
<1>16. ASSUME ~ (rotation.enabled /\ rotation.index = i), Begin(h, job, "save")
       PROVE  RotationInv'
  <2>1. Ready(job, "save")
    BY <1>1, <1>13, <1>14, SaveReady
  <2>2. TurnIs(rotation) => Phase(job, "save")
    BY <1>13, <1>15, <1>16 DEF Phase, Loaded
  <2>3. QED
    BY <1>16, <2>1, <2>2, ReadyKeeps
<1>17. ASSUME new = <<>>, Begin(h, Cancelling(job, "save"), "cancel") PROVE RotationInv'
  <2>1. PICK next : next = Cancelling(job, "save")
    OBVIOUS
  <2>2. Ready(next, "cancel") /\ (TurnIs(rotation) => Phase(next, "cancel"))
    BY <1>1, <1>3, <1>11, <1>13, <1>14, <1>17, <2>1, CancelReady
  <2>3. QED
    BY <1>17, <2>1, <2>2, ReadyKeeps
<1>18. ASSUME rotation.enabled, new # <<>>, Begin(h, FromSlot(Cancelling(job, "try"), i), "cancel")
       PROVE  RotationInv'
  <2>1. PICK next : next = FromSlot(Cancelling(job, "try"), i)
    OBVIOUS
  <2>2. end.enabled
    BY <1>9, <1>11, <1>18
  <2>3. Ready(next, "cancel") /\ (TurnIs(rotation) => Phase(next, "cancel"))
    BY <1>1, <1>3, <1>11, <1>13, <1>14, <2>1, <2>2, CancelReady
  <2>4. QED
    BY <1>18, <2>1, <2>3, ReadyKeeps
<1>19. [rotation EXCEPT !.slots = RemoveAt(@, i + 1),
                        !.index = IF rotation.enabled /\ i < @ THEN @ - 1 ELSE @] = doc
  BY <1>4, <1>6, <1>8
<1>20. IF ~ (rotation.enabled /\ rotation.index = i) THEN Begin(h, job, "save")
       ELSE IF new = <<>> THEN Begin(h, Cancelling(job, "save"), "cancel")
       ELSE Begin(h, FromSlot(Cancelling(job, "try"), i), "cancel")
  BY <1>2, <1>3, <1>9, <1>10, <1>12, <1>19
<1>21. QED
  BY <1>16, <1>17, <1>18, <1>20

LEMMA RequestKeeps ==
  ASSUME RotationInv, NEW h \in Handler, Request(h)
  PROVE  RotationInv'
<1>1. Asks(h)
  <2>1. requests \in 0 .. MaxRequests /\ MaxRequests \in Nat
    BY InvIs, ConstantsNat
  <2>2. requests < MaxRequests /\ requests' = requests + 1
    BY DEF Request
  <2>3. requests' \in 0 .. MaxRequests
    BY <2>1, <2>2
  <2>4. QED
    BY <2>3 DEF Request, Asks
<1>2. QED
  BY <1>1, startKeeps, stopKeeps, addSlotsKeeps, pauseSlotKeeps, resumeSlotKeeps,
     setSlotOptionKeeps, removeSlotKeeps DEF Request

-----------------------------------------------------------------------------
(* The end of a turn, and the watchdog.                                      *)

LEMMA advanceKeeps ==
  ASSUME RotationInv, NEW h \in Handler, NEW t \in Ids, advance(h, t)
  PROVE  RotationInv'
<1>1. /\ rotation \in Doc /\ timers \subseteq Ids /\ requests \in 0 .. MaxRequests
      /\ t \in timers /\ rotation.enabled /\ rotation.token = t
      /\ rotation' = rotation /\ live' = live /\ timers' = timers \ {t} /\ requests' = requests
  BY InvIs DEF advance
<1>2. PICK doc \in Doc : doc = rotation
  BY <1>1
<1>3. PICK job : job = Load("advance", {}, rotation)
  OBVIOUS
<1>4. Loaded(job, "advance", {}, doc) /\ job.left = 0
  <2>1. "advance" \in Operation \cup {"advance"} /\ {} \in SUBSET Keyword /\ {} \in SUBSET Fields
    OBVIOUS
  <2>2. Loaded(job, "advance", {}, doc)
    BY <1>1, <1>2, <1>3, <2>1, LoadedIs
  <2>3. job.left = 0
    BY <1>3 DEF Load
  <2>4. QED
    BY <2>2, <2>3
<1>5. PICK next : next = Cancelling(job, "try")
  OBVIOUS
<1>6. /\ next \in JobOf(Fields) /\ next.scan = rotation.scan /\ next.token = rotation.token
      /\ next.then = "try" /\ next.op = "advance" /\ next.doc = doc /\ next.kws = {}
      /\ next.dirty = job.dirty /\ ~next.stale /\ next.left = 0
  <2>1. "try" \in Label
    BY DEF Label
  <2>2. QED
    BY <1>1, <1>4, <1>5, <2>1, CancellingIs DEF Loaded
<1>7. Loaded(next, "advance", {}, doc)
  BY <1>4, <1>6 DEF Loaded
<1>8. Begin(h, next, "quota")
  BY <1>3, <1>5 DEF advance
<1>9. CopyOf(next, "quota")
  <2>1. MayBecome(rotation, doc, next)
    BY <1>2, SameMay
  <2>2. QED
    BY <1>7, <2>1, LoadedCopy
<1>10. Sound(next, "quota")
  BY <1>1, <1>6 DEF Sound
<1>11. Ready(next, "quota")
  BY <1>7, <1>9, <1>10 DEF Ready, Loaded, Label
<1>12. ASSUME TurnIs(rotation) PROVE Phase(next, "quota")'
  <2>1. Runs(rotation) /\ Placed(rotation) /\ timers' = {}
    BY <1>1, <1>12 DEF TurnIs, Timed
  <2>2. QED
    BY <1>1, <1>2, <1>6, <2>1 DEF Phase, Runs, Placed
<1>13. timers' \subseteq Ids /\ requests' \in 0 .. MaxRequests
  BY <1>1
<1>14. QED
  BY <1>1, <1>8, <1>11, <1>12, <1>13, BeginKeeps

LEMMA recoverKeeps ==
  ASSUME RotationInv, NEW h \in Handler, recoverStalledRotations(h)
  PROVE  RotationInv'
<1>1. /\ rotation \in Doc /\ requests \in 0 .. MaxRequests /\ Stalled(rotation) /\ Asks(h)
  BY InvIs DEF recoverStalledRotations, Asks
<1>2. PICK doc \in Doc : doc = rotation
  BY <1>1
<1>3. PICK job : job = Load("watchdog", {}, rotation)
  OBVIOUS
<1>4. Loaded(job, "watchdog", {}, doc) /\ "watchdog" \in Operation
  <2>1. "watchdog" \in Operation /\ {} \in SUBSET Keyword /\ {} \in SUBSET Fields
    BY DEF Operation
  <2>2. QED
    BY <1>1, <1>2, <1>3, <2>1, LoadedIs
<1>5. PICK next : next = FromSlot(job, rotation.index)
  OBVIOUS
<1>6. /\ next \in JobOf(Fields) /\ Same(job, next) /\ next.doc = doc /\ next.dirty = job.dirty
      /\ next.left > 0 => next.at < Len(doc.slots)
  <2>1. rotation.index \in Nat
    BY <1>1, DocIs
  <2>2. QED
    BY <1>4, <1>5, <2>1, FromSlotIs DEF Loaded
<1>7. Loaded(next, "watchdog", {}, doc)
  BY <1>4, <1>6 DEF Loaded, Same
<1>8. MayBecome(rotation, doc, next)
  BY <1>2, SameMay
<1>9. Ready(next, "try")
  BY <1>1, <1>4, <1>6, <1>7, <1>8, SaveReady
<1>10. ~TurnIs(rotation)
  BY <1>1, InvIs, ConstantsNat DEF Stalled, TurnIs, Timed, None
<1>11. Begin(h, next, "try")
  BY <1>3, <1>5 DEF recoverStalledRotations
<1>12. QED
  BY <1>1, <1>9, <1>10, <1>11, ReadyKeeps

-----------------------------------------------------------------------------
(* Every step.                                                              *)

LEMMA InitHolds == Init => RotationInv
<1> SUFFICES ASSUME Init PROVE RotationInv
  OBVIOUS
<1>1. /\ rotation = Blank /\ live = {} /\ timers = {} /\ requests = 0 /\ disturbed = FALSE
      /\ pc = [h \in Handler |-> "idle"] /\ my = [h \in Handler |-> NoJob]
  BY DEF Init
<1>2. rotation \in Doc /\ NoJob \in JobOf(Fields)
  BY <1>1, BlankIs, NoJobIs
<1>3. TypeOK
  <2>1. Job = JobOf(Fields)
    BY <1>2, JobIs
  <2>2. 0 \in 0 .. MaxRequests /\ "idle" \in Label
    BY ConstantsNat DEF Label
  <2>3. QED
    BY <1>1, <1>2, <2>1, <2>2 DEF TypeOK
<1>4. \A h \in Handler : Sound(my[h], pc[h]) /\ Idle(h)
  BY <1>1, NoJobIs DEF Idle
<1>5. TurnIs(rotation)
  BY <1>1 DEF Blank, TurnIs, Runs, Placed, Timed
<1>6. QED
  BY <1>3, <1>4, <1>5 DEF RotationInv

LEMMA StepKeeps ==
  ASSUME RotationInv, NEW h \in Handler, Step(h)
  PROVE  RotationInv'
BY ExtendKeeps, HandOffKeeps, CancelKeeps, SkipKeeps, TryKeeps, CreateKeeps, NothingKeeps,
   SaveKeeps, PushKeeps, VersionErrorKeeps, AddTimerKeeps DEF Step

LEMMA StutterKeeps ==
  ASSUME RotationInv, UNCHANGED vars
  PROVE  RotationInv'
<1>1. /\ pc' = pc /\ my' = my /\ rotation' = rotation /\ requests' = requests
      /\ disturbed' = disturbed /\ live' = live /\ timers' = timers
  BY DEF vars
<1>2. TurnIs(rotation) => TurnIs(rotation)'
  BY <1>1 DEF TurnIs, Runs, Placed, Timed
<1>3. ASSUME ~disturbed, NEW h \in Handler, ~Idle(h) PROVE Phase(my[h], pc[h])'
  <2>1. Phase(my[h], pc[h])
    BY <1>3, AtWork DEF Alone
  <2>2. QED
    BY <2>1, <1>1 DEF Phase, Nothing, TurnIs, Timed, Runs, Placed
<1>4. ~disturbed => (Quiet => TurnIs(rotation)')
  BY <1>2, InvIs
<1>5. QED
  BY <1>1, <1>3, <1>4, OutsideKeeps

LEMMA NextKeeps == RotationInv /\ [Next]_vars => RotationInv'
<1> SUFFICES ASSUME RotationInv, [Next]_vars PROVE RotationInv'
  OBVIOUS
<1>1. ASSUME NEW h \in Handler,
             Request(h) \/ recoverStalledRotations(h) \/ Step(h) \/ Throw(h) \/ Crash(h)
      PROVE  RotationInv'
  BY <1>1, RequestKeeps, recoverKeeps, StepKeeps, ThrowKeeps, CrashKeeps
<1>2. ASSUME NEW h \in Handler, NEW t \in Ids, advance(h, t) PROVE RotationInv'
  BY <1>2, advanceKeeps
<1>3. ASSUME NEW t \in Ids, StaleTimer(t) PROVE RotationInv'
  BY <1>3, StaleTimerKeeps
<1>4. ASSUME NEW l \in live, ScanEnds(l) PROVE RotationInv'
  BY <1>4, ScanEndsKeeps
<1>5. ASSUME UNCHANGED vars PROVE RotationInv'
  BY <1>5, StutterKeeps
<1>6. QED
  BY <1>1, <1>2, <1>3, <1>4, <1>5 DEF Next

\* For any number of handlers, keywords and slots, and whatever fails: a copy that is
\* not stale is the document but for what its request asked for, and as long as the
\* handlers follow one another there is one turn, brought about step by step.
THEOREM RotationHolds == Spec => []RotationInv
<1>1. Init => RotationInv
  BY InitHolds
<1>2. RotationInv /\ [Next]_vars => RotationInv'
  BY NextKeeps
<1>3. QED
  BY <1>1, <1>2, PTL DEF Spec


-----------------------------------------------------------------------------
(* One scan at a time, with one timer.                                      *)

LEMMA OneRuns ==
  ASSUME NEW doc, Runs(doc), live \subseteq Scan
  PROVE  Cardinality(live) <= 1
<1>1. CASE live = {}
  BY <1>1, FS_EmptySet
<1>2. CASE live # {}
  <2>1. PICK l : l \in live
    BY <1>2
  <2>2. live = {l}
    <3>1. ASSUME NEW m \in live PROVE m = l
      <4>1. m.id = l.id /\ m.kw = l.kw
        <5>1. /\ doc.scan = l.id /\ doc.scan = m.id
              /\ doc.slots[doc.index + 1] = [kw |-> l.kw, paused |-> FALSE]
              /\ doc.slots[doc.index + 1] = [kw |-> m.kw, paused |-> FALSE]
          BY <2>1, <3>1 DEF Runs
        <5>2. doc.slots[doc.index + 1].kw = l.kw /\ doc.slots[doc.index + 1].kw = m.kw
          BY <5>1
        <5>3. QED
          BY <5>1, <5>2
      <4>2. m \in Scan /\ l \in Scan
        BY <2>1
      <4>3. QED
        BY <4>1, <4>2 DEF Scan
    <3>2. QED
      BY <2>1, <3>1
  <2>3. Cardinality({l}) = 1
    BY FS_Singleton
  <2>4. QED
    BY <2>2, <2>3
<1>3. QED
  BY <1>1, <1>2

LEMMA OneTurn == RotationInv => OneTimedTurn
<1> SUFFICES ASSUME RotationInv PROVE OneTimedTurn
  OBVIOUS
<1>1. TypeOK /\ live \subseteq Scan
  BY InvIs DEF RotationInv
<1>2. ASSUME ~disturbed PROVE Cardinality(live) <= 1
  <2>1. CASE Quiet
    BY <1>1, <1>2, <2>1, InvIs, OneRuns DEF TurnIs
  <2>2. CASE ~Quiet
    <3>1. PICK h \in Handler : ~Idle(h)
      BY <2>2 DEF Quiet
    <3>2. Phase(my[h], pc[h]) /\ pc[h] \in Label \ {"idle"}
      BY <1>2, <3>1, AtWork DEF Alone, Idle
    <3>3. Runs(rotation) \/ Runs(my[h].doc) \/ live = {}
      BY <3>2 DEF Phase, Label, SaveLabel, TurnIs, Nothing
    <3>4. CASE live = {}
      BY <3>4, FS_EmptySet
    <3>5. QED
      BY <1>1, <3>3, <3>4, OneRuns
  <2>3. QED
    BY <2>1, <2>2
<1>3. ASSUME ~disturbed, Quiet
      PROVE  /\ \A l \in live :
                  /\ rotation.enabled /\ rotation.scan = l.id
                  /\ rotation.index < Len(rotation.slots)
                  /\ rotation.slots[rotation.index + 1] = [kw |-> l.kw, paused |-> FALSE]
             /\ timers = IF rotation.enabled THEN {rotation.token} ELSE {}
  BY <1>3, InvIs DEF TurnIs, Runs, Timed
<1>4. QED
  BY <1>1, <1>2, <1>3 DEF OneTimedTurn

\* "This instead runs exactly ONE keyword's discovery scan at a time": for every queue,
\* as long as requests and timers come one after another, no second scan is ever live
\* and, at rest, the turn that is on has its timer and there is no other.
THEOREM OneTurnAtATime == Spec => []OneTimedTurn
BY RotationHolds, OneTurn, PTL

-----------------------------------------------------------------------------
(* No save undoes another's change to the queue.                            *)

ChangesAsked == \A k \in Keyword :
  /\ k \in Queued(rotation') \ Queued(rotation) => Asked(k, {"add"})
  /\ k \in Queued(rotation) \ Queued(rotation') => Asked(k, {"remove"})
  /\ k \in (Resting(rotation) \cap Queued(rotation')) \ Resting(rotation')
       => Asked(k, {"resume", "add"})

LEMMA SaveAsks ==
  ASSUME RotationInv, NEW h \in Handler, Save(h)
  PROVE  ChangesAsked
<1>1. /\ ~Idle(h) /\ pc[h] \in SaveLabel /\ ~VersionConflict(h)
      /\ pc' = [pc EXCEPT ![h] = AfterSave(pc[h])]
  BY DEF Save, Saved, SaveLabel, Idle
<1>2. pc'[h] # pc[h]
  <2>1. pc'[h] = AfterSave(pc[h])
    BY <1>1, InvIs
  <2>2. QED
    BY <1>1, <2>1 DEF AfterSave, SaveLabel
<1>3. \A f \in Fields : rotation'[f] = IF f \in my[h].dirty THEN my[h].doc[f] ELSE rotation[f]
  BY SaveIs
<1>4. CASE "slots" \in my[h].dirty
  <2>1. PICK doc : doc = my[h].doc
    OBVIOUS
  <2>2. rotation'.slots = doc.slots
    BY <1>3, <1>4, <2>1 DEF Fields
  <2>3. ~my[h].stale
    BY <1>1, <1>4 DEF VersionConflict
  <2>4. MayBecome(rotation, doc, my[h])
    BY <1>1, <1>4, <2>1, <2>3, AtWork DEF CopyOf, SaveLabel
  <2>5. Queued(rotation') = Queued(doc) /\ Resting(rotation') = Resting(doc)
    BY <2>2 DEF Queued, Resting
  <2>6. \A k, ops : my[h].op = "start" \/ (my[h].op \in ops /\ k \in my[h].kws) => Asked(k, ops)
    BY <1>2 DEF Asked
  <2>7. QED
    BY <2>4, <2>5, <2>6 DEF MayBecome, ChangesAsked
<1>5. CASE "slots" \notin my[h].dirty
  <2>1. rotation'.slots = rotation.slots
    BY <1>3, <1>5 DEF Fields
  <2>2. Queued(rotation') = Queued(rotation) /\ Resting(rotation') = Resting(rotation)
    BY <2>1 DEF Queued, Resting
  <2>3. QED
    BY <2>2 DEF ChangesAsked
<1>6. QED
  BY <1>4, <1>5

LEMMA PushAsks ==
  ASSUME RotationInv, NEW h \in Handler, Push(h)
  PROVE  ChangesAsked
<1>1. pc[h] = "push" /\ pc' = [pc EXCEPT ![h] = "idle"]
  BY DEF Push, Saved
<1>2. pc'[h] # pc[h]
  BY <1>1, InvIs
<1>3. /\ rotation' \in Doc /\ rotation \in Doc
      /\ Len(rotation.slots) \in Nat /\ Len(rotation'.slots) = Len(rotation.slots) + 1
      /\ \A n \in 1 .. Len(rotation.slots) : rotation'.slots[n] = rotation.slots[n]
      /\ my[h].op = "add" /\ rotation'.slots[Len(rotation.slots) + 1].kw \in my[h].kws
  BY PushedIs, InvIs
<1>4. PICK kw : kw = rotation'.slots[Len(rotation.slots) + 1].kw
  OBVIOUS
<1>5. \A n \in 1 .. Len(rotation'.slots) :
        n = Len(rotation.slots) + 1 \/ n \in 1 .. Len(rotation.slots)
  BY <1>3
<1>6. \A n \in 1 .. Len(rotation.slots) : n \in 1 .. Len(rotation'.slots)
  BY <1>3
<1>7. ASSUME NEW k, k # kw
      PROVE  /\ k \in Queued(rotation') <=> k \in Queued(rotation)
             /\ k \in Resting(rotation) => k \in Resting(rotation')
  <2>1. /\ k \in Queued(rotation') <=> \E n \in 1 .. Len(rotation'.slots) : rotation'.slots[n].kw = k
        /\ k \in Resting(rotation') <=>
             /\ k \in Queued(rotation')
             /\ \A n \in 1 .. Len(rotation'.slots) :
                  rotation'.slots[n].kw = k => rotation'.slots[n].paused
    BY <1>3, RestingIs
  <2>2. /\ k \in Queued(rotation) <=> \E n \in 1 .. Len(rotation.slots) : rotation.slots[n].kw = k
        /\ k \in Resting(rotation) <=>
             /\ k \in Queued(rotation)
             /\ \A n \in 1 .. Len(rotation.slots) :
                  rotation.slots[n].kw = k => rotation.slots[n].paused
    BY <1>3, RestingIs
  <2>3. k \in Queued(rotation') <=> k \in Queued(rotation)
    BY <1>3, <1>4, <1>5, <1>6, <1>7, <2>1, <2>2
  <2>4. ASSUME k \in Resting(rotation), NEW n \in 1 .. Len(rotation'.slots), rotation'.slots[n].kw = k
        PROVE  rotation'.slots[n].paused
    BY <1>3, <1>4, <1>5, <1>7, <2>2, <2>4
  <2>5. k \in Resting(rotation) => k \in Queued(rotation')
    BY <2>2, <2>3
  <2>6. QED
    BY <2>1, <2>3, <2>4, <2>5
<1>8. kw \in Queued(rotation) => kw \in Queued(rotation')
  <2>1. /\ kw \in Queued(rotation') <=> \E n \in 1 .. Len(rotation'.slots) : rotation'.slots[n].kw = kw
        /\ kw \in Queued(rotation) <=> \E n \in 1 .. Len(rotation.slots) : rotation.slots[n].kw = kw
    BY <1>3, RestingIs
  <2>2. QED
    BY <1>3, <1>6, <2>1
<1>9. Asked(kw, {"add"}) /\ Asked(kw, {"resume", "add"})
  BY <1>2, <1>3, <1>4 DEF Asked
<1>10. ASSUME NEW k \in Keyword
       PROVE  /\ k \in Queued(rotation') \ Queued(rotation) => Asked(k, {"add"})
              /\ k \in Queued(rotation) \ Queued(rotation') => Asked(k, {"remove"})
              /\ k \in (Resting(rotation) \cap Queued(rotation')) \ Resting(rotation')
                   => Asked(k, {"resume", "add"})
  <2>1. CASE k = kw
    BY <1>8, <1>9, <2>1
  <2>2. CASE k # kw
    BY <1>7, <2>2
  <2>3. QED
    BY <2>1, <2>2
<1>11. QED
  BY <1>10 DEF ChangesAsked

\* Every other step leaves the document alone.
LEMMA NextAsks ==
  ASSUME RotationInv, [Next]_vars
  PROVE  ChangesAsked
<1>1. ASSUME rotation' = rotation PROVE ChangesAsked
  <2>1. Queued(rotation') = Queued(rotation) /\ Resting(rotation') = Resting(rotation)
    BY <1>1 DEF Queued, Resting
  <2>2. QED
    BY <2>1 DEF ChangesAsked
<1>2. ASSUME NEW h \in Handler, Step(h) PROVE ChangesAsked
  <2>1. CASE Save(h)
    BY <2>1, SaveAsks
  <2>2. CASE Push(h)
    BY <2>2, PushAsks
  <2>3. CASE Extend(h) \/ HandOff(h) \/ cancelCurrentSlot(h) \/ SkipSlot(h) \/ TrySlot(h)
    BY <2>3, <1>1 DEF Extend, HandOff, cancelCurrentSlot, SkipSlot, TrySlot
  <2>4. CASE CreateScan(h) \/ NothingToRun(h) \/ VersionError(h) \/ AddTimer(h)
    BY <2>4, <1>1 DEF CreateScan, NothingToRun, VersionError, AddTimer
  <2>5. QED
    BY <1>2, <2>1, <2>2, <2>3, <2>4 DEF Step
<1>3. ASSUME NEW h \in Handler,
             Request(h) \/ recoverStalledRotations(h) \/ Throw(h) \/ Crash(h)
      PROVE  ChangesAsked
  BY <1>3, <1>1 DEF Request, recoverStalledRotations, Throw, Crash
<1>4. ASSUME NEW h \in Handler, NEW t \in Ids, advance(h, t) PROVE ChangesAsked
  BY <1>4, <1>1 DEF advance
<1>5. ASSUME NEW t \in Ids, StaleTimer(t) PROVE ChangesAsked
  BY <1>5, <1>1 DEF StaleTimer
<1>6. ASSUME NEW l \in live, ScanEnds(l) PROVE ChangesAsked
  BY <1>6, <1>1 DEF ScanEnds
<1>7. ASSUME UNCHANGED vars PROVE ChangesAsked
  BY <1>7, <1>1 DEF vars
<1>8. QED
  BY <1>2, <1>3, <1>4, <1>5, <1>6, <1>7 DEF Next

\* Mongoose's version check of whole arrays is enough: however many handlers work on
\* copies of the rotation, a keyword comes, goes or runs again only by the save of a
\* request that names it, or of start.
THEOREM NothingUndone == Spec => NoSlotChangeUndone
<1>1. RotationInv /\ [Next]_vars => [ChangesAsked]_vars
  BY NextAsks
<1>2. QED
  BY <1>1, RotationHolds, PTL DEF Spec, NoSlotChangeUndone, ChangesAsked

===============================================================================
