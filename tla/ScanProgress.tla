---------------------------- MODULE ScanProgress ----------------------------
(***************************************************************************)
(* The progress of one scan on its way to a browser: events that server    *)
(* processes number and save on the scan's document, publish over Redis    *)
(* and hand to their own subscribers; the stream of one client, and the    *)
(* polling it falls back to.                                               *)
(*                                                                         *)
(* A step is what a process does between two awaits.  Only Api has the     *)
(* client's stream, so only its Redis subscription matters.                *)
(*                                                                         *)
(* Abstracted: of an event's content its sequence number, whether it ends  *)
(* the scan, the status it reports and one counter (work); time, of which  *)
(* only "within the throttle window or not" is left; heartbeats; forced    *)
(* events that do not end the scan (they go the way of an event outside    *)
(* the window), a reload of the page (a client that starts late); polls    *)
(* that overlap, whose older answer applyEvent drops by its number.        *)
(***************************************************************************)
EXTENDS Naturals, Sequences, FiniteSets

CONSTANTS
  Proc, Api,       \* server processes, and the one that serves the client
  Workers,         \* those that run the scan's jobs (ENABLE_QUEUE_WORKERS)
  Emission,        \* bound: the emissions the processes may have in flight, <<process, slot>>
  MaxWork,         \* units the scan consists of
  MaxFaults        \* bound on failures

ASSUME ScanProgressConstantsOK ==
  /\ Api \in Proc /\ Emission \subseteq Proc \X Nat /\ MaxWork \in Nat
  /\ Workers \subseteq Proc /\ MaxFaults \in Nat

VARIABLES
  doc,         \* the scan's document, with its latest event
  em,          \* the emissions in flight
  throttle,    \* of each process: in the window? its pending event, if its timer is set
  orphans,     \* timers of throttle states that have been replaced, with their pending event
  published,   \* number of the last event each process published
  sub,         \* Api's Redis subscription to the scan's channel
  inbox,       \* what Redis has for Api
  client,      \* the panel, and the stream it has open
  faults,      \* failures so far
  mishap,      \* history: what may keep the end from the client
  overlapped   \* history: did two emissions ever overlap?

vars == <<doc, em, throttle, orphans, published, sub, inbox, client, faults,
          mishap, overlapped>>

Status == {"running", "ended"}
Message == [terminal : BOOLEAN, force : BOOLEAN, status : Status, work : 0 .. MaxWork]
NoMessage == [terminal |-> FALSE, force |-> FALSE, status |-> "running", work |-> 0]
Free == [at |-> "free", msg |-> NoMessage, seq |-> 0]
Latest == [terminal |-> FALSE, work |-> 0]
Closed == [at |-> "start", last |-> 0, status |-> "running", over |-> FALSE, after |-> 0,
           snapshot |-> FALSE]

TypeOK ==
  /\ doc \in [status : Status, work : 0 .. MaxWork, seq : Nat \ {0},
              latest : [terminal : BOOLEAN, work : 0 .. MaxWork]]
  /\ em \in [Emission -> [at : {"free", "read", "start", "save", "publish", "fanout"},
                          msg : Message, seq : Nat]]
  /\ throttle \in [Proc -> [hot : BOOLEAN, pending : SUBSET Message]]
  /\ orphans \in [Proc -> SUBSET Message]
  /\ published \in [Proc -> Nat]
  /\ sub \in {"off", "asked", "on"}
  /\ inbox \in Seq([seq : Nat \ {0}, terminal : BOOLEAN, status : Status])
  /\ client \in [at : {"start", "connect", "stream", "polling", "done"}, last : Nat,
                 status : Status, over : BOOLEAN, after : Nat, snapshot : BOOLEAN]
  /\ faults \in 0 .. MaxFaults
  /\ mishap \subseteq {"lost", "overtaken", "cut"} /\ overlapped \in BOOLEAN

\* enqueueManualScan has emitted the first event.
Init ==
  /\ doc = [status |-> "running", work |-> 0, seq |-> 1, latest |-> Latest]
  /\ em = [e \in Emission |-> Free]
  /\ throttle = [p \in Proc |-> [hot |-> FALSE, pending |-> {}]]
  /\ orphans = [p \in Proc |-> {}] /\ published = [p \in Proc |-> 0]
  /\ sub = "off" /\ inbox = <<>> /\ client = Closed
  /\ faults = 0 /\ mishap = {} /\ overlapped = FALSE
-----------------------------------------------------------------------------
(* Emitting an event.                                                      *)

Begun(e) == overlapped' = \/ overlapped
                          \/ \E other \in Emission \ {e} : em[other].at # "free"
                          \/ \E p \in Proc : orphans[p] # {} \/ (p # e[1] /\ throttle[p].pending # {})

\* A process takes its first free slot.
FirstFree(e) == /\ em[e].at = "free"
                /\ \A other \in Emission : (other[1] = e[1] /\ other[2] < e[2]) => em[other].at # "free"

Emit(e, terminal, force) ==
  /\ FirstFree(e)
  /\ em' = [em EXCEPT ![e].at = "read", ![e].msg.terminal = terminal, ![e].msg.force = force]
  /\ Begun(e)

\* completeAnalysisUnit and the like: a counter, then the event.
Report(e) ==
  /\ e[1] \in Workers /\ doc.work < MaxWork /\ doc' = [doc EXCEPT !.work = @ + 1]
  /\ Emit(e, FALSE, FALSE)
  /\ UNCHANGED <<throttle, orphans, published, sub, inbox, client, faults, mishap>>

\* finalize once everything has reported, or a cancel before that: then units may
\* report afterwards.
End(e) ==
  /\ doc.status = "running" /\ doc' = [doc EXCEPT !.status = "ended"]
  /\ Emit(e, TRUE, TRUE)
  /\ UNCHANGED <<throttle, orphans, published, sub, inbox, client, faults, mishap>>

\* emitFromScanId reads the document; a status that is terminal there wins over the
\* caller's (buildFromJobDoc).
Read(e) ==
  /\ em[e].at = "read"
  /\ em' = [em EXCEPT ![e].at = "start", ![e].msg.status = doc.status, ![e].msg.work = doc.work]
  /\ UNCHANGED <<doc, throttle, orphans, published, sub, inbox, client, faults,
                 mishap, overlapped>>

Unforced(e) == ~em[e].msg.force /\ throttle[e[1]].hot

\* As if the first event that is held back stayed, not the last.
StartKeeping(e) ==
  /\ em[e].at = "start"
  /\ IF Unforced(e)
       THEN /\ throttle' = [throttle EXCEPT ![e[1]].pending = IF @ = {} THEN {em[e].msg} ELSE @]
            /\ em' = [em EXCEPT ![e] = Free]
       ELSE /\ throttle' = [throttle EXCEPT ![e[1]].pending = {}]
            /\ em' = [em EXCEPT ![e].at = "save"]
  /\ UNCHANGED <<doc, orphans, published, sub, inbox, client, faults, mishap,
                 overlapped>>

\* As if the end could be held back too.
StartThrottled(e) ==
  /\ em[e].at = "start"
  /\ IF throttle[e[1]].hot
       THEN /\ throttle' = [throttle EXCEPT ![e[1]].pending = {em[e].msg}]
            /\ em' = [em EXCEPT ![e] = Free]
       ELSE /\ throttle' = [throttle EXCEPT ![e[1]].pending = {}]
            /\ em' = [em EXCEPT ![e].at = "save"]
  /\ UNCHANGED <<doc, orphans, published, sub, inbox, client, faults, mishap,
                 overlapped>>

\* emit: within the window an event that is not forced replaces the pending one;
\* otherwise emitNow begins, and drops the pending one.
Start(e) ==
  /\ em[e].at = "start"
  /\ IF Unforced(e)
       THEN /\ throttle' = [throttle EXCEPT ![e[1]].pending = {em[e].msg}]
            /\ em' = [em EXCEPT ![e] = Free]
       ELSE /\ throttle' = [throttle EXCEPT ![e[1]].pending = {}]
            /\ em' = [em EXCEPT ![e].at = "save"]
  /\ UNCHANGED <<doc, orphans, published, sub, inbox, client, faults, mishap,
                 overlapped>>

\* The timer of the throttle state, or one whose state has been replaced meanwhile: its
\* emitNow clears the timer of the present state.
TimerFires(e) ==
  LET p == e[1] IN
  /\ FirstFree(e)
  /\ \E msg \in throttle[p].pending \cup orphans[p] :
       /\ em' = [em EXCEPT ![e] = [Free EXCEPT !.at = "save", !.msg = msg]]
       /\ orphans' = [orphans EXCEPT ![p] = IF msg \in throttle[p].pending THEN @ ELSE @ \ {msg}]
       /\ throttle' = [throttle EXCEPT ![p].pending = {}]
  /\ Begun(e)
  /\ UNCHANGED <<doc, published, sub, inbox, client, faults, mishap>>

\* The number and the latest event, in one update of the document.
Save(e) ==
  /\ em[e].at = "save"
  /\ LET msg == em[e].msg IN
     /\ doc' = [doc EXCEPT !.seq = @ + 1,
                           !.latest = [terminal |-> msg.terminal, work |-> msg.work]]
     /\ mishap' = IF doc.latest.terminal THEN mishap \cup {"overtaken"} ELSE mishap
  /\ em' = [em EXCEPT ![e].at = "publish", ![e].seq = doc.seq + 1]
  /\ UNCHANGED <<throttle, orphans, published, sub, inbox, client, faults,
                 overlapped>>

Event(e) == [seq |-> em[e].seq, terminal |-> em[e].msg.terminal, status |-> em[e].msg.status]

\* A new throttle state, and Redis; published marks the echo that Api need not hand on.
Publish(e) ==
  LET p == e[1] IN
  /\ em[e].at = "publish"
  /\ throttle' = [throttle EXCEPT ![p] = [hot |-> TRUE, pending |-> {}]]
  /\ orphans' = [orphans EXCEPT ![p] = @ \cup throttle[p].pending]
  /\ published' = [published EXCEPT ![p] = em[e].seq]
  /\ \E works \in BOOLEAN :
       /\ works \/ faults < MaxFaults
       /\ faults' = faults + (IF works THEN 0 ELSE 1)
       /\ inbox' = IF works /\ sub = "on" THEN Append(inbox, Event(e)) ELSE inbox
       /\ mishap' = IF p # Api /\ client.at = "stream" /\ ~client.snapshot /\ ~(works /\ sub = "on")
                      THEN mishap \cup {"lost"} ELSE mishap
  /\ em' = [em EXCEPT ![e].at = "fanout"]
  /\ UNCHANGED <<doc, sub, client, overlapped>>

Cool(p) ==
  /\ throttle[p].hot /\ throttle' = [throttle EXCEPT ![p].hot = FALSE]
  /\ UNCHANGED <<doc, em, orphans, published, sub, inbox, client, faults, mishap,
                 overlapped>>

-----------------------------------------------------------------------------
(* The client.                                                             *)

\* applyEvent
Applied(event) ==
  IF event.seq > client.last
    THEN [client EXCEPT !.last = event.seq, !.status = event.status,
                        !.over = @ \/ event.terminal]
    ELSE client

\* fromJob: the latest event, with the status the document has now.
FromDoc == [seq |-> doc.seq, terminal |-> doc.latest.terminal, status |-> doc.status]

\* The stream ends, and with it Api's subscription: the panel falls back to polling,
\* unless it knows that the scan is over.
Ended(c) == [c EXCEPT !.at = IF c.over THEN "done" ELSE "polling", !.snapshot = FALSE]

\* As if the end of a scan did not end the stream.
DeliverOn(event, rest) ==
  /\ IF client.at = "stream" /\ event.seq > client.after /\ ~event.terminal
       THEN client' = Applied(event)
       ELSE UNCHANGED client
  /\ inbox' = rest /\ UNCHANGED sub

\* What a subscriber of Api makes of an event: one that ends the scan stops the stream
\* before it is passed on (takeUntil).
Deliver(event, rest) ==
  IF client.at = "stream" /\ event.seq > client.after
    THEN IF event.terminal
           THEN client' = Ended(client) /\ sub' = "off" /\ inbox' = <<>>
           ELSE client' = Applied(event) /\ inbox' = rest /\ UNCHANGED sub
    ELSE inbox' = rest /\ UNCHANGED <<client, sub>>

FanOutRemote(e) ==
  /\ em[e].at = "fanout" /\ em' = [em EXCEPT ![e] = Free]
  /\ UNCHANGED <<doc, throttle, orphans, published, sub, inbox, client, faults,
                 mishap, overlapped>>

\* Once Redis has answered, the subscribers of the process itself.
FanOut(e) ==
  /\ em[e].at = "fanout" /\ em' = [em EXCEPT ![e] = Free]
  /\ IF e[1] = Api THEN Deliver(Event(e), inbox) ELSE UNCHANGED <<client, sub, inbox>>
  /\ UNCHANGED <<doc, throttle, orphans, published, faults, mishap, overlapped>>

OnRedisMessage ==
  /\ inbox # <<>>
  /\ IF Head(inbox).seq = published[Api]
       THEN inbox' = Tail(inbox) /\ UNCHANGED <<client, sub>>
       ELSE Deliver(Head(inbox), Tail(inbox))
  /\ UNCHANGED <<doc, em, throttle, orphans, published, faults, mishap, overlapped>>

\* getLatest
Poll ==
  /\ client.at \in {"start", "polling"}
  /\ LET c == IF doc.seq > client.last THEN Applied(FromDoc) ELSE client IN
     client' = [c EXCEPT !.at = IF c.over THEN "done" ELSE IF @ = "start" THEN "connect" ELSE @]
  /\ client' # client
  /\ UNCHANGED <<doc, em, throttle, orphans, published, sub, inbox, faults, mishap,
                 overlapped>>

\* stream: subscribed at once to what Api emits, to Redis when it has answered.
Open ==
  /\ client.at = "connect"
  /\ client' = [client EXCEPT !.at = "stream", !.after = client.last, !.snapshot = TRUE]
  /\ sub' = "asked"
  /\ UNCHANGED <<doc, em, throttle, orphans, published, inbox, faults, mishap,
                 overlapped>>

Subscribed ==
  /\ sub = "asked" /\ sub' = "on"
  /\ UNCHANGED <<doc, em, throttle, orphans, published, inbox, client, faults,
                 mishap, overlapped>>

\* The snapshot, if it is newer; the stream ends if the scan has.
Snapshot ==
  /\ client.at = "stream" /\ client.snapshot
  /\ LET c == IF doc.seq > client.after THEN Applied(FromDoc) ELSE client IN
     IF doc.status = "ended"
       THEN client' = Ended(c) /\ sub' = "off" /\ inbox' = <<>>
       ELSE client' = [c EXCEPT !.snapshot = FALSE] /\ UNCHANGED <<sub, inbox>>
  /\ UNCHANGED <<doc, em, throttle, orphans, published, faults, mishap, overlapped>>

\* The connection breaks.
Disconnect ==
  /\ client.at \in {"connect", "stream"} /\ faults < MaxFaults /\ faults' = faults + 1
  /\ client' = Ended(client) /\ sub' = "off" /\ inbox' = <<>>
  /\ UNCHANGED <<doc, em, throttle, orphans, published, mishap, overlapped>>

\* A process dies with what it had in flight.
Crash(p) ==
  /\ faults < MaxFaults /\ faults' = faults + 1
  /\ em' = [e \in Emission |-> IF e[1] = p THEN Free ELSE em[e]]
  /\ throttle' = [throttle EXCEPT ![p] = [hot |-> FALSE, pending |-> {}]]
  /\ orphans' = [orphans EXCEPT ![p] = {}] /\ published' = [published EXCEPT ![p] = 0]
  /\ mishap' = IF \E e \in Emission : e[1] = p /\ em[e].at # "free" THEN mishap \cup {"cut"} ELSE mishap
  /\ IF p = Api /\ client.at \in {"connect", "stream"}
       THEN client' = Ended(client) /\ sub' = "off" /\ inbox' = <<>>
       ELSE UNCHANGED <<client, sub, inbox>>
  /\ UNCHANGED <<doc, overlapped>>

Work(e) == Read(e) \/ Start(e) \/ Save(e) \/ Publish(e) \/ FanOut(e) \/ TimerFires(e)
Panel == Poll \/ Open \/ Snapshot

Next ==
  \/ \E e \in Emission : Report(e) \/ End(e) \/ Work(e)
  \/ \E p \in Proc : Cool(p) \/ Crash(p)
  \/ OnRedisMessage \/ Subscribed \/ Panel \/ Disconnect

\* A process runs what is ready and timers fire; Redis and the network answer.
Fairness ==
  /\ \A e \in Emission : WF_vars(Work(e))
  /\ WF_vars(OnRedisMessage) /\ WF_vars(Subscribed) /\ WF_vars(Panel)

Spec == Init /\ [][Next]_vars
FairSpec == Spec /\ Fairness

-----------------------------------------------------------------------------
(* Properties.                                                             *)

Quiet ==
  /\ \A e \in Emission : em[e].at = "free"
  /\ \A p \in Proc : throttle[p].pending = {} /\ orphans[p] = {}

\* Once a scan has ended the client stops asking and shows that it has: it polls, or a
\* stream ends under it, until it is told.  Not if the message of the end was lost on its
\* way to the client's process, cut short by a crash, or overtaken by a later event.
ClientFinishes ==
  (doc.status = "ended") ~>
     (client.at = "done" /\ client.status = "ended") \/ mishap # {}

\* At rest a connected client has been told the latest event, by its poll, the snapshot,
\* its own process or Redis.  Exempt (mishap) is a client one of whose events was lost: an
\* event that another process publishes after the snapshot was read and before Redis has
\* answered the subscription (stream, 103-148) is lost without any failure, and one that is
\* published while Redis is down is too.  So are scans with a cut or overtaken event.  What
\* is left: no event before the snapshot or after the subscription is missed or put back.
ClientUpToDate ==
  (Quiet /\ client.at = "stream" /\ ~client.snapshot /\ inbox = <<>> /\ mishap = {}) =>
     client.last = doc.seq

\* The end is never held back or replaced by the throttle: at rest after the end the
\* latest event says so, unless a crash cut it or a later event overtook it.
\* (With the type of every variable.)
EndIsSaved == TypeOK /\ ((Quiet /\ doc.status = "ended" /\ mishap = {}) => doc.latest.terminal)

\* "a throttled update is queued and eventually fires, so the latest state always arrives":
\* at rest, if no two emissions overlapped and none was cut, the saved progress is the present one.
LatestArrives ==
  (Quiet /\ ~overlapped /\ "cut" \notin mishap /\ faults = 0) => doc.latest.work = doc.work
-----------------------------------------------------------------------------
(* The inductive invariant of the last three.                              *)

InFlight == {e \in Emission : em[e].at # "free"}
Unsaved == {e \in Emission : em[e].at \in {"read", "start", "save"}}

\* The events that end a scan are forced, so no timer has one; the end is on its way or
\* saved.
EndSound ==
  /\ \A e \in InFlight : em[e].msg.terminal => em[e].msg.force
  /\ \A p \in Proc : \A msg \in throttle[p].pending \cup orphans[p] : ~msg.terminal
  /\ doc.status = "ended" /\ mishap = {} =>
       doc.latest.terminal \/ \E e \in Unsaved : em[e].msg.terminal

\* A number is one event's; Api takes for an echo only what it has published itself.
NumbersSound ==
  /\ \A e \in Emission : em[e].seq <= doc.seq /\ (em[e].at \in {"publish", "fanout"} => em[e].seq > 0)
  /\ \A e, other \in Emission :
       em[e].at = "publish" /\ em[other].at = "publish" /\ e # other => em[e].seq # em[other].seq
  /\ \A e \in Emission : em[e].at = "publish" => em[e].seq # published[Api]
  /\ published[Api] <= doc.seq
  /\ \A i \in DOMAIN inbox : inbox[i].seq <= doc.seq

\* The event with number n is on its way to the client.
OnItsWay(n) ==
  \/ \E e \in Emission : /\ em[e].seq = n
                         /\ em[e].at = "publish" \/ (em[e].at = "fanout" /\ e[1] = Api)
  \/ \E i \in DOMAIN inbox : inbox[i].seq = n /\ n # published[Api]

\* A stream past its snapshot has told the latest event or is about to.
ClientSound ==
  /\ client.after <= client.last /\ client.last <= doc.seq
  /\ client.at = "stream" /\ ~client.snapshot /\ mishap = {} =>
       client.last = doc.seq \/ OnItsWay(doc.seq)

\* Emissions that come one after another: the one in flight, or the message that waits,
\* has the present count.
SerialSound == ~overlapped /\ faults = 0 =>
  /\ \A e, other \in InFlight : e = other
  /\ \A p \in Proc : orphans[p] = {}
  /\ \A e \in InFlight : \A p \in Proc : p # e[1] \/ em[e].at \notin {"read", "start"} => throttle[p].pending = {}
  /\ \A e \in InFlight : em[e].at \in {"start", "save"} => em[e].msg.work = doc.work
  /\ InFlight = {} => \A p \in Proc : \A msg \in throttle[p].pending : msg.work = doc.work
  /\ Unsaved = {} /\ (\A p \in Proc : throttle[p].pending = {}) => doc.latest.work = doc.work

ProgressInv == TypeOK /\ EndSound /\ NumbersSound /\ ClientSound /\ SerialSound
=============================================================================
