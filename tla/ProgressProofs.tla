--------------------------- MODULE ProgressProofs ---------------------------
(***************************************************************************)
(* The progress of a scan for any number of processes, emissions, units of *)
(* work and failures: the end is saved, a client at rest is up to date,    *)
(* and emissions that follow one another save the latest state.            *)
(***************************************************************************)
EXTENDS ScanProgress, TLAPS

EventOf == [seq : Nat \ {0}, terminal : BOOLEAN, status : Status]

-----------------------------------------------------------------------------
(* What an action needs of the types.                                       *)

DocTyped == doc \in [status : Status, work : 0 .. MaxWork, seq : Nat \ {0},
                     latest : [terminal : BOOLEAN, work : 0 .. MaxWork]]
Emissions == [at : {"free", "read", "start", "save", "publish", "fanout"}, msg : Message, seq : Nat]
EmTyped == em \in [Emission -> Emissions]
ThrottleTyped ==
  /\ throttle \in [Proc -> [hot : BOOLEAN, pending : SUBSET Message]]
  /\ orphans \in [Proc -> SUBSET Message] /\ published \in [Proc -> Nat]
Clients == [at : {"start", "connect", "stream", "polling", "done"}, last : Nat,
            status : Status, over : BOOLEAN, after : Nat, snapshot : BOOLEAN]
StreamTyped == sub \in {"off", "asked", "on"} /\ inbox \in Seq(EventOf) /\ client \in Clients
HistoryTyped ==
  /\ faults \in 0 .. MaxFaults
  /\ mishap \subseteq {"lost", "overtaken", "cut"} /\ overlapped \in BOOLEAN

LEMMA TypeParts ==
  TypeOK <=> DocTyped /\ EmTyped /\ ThrottleTyped /\ StreamTyped /\ HistoryTyped
BY DEF TypeOK, DocTyped, EmTyped, Emissions, ThrottleTyped, StreamTyped, Clients, EventOf, HistoryTyped

LEMMA EmissionIs ==
  ASSUME EmTyped, NEW e \in Emission
  PROVE  /\ em[e] \in Emissions
         /\ em[e].msg \in Message /\ em[e].seq \in Nat /\ em[e].msg.terminal \in BOOLEAN
         /\ em[e].msg.force \in BOOLEAN /\ em[e].msg.work \in 0 .. MaxWork
         /\ em[e].msg.status \in Status
         /\ e[1] \in Proc
<1>1. e \in Proc \X Nat
  BY ScanProgressConstantsOK DEF ScanProgressConstantsOK
<1>2. QED
  BY <1>1 DEF EmTyped, Emissions, Message

LEMMA DocIs ==
  ASSUME DocTyped
  PROVE  /\ doc.seq \in Nat \ {0} /\ doc.work \in 0 .. MaxWork /\ doc.status \in Status
         /\ doc.latest.terminal \in BOOLEAN /\ doc.latest.work \in 0 .. MaxWork
         /\ MaxWork \in Nat /\ MaxFaults \in Nat /\ Api \in Proc
BY ScanProgressConstantsOK DEF ScanProgressConstantsOK, DocTyped

LEMMA InboxIs ==
  ASSUME StreamTyped
  PROVE  \A i \in DOMAIN inbox : inbox[i] \in EventOf /\ inbox[i].seq \in Nat \ {0}
<1>1. \A i \in DOMAIN inbox : inbox[i] \in EventOf
  BY DEF StreamTyped
<1>2. \A event \in EventOf : event.seq \in Nat \ {0}
  BY DEF EventOf
<1>3. QED
  BY <1>1, <1>2

\* One emission has changed.
Moves(e, new) == em' = [em EXCEPT ![e] = new]

LEMMA Moved ==
  ASSUME EmTyped, NEW e \in Emission, NEW new, Moves(e, new)
  PROVE  /\ em'[e] = new /\ \A other \in Emission \ {e} : em'[other] = em[other]
         /\ new \in Emissions => EmTyped'
BY DEF EmTyped, Moves

\* The new record of an emission that begins, is read, saved and so on.
LEMMA EmitMoves ==
  ASSUME EmTyped, NEW e \in Emission, NEW terminal \in BOOLEAN, NEW force \in BOOLEAN,
         Emit(e, terminal, force)
  PROVE  \E new \in Emissions : /\ Moves(e, new) /\ new.at = "read" /\ new.seq = em[e].seq
                                /\ new.msg.terminal = terminal /\ new.msg.force = force
<1>1. PICK msg : msg = [em[e].msg EXCEPT !.terminal = terminal, !.force = force]
  OBVIOUS
<1>2. PICK new : new = [em[e] EXCEPT !.at = "read", !.msg = msg]
  OBVIOUS
<1>3. em[e].msg \in Message /\ em[e] \in Emissions
  BY EmissionIs
<1>4. msg \in Message /\ msg.terminal = terminal /\ msg.force = force
  BY <1>1, <1>3 DEF Message
<1>5. new \in Emissions /\ new.at = "read" /\ new.msg = msg /\ new.seq = em[e].seq
  BY <1>2, <1>3, <1>4 DEF Emissions
<1>6. em' = [em EXCEPT ![e] = new]
  BY <1>1, <1>2, <1>3 DEF Emit, EmTyped, Emissions, Message
<1>7. QED
  BY <1>4, <1>5, <1>6 DEF Moves

LEMMA ReadMoves ==
  ASSUME EmTyped, DocTyped, NEW e \in Emission, Read(e)
  PROVE  \E new \in Emissions :
           /\ Moves(e, new) /\ new.at = "start" /\ new.seq = em[e].seq
           /\ new.msg.terminal = em[e].msg.terminal /\ new.msg.force = em[e].msg.force
           /\ new.msg.work = doc.work
<1>1. PICK msg : msg = [em[e].msg EXCEPT !.status = doc.status, !.work = doc.work]
  OBVIOUS
<1>2. PICK new : new = [em[e] EXCEPT !.at = "start", !.msg = msg]
  OBVIOUS
<1>3. em[e].msg \in Message /\ em[e] \in Emissions
  BY EmissionIs
<1>4. /\ msg \in Message /\ msg.terminal = em[e].msg.terminal /\ msg.force = em[e].msg.force
      /\ msg.work = doc.work
  BY <1>1, <1>3, DocIs DEF Message
<1>5. new \in Emissions /\ new.at = "start" /\ new.msg = msg /\ new.seq = em[e].seq
  BY <1>2, <1>3, <1>4 DEF Emissions
<1>6. em' = [em EXCEPT ![e] = new]
  BY <1>1, <1>2, <1>3 DEF Read, EmTyped, Emissions, Message
<1>7. QED
  BY <1>4, <1>5, <1>6 DEF Moves

LEMMA FreeIs ==
  Free \in Emissions /\ Free.at = "free" /\ Free.seq = 0 /\ Free.msg = NoMessage
<1>1. 0 \in 0 .. MaxWork
  BY ScanProgressConstantsOK DEF ScanProgressConstantsOK
<1>2. NoMessage \in Message
  BY <1>1 DEF NoMessage, Message, Status
<1>3. QED
  BY <1>2 DEF Free, Emissions

Sound == /\ DocTyped /\ EmTyped /\ ThrottleTyped /\ StreamTyped /\ HistoryTyped
         /\ EndSound /\ NumbersSound /\ ClientSound /\ SerialSound

LEMMA Parts == ProgressInv <=> Sound
BY TypeParts DEF ProgressInv, Sound

-----------------------------------------------------------------------------
(* Emitting an event.                                                       *)

\* An emission that has begun, for whatever reason.
LEMMA EmittedKeeps ==
  ASSUME Sound, NEW e \in Emission, NEW terminal \in BOOLEAN,
         Emit(e, terminal, terminal),
         DocTyped', doc'.seq = doc.seq, doc'.latest = doc.latest,
         doc'.status = "ended" => doc.status = "ended" \/ terminal,
         UNCHANGED <<throttle, orphans, published, sub, inbox, client, faults, mishap>>
  PROVE  Sound'
<1>1. /\ DocTyped /\ EmTyped /\ ThrottleTyped /\ StreamTyped /\ HistoryTyped
      /\ EndSound /\ NumbersSound /\ ClientSound /\ SerialSound
  BY DEF Sound
<1>2. PICK new \in Emissions :
        /\ Moves(e, new) /\ new.at = "read" /\ new.seq = em[e].seq
        /\ new.msg.terminal = terminal /\ new.msg.force = terminal
  BY <1>1, EmitMoves
<1>3. em'[e] = new /\ (\A other \in Emission \ {e} : em'[other] = em[other]) /\ EmTyped'
  BY <1>1, <1>2, Moved
<1>4. em[e].at = "free" /\ Begun(e)
  BY DEF Emit, FirstFree
<1>5. ThrottleTyped' /\ StreamTyped'
  BY <1>1 DEF ThrottleTyped, StreamTyped
<1>6. HistoryTyped'
  BY <1>1, <1>4 DEF HistoryTyped, Begun
<1>7. EndSound'
  <2>1. InFlight' = InFlight \cup {e} /\ Unsaved' = Unsaved \cup {e}
        /\ e \notin InFlight /\ e \notin Unsaved
    BY <1>2, <1>3, <1>4 DEF InFlight, Unsaved
  <2>2. \A other \in InFlight' : em'[other].msg.terminal => em'[other].msg.force
    BY <1>1, <1>2, <1>3, <2>1 DEF EndSound, InFlight
  <2>3. \A p \in Proc : \A msg \in throttle'[p].pending \cup orphans'[p] : ~msg.terminal
    BY <1>1 DEF EndSound
  <2>4. ASSUME doc'.status = "ended", mishap' = {}
        PROVE  doc'.latest.terminal \/ \E other \in Unsaved' : em'[other].msg.terminal
    <3>1. CASE terminal
      BY <1>2, <1>3, <2>1, <3>1
    <3>2. CASE ~terminal
      <4>1. doc.latest.terminal \/ \E other \in Unsaved : em[other].msg.terminal
        BY <1>1, <2>4, <3>2 DEF EndSound
      <4>2. \A other \in Unsaved : other \in Emission \ {e}
        BY <2>1 DEF Unsaved
      <4>3. QED
        BY <1>3, <2>1, <4>1, <4>2
    <3>3. QED
      BY <3>1, <3>2
  <2>5. QED
    BY <2>2, <2>3, <2>4 DEF EndSound
<1>8. NumbersSound'
  BY <1>1, <1>2, <1>3 DEF NumbersSound
<1>9. ClientSound'
  <2>1. ASSUME NEW n, OnItsWay(n) PROVE OnItsWay(n)'
    BY <1>3, <1>4, <2>1 DEF OnItsWay
  <2>2. QED
    BY <1>1, <2>1 DEF ClientSound
<1>10. SerialSound'
  <2>1. SUFFICES ASSUME ~overlapped', faults' = 0
        PROVE  /\ \A u, v \in InFlight' : u = v
               /\ \A p \in Proc : orphans'[p] = {}
               /\ \A u \in InFlight' : \A p \in Proc :
                    p # u[1] \/ em'[u].at \notin {"read", "start"} => throttle'[p].pending = {}
               /\ \A u \in InFlight' : em'[u].at \in {"start", "save"} => em'[u].msg.work = doc'.work
               /\ InFlight' = {} => \A p \in Proc : \A msg \in throttle'[p].pending : msg.work = doc'.work
               /\ Unsaved' = {} /\ (\A p \in Proc : throttle'[p].pending = {}) =>
                    doc'.latest.work = doc'.work
    BY DEF SerialSound
  <2>2. /\ \A other \in Emission \ {e} : em[other].at = "free"
        /\ \A p \in Proc : orphans[p] = {} /\ (p # e[1] => throttle[p].pending = {})
    BY <1>4, <2>1 DEF Begun
  <2>3. InFlight' = {e} /\ e \in Unsaved'
    BY <1>2, <1>3, <2>2 DEF InFlight, Unsaved
  <2>4. QED
    BY <1>2, <1>3, <2>2, <2>3
<1>11. QED
  BY <1>3, <1>5, <1>6, <1>7, <1>8, <1>9, <1>10 DEF Sound

LEMMA ReportKeeps ==
  ASSUME Sound, NEW e \in Emission, Report(e)
  PROVE  Sound'
<1>1. DocTyped
  BY DEF Sound
<1>2. doc.work < MaxWork /\ doc' = [doc EXCEPT !.work = @ + 1] /\ Emit(e, FALSE, FALSE)
  BY DEF Report
<1>3. doc.work + 1 \in 0 .. MaxWork
  BY <1>1, <1>2, DocIs
<1>4. DocTyped' /\ doc'.seq = doc.seq /\ doc'.latest = doc.latest /\ doc'.status = doc.status
  BY <1>1, <1>2, <1>3 DEF DocTyped
<1>5. UNCHANGED <<throttle, orphans, published, sub, inbox, client, faults, mishap>>
  BY DEF Report
<1>6. QED
  BY <1>2, <1>4, <1>5, EmittedKeeps

LEMMA EndKeeps ==
  ASSUME Sound, NEW e \in Emission, End(e)
  PROVE  Sound'
<1>1. DocTyped
  BY DEF Sound
<1>2. doc' = [doc EXCEPT !.status = "ended"] /\ Emit(e, TRUE, TRUE)
  BY DEF End
<1>3. DocTyped' /\ doc'.seq = doc.seq /\ doc'.latest = doc.latest
  BY <1>1, <1>2 DEF DocTyped, Status
<1>4. UNCHANGED <<throttle, orphans, published, sub, inbox, client, faults, mishap>>
  BY DEF End
<1>5. QED
  BY <1>2, <1>3, <1>4, EmittedKeeps

\* What is on its way stays so, when an emission that is not published yet goes on and the
\* stream is left alone.
LEMMA WayKept ==
  ASSUME NEW e \in Emission, em[e].at \notin {"publish", "fanout"},
         \A other \in Emission \ {e} : em'[other] = em[other],
         UNCHANGED <<published, inbox>>, NEW n, OnItsWay(n)
  PROVE  OnItsWay(n)'
BY DEF OnItsWay

LEMMA ReadKeeps ==
  ASSUME Sound, NEW e \in Emission, Read(e)
  PROVE  Sound'
<1>1. /\ DocTyped /\ EmTyped /\ ThrottleTyped /\ StreamTyped /\ HistoryTyped
      /\ EndSound /\ NumbersSound /\ ClientSound /\ SerialSound
  BY DEF Sound
<1>2. PICK new \in Emissions :
        /\ Moves(e, new) /\ new.at = "start" /\ new.seq = em[e].seq
        /\ new.msg.terminal = em[e].msg.terminal /\ new.msg.force = em[e].msg.force
        /\ new.msg.work = doc.work
  BY <1>1, ReadMoves
<1>3. em'[e] = new /\ (\A other \in Emission \ {e} : em'[other] = em[other]) /\ EmTyped'
  BY <1>1, <1>2, Moved
<1>4. /\ em[e].at = "read"
      /\ UNCHANGED <<doc, throttle, orphans, published, sub, inbox, client, faults, mishap, overlapped>>
  BY DEF Read
<1>5. DocTyped' /\ ThrottleTyped' /\ StreamTyped' /\ HistoryTyped'
  BY <1>1, <1>4 DEF DocTyped, ThrottleTyped, StreamTyped, HistoryTyped
<1>6. InFlight' = InFlight /\ Unsaved' = Unsaved /\ e \in InFlight /\ e \in Unsaved
  BY <1>2, <1>3, <1>4 DEF InFlight, Unsaved
<1>7. \A other \in Emission : /\ em'[other].msg.terminal = em[other].msg.terminal
                              /\ em'[other].msg.force = em[other].msg.force
                              /\ em'[other].seq = em[other].seq
  BY <1>2, <1>3
<1>8. EndSound'
  <2>1. InFlight \subseteq Emission /\ Unsaved \subseteq Emission
    BY DEF InFlight, Unsaved
  <2>2. QED
    BY <1>1, <1>4, <1>6, <1>7, <2>1 DEF EndSound
<1>9. NumbersSound'
  BY <1>1, <1>2, <1>3, <1>4 DEF NumbersSound
<1>10. ClientSound'
  BY <1>1, <1>3, <1>4, WayKept DEF ClientSound
<1>11. SerialSound'
  <2>1. \A other \in InFlight \ {e} : em'[other] = em[other]
    BY <1>3 DEF InFlight
  <2>2. QED
    BY <1>1, <1>2, <1>3, <1>4, <1>6, <2>1 DEF SerialSound
<1>12. QED
  BY <1>3, <1>5, <1>8, <1>9, <1>10, <1>11 DEF Sound

LEMMA ThrottleSet ==
  ASSUME ThrottleTyped, NEW p \in Proc, NEW held \in SUBSET Message,
         throttle' = [throttle EXCEPT ![p].pending = held],
         UNCHANGED <<orphans, published>>
  PROVE  /\ ThrottleTyped' /\ throttle'[p].pending = held
         /\ \A q \in Proc \ {p} : throttle'[q] = throttle[q]
BY DEF ThrottleTyped

LEMMA StartKeeps ==
  ASSUME Sound, NEW e \in Emission, Start(e)
  PROVE  Sound'
<1>1. /\ DocTyped /\ EmTyped /\ ThrottleTyped /\ StreamTyped /\ HistoryTyped
      /\ EndSound /\ NumbersSound /\ ClientSound /\ SerialSound
  BY DEF Sound
<1>2. PICK p : p = e[1]
  OBVIOUS
<1>3. /\ em[e].at = "start"
      /\ \/ /\ ~em[e].msg.force /\ throttle' = [throttle EXCEPT ![p].pending = {em[e].msg}]
            /\ em' = [em EXCEPT ![e] = Free]
         \/ /\ throttle' = [throttle EXCEPT ![p].pending = {}]
            /\ em' = [em EXCEPT ![e].at = "save"]
      /\ UNCHANGED <<doc, orphans, published, sub, inbox, client, faults, mishap, overlapped>>
  BY <1>2 DEF Start, Unforced
<1>4. /\ em[e] \in Emissions /\ em[e].msg \in Message /\ p \in Proc
      /\ em[e].msg.terminal \in BOOLEAN
  BY <1>1, <1>2, EmissionIs
<1>5. DocTyped' /\ StreamTyped' /\ HistoryTyped'
  BY <1>1, <1>3 DEF DocTyped, StreamTyped, HistoryTyped
<1>6. e \in InFlight /\ e \in Unsaved /\ InFlight \subseteq Emission /\ Unsaved \subseteq Emission
  BY <1>3 DEF InFlight, Unsaved
<1>7. PICK new : new = em'[e]
  OBVIOUS
<1>8. /\ Moves(e, new) /\ new \in Emissions
      /\ \/ /\ new = Free /\ ~em[e].msg.force
            /\ throttle' = [throttle EXCEPT ![p].pending = {em[e].msg}]
         \/ /\ new.at = "save" /\ new.msg = em[e].msg /\ new.seq = em[e].seq
            /\ throttle' = [throttle EXCEPT ![p].pending = {}]
  <2>1. CASE ~em[e].msg.force /\ throttle' = [throttle EXCEPT ![p].pending = {em[e].msg}]
             /\ em' = [em EXCEPT ![e] = Free]
    BY <1>1, <1>7, <2>1, FreeIs DEF EmTyped, Moves
  <2>2. CASE throttle' = [throttle EXCEPT ![p].pending = {}] /\ em' = [em EXCEPT ![e].at = "save"]
    BY <1>1, <1>4, <1>7, <2>2 DEF EmTyped, Emissions, Moves
  <2>3. QED
    BY <1>3, <2>1, <2>2
<1>9. em'[e] = new /\ (\A other \in Emission \ {e} : em'[other] = em[other]) /\ EmTyped'
  BY <1>1, <1>8, Moved
<1>10. ClientSound'
  BY <1>1, <1>3, <1>9, WayKept DEF ClientSound
<1>11. CASE new = Free /\ ~em[e].msg.force /\ throttle' = [throttle EXCEPT ![p].pending = {em[e].msg}]
  <2>1. /\ ThrottleTyped' /\ throttle'[p].pending = {em[e].msg}
        /\ \A q \in Proc \ {p} : throttle'[q] = throttle[q]
    <3>1. PICK held \in SUBSET Message : held = {em[e].msg}
      BY <1>4
    <3>2. throttle' = [throttle EXCEPT ![p].pending = held] /\ UNCHANGED <<orphans, published>>
      BY <1>3, <1>11, <3>1
    <3>3. /\ ThrottleTyped' /\ throttle'[p].pending = held
          /\ \A q \in Proc \ {p} : throttle'[q] = throttle[q]
      BY <1>1, <1>4, <3>2, ThrottleSet
    <3>4. QED
      BY <3>1, <3>3
  <2>2. InFlight' = InFlight \ {e} /\ Unsaved' = Unsaved \ {e}
    BY <1>9, <1>11, FreeIs DEF InFlight, Unsaved
  <2>3. ~em[e].msg.terminal
    BY <1>1, <1>6, <1>11 DEF EndSound
  <2>4. EndSound'
    <3>1. \A q \in Proc : \A msg \in throttle'[q].pending \cup orphans'[q] : ~msg.terminal
      BY <1>1, <1>3, <2>1, <2>3 DEF EndSound
    <3>2. \A other \in InFlight' : em'[other].msg.terminal => em'[other].msg.force
      BY <1>1, <1>6, <1>9, <2>2 DEF EndSound
    <3>3. ASSUME doc'.status = "ended", mishap' = {}
          PROVE  doc'.latest.terminal \/ \E other \in Unsaved' : em'[other].msg.terminal
      BY <1>1, <1>3, <1>6, <1>9, <2>2, <2>3, <3>3 DEF EndSound
    <3>4. QED
      BY <3>1, <3>2, <3>3 DEF EndSound
  <2>5. NumbersSound'
    BY <1>1, <1>3, <1>9, <1>11, FreeIs, DocIs DEF NumbersSound
  <2>6. SerialSound'
    <3>1. ASSUME ~overlapped', faults' = 0
          PROVE  /\ InFlight' = {} /\ \A q \in Proc : orphans'[q] = {}
                 /\ \A q \in Proc : \A msg \in throttle'[q].pending : msg.work = doc'.work
      <4>1. /\ InFlight = {e} /\ \A q \in Proc : orphans[q] = {}
            /\ em[e].msg.work = doc.work
            /\ \A q \in Proc \ {p} : throttle[q].pending = {}
        BY <1>1, <1>2, <1>3, <1>6, <3>1 DEF SerialSound
      <4>2. QED
        BY <1>3, <2>1, <2>2, <4>1
    <3>2. throttle'[p].pending # {}
      BY <2>1
    <3>3. QED
      BY <1>4, <3>1, <3>2 DEF SerialSound
  <2>7. QED
    BY <1>5, <1>9, <1>10, <2>1, <2>4, <2>5, <2>6 DEF Sound
<1>12. CASE /\ new.at = "save" /\ new.msg = em[e].msg /\ new.seq = em[e].seq
            /\ throttle' = [throttle EXCEPT ![p].pending = {}]
  <2>1. /\ ThrottleTyped' /\ throttle'[p].pending = {}
        /\ \A q \in Proc \ {p} : throttle'[q] = throttle[q]
    <3>1. PICK held \in SUBSET Message : held = {}
      BY <1>4
    <3>2. throttle' = [throttle EXCEPT ![p].pending = held] /\ UNCHANGED <<orphans, published>>
      BY <1>3, <1>12, <3>1
    <3>3. /\ ThrottleTyped' /\ throttle'[p].pending = held
          /\ \A q \in Proc \ {p} : throttle'[q] = throttle[q]
      BY <1>1, <1>4, <3>2, ThrottleSet
    <3>4. QED
      BY <3>1, <3>3
  <2>2. /\ InFlight' = InFlight /\ Unsaved' = Unsaved
        /\ \A other \in Emission : em'[other].msg = em[other].msg
    BY <1>3, <1>9, <1>12 DEF InFlight, Unsaved
  <2>3. EndSound'
    BY <1>1, <1>3, <1>6, <2>1, <2>2 DEF EndSound
  <2>4. NumbersSound'
    BY <1>1, <1>3, <1>9, <1>12 DEF NumbersSound
  <2>5. SerialSound'
    <3>1. ASSUME ~overlapped', faults' = 0
          PROVE  /\ InFlight' = {e} /\ \A q \in Proc : orphans'[q] = {}
                 /\ \A q \in Proc : throttle'[q].pending = {}
                 /\ em'[e].msg.work = doc'.work
      <4>1. /\ InFlight = {e} /\ \A q \in Proc : orphans[q] = {}
            /\ em[e].msg.work = doc.work
            /\ \A q \in Proc \ {p} : throttle[q].pending = {}
        BY <1>1, <1>2, <1>3, <1>6, <3>1 DEF SerialSound
      <4>2. QED
        BY <1>3, <2>1, <2>2, <4>1
    <3>2. e \in Unsaved'
      BY <1>6, <2>2
    <3>3. QED
      BY <3>1, <3>2 DEF SerialSound
  <2>6. QED
    BY <1>5, <1>9, <1>10, <2>1, <2>3, <2>4, <2>5 DEF Sound
<1>13. QED
  BY <1>8, <1>11, <1>12

LEMMA TimerFiresKeeps ==
  ASSUME Sound, NEW e \in Emission, TimerFires(e)
  PROVE  Sound'
<1>1. /\ DocTyped /\ EmTyped /\ ThrottleTyped /\ StreamTyped /\ HistoryTyped
      /\ EndSound /\ NumbersSound /\ ClientSound /\ SerialSound
  BY DEF Sound
<1>2. PICK p : p = e[1]
  OBVIOUS
<1>3. PICK msg \in throttle[p].pending \cup orphans[p] :
        /\ em[e].at = "free" /\ em' = [em EXCEPT ![e] = [Free EXCEPT !.at = "save", !.msg = msg]]
        /\ orphans' = [orphans EXCEPT ![p] = IF msg \in throttle[p].pending THEN @ ELSE @ \ {msg}]
        /\ throttle' = [throttle EXCEPT ![p].pending = {}]
        /\ Begun(e)
        /\ UNCHANGED <<doc, published, sub, inbox, client, faults, mishap>>
  BY <1>2 DEF TimerFires, FirstFree
<1>4. PICK new : new = [Free EXCEPT !.at = "save", !.msg = msg]
  OBVIOUS
<1>5. p \in Proc /\ msg \in Message
  BY <1>1, <1>2, EmissionIs DEF ThrottleTyped
<1>6. new \in Emissions /\ new.at = "save" /\ new.msg = msg /\ new.seq = 0
  BY <1>4, <1>5, FreeIs DEF Emissions
<1>7. em'[e] = new /\ (\A other \in Emission \ {e} : em'[other] = em[other]) /\ EmTyped'
  BY <1>1, <1>3, <1>4, <1>6, Moved DEF Moves
<1>8. /\ throttle'[p].pending = {} /\ \A q \in Proc \ {p} : throttle'[q] = throttle[q]
      /\ \A q \in Proc : orphans'[q] \subseteq orphans[q]
      /\ ThrottleTyped'
  <2>1. PICK left : left = IF msg \in throttle[p].pending THEN orphans[p] ELSE orphans[p] \ {msg}
    OBVIOUS
  <2>2. orphans' = [orphans EXCEPT ![p] = left] /\ left \subseteq orphans[p]
    BY <1>3, <2>1
  <2>3. left \in SUBSET Message /\ orphans[p] \in SUBSET Message
    BY <1>1, <1>5, <2>2 DEF ThrottleTyped
  <2>4. orphans' \in [Proc -> SUBSET Message] /\ \A q \in Proc : orphans'[q] \subseteq orphans[q]
    BY <1>1, <2>2, <2>3 DEF ThrottleTyped
  <2>5. /\ throttle' \in [Proc -> [hot : BOOLEAN, pending : SUBSET Message]]
        /\ throttle'[p].pending = {} /\ \A q \in Proc \ {p} : throttle'[q] = throttle[q]
    BY <1>1, <1>3, <1>5 DEF ThrottleTyped
  <2>6. published' \in [Proc -> Nat]
    BY <1>1, <1>3 DEF ThrottleTyped
  <2>7. QED
    BY <2>4, <2>5, <2>6 DEF ThrottleTyped
<1>9. DocTyped' /\ StreamTyped' /\ HistoryTyped'
  BY <1>1, <1>3 DEF DocTyped, StreamTyped, HistoryTyped, Begun
<1>10. /\ InFlight' = InFlight \cup {e} /\ Unsaved' = Unsaved \cup {e}
       /\ e \notin InFlight /\ e \notin Unsaved
       /\ InFlight \subseteq Emission /\ Unsaved \subseteq Emission
  BY <1>3, <1>6, <1>7 DEF InFlight, Unsaved
<1>11. EndSound'
  <2>1. \A q \in Proc : \A m \in throttle'[q].pending \cup orphans'[q] : ~m.terminal
    BY <1>1, <1>5, <1>8 DEF EndSound
  <2>2. ~msg.terminal
    BY <1>1, <1>3, <1>5 DEF EndSound
  <2>3. \A other \in InFlight' : em'[other].msg.terminal => em'[other].msg.force
    BY <1>1, <1>6, <1>7, <1>10, <2>2 DEF EndSound
  <2>4. ASSUME doc'.status = "ended", mishap' = {}
        PROVE  doc'.latest.terminal \/ \E other \in Unsaved' : em'[other].msg.terminal
    BY <1>1, <1>3, <1>7, <1>10, <2>4 DEF EndSound
  <2>5. QED
    BY <2>1, <2>3, <2>4 DEF EndSound
<1>12. NumbersSound'
  <2>1. 0 <= doc.seq
    BY <1>1, DocIs
  <2>2. QED
    <3>1. \A other \in Emission \ {e} : em'[other] = em[other]
      BY <1>7
    <3>2. em'[e].at = "save" /\ em'[e].seq = 0
      BY <1>6, <1>7
    <3>3. \A other \in Emission : em'[other].seq <= doc.seq
      BY <1>1, <2>1, <3>1, <3>2 DEF NumbersSound
    <3>4. \A other \in Emission : em'[other].at \in {"publish", "fanout"} => em'[other].at = em[other].at /\ em'[other].seq = em[other].seq
      BY <3>1, <3>2
    <3>5. UNCHANGED <<doc, published, inbox>>
      BY <1>3
    <3>6. QED
      BY <1>1, <3>3, <3>4, <3>5 DEF NumbersSound
<1>13. ClientSound'
  BY <1>1, <1>3, <1>7, WayKept DEF ClientSound
<1>14. SerialSound'
  <2>1. ASSUME ~overlapped', faults' = 0
        PROVE  /\ InFlight' = {e} /\ \A q \in Proc : orphans'[q] = {}
               /\ \A q \in Proc : throttle'[q].pending = {}
               /\ em'[e].msg.work = doc'.work
    <3>1. /\ ~overlapped /\ faults = 0 /\ \A other \in Emission \ {e} : em[other].at = "free"
          /\ \A q \in Proc : orphans[q] = {} /\ (q # p => throttle[q].pending = {})
      BY <1>2, <1>3, <2>1 DEF Begun
    <3>2. InFlight = {}
      BY <1>3, <3>1 DEF InFlight
    <3>3. msg \in throttle[p].pending
      BY <1>3, <1>5, <3>1
    <3>4. msg.work = doc.work
      BY <1>1, <1>5, <3>1, <3>2, <3>3 DEF SerialSound
    <3>5. QED
      BY <1>3, <1>6, <1>7, <1>8, <1>10, <3>1, <3>2, <3>4
  <2>2. e \in Unsaved'
    BY <1>10
  <2>3. QED
    BY <2>1, <2>2 DEF SerialSound
<1>15. QED
  BY <1>7, <1>8, <1>9, <1>11, <1>12, <1>13, <1>14 DEF Sound

LEMMA SaveKeeps ==
  ASSUME Sound, NEW e \in Emission, Save(e)
  PROVE  Sound'
<1>1. /\ DocTyped /\ EmTyped /\ ThrottleTyped /\ StreamTyped /\ HistoryTyped
      /\ EndSound /\ NumbersSound /\ ClientSound /\ SerialSound
  BY DEF Sound
<1>2. PICK seq, msg : seq = doc.seq + 1 /\ msg = em[e].msg
  OBVIOUS
<1>3. /\ em[e].at = "save"
      /\ doc' = [doc EXCEPT !.seq = seq, !.latest = [terminal |-> msg.terminal, work |-> msg.work]]
      /\ mishap' = IF doc.latest.terminal THEN mishap \cup {"overtaken"} ELSE mishap
      /\ em' = [em EXCEPT ![e].at = "publish", ![e].seq = seq]
      /\ UNCHANGED <<throttle, orphans, published, sub, inbox, client, faults, overlapped>>
  BY <1>2 DEF Save
<1>4. /\ em[e] \in Emissions /\ msg \in Message /\ msg.terminal \in BOOLEAN
      /\ msg.work \in 0 .. MaxWork /\ doc.seq \in Nat /\ seq \in Nat \ {0} /\ doc.seq < seq
  BY <1>1, <1>2, EmissionIs, DocIs
<1>5. /\ DocTyped' /\ doc'.seq = seq /\ doc'.status = doc.status /\ doc'.work = doc.work
      /\ doc'.latest.terminal = msg.terminal /\ doc'.latest.work = msg.work
  BY <1>1, <1>3, <1>4 DEF DocTyped
<1>6. PICK new : new = [em[e] EXCEPT !.at = "publish", !.seq = seq]
  OBVIOUS
<1>7. new \in Emissions /\ new.at = "publish" /\ new.seq = seq /\ new.msg = msg /\ Moves(e, new)
  BY <1>1, <1>2, <1>3, <1>4, <1>6 DEF Emissions, Moves, EmTyped
<1>8. em'[e] = new /\ (\A other \in Emission \ {e} : em'[other] = em[other]) /\ EmTyped'
  BY <1>1, <1>7, Moved
<1>9. ThrottleTyped' /\ StreamTyped' /\ HistoryTyped' /\ (mishap' = {} => mishap = {} /\ ~doc.latest.terminal)
  BY <1>1, <1>3 DEF ThrottleTyped, StreamTyped, HistoryTyped
<1>10. /\ InFlight' = InFlight /\ Unsaved' = Unsaved \ {e} /\ e \in InFlight /\ e \in Unsaved
       /\ InFlight \subseteq Emission /\ Unsaved \subseteq Emission
  BY <1>3, <1>7, <1>8 DEF InFlight, Unsaved
<1>11. EndSound'
  <2>1. \A q \in Proc : \A m \in throttle'[q].pending \cup orphans'[q] : ~m.terminal
    BY <1>1, <1>3 DEF EndSound
  <2>2. \A other \in InFlight' : em'[other].msg.terminal => em'[other].msg.force
    BY <1>1, <1>2, <1>7, <1>8, <1>10 DEF EndSound
  <2>3. ASSUME doc'.status = "ended", mishap' = {}
        PROVE  doc'.latest.terminal \/ \E other \in Unsaved' : em'[other].msg.terminal
    <3>1. PICK other \in Unsaved : em[other].msg.terminal
      BY <1>1, <1>5, <1>9, <2>3 DEF EndSound
    <3>2. CASE other = e
      BY <1>2, <1>5, <3>1, <3>2
    <3>3. CASE other # e
      BY <1>8, <1>10, <3>1, <3>3
    <3>4. QED
      BY <3>2, <3>3
  <2>4. QED
    BY <2>1, <2>2, <2>3 DEF EndSound
<1>12. NumbersSound'
  <2>1. /\ \A other \in Emission : em[other].seq \in Nat /\ em[other].seq <= doc.seq
        /\ published[Api] <= doc.seq /\ published[Api] \in Nat
    BY <1>1, EmissionIs, DocIs DEF NumbersSound, ThrottleTyped
  <2>2. \A other \in Emission : /\ em'[other].seq <= seq
                                /\ em'[other].at \in {"publish", "fanout"} => em'[other].seq > 0
    BY <1>1, <1>4, <1>7, <1>8, <2>1 DEF NumbersSound
  <2>3. \A u, v \in Emission : em'[u].at = "publish" /\ em'[v].at = "publish" /\ u # v =>
          em'[u].seq # em'[v].seq
    BY <1>1, <1>4, <1>7, <1>8, <2>1 DEF NumbersSound
  <2>4. \A u \in Emission : em'[u].at = "publish" => em'[u].seq # published'[Api]
    <3>1. published[Api] # seq
      BY <1>4, <2>1
    <3>2. QED
      BY <1>1, <1>3, <1>7, <1>8, <3>1 DEF NumbersSound
  <2>5. published'[Api] <= seq
    BY <1>3, <1>4, <2>1
  <2>6. \A i \in DOMAIN inbox' : inbox'[i].seq <= seq
    <3>1. \A i \in DOMAIN inbox : inbox[i].seq \in Nat /\ inbox[i].seq <= doc.seq
      BY <1>1, InboxIs DEF NumbersSound
    <3>2. QED
      BY <1>3, <1>4, <3>1
  <2>7. QED
    BY <1>5, <2>2, <2>3, <2>4, <2>5, <2>6 DEF NumbersSound
<1>13. ClientSound'
  <2>1. OnItsWay(seq)'
    BY <1>7, <1>8 DEF OnItsWay
  <2>2. client.after <= client.last /\ client.last <= doc.seq /\ client.last \in Nat
    BY <1>1 DEF ClientSound, StreamTyped, Clients
  <2>3. client'.after <= client'.last /\ client'.last <= seq
    BY <1>3, <1>4, <2>2
  <2>4. QED
    BY <1>5, <2>1, <2>3 DEF ClientSound
<1>14. SerialSound'
  <2>1. ASSUME ~overlapped', faults' = 0
        PROVE  /\ InFlight' = {e} /\ \A q \in Proc : orphans'[q] = {}
               /\ \A q \in Proc : throttle'[q].pending = {}
               /\ doc'.latest.work = doc'.work
    <3>1. /\ InFlight = {e} /\ \A q \in Proc : orphans[q] = {} /\ throttle[q].pending = {}
          /\ em[e].msg.work = doc.work
      BY <1>1, <1>3, <1>10, <2>1 DEF SerialSound
    <3>2. QED
      BY <1>2, <1>3, <1>5, <1>10, <3>1
  <2>2. em'[e].at = "publish"
    BY <1>7, <1>8
  <2>3. QED
    BY <2>1, <2>2 DEF SerialSound
<1>15. QED
  BY <1>5, <1>8, <1>9, <1>11, <1>12, <1>13, <1>14 DEF Sound

LEMMA Appended ==
  ASSUME NEW q \in Seq(EventOf), NEW event \in EventOf, NEW longer, longer = Append(q, event)
  PROVE  /\ longer \in Seq(EventOf)
         /\ \A i \in DOMAIN q : i \in DOMAIN longer /\ longer[i] = q[i]
         /\ \A i \in DOMAIN longer : i \in DOMAIN q \/ longer[i] = event
         /\ \E i \in DOMAIN longer : longer[i] = event
<1>1. /\ longer \in Seq(EventOf) /\ Len(q) \in Nat /\ Len(longer) = Len(q) + 1
      /\ DOMAIN q = 1 .. Len(q) /\ DOMAIN longer = 1 .. Len(longer)
      /\ \A i \in 1 .. Len(q) : longer[i] = q[i]
      /\ longer[Len(q) + 1] = event
  OBVIOUS
<1>2. \A i \in 1 .. Len(longer) : i \in 1 .. Len(q) \/ i = Len(q) + 1
  BY <1>1
<1>3. Len(q) + 1 \in 1 .. Len(longer) /\ \A i \in 1 .. Len(q) : i \in 1 .. Len(longer)
  BY <1>1
<1>4. QED
  BY <1>1, <1>2, <1>3

\* The process that publishes takes the number for an echo; its client has it from the
\* process itself, another process's client over Redis.
LEMMA PublishedOnItsWay ==
  ASSUME EmTyped, ThrottleTyped, StreamTyped, NumbersSound, NEW e \in Emission,
         em[e].at = "publish", em'[e].at = "fanout", em'[e].seq = em[e].seq,
         \A other \in Emission \ {e} : em'[other] = em[other],
         published' = [published EXCEPT ![e[1]] = em[e].seq],
         \A i \in DOMAIN inbox : i \in DOMAIN inbox' /\ inbox'[i] = inbox[i],
         e[1] # Api => \E i \in DOMAIN inbox' : inbox'[i].seq = em[e].seq,
         NEW n, OnItsWay(n)
  PROVE  OnItsWay(n)'
<1>1. e[1] \in Proc /\ Api \in Proc
  BY EmissionIs, ScanProgressConstantsOK DEF ScanProgressConstantsOK
<1>2. /\ e[1] = Api => published'[Api] = em[e].seq
      /\ e[1] # Api => published'[Api] = published[Api]
  BY <1>1 DEF ThrottleTyped
<1>3. CASE em[e].seq = n
  <2>1. CASE e[1] = Api
    BY <1>3, <2>1 DEF OnItsWay
  <2>2. CASE e[1] # Api
    <3>1. n # published[Api]
      BY <1>3 DEF NumbersSound
    <3>2. QED
      BY <1>2, <1>3, <2>2, <3>1 DEF OnItsWay
  <2>3. QED
    BY <2>1, <2>2
<1>4. CASE em[e].seq # n
  <2>1. CASE \E u \in Emission : em[u].seq = n /\ (em[u].at = "publish" \/ (em[u].at = "fanout" /\ u[1] = Api))
    BY <1>4, <2>1 DEF OnItsWay
  <2>2. CASE \E i \in DOMAIN inbox : inbox[i].seq = n /\ n # published[Api]
    <3>1. PICK i \in DOMAIN inbox : inbox[i].seq = n /\ n # published[Api]
      BY <2>2
    <3>2. i \in DOMAIN inbox' /\ inbox'[i].seq = n /\ n # published'[Api]
      BY <1>2, <1>4, <3>1
    <3>3. QED
      BY <3>2 DEF OnItsWay
  <2>3. QED
    BY <2>1, <2>2 DEF OnItsWay
<1>5. QED
  BY <1>3, <1>4

LEMMA PublishKeeps ==
  ASSUME Sound, NEW e \in Emission, Publish(e)
  PROVE  Sound'
<1>1. /\ DocTyped /\ EmTyped /\ ThrottleTyped /\ StreamTyped /\ HistoryTyped
      /\ EndSound /\ NumbersSound /\ ClientSound /\ SerialSound
  BY DEF Sound
<1>2. PICK p, seq, event, all : /\ p = e[1] /\ seq = em[e].seq /\ event = Event(e)
                                /\ all = orphans[p] \cup throttle[p].pending
  OBVIOUS
<1>3. PICK works \in BOOLEAN :
        /\ em[e].at = "publish" /\ em' = [em EXCEPT ![e].at = "fanout"]
        /\ throttle' = [throttle EXCEPT ![p] = [hot |-> TRUE, pending |-> {}]]
        /\ orphans' = [orphans EXCEPT ![p] = all] /\ published' = [published EXCEPT ![p] = seq]
        /\ works \/ faults < MaxFaults
        /\ faults' = faults + (IF works THEN 0 ELSE 1)
        /\ inbox' = IF works /\ sub = "on" THEN Append(inbox, event) ELSE inbox
        /\ mishap' = IF p # Api /\ client.at = "stream" /\ ~client.snapshot /\ ~(works /\ sub = "on")
                       THEN mishap \cup {"lost"} ELSE mishap
        /\ UNCHANGED <<doc, sub, client, overlapped>>
  BY <1>2 DEF Publish
<1>4. /\ em[e] \in Emissions /\ em[e].msg \in Message /\ p \in Proc /\ Api \in Proc
      /\ em[e].msg.terminal \in BOOLEAN /\ em[e].msg.status \in Status
      /\ seq \in Nat /\ seq > 0 /\ seq <= doc.seq
  BY <1>1, <1>2, <1>3, EmissionIs, DocIs DEF NumbersSound
<1>5. event \in EventOf /\ event.seq = seq
  <2>1. seq \in Nat \ {0}
    BY <1>4
  <2>2. QED
    BY <1>2, <1>4, <2>1 DEF Event, EventOf
<1>6. PICK new : new = [em[e] EXCEPT !.at = "fanout"]
  OBVIOUS
<1>7. new \in Emissions /\ new.at = "fanout" /\ new.seq = seq /\ new.msg = em[e].msg /\ Moves(e, new)
  BY <1>1, <1>2, <1>3, <1>4, <1>6 DEF Emissions, Moves, EmTyped
<1>8. em'[e] = new /\ (\A other \in Emission \ {e} : em'[other] = em[other]) /\ EmTyped'
  BY <1>1, <1>7, Moved
<1>9. /\ throttle'[p].pending = {} /\ \A q \in Proc \ {p} : throttle'[q] = throttle[q]
      /\ orphans'[p] = all /\ \A q \in Proc \ {p} : orphans'[q] = orphans[q]
      /\ published'[p] = seq /\ \A q \in Proc \ {p} : published'[q] = published[q]
      /\ ThrottleTyped'
  <2>1. throttle[p].pending \in SUBSET Message /\ orphans[p] \in SUBSET Message
    BY <1>1, <1>4 DEF ThrottleTyped
  <2>2. all \in SUBSET Message
    BY <1>2, <2>1
  <2>3. [hot |-> TRUE, pending |-> {}] \in [hot : BOOLEAN, pending : SUBSET Message]
    OBVIOUS
  <2>4. /\ throttle' \in [Proc -> [hot : BOOLEAN, pending : SUBSET Message]]
        /\ throttle'[p].pending = {} /\ \A q \in Proc \ {p} : throttle'[q] = throttle[q]
    BY <1>1, <1>3, <1>4, <2>3 DEF ThrottleTyped
  <2>5. /\ orphans' \in [Proc -> SUBSET Message] /\ orphans'[p] = all
        /\ \A q \in Proc \ {p} : orphans'[q] = orphans[q]
    BY <1>1, <1>3, <1>4, <2>2 DEF ThrottleTyped
  <2>6. /\ published' \in [Proc -> Nat] /\ published'[p] = seq
        /\ \A q \in Proc \ {p} : published'[q] = published[q]
    BY <1>1, <1>3, <1>4 DEF ThrottleTyped
  <2>7. QED
    BY <2>4, <2>5, <2>6 DEF ThrottleTyped
<1>10. /\ inbox' \in Seq(EventOf)
       /\ \A i \in DOMAIN inbox : i \in DOMAIN inbox' /\ inbox'[i] = inbox[i]
       /\ \A i \in DOMAIN inbox' : (i \in DOMAIN inbox /\ inbox'[i] = inbox[i]) \/ inbox'[i].seq = seq
       /\ works /\ sub = "on" => \E i \in DOMAIN inbox' : inbox'[i].seq = seq
  <2>1. CASE works /\ sub = "on"
    <3>1. inbox' = Append(inbox, event) /\ inbox \in Seq(EventOf)
      BY <1>1, <1>3, <2>1 DEF StreamTyped
    <3>2. PICK q, longer : q = inbox /\ longer = inbox'
      OBVIOUS
    <3>3. /\ longer \in Seq(EventOf)
          /\ \A i \in DOMAIN q : i \in DOMAIN longer /\ longer[i] = q[i]
          /\ \A i \in DOMAIN longer : i \in DOMAIN q \/ longer[i] = event
          /\ \E i \in DOMAIN longer : longer[i] = event
      BY <1>5, <3>1, <3>2, Appended
    <3>4. QED
      BY <1>5, <3>2, <3>3
  <2>2. CASE ~(works /\ sub = "on")
    BY <1>1, <1>3, <2>2 DEF StreamTyped
  <2>3. QED
    BY <2>1, <2>2
<1>11. DocTyped' /\ StreamTyped' /\ HistoryTyped' /\ (mishap' = {} => mishap = {})
  <2>1. faults' \in 0 .. MaxFaults
    <3>1. faults \in 0 .. MaxFaults /\ MaxFaults \in Nat
      BY <1>1, DocIs DEF HistoryTyped
    <3>2. CASE works
      BY <1>3, <3>1, <3>2
    <3>3. CASE ~works
      BY <1>3, <3>1, <3>3
    <3>4. QED
      BY <3>2, <3>3
  <2>2. QED
    BY <1>1, <1>3, <1>10, <2>1 DEF DocTyped, StreamTyped, HistoryTyped
<1>12. /\ InFlight' = InFlight /\ Unsaved' = Unsaved /\ e \in InFlight /\ e \notin Unsaved
       /\ InFlight \subseteq Emission /\ Unsaved \subseteq Emission
       /\ \A other \in Emission : em'[other].msg = em[other].msg /\ em'[other].seq = em[other].seq
  BY <1>2, <1>3, <1>7, <1>8 DEF InFlight, Unsaved
<1>13. EndSound'
  <2>1. \A q \in Proc : orphans'[q] \cup throttle'[q].pending \subseteq orphans[q] \cup throttle[q].pending
    BY <1>2, <1>9
  <2>2. \A q \in Proc : \A m \in throttle'[q].pending \cup orphans'[q] : ~m.terminal
    BY <1>1, <2>1 DEF EndSound
  <2>3. \A other \in InFlight' : em'[other].msg.terminal => em'[other].msg.force
    BY <1>1, <1>12 DEF EndSound
  <2>4. ASSUME doc'.status = "ended", mishap' = {}
        PROVE  doc'.latest.terminal \/ \E other \in Unsaved' : em'[other].msg.terminal
    BY <1>1, <1>3, <1>11, <1>12, <2>4 DEF EndSound
  <2>5. QED
    BY <2>2, <2>3, <2>4 DEF EndSound
<1>14. NumbersSound'
  <2>1. \A other \in Emission : other # e => em'[other].at = em[other].at
    BY <1>8
  <2>2. em'[e].at = "fanout"
    BY <1>7, <1>8
  <2>3. \A other \in Emission : /\ em'[other].seq <= doc'.seq
                                /\ em'[other].at \in {"publish", "fanout"} => em'[other].seq > 0
    BY <1>1, <1>2, <1>3, <1>4, <1>12, <2>1, <2>2 DEF NumbersSound
  <2>4. \A u, v \in Emission : em'[u].at = "publish" /\ em'[v].at = "publish" /\ u # v =>
          em'[u].seq # em'[v].seq
    BY <1>1, <1>12, <2>1, <2>2 DEF NumbersSound
  <2>5. published'[Api] = published[Api] \/ published'[Api] = seq
    BY <1>4, <1>9
  <2>6. \A u \in Emission : em'[u].at = "publish" => em'[u].seq # published'[Api]
    BY <1>1, <1>2, <1>3, <1>12, <2>1, <2>2, <2>5 DEF NumbersSound
  <2>7. published'[Api] <= doc'.seq
    BY <1>1, <1>3, <1>4, <2>5 DEF NumbersSound
  <2>8. \A i \in DOMAIN inbox' : inbox'[i].seq <= doc'.seq
    BY <1>1, <1>3, <1>4, <1>10 DEF NumbersSound
  <2>9. QED
    BY <2>3, <2>4, <2>6, <2>7, <2>8 DEF NumbersSound
<1>15. ClientSound'
  <2>1. ASSUME client.at = "stream", ~client.snapshot, mishap' = {}, NEW n, OnItsWay(n)
        PROVE  OnItsWay(n)'
    <3>1. p # Api => works /\ sub = "on"
      BY <1>3, <2>1
    <3>2. e[1] # Api => \E i \in DOMAIN inbox' : inbox'[i].seq = em[e].seq
      BY <1>2, <1>10, <3>1
    <3>3. published' = [published EXCEPT ![e[1]] = em[e].seq]
      BY <1>2, <1>3
    <3>4. em[e].at = "publish" /\ em'[e].at = "fanout" /\ em'[e].seq = em[e].seq
      BY <1>3, <1>7, <1>8, <1>12
    <3>5. QED
      BY <1>1, <1>8, <1>10, <2>1, <3>2, <3>3, <3>4, PublishedOnItsWay
  <2>2. UNCHANGED <<doc, client>> /\ (mishap' = {} => mishap = {})
    BY <1>3, <1>11
  <2>3. QED
    BY <1>1, <2>1, <2>2 DEF ClientSound
<1>16. SerialSound'
  <2>1. ASSUME ~overlapped', faults' = 0
        PROVE  /\ InFlight' = {e} /\ \A q \in Proc : orphans'[q] = {}
               /\ \A q \in Proc : throttle'[q].pending = {}
               /\ doc'.latest.work = doc'.work
    <3>1. faults = 0
      <4>1. faults \in Nat
        BY <1>1 DEF HistoryTyped
      <4>2. QED
        BY <1>3, <2>1, <4>1
    <3>2. /\ InFlight = {e} /\ \A q \in Proc : orphans[q] = {} /\ throttle[q].pending = {}
      BY <1>1, <1>3, <1>12, <2>1, <3>1 DEF SerialSound
    <3>3. Unsaved = {}
      BY <1>12, <3>2 DEF Unsaved, InFlight
    <3>4. doc.latest.work = doc.work
      BY <1>1, <1>3, <2>1, <3>1, <3>2, <3>3 DEF SerialSound
    <3>5. QED
      BY <1>2, <1>3, <1>9, <1>12, <3>2, <3>4
  <2>2. em'[e].at = "fanout"
    BY <1>7, <1>8
  <2>3. QED
    BY <2>1, <2>2 DEF SerialSound
<1>17. QED
  BY <1>8, <1>9, <1>11, <1>13, <1>14, <1>15, <1>16 DEF Sound

-----------------------------------------------------------------------------
(* The client and its stream.                                               *)

\* Whatever the client does leaves the events alone.
LEMMA StreamStep ==
  ASSUME Sound, UNCHANGED <<doc, em, throttle, orphans, published, mishap, overlapped>>,
         faults' = faults \/ (faults < MaxFaults /\ faults' = faults + 1),
         StreamTyped', ClientSound',
         \A i \in DOMAIN inbox' : inbox'[i].seq <= doc.seq
  PROVE  Sound'
<1>1. /\ DocTyped /\ EmTyped /\ ThrottleTyped /\ StreamTyped /\ HistoryTyped
      /\ EndSound /\ NumbersSound /\ ClientSound /\ SerialSound
  BY DEF Sound
<1>2. faults' \in 0 .. MaxFaults /\ (faults' = 0 => faults = 0)
  <2>1. faults \in 0 .. MaxFaults /\ MaxFaults \in Nat
    BY <1>1, DocIs DEF HistoryTyped
  <2>2. QED
    BY <2>1
<1>3. DocTyped' /\ EmTyped' /\ ThrottleTyped' /\ HistoryTyped'
  BY <1>1, <1>2 DEF DocTyped, EmTyped, ThrottleTyped, HistoryTyped
<1>4. InFlight' = InFlight /\ Unsaved' = Unsaved
  BY DEF InFlight, Unsaved
<1>5. EndSound'
  BY <1>1, <1>4 DEF EndSound
<1>6. NumbersSound'
  BY <1>1 DEF NumbersSound
<1>7. SerialSound'
  BY <1>1, <1>2, <1>4 DEF SerialSound
<1>8. QED
  BY <1>3, <1>5, <1>6, <1>7 DEF Sound

LEMMA Taken ==
  ASSUME NEW q \in Seq(EventOf), q # <<>>, NEW rest, rest = Tail(q)
  PROVE  /\ rest \in Seq(EventOf) /\ 1 \in DOMAIN q /\ Head(q) = q[1]
         /\ \A i \in DOMAIN rest : i + 1 \in DOMAIN q /\ rest[i] = q[i + 1]
         /\ \A i \in DOMAIN q : i = 1 \/ (i - 1 \in DOMAIN rest /\ rest[i - 1] = q[i])
<1>1. /\ rest \in Seq(EventOf) /\ Len(q) \in Nat /\ Len(q) > 0 /\ Len(rest) = Len(q) - 1
      /\ DOMAIN q = 1 .. Len(q) /\ DOMAIN rest = 1 .. Len(rest)
      /\ \A i \in 1 .. Len(rest) : rest[i] = q[i + 1]
      /\ Head(q) = q[1]
  OBVIOUS
<1>2. /\ 1 \in 1 .. Len(q)
      /\ \A i \in 1 .. Len(rest) : i + 1 \in 1 .. Len(q)
      /\ \A i \in 1 .. Len(q) : i = 1 \/ (i - 1 \in 1 .. Len(rest) /\ (i - 1) + 1 = i)
  BY <1>1
<1>3. \A i \in 1 .. Len(q) : i = 1 \/ (i - 1 \in 1 .. Len(rest) /\ rest[i - 1] = q[i])
  BY <1>1, <1>2
<1>4. QED
  BY <1>1, <1>2, <1>3

\* What a client knows after an event, and after its stream has ended.
LEMMA AppliedIs ==
  ASSUME client \in Clients, NEW event, event.seq \in Nat, event.status \in Status,
         event.terminal \in BOOLEAN, NEW c, c = Applied(event)
  PROVE  /\ c \in Clients /\ c.at = client.at /\ c.after = client.after
         /\ c.snapshot = client.snapshot
         /\ c.last = IF event.seq > client.last THEN event.seq ELSE client.last
<1>1. CASE event.seq > client.last
  <2>1. PICK over \in BOOLEAN : over = (client.over \/ event.terminal)
    BY DEF Clients
  <2>2. c = [client EXCEPT !.last = event.seq, !.status = event.status, !.over = over]
    BY <1>1, <2>1 DEF Applied
  <2>3. QED
    BY <1>1, <2>2 DEF Clients
<1>2. CASE ~(event.seq > client.last)
  BY <1>2 DEF Applied
<1>3. QED
  BY <1>1, <1>2

LEMMA EndedIs ==
  ASSUME NEW c \in Clients, NEW d, d = Ended(c)
  PROVE  /\ d \in Clients /\ d.at \in {"done", "polling"} /\ d.last = c.last /\ d.after = c.after
<1>1. PICK at : at = IF c.over THEN "done" ELSE "polling"
  OBVIOUS
<1>2. d = [c EXCEPT !.at = at, !.snapshot = FALSE] /\ at \in {"done", "polling"}
  BY <1>1 DEF Ended
<1>3. QED
  BY <1>2 DEF Clients

\* A client without a stream owes nothing.
LEMMA OffSound ==
  ASSUME NEW c \in Clients, client' = c, c.after <= c.last, c.last <= doc.seq, doc' = doc,
         c.at # "stream" \/ c.snapshot
  PROVE  ClientSound'
BY DEF ClientSound

\* An event that is delivered is applied, has been applied, or ends the stream.
LEMMA DeliverDoes ==
  ASSUME DocTyped, StreamTyped, ClientSound, NEW event \in EventOf, event.seq <= doc.seq,
         NEW rest \in Seq(EventOf), Deliver(event, rest)
  PROVE  /\ StreamTyped' /\ (inbox' = rest \/ inbox' = <<>>)
         /\ client'.after <= client'.last /\ client'.last <= doc.seq
         /\ client'.at = "stream" /\ ~client'.snapshot =>
              /\ client.at = "stream" /\ ~client.snapshot /\ inbox' = rest
              /\ event.seq = doc.seq \/ client.last = doc.seq => client'.last = doc.seq
<1>1. /\ client \in Clients /\ client.after \in Nat /\ client.last \in Nat
      /\ client.after <= client.last /\ client.last <= doc.seq /\ doc.seq \in Nat
  BY DocIs DEF StreamTyped, ClientSound, Clients
<1>2. event.seq \in Nat /\ event.status \in Status /\ event.terminal \in BOOLEAN
  BY DEF EventOf
<1>3. CASE client.at = "stream" /\ event.seq > client.after /\ event.terminal
  <2>1. PICK c : c = Ended(client)
    OBVIOUS
  <2>2. c \in Clients /\ c.at \in {"done", "polling"} /\ c.last = client.last /\ c.after = client.after
    BY <1>1, <2>1, EndedIs
  <2>3. client' = c /\ sub' = "off" /\ inbox' = <<>>
    BY <1>3, <2>1 DEF Deliver
  <2>4. StreamTyped'
    BY <2>2, <2>3 DEF StreamTyped
  <2>5. QED
    BY <1>1, <2>2, <2>3, <2>4
<1>4. CASE client.at = "stream" /\ event.seq > client.after /\ ~event.terminal
  <2>1. PICK c : c = Applied(event)
    OBVIOUS
  <2>2. /\ c \in Clients /\ c.at = client.at /\ c.after = client.after
        /\ c.snapshot = client.snapshot
        /\ c.last = IF event.seq > client.last THEN event.seq ELSE client.last
    BY <1>1, <1>2, <2>1, AppliedIs
  <2>3. client' = c /\ inbox' = rest /\ sub' = sub
    BY <1>4, <2>1 DEF Deliver
  <2>4. StreamTyped'
    BY <2>2, <2>3 DEF StreamTyped
  <2>5. /\ c.after <= c.last /\ c.last <= doc.seq
        /\ event.seq = doc.seq \/ client.last = doc.seq => c.last = doc.seq
    BY <1>1, <1>2, <2>2
  <2>6. QED
    BY <1>4, <2>2, <2>3, <2>4, <2>5
<1>5. CASE ~(client.at = "stream" /\ event.seq > client.after)
  <2>1. inbox' = rest /\ client' = client /\ sub' = sub
    BY <1>5 DEF Deliver
  <2>2. StreamTyped'
    BY <2>1 DEF StreamTyped
  <2>3. client.at = "stream" /\ event.seq = doc.seq => client.last = doc.seq
    BY <1>1, <1>2, <1>5
  <2>4. QED
    BY <1>1, <2>1, <2>2, <2>3
<1>6. QED
  BY <1>2, <1>3, <1>4, <1>5

LEMMA FanOutKeeps ==
  ASSUME Sound, NEW e \in Emission, FanOut(e)
  PROVE  Sound'
<1>1. /\ DocTyped /\ EmTyped /\ ThrottleTyped /\ StreamTyped /\ HistoryTyped
      /\ EndSound /\ NumbersSound /\ ClientSound /\ SerialSound
  BY DEF Sound
<1>2. PICK event, rest : event = Event(e) /\ rest = inbox
  OBVIOUS
<1>3. /\ em[e].at = "fanout" /\ em' = [em EXCEPT ![e] = Free]
      /\ \/ e[1] = Api /\ Deliver(event, rest)
         \/ e[1] # Api /\ UNCHANGED <<client, sub, inbox>>
      /\ UNCHANGED <<doc, throttle, orphans, published, faults, mishap, overlapped>>
  BY <1>2 DEF FanOut
<1>4. em'[e] = Free /\ (\A other \in Emission \ {e} : em'[other] = em[other]) /\ EmTyped'
  BY <1>1, <1>3, FreeIs, Moved DEF Moves
<1>5. event \in EventOf /\ event.seq = em[e].seq /\ event.seq <= doc.seq /\ rest \in Seq(EventOf)
  <2>1. em[e].seq \in Nat \ {0} /\ em[e].seq <= doc.seq
    BY <1>1, <1>3, EmissionIs DEF NumbersSound
  <2>2. em[e].msg.terminal \in BOOLEAN /\ em[e].msg.status \in Status
    BY <1>1, EmissionIs
  <2>3. QED
    BY <1>1, <1>2, <2>1, <2>2 DEF Event, EventOf, StreamTyped
<1>6. /\ StreamTyped' /\ (inbox' = rest \/ inbox' = <<>>)
      /\ client'.after <= client'.last /\ client'.last <= doc.seq
      /\ client'.at = "stream" /\ ~client'.snapshot =>
           /\ client.at = "stream" /\ ~client.snapshot /\ inbox' = rest
           /\ (e[1] = Api /\ em[e].seq = doc.seq) \/ client.last = doc.seq => client'.last = doc.seq
  <2>1. CASE e[1] = Api /\ Deliver(event, rest)
    BY <1>1, <1>5, <2>1, DeliverDoes
  <2>2. CASE e[1] # Api /\ UNCHANGED <<client, sub, inbox>>
    BY <1>1, <1>2, <2>2 DEF StreamTyped, ClientSound
  <2>3. QED
    BY <1>3, <2>1, <2>2
<1>7. DocTyped' /\ ThrottleTyped' /\ HistoryTyped'
  BY <1>1, <1>3 DEF DocTyped, ThrottleTyped, HistoryTyped
<1>8. /\ InFlight' = InFlight \ {e} /\ Unsaved' = Unsaved /\ e \in InFlight /\ e \notin Unsaved
      /\ InFlight \subseteq Emission /\ Unsaved \subseteq Emission
  BY <1>3, <1>4, FreeIs DEF InFlight, Unsaved
<1>9. EndSound'
  BY <1>1, <1>3, <1>4, <1>8 DEF EndSound
<1>10. NumbersSound'
  <2>1. em'[e].at = "free" /\ em'[e].seq = 0 /\ 0 <= doc.seq
    BY <1>1, <1>4, FreeIs, DocIs
  <2>2. \A other \in Emission : em'[other].at \in {"publish", "fanout"} =>
          em'[other].at = em[other].at /\ em'[other].seq = em[other].seq
    BY <1>4, <2>1
  <2>3. \A other \in Emission : em'[other].seq <= doc.seq
    BY <1>1, <1>4, <2>1 DEF NumbersSound
  <2>4. \A i \in DOMAIN inbox' : inbox'[i].seq <= doc.seq
    BY <1>1, <1>2, <1>6 DEF NumbersSound
  <2>5. doc' = doc /\ published' = published
    BY <1>3
  <2>6. QED
    BY <1>1, <2>2, <2>3, <2>4, <2>5 DEF NumbersSound
<1>11. ClientSound'
  <2>1. ASSUME client'.at = "stream", ~client'.snapshot, mishap' = {}
        PROVE  client'.last = doc'.seq \/ OnItsWay(doc.seq)'
    <3>1. client.last = doc.seq \/ OnItsWay(doc.seq)
      BY <1>1, <1>3, <1>6, <2>1 DEF ClientSound
    <3>2. CASE client.last = doc.seq \/ (e[1] = Api /\ em[e].seq = doc.seq)
      BY <1>3, <1>6, <2>1, <3>2
    <3>3. CASE ~(e[1] = Api /\ em[e].seq = doc.seq) /\ OnItsWay(doc.seq)
      <4>1. inbox' = inbox
        BY <1>2, <1>6, <2>1
      <4>2. QED
        BY <1>3, <1>4, <3>3, <4>1 DEF OnItsWay
    <3>4. QED
      BY <3>1, <3>2, <3>3
  <2>2. doc' = doc
    BY <1>3
  <2>3. QED
    BY <1>6, <2>1, <2>2 DEF ClientSound
<1>12. SerialSound'
  <2>1. ASSUME ~overlapped', faults' = 0
        PROVE  /\ InFlight' = {} /\ \A q \in Proc : orphans'[q] = {}
               /\ \A q \in Proc : throttle'[q].pending = {}
               /\ doc'.latest.work = doc'.work
    <3>1. InFlight = {e} /\ \A q \in Proc : orphans[q] = {} /\ throttle[q].pending = {}
      BY <1>1, <1>3, <1>8, <2>1 DEF SerialSound
    <3>2. Unsaved = {}
      BY <1>8, <3>1 DEF Unsaved, InFlight
    <3>3. doc.latest.work = doc.work
      BY <1>1, <1>3, <2>1, <3>1, <3>2 DEF SerialSound
    <3>4. QED
      BY <1>3, <1>8, <3>1, <3>3
  <2>2. QED
    BY <2>1 DEF SerialSound
<1>13. QED
  BY <1>4, <1>6, <1>7, <1>9, <1>10, <1>11, <1>12 DEF Sound

LEMMA OnRedisMessageKeeps ==
  ASSUME Sound, OnRedisMessage
  PROVE  Sound'
<1>1. StreamTyped /\ DocTyped /\ ClientSound /\ NumbersSound
  BY DEF Sound
<1>2. PICK event, rest, q : event = Head(inbox) /\ rest = Tail(inbox) /\ q = inbox
  OBVIOUS
<1>3. /\ q # <<>>
      /\ \/ event.seq = published[Api] /\ inbox' = rest /\ UNCHANGED <<client, sub>>
         \/ event.seq # published[Api] /\ Deliver(event, rest)
      /\ UNCHANGED <<doc, em, throttle, orphans, published, faults, mishap, overlapped>>
  BY <1>2 DEF OnRedisMessage
<1>4. /\ rest \in Seq(EventOf) /\ 1 \in DOMAIN q /\ event = q[1]
      /\ \A i \in DOMAIN rest : i + 1 \in DOMAIN q /\ rest[i] = q[i + 1]
      /\ \A i \in DOMAIN q : i = 1 \/ (i - 1 \in DOMAIN rest /\ rest[i - 1] = q[i])
  <2>1. q \in Seq(EventOf) /\ rest = Tail(q) /\ event = Head(q)
    BY <1>1, <1>2 DEF StreamTyped
  <2>2. QED
    BY <1>3, <2>1, Taken
<1>5. event \in EventOf /\ event.seq <= doc.seq
  BY <1>1, <1>2, <1>4, InboxIs DEF NumbersSound
<1>6. /\ StreamTyped' /\ (inbox' = rest \/ inbox' = <<>>)
      /\ client'.after <= client'.last /\ client'.last <= doc.seq
      /\ client'.at = "stream" /\ ~client'.snapshot =>
           /\ client.at = "stream" /\ ~client.snapshot /\ inbox' = rest
           /\ \/ client.last # doc.seq
              \/ client'.last = doc.seq
           /\ event.seq # doc.seq \/ event.seq = published[Api] \/ client'.last = doc.seq
  <2>1. CASE event.seq # published[Api] /\ Deliver(event, rest)
    BY <1>1, <1>4, <1>5, <2>1, DeliverDoes
  <2>2. CASE event.seq = published[Api] /\ inbox' = rest /\ UNCHANGED <<client, sub>>
    BY <1>1, <1>4, <2>2 DEF StreamTyped, ClientSound
  <2>3. QED
    BY <1>3, <2>1, <2>2
<1>7. \A i \in DOMAIN inbox' : inbox'[i].seq <= doc.seq
  BY <1>1, <1>2, <1>4, <1>6 DEF NumbersSound
<1>8. ClientSound'
  <2>1. ASSUME client'.at = "stream", ~client'.snapshot, mishap' = {}, client'.last # doc.seq
        PROVE  OnItsWay(doc.seq)'
    <3>1. PICK n : n = doc.seq /\ n = doc'.seq
      BY <1>3
    <3>2. OnItsWay(n)
      BY <1>1, <1>3, <1>6, <2>1, <3>1 DEF ClientSound
    <3>3. CASE \E u \in Emission : em[u].seq = n /\ (em[u].at = "publish" \/ (em[u].at = "fanout" /\ u[1] = Api))
      <4>1. em' = em
        BY <1>3
      <4>2. QED
        BY <3>1, <3>3, <4>1 DEF OnItsWay
    <3>4. CASE \E i \in DOMAIN inbox : inbox[i].seq = n /\ n # published[Api]
      <4>1. PICK i \in DOMAIN q : q[i].seq = n /\ n # published[Api]
        BY <1>2, <3>4
      <4>2. i # 1
        BY <1>4, <1>6, <2>1, <3>1, <4>1
      <4>3. i - 1 \in DOMAIN rest /\ rest[i - 1].seq = n
        BY <1>4, <4>1, <4>2
      <4>4. inbox' = rest /\ published' = published
        BY <1>3, <1>6, <2>1
      <4>5. QED
        BY <3>1, <4>1, <4>3, <4>4 DEF OnItsWay
    <3>5. QED
      BY <3>2, <3>3, <3>4 DEF OnItsWay
  <2>2. doc' = doc
    BY <1>3
  <2>3. QED
    BY <1>6, <2>1, <2>2 DEF ClientSound
<1>9. QED
  BY <1>3, <1>6, <1>7, <1>8, StreamStep

LEMMA SubscribedKeeps ==
  ASSUME Sound, Subscribed
  PROVE  Sound'
<1>1. StreamTyped /\ ClientSound /\ NumbersSound
  BY DEF Sound
<1>2. /\ sub' = "on"
      /\ UNCHANGED <<doc, em, throttle, orphans, published, inbox, client, faults, mishap, overlapped>>
  BY DEF Subscribed
<1>3. StreamTyped'
  BY <1>1, <1>2 DEF StreamTyped
<1>4. ClientSound'
  BY <1>1, <1>2 DEF ClientSound, OnItsWay
<1>5. \A i \in DOMAIN inbox' : inbox'[i].seq <= doc.seq
  BY <1>1, <1>2 DEF NumbersSound
<1>6. QED
  BY <1>2, <1>3, <1>4, <1>5, StreamStep

LEMMA FromDocIs ==
  ASSUME DocTyped, StreamTyped, ClientSound, NEW bound \in Nat, bound <= client.last,
         NEW c, c = IF doc.seq > bound THEN Applied(FromDoc) ELSE client
  PROVE  /\ c \in Clients /\ c.at = client.at /\ c.after = client.after
         /\ c.snapshot = client.snapshot /\ c.last = doc.seq /\ c.after <= c.last
         /\ doc.seq \in Nat
<1>1. /\ client \in Clients /\ client.last \in Nat /\ client.after \in Nat
      /\ client.after <= client.last /\ client.last <= doc.seq /\ doc.seq \in Nat
  BY DocIs DEF StreamTyped, ClientSound, Clients
<1>2. PICK event : event = FromDoc
  OBVIOUS
<1>3. /\ event.seq = doc.seq /\ event.status \in Status /\ event.terminal \in BOOLEAN
  BY <1>2, DocIs DEF FromDoc
<1>4. CASE doc.seq > bound
  <2>1. c = Applied(event)
    BY <1>2, <1>4
  <2>2. /\ c \in Clients /\ c.at = client.at /\ c.after = client.after
        /\ c.snapshot = client.snapshot
        /\ c.last = IF event.seq > client.last THEN event.seq ELSE client.last
    BY <1>1, <1>3, <2>1, AppliedIs
  <2>3. c.last = doc.seq
    BY <1>1, <1>3, <2>2
  <2>4. QED
    BY <1>1, <2>2, <2>3
<1>5. CASE ~(doc.seq > bound)
  BY <1>1, <1>5
<1>6. QED
  BY <1>4, <1>5

LEMMA PollKeeps ==
  ASSUME Sound, Poll
  PROVE  Sound'
<1>1. StreamTyped /\ ClientSound /\ NumbersSound /\ DocTyped
  BY DEF Sound
<1>2. PICK bound : bound = client.last
  OBVIOUS
<1>3. PICK c : c = IF doc.seq > bound THEN Applied(FromDoc) ELSE client
  OBVIOUS
<1>4. PICK at : at = IF c.over THEN "done" ELSE IF c.at = "start" THEN "connect" ELSE c.at
  OBVIOUS
<1>5. /\ client.at \in {"start", "polling"} /\ client' = [c EXCEPT !.at = at]
      /\ UNCHANGED <<doc, em, throttle, orphans, published, sub, inbox, faults, mishap, overlapped>>
  BY <1>2, <1>3, <1>4 DEF Poll
<1>6. /\ c \in Clients /\ c.at = client.at /\ c.last = doc.seq /\ c.after <= c.last /\ doc.seq \in Nat
  <2>1. bound \in Nat /\ bound <= client.last
    BY <1>1, <1>2 DEF StreamTyped, Clients
  <2>2. QED
    BY <1>1, <1>3, <2>1, FromDocIs
<1>7. at \in {"done", "connect", "polling"}
  BY <1>4, <1>5, <1>6
<1>8. PICK d : d = [c EXCEPT !.at = at]
  OBVIOUS
<1>9. d \in Clients /\ d.at # "stream" /\ d.last = doc.seq /\ d.after = c.after
  BY <1>6, <1>7, <1>8 DEF Clients
<1>10. StreamTyped'
  BY <1>1, <1>5, <1>8, <1>9 DEF StreamTyped
<1>11. ClientSound'
  <2>1. client' = d /\ d.after <= d.last /\ d.last <= doc.seq /\ doc' = doc
    BY <1>5, <1>6, <1>8, <1>9
  <2>2. QED
    BY <1>9, <2>1, OffSound
<1>12. \A i \in DOMAIN inbox' : inbox'[i].seq <= doc.seq
  BY <1>1, <1>5 DEF NumbersSound
<1>13. QED
  BY <1>5, <1>10, <1>11, <1>12, StreamStep

LEMMA OpenKeeps ==
  ASSUME Sound, Open
  PROVE  Sound'
<1>1. StreamTyped /\ ClientSound /\ NumbersSound /\ DocTyped
  BY DEF Sound
<1>2. PICK d : d = [client EXCEPT !.at = "stream", !.after = client.last, !.snapshot = TRUE]
  OBVIOUS
<1>3. /\ client' = d /\ sub' = "asked"
      /\ UNCHANGED <<doc, em, throttle, orphans, published, inbox, faults, mishap, overlapped>>
  BY <1>2 DEF Open
<1>4. /\ d \in Clients /\ d.snapshot = TRUE /\ d.last = client.last /\ d.after = client.last
      /\ client.last \in Nat
  BY <1>1, <1>2 DEF StreamTyped, Clients
<1>5. StreamTyped'
  BY <1>1, <1>3, <1>4 DEF StreamTyped
<1>6. ClientSound'
  <2>1. d.after <= d.last /\ d.last <= doc.seq /\ d.snapshot
    BY <1>1, <1>4 DEF ClientSound
  <2>2. QED
    BY <1>3, <1>4, <2>1, OffSound
<1>7. \A i \in DOMAIN inbox' : inbox'[i].seq <= doc.seq
  BY <1>1, <1>3 DEF NumbersSound
<1>8. QED
  BY <1>3, <1>5, <1>6, <1>7, StreamStep

LEMMA SnapshotKeeps ==
  ASSUME Sound, Snapshot
  PROVE  Sound'
<1>1. StreamTyped /\ ClientSound /\ NumbersSound /\ DocTyped
  BY DEF Sound
<1>2. PICK bound : bound = client.after
  OBVIOUS
<1>3. PICK c : c = IF doc.seq > bound THEN Applied(FromDoc) ELSE client
  OBVIOUS
<1>4. /\ \/ client' = Ended(c) /\ sub' = "off" /\ inbox' = <<>>
         \/ client' = [c EXCEPT !.snapshot = FALSE] /\ UNCHANGED <<sub, inbox>>
      /\ UNCHANGED <<doc, em, throttle, orphans, published, faults, mishap, overlapped>>
  BY <1>2, <1>3 DEF Snapshot
<1>5. /\ c \in Clients /\ c.last = doc.seq /\ c.after <= c.last /\ doc.seq \in Nat
  <2>1. bound \in Nat /\ bound <= client.last
    BY <1>1, <1>2 DEF StreamTyped, Clients, ClientSound
  <2>2. QED
    BY <1>1, <1>3, <2>1, FromDocIs
<1>6. CASE client' = Ended(c) /\ sub' = "off" /\ inbox' = <<>>
  <2>1. PICK d : d = Ended(c)
    OBVIOUS
  <2>2. d \in Clients /\ d.at \in {"done", "polling"} /\ d.last = c.last /\ d.after = c.after
    BY <1>5, <2>1, EndedIs
  <2>3. StreamTyped' /\ client' = d
    BY <1>6, <2>1, <2>2 DEF StreamTyped
  <2>4. ClientSound'
    <3>1. d.after <= d.last /\ d.last <= doc.seq /\ d.at # "stream" /\ doc' = doc
      BY <1>4, <1>5, <2>2
    <3>2. QED
      BY <2>2, <2>3, <3>1, OffSound
  <2>5. \A i \in DOMAIN inbox' : inbox'[i].seq <= doc.seq
    BY <1>6
  <2>6. QED
    BY <1>4, <2>3, <2>4, <2>5, StreamStep
<1>7. CASE client' = [c EXCEPT !.snapshot = FALSE] /\ UNCHANGED <<sub, inbox>>
  <2>1. PICK d : d = [c EXCEPT !.snapshot = FALSE]
    OBVIOUS
  <2>2. d \in Clients /\ d.last = c.last /\ d.after = c.after
    BY <1>5, <2>1 DEF Clients
  <2>3. StreamTyped' /\ client' = d
    BY <1>1, <1>7, <2>1, <2>2 DEF StreamTyped
  <2>4. ClientSound'
    <3>1. d.after <= d.last /\ d.last = doc.seq /\ d.last <= doc.seq /\ doc' = doc
      BY <1>4, <1>5, <2>2
    <3>2. QED
      BY <2>3, <3>1 DEF ClientSound
  <2>5. \A i \in DOMAIN inbox' : inbox'[i].seq <= doc.seq
    BY <1>1, <1>7 DEF NumbersSound
  <2>6. QED
    BY <1>4, <2>3, <2>4, <2>5, StreamStep
<1>8. QED
  BY <1>4, <1>6, <1>7

LEMMA DisconnectKeeps ==
  ASSUME Sound, Disconnect
  PROVE  Sound'
<1>1. StreamTyped /\ ClientSound
  BY DEF Sound
<1>2. PICK d : d = Ended(client)
  OBVIOUS
<1>3. /\ faults < MaxFaults /\ faults' = faults + 1
      /\ client' = d /\ sub' = "off" /\ inbox' = <<>>
      /\ UNCHANGED <<doc, em, throttle, orphans, published, mishap, overlapped>>
  BY <1>2 DEF Disconnect
<1>4. d \in Clients /\ d.at \in {"done", "polling"} /\ d.last = client.last /\ d.after = client.after
  BY <1>1, <1>2, EndedIs DEF StreamTyped
<1>5. StreamTyped'
  BY <1>3, <1>4 DEF StreamTyped
<1>6. ClientSound'
  <2>1. d.after <= d.last /\ d.last <= doc.seq /\ d.at # "stream"
    BY <1>1, <1>4 DEF ClientSound
  <2>2. QED
    BY <1>3, <1>4, <2>1, OffSound
<1>7. \A i \in DOMAIN inbox' : inbox'[i].seq <= doc.seq
  BY <1>3
<1>8. QED
  BY <1>3, <1>5, <1>6, <1>7, StreamStep

-----------------------------------------------------------------------------
(* The window passes; a process dies.                                       *)

LEMMA CoolKeeps ==
  ASSUME Sound, NEW p \in Proc, Cool(p)
  PROVE  Sound'
<1>1. /\ DocTyped /\ EmTyped /\ ThrottleTyped /\ StreamTyped /\ HistoryTyped
      /\ EndSound /\ NumbersSound /\ ClientSound /\ SerialSound
  BY DEF Sound
<1>2. /\ throttle' = [throttle EXCEPT ![p].hot = FALSE]
      /\ UNCHANGED <<doc, em, orphans, published, sub, inbox, client, faults, mishap, overlapped>>
  BY DEF Cool
<1>3. DocTyped' /\ EmTyped' /\ ThrottleTyped' /\ StreamTyped' /\ HistoryTyped'
  BY <1>1, <1>2 DEF DocTyped, EmTyped, ThrottleTyped, StreamTyped, HistoryTyped
<1>4. \A q \in Proc : throttle'[q].pending = throttle[q].pending
  BY <1>1, <1>2 DEF ThrottleTyped
<1>5. InFlight' = InFlight /\ Unsaved' = Unsaved
  BY <1>2 DEF InFlight, Unsaved
<1>6. EndSound'
  BY <1>1, <1>2, <1>4, <1>5 DEF EndSound
<1>7. NumbersSound' /\ ClientSound'
  BY <1>1, <1>2 DEF NumbersSound, ClientSound, OnItsWay
<1>8. SerialSound'
  BY <1>1, <1>2, <1>4, <1>5 DEF SerialSound
<1>9. QED
  BY <1>3, <1>6, <1>7, <1>8 DEF Sound

LEMMA CrashKeeps ==
  ASSUME Sound, NEW p \in Proc, Crash(p)
  PROVE  Sound'
<1>1. /\ DocTyped /\ EmTyped /\ ThrottleTyped /\ StreamTyped /\ HistoryTyped
      /\ EndSound /\ NumbersSound /\ ClientSound /\ SerialSound
  BY DEF Sound
<1>2. /\ faults < MaxFaults /\ faults' = faults + 1
      /\ em' = [e \in Emission |-> IF e[1] = p THEN Free ELSE em[e]]
      /\ throttle' = [throttle EXCEPT ![p] = [hot |-> FALSE, pending |-> {}]]
      /\ orphans' = [orphans EXCEPT ![p] = {}] /\ published' = [published EXCEPT ![p] = 0]
      /\ UNCHANGED <<doc, overlapped>>
  BY DEF Crash
<1>3. \/ mishap' = mishap /\ \A e \in Emission : e[1] = p => em[e].at = "free"
      \/ mishap' = mishap \cup {"cut"}
  BY DEF Crash
<1>4. \/ client' = Ended(client) /\ sub' = "off" /\ inbox' = <<>>
      \/ UNCHANGED <<client, sub, inbox>> /\ (p # Api \/ client.at # "stream")
  BY DEF Crash
<1>5. \A e \in Emission : em'[e] = Free \/ (em'[e] = em[e] /\ e[1] # p)
  BY <1>2
<1>6. \A e \in Emission : e[1] # p => em'[e] = em[e]
  BY <1>2
<1>7. EmTyped'
  BY <1>1, <1>2, FreeIs DEF EmTyped
<1>8. /\ ThrottleTyped' /\ throttle'[p].pending = {} /\ orphans'[p] = {} /\ published'[p] = 0
      /\ \A q \in Proc \ {p} : /\ throttle'[q] = throttle[q] /\ orphans'[q] = orphans[q]
                               /\ published'[q] = published[q]
  BY <1>1, <1>2 DEF ThrottleTyped
<1>9. DocTyped' /\ HistoryTyped' /\ faults' # 0
  <2>1. faults \in 0 .. MaxFaults /\ MaxFaults \in Nat
    BY <1>1, DocIs DEF HistoryTyped
  <2>2. faults' \in 0 .. MaxFaults /\ faults' # 0
    BY <1>2, <2>1
  <2>3. mishap' \subseteq {"lost", "overtaken", "cut"} /\ overlapped' \in BOOLEAN
    BY <1>1, <1>2, <1>3 DEF HistoryTyped
  <2>4. QED
    BY <1>1, <1>2, <2>2, <2>3 DEF DocTyped, HistoryTyped
<1>10. PICK d : d = Ended(client)
  OBVIOUS
<1>11. d \in Clients /\ d.at \in {"done", "polling"} /\ d.last = client.last /\ d.after = client.after
  BY <1>1, <1>10, EndedIs DEF StreamTyped
<1>12. StreamTyped'
  <2>1. CASE client' = Ended(client) /\ sub' = "off" /\ inbox' = <<>>
    <3>1. client' \in Clients /\ sub' = "off" /\ inbox' = <<>>
      BY <1>10, <1>11, <2>1
    <3>2. inbox' \in Seq(EventOf)
      BY <3>1
    <3>3. QED
      BY <3>1, <3>2 DEF StreamTyped
  <2>2. CASE UNCHANGED <<client, sub, inbox>>
    BY <1>1, <2>2 DEF StreamTyped
  <2>3. QED
    BY <1>4, <2>1, <2>2
<1>13. EndSound'
  <2>1. \A e \in InFlight' : e \in InFlight /\ em'[e] = em[e]
    BY <1>5, FreeIs DEF InFlight
  <2>2. \A e \in InFlight' : em'[e].msg.terminal => em'[e].msg.force
    BY <1>1, <2>1 DEF EndSound
  <2>3. \A q \in Proc : \A msg \in throttle'[q].pending \cup orphans'[q] : ~msg.terminal
    BY <1>1, <1>8 DEF EndSound
  <2>4. ASSUME doc'.status = "ended", mishap' = {}
        PROVE  doc'.latest.terminal \/ \E e \in Unsaved' : em'[e].msg.terminal
    <3>1. doc.status = "ended" /\ mishap = {} /\ \A e \in Emission : e[1] = p => em[e].at = "free"
      BY <1>2, <1>3, <2>4
    <3>2. doc.latest.terminal \/ \E e \in Unsaved : em[e].msg.terminal
      BY <1>1, <3>1 DEF EndSound
    <3>3. \A e \in Unsaved : e \in Unsaved' /\ em'[e] = em[e]
      BY <1>6, <3>1 DEF Unsaved
    <3>4. QED
      BY <1>2, <3>2, <3>3
  <2>5. QED
    BY <2>2, <2>3, <2>4 DEF EndSound
<1>14. NumbersSound'
  <2>1. doc'.seq = doc.seq /\ doc.seq \in Nat /\ published[Api] \in Nat /\ Api \in Proc
    BY <1>1, <1>2, DocIs DEF ThrottleTyped
  <2>2. published'[Api] = published[Api] \/ published'[Api] = 0
    BY <1>8, <2>1
  <2>3. published'[Api] <= doc'.seq
    BY <1>1, <2>1, <2>2 DEF NumbersSound
  <2>4. \A e \in Emission : em'[e].seq = 0 \/ em'[e].seq <= doc.seq
    BY <1>1, <1>5, FreeIs DEF NumbersSound
  <2>5. \A e \in Emission : em'[e].seq <= doc'.seq
    BY <2>1, <2>4
  <2>6. \A e \in Emission : em'[e].at \in {"publish", "fanout"} => em'[e] = em[e]
    BY <1>5, FreeIs
  <2>7. \A e \in Emission : em'[e].at \in {"publish", "fanout"} => em'[e].seq > 0
    BY <1>1, <2>6 DEF NumbersSound
  <2>8. \A e \in Emission : em'[e].at = "publish" => em'[e].seq # published[Api] /\ em'[e].seq # 0
    <3>1. \A e \in Emission : em[e].at = "publish" => em[e].seq # published[Api]
      BY <1>1 DEF NumbersSound
    <3>2. \A e \in Emission : em'[e].seq \in Nat
      BY <1>7 DEF EmTyped, Emissions
    <3>3. QED
      BY <2>6, <2>7, <3>1, <3>2
  <2>9. \A e \in Emission : em'[e].at = "publish" => em'[e].seq # published'[Api]
    BY <2>2, <2>8
  <2>10. \A e, other \in Emission :
           em'[e].at = "publish" /\ em'[other].at = "publish" /\ e # other => em'[e].seq # em'[other].seq
    BY <1>1, <2>6 DEF NumbersSound
  <2>11. \A i \in DOMAIN inbox' : inbox'[i].seq <= doc'.seq
    BY <1>1, <1>4, <2>1 DEF NumbersSound
  <2>12. QED
    BY <2>3, <2>5, <2>7, <2>9, <2>10, <2>11 DEF NumbersSound
<1>15. ClientSound'
  <2>1. CASE client' = Ended(client)
    <3>1. client' = d /\ d.after <= d.last /\ d.last <= doc.seq /\ d.at # "stream" /\ doc' = doc
      BY <1>1, <1>2, <1>10, <1>11, <2>1 DEF ClientSound
    <3>2. QED
      BY <1>11, <3>1, OffSound
  <2>2. CASE UNCHANGED <<client, sub, inbox>> /\ (p # Api \/ client.at # "stream")
    <3>1. ASSUME client.at = "stream", ~client.snapshot, mishap' = {}
          PROVE  client.last = doc.seq \/ OnItsWay(doc.seq)'
      <4>1. mishap = {} /\ \A e \in Emission : e[1] = p => em[e].at = "free"
        BY <1>3, <3>1
      <4>2. published'[Api] = published[Api]
        BY <1>8, <2>2, <3>1, ScanProgressConstantsOK DEF ScanProgressConstantsOK
      <4>3. \A e \in Emission : em[e].at # "free" => em'[e] = em[e]
        BY <1>6, <4>1
      <4>4. ASSUME OnItsWay(doc.seq) PROVE OnItsWay(doc.seq)'
        BY <1>2, <2>2, <4>2, <4>3, <4>4 DEF OnItsWay
      <4>5. QED
        BY <1>1, <3>1, <4>1, <4>4 DEF ClientSound
    <3>2. doc' = doc /\ client' = client /\ client.after <= client.last /\ client.last <= doc.seq
      BY <1>1, <1>2, <2>2 DEF ClientSound
    <3>3. QED
      BY <3>1, <3>2 DEF ClientSound
  <2>3. QED
    BY <1>4, <2>1, <2>2
<1>16. SerialSound'
  BY <1>9 DEF SerialSound
<1>17. QED
  BY <1>7, <1>8, <1>9, <1>12, <1>13, <1>14, <1>15, <1>16 DEF Sound

-----------------------------------------------------------------------------
(* All steps.                                                               *)

LEMMA StutterKeeps ==
  ASSUME Sound, UNCHANGED vars
  PROVE  Sound'
<1>1. InFlight' = InFlight /\ Unsaved' = Unsaved
  BY DEF vars, InFlight, Unsaved
<1>2. DocTyped' /\ EmTyped' /\ ThrottleTyped' /\ StreamTyped' /\ HistoryTyped'
  BY DEF Sound, vars, DocTyped, EmTyped, ThrottleTyped, StreamTyped, HistoryTyped
<1>3. EndSound' /\ SerialSound'
  BY <1>1 DEF Sound, vars, EndSound, SerialSound
<1>4. NumbersSound' /\ ClientSound'
  BY DEF Sound, vars, NumbersSound, ClientSound, OnItsWay
<1>5. QED
  BY <1>2, <1>3, <1>4 DEF Sound

LEMMA NextKeeps ==
  ASSUME Sound, [Next]_vars
  PROVE  Sound'
<1>1. ASSUME NEW e \in Emission, Report(e) \/ End(e) \/ Work(e)
      PROVE  Sound'
  BY <1>1, ReportKeeps, EndKeeps, ReadKeeps, StartKeeps, SaveKeeps, PublishKeeps, FanOutKeeps,
     TimerFiresKeeps DEF Work
<1>2. ASSUME NEW p \in Proc, Cool(p) \/ Crash(p)
      PROVE  Sound'
  BY <1>2, CoolKeeps, CrashKeeps
<1>3. CASE OnRedisMessage \/ Subscribed \/ Disconnect
  BY <1>3, OnRedisMessageKeeps, SubscribedKeeps, DisconnectKeeps
<1>4. CASE Panel
  BY <1>4, PollKeeps, OpenKeeps, SnapshotKeeps DEF Panel
<1>5. CASE UNCHANGED vars
  BY <1>5, StutterKeeps
<1>6. QED
  BY <1>1, <1>2, <1>3, <1>4, <1>5 DEF Next

LEMMA InitSound == Init => Sound
<1>1. SUFFICES ASSUME Init PROVE Sound
  OBVIOUS
<1>2. /\ doc = [status |-> "running", work |-> 0, seq |-> 1, latest |-> Latest]
      /\ em = [e \in Emission |-> Free]
      /\ throttle = [p \in Proc |-> [hot |-> FALSE, pending |-> {}]]
      /\ orphans = [p \in Proc |-> {}] /\ published = [p \in Proc |-> 0]
      /\ sub = "off" /\ inbox = <<>> /\ client = Closed
      /\ faults = 0 /\ mishap = {} /\ overlapped = FALSE
  BY <1>1 DEF Init
<1>3. 0 \in 0 .. MaxWork /\ 0 \in 0 .. MaxFaults /\ Api \in Proc
  BY ScanProgressConstantsOK DEF ScanProgressConstantsOK
<1>4. DocTyped /\ doc.seq = 1 /\ doc.work = 0 /\ doc.status = "running" /\ doc.latest.work = 0
  BY <1>2, <1>3 DEF DocTyped, Latest, Status
<1>5. EmTyped /\ \A e \in Emission : em[e].at = "free" /\ em[e].seq = 0
  BY <1>2, FreeIs DEF EmTyped
<1>6. InFlight = {} /\ Unsaved = {}
  BY <1>5 DEF InFlight, Unsaved
<1>7. ThrottleTyped /\ published[Api] = 0
      /\ \A p \in Proc : throttle[p].pending = {} /\ orphans[p] = {}
  BY <1>2, <1>3 DEF ThrottleTyped
<1>8. inbox \in Seq(EventOf) /\ DOMAIN inbox = {}
  BY <1>2
<1>9. client \in Clients /\ client.at = "start" /\ client.last = 0 /\ client.after = 0
  BY <1>2 DEF Clients, Closed, Status
<1>10. StreamTyped /\ HistoryTyped
  BY <1>2, <1>3, <1>8, <1>9 DEF StreamTyped, HistoryTyped
<1>11. EndSound /\ SerialSound
  BY <1>4, <1>6, <1>7 DEF EndSound, SerialSound
<1>12. NumbersSound /\ ClientSound
  BY <1>4, <1>5, <1>7, <1>8, <1>9 DEF NumbersSound, ClientSound
<1>13. QED
  BY <1>4, <1>5, <1>7, <1>10, <1>11, <1>12 DEF Sound

-----------------------------------------------------------------------------
(* The theorems.                                                            *)

\* The type of every variable, and with it: an event that ends the scan is forced, and
\* once the scan has ended is saved or on its way to be; a number is one event's and no
\* event of another process passes for an echo; a stream past its snapshot has told the
\* latest event or is about to; of emissions that follow one another the one in flight,
\* or the message that waits, has the present count.
THEOREM ProgressHolds == Spec => []ProgressInv
<1>1. Init => ProgressInv
  BY InitSound, Parts
<1>2. ProgressInv /\ [Next]_vars => ProgressInv'
  <2>1. ASSUME Sound, [Next]_vars PROVE Sound'
    BY <2>1, NextKeeps
  <2>2. Sound' => ProgressInv'
    BY DEF Sound, ProgressInv, TypeOK, DocTyped, EmTyped, Emissions, ThrottleTyped,
           StreamTyped, Clients, EventOf, HistoryTyped
  <2>3. QED
    BY <2>1, <2>2, Parts
<1>3. QED
  BY <1>1, <1>2, PTL DEF Spec

\* At rest a connected client has been told the latest event (stream) by its poll, the
\* snapshot, its own process or Redis, unless an event was lost (one that another process
\* publishes between the snapshot and the subscription is, with no failure), cut or overtaken.
THEOREM UpToDate == Spec => []ClientUpToDate
<1>1. ProgressInv => ClientUpToDate
  <2>1. SUFFICES ASSUME ProgressInv, Quiet, client.at = "stream", ~client.snapshot,
                        inbox = <<>>, mishap = {}
                 PROVE  client.last = doc.seq
    BY DEF ClientUpToDate
  <2>2. client.last = doc.seq \/ OnItsWay(doc.seq)
    BY <2>1 DEF ProgressInv, ClientSound
  <2>3. DOMAIN inbox = {}
    BY <2>1
  <2>4. ~OnItsWay(doc.seq)
    BY <2>1, <2>3 DEF OnItsWay, Quiet
  <2>5. QED
    BY <2>2, <2>4
<1>2. QED
  BY <1>1, ProgressHolds, PTL

\* The throttle never holds back or replaces the event that ends a scan (emit with force):
\* at rest after the end the saved event says so.
THEOREM EndSaved == Spec => []EndIsSaved
<1>1. ProgressInv => EndIsSaved
  <2>1. Quiet => Unsaved = {}
    BY DEF Quiet, Unsaved
  <2>2. QED
    BY <2>1 DEF ProgressInv, EndSound, EndIsSaved
<1>2. QED
  BY <1>1, ProgressHolds, PTL

\* "a throttled update is queued and eventually fires, so the latest state always
\* arrives": at rest, after emissions none of which overlapped, the saved progress is the
\* present one.
THEOREM LatestSaved == Spec => []LatestArrives
<1>1. ProgressInv => LatestArrives
  <2>1. Quiet => Unsaved = {} /\ \A p \in Proc : throttle[p].pending = {}
    BY DEF Quiet, Unsaved
  <2>2. QED
    BY <2>1 DEF ProgressInv, SerialSound, LatestArrives
<1>2. QED
  BY <1>1, ProgressHolds, PTL
=============================================================================
