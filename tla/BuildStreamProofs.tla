------------------------- MODULE BuildStreamProofs -------------------------
(***************************************************************************)
(* What BuildStream keeps for any number of streams, connections, status   *)
(* events and cancels.  Types first; then the part about connections (what *)
(* was sent is a prefix of the events), the part about entries (a terminal *)
(* status has its event), and the part about the agent row.                *)
(***************************************************************************)
EXTENDS BuildStream, SequenceTheorems, TLAPS

EventKinds == {"status", "build_report"} \cup TerminalEvents

(***************************************************************************)
(* Sequences.                                                              *)
(***************************************************************************)
(* A prefix and the rest make the whole: what Send relies on.              *)
LEMMA PrefixAndRest ==
    ASSUME NEW S, NEW e \in Seq(S), NEW c \in Nat, c <= Len(e)
    PROVE  SubSeq(e, 1, c) \o SubSeq(e, c + 1, Len(e)) = SubSeq(e, 1, Len(e))
  <1>1. Len(e) \in Nat
    BY LenProperties
  <1>2. 1 \in 1..(Len(e) + 1) /\ c \in (1 - 1)..Len(e) /\ Len(e) \in c..Len(e)
    BY <1>1
  <1> QED
    BY <1>2, ConcatAdjacentSubSeq

(* Pushing an event leaves what was there before it.                       *)
LEMMA AppendKeepsPrefix ==
    ASSUME NEW S, NEW e \in Seq(S), NEW x \in S, NEW c \in Nat, c <= Len(e)
    PROVE  /\ Append(e, x) \in Seq(S)
           /\ Len(Append(e, x)) = Len(e) + 1
           /\ SubSeq(Append(e, x), 1, c) = SubSeq(e, 1, c)
           /\ \A i \in DOMAIN e : Append(e, x)[i] = e[i]
           /\ Append(e, x)[Len(e) + 1] = x
    OBVIOUS

(***************************************************************************)
(* Types.                                                                  *)
(***************************************************************************)
(* A connection that was opened watches a stream.                          *)
Watched == \A r \in Readers : reading[r] # "off" => watching[r] \in Streams

Typed == TypeOK /\ Watched

LEMMA TypeInit == Init => Typed
  BY StreamsAssumption
  DEF Init, Typed, Watched, TypeOK, Ended, AfterRead, AfterWrite, Sessions, Blank

(* What the saves write is a session.                                      *)
LEMMA PatchTypes ==
    ASSUME TypeOK, NEW s \in Streams
    PROVE  {ReportPatch(s), CompletePatch(s), ErrorPatch(s), StartPatch(s), Blank} \subseteq Sessions
  <1>1. seen["consumer"][s] \in Sessions /\ seen["starter"][s] \in Sessions
    BY DEF TypeOK
  <1>2. verdict[s] \in {"none", "blocked", "ready"}
    BY DEF TypeOK
  <1>3. ReportPatch(s) \in Sessions
    BY <1>1, <1>2 DEF ReportPatch, Sessions
  <1>4. CompletePatch(s) \in Sessions
    BY <1>1 DEF CompletePatch, Sessions
  <1>5. ErrorPatch(s) \in Sessions
    BY <1>1 DEF ErrorPatch, Sessions
  <1>6. StartPatch(s) \in Sessions
    BY <1>1 DEF StartPatch, Sessions
  <1>7. Blank \in Sessions
    BY DEF Blank, Sessions
  <1> QED
    BY <1>3, <1>4, <1>5, <1>6, <1>7

(* What a connection is sent are events.                                   *)
LEMMA SendTypes ==
    ASSUME TypeOK, NEW r \in Readers, NEW s \in Streams, Send(r, s)
    PROVE  /\ sent' \in [Readers -> Seq(EventKinds)]
           /\ cursor' \in [Readers -> Nat]
           /\ reading' \in [Readers -> {"off", "live", "closed", "gone"}]
  <1>1. events[s] \in Seq(EventKinds) /\ sent[r] \in Seq(EventKinds) /\ cursor[r] \in Nat
    BY DEF TypeOK, EventKinds
  <1>2. Len(events[s]) \in Nat /\ \A i \in 1..Len(events[s]) : events[s][i] \in EventKinds
    BY <1>1, LenProperties
  <1>3. SubSeq(events[s], cursor[r] + 1, Len(events[s])) \in Seq(EventKinds)
    BY <1>1, <1>2, SubSeqProperties
  <1>4. sent[r] \o SubSeq(events[s], cursor[r] + 1, Len(events[s])) \in Seq(EventKinds)
    BY <1>1, <1>3, ConcatProperties
  <1> QED
    BY <1>2, <1>4 DEF Send, TypeOK, EventKinds

LEMMA TypeNext == Typed /\ [Next]_vars => Typed'
  <1> SUFFICES ASSUME Typed, [Next]_vars
               PROVE  Typed'
    OBVIOUS
  <1> USE DEF Typed, Watched
  <1> USE DEF TypeOK, entries, savers, readers
  <1>1. ASSUME NEW s \in Streams, StartBuild(s) PROVE Typed'
    BY <1>1 DEF StartBuild, Ended
  <1>2. ASSUME NEW s \in Streams, Pull(s) PROVE Typed'
    <2> USE DEF AfterRead, TerminalEvents, Ended
    <2>1. ASSUME NEW kind \in EventKinds, Push(s, kind)
          PROVE  events' \in [Streams -> Seq(EventKinds)]
      BY <2>1, AppendProperties DEF Push, EventKinds
    <2>2. CASE YieldStatus(s)
      BY <2>2, <2>1 DEF YieldStatus, EventKinds
    <2>3. ASSUME NEW readiness \in {"blocked", "ready"}, YieldReport(s, readiness) PROVE Typed'
      BY <2>3, <2>1 DEF YieldReport, EventKinds
    <2>4. CASE YieldComplete(s)
      BY <2>4, <2>1 DEF YieldComplete, EventKinds
    <2>5. CASE YieldError(s)
      BY <2>5, <2>1 DEF YieldError, EventKinds
    <2> QED
      BY <1>2, <2>2, <2>3, <2>4, <2>5 DEF Pull
  <1>3. ASSUME NEW s \in Streams, ConsumerReads(s) PROVE Typed'
    BY <1>3 DEF ConsumerReads, AfterRead, AfterWrite
  <1>4. ASSUME NEW s \in Streams, ConsumerWrites(s) PROVE Typed'
    <2>1. session' \in Sessions /\ seen' \in [{"consumer", "starter"} -> [Streams -> Sessions]]
      BY <1>4, PatchTypes DEF ConsumerWrites, Forget, AfterWrite
    <2> QED
      BY <1>4, <2>1 DEF ConsumerWrites, Settled, AfterRead, AfterWrite
  <1>5. ASSUME NEW s \in Streams, ConsumerSaveFails(s) PROVE Typed'
    BY <1>5 DEF ConsumerSaveFails, Settled, Forget, AfterRead, AfterWrite, Sessions, Blank
  <1>6. ASSUME NEW s \in Streams, StarterSaves(s) PROVE Typed'
    <2>1. CASE StarterReads(s)
      BY <2>1 DEF StarterReads
    <2>2. CASE StarterWrites(s)
      BY <2>2, PatchTypes DEF StarterWrites, Forget
    <2>3. CASE StarterSaveFails(s)
      BY <2>3, PatchTypes DEF StarterSaveFails, Forget
    <2> QED
      BY <1>6, <2>1, <2>2, <2>3 DEF StarterSaves
  <1>7. ASSUME NEW s \in Streams, Cancel(s) PROVE Typed'
    BY <1>7 DEF Cancel, Push, TerminalEvents
  <1>8. ASSUME NEW s \in Streams, Expire(s) PROVE Typed'
    BY <1>8 DEF Expire
  <1>9. ASSUME NEW r \in Readers, NEW s \in Streams, Connect(r, s) PROVE Typed'
    BY <1>9, SendTypes DEF Connect, EventKinds, Send
  <1>10. ASSUME NEW r \in Readers, Poll(r) PROVE Typed'
    <2>1. watching[r] \in Streams /\ Send(r, watching[r])
      BY <1>10 DEF Poll
    <2> QED
      BY <1>10, <2>1, SendTypes DEF Poll, EventKinds, Send
  <1>11. ASSUME NEW r \in Readers, Disconnect(r) PROVE Typed'
    BY <1>11 DEF Disconnect
  <1>12. CASE Restart
    BY <1>12 DEF Restart, Ended, Sessions, Blank, AfterRead, AfterWrite
  <1>13. CASE UNCHANGED vars
    BY <1>13 DEF vars
  <1> QED
    BY <1>1, <1>2, <1>3, <1>4, <1>5, <1>6, <1>7, <1>8, <1>9, <1>10, <1>11, <1>12, <1>13
    DEF Next, Consume

(* Whatever the constants, every variable keeps to its type.               *)
THEOREM TypeCorrect == Spec => []TypeOK
  <1>1. Typed => TypeOK
    BY DEF Typed
  <1> QED
    BY <1>1, TypeInit, TypeNext, PTL DEF Spec

(***************************************************************************)
(* Connections.                                                            *)
(***************************************************************************)
(* A connection not yet opened was sent nothing.                           *)
Unopened ==
    \A r \in Readers :
        reading[r] = "off" => watching[r] = Nobody /\ cursor[r] = 0 /\ sent[r] = <<>>

Delivery == SentInOrder /\ Unopened

(* Send brings a connection whose sent part is a prefix up to the end.     *)
LEMMA SendExtendsPrefix ==
    ASSUME TypeOK, NEW r \in Readers, NEW s \in Streams, Send(r, s),
           cursor[r] <= Len(events[s]), sent[r] = SubSeq(events[s], 1, cursor[r])
    PROVE  /\ cursor'[r] = Len(events[s])
           /\ sent'[r] = SubSeq(events[s], 1, Len(events[s]))
           /\ sent'[r] = events[s]
           /\ cursor'[r] <= Len(events[s])
           /\ reading'[r] \in {"live", "closed"}
           /\ reading'[r] = "closed" => TerminalStatus(s)
           /\ \A q \in Readers \ {r} :
                 cursor'[q] = cursor[q] /\ sent'[q] = sent[q] /\ reading'[q] = reading[q]
  <1>1. events[s] \in Seq(EventKinds) /\ cursor[r] \in Nat
    BY DEF TypeOK, EventKinds
  <1>2. Len(events[s]) \in Nat
    BY <1>1, LenProperties
  <1>3. sent[r] \o SubSeq(events[s], cursor[r] + 1, Len(events[s]))
          = SubSeq(events[s], 1, Len(events[s]))
    BY <1>1, PrefixAndRest
  <1>4. SubSeq(events[s], 1, Len(events[s])) = events[s]
    BY <1>1, SubSeqFull
  <1>5. sent'[r] = sent[r] \o SubSeq(events[s], cursor[r] + 1, Len(events[s]))
    BY DEF Send, TypeOK
  <1>6. cursor'[r] = Len(events[s])
    BY DEF Send, TypeOK
  <1>7. reading'[r] = IF TerminalStatus(s) THEN "closed" ELSE "live"
    BY DEF Send, TypeOK
  <1>8. \A q \in Readers \ {r} :
           cursor'[q] = cursor[q] /\ sent'[q] = sent[q] /\ reading'[q] = reading[q]
    BY DEF Send, TypeOK
  <1>9. cursor'[r] <= Len(events[s])
    BY <1>2, <1>6
  <1>10. reading'[r] \in {"live", "closed"} /\ (reading'[r] = "closed" => TerminalStatus(s))
    BY <1>7
  <1>11. sent'[r] = SubSeq(events[s], 1, Len(events[s])) /\ sent'[r] = events[s]
    BY <1>3, <1>4, <1>5, Zenon
  <1> QED
    BY <1>6, <1>8, <1>9, <1>10, <1>11, Zenon

(* Events are only ever appended: a prefix stays one.                      *)
LEMMA PushKeepsDelivery ==
    ASSUME Typed, Delivery, NEW s \in Streams, NEW kind \in EventKinds, Push(s, kind),
           UNCHANGED readers
    PROVE  Delivery'
  <1>1. ASSUME NEW r \in Readers, watching[r] # Nobody
        PROVE  /\ cursor[r] <= Len(events'[watching[r]])
               /\ sent[r] = SubSeq(events'[watching[r]], 1, cursor[r])
    <2>1. /\ watching[r] \in Streams
          /\ cursor[r] \in Nat
          /\ events[watching[r]] \in Seq(EventKinds)
          /\ cursor[r] <= Len(events[watching[r]])
          /\ sent[r] = SubSeq(events[watching[r]], 1, cursor[r])
      BY <1>1 DEF Typed, TypeOK, Delivery, SentInOrder, EventKinds
    <2>2. CASE watching[r] = s
      <3>1. events'[s] = Append(events[s], kind)
        BY DEF Push, Typed, TypeOK
      <3>2. Len(events[s]) \in Nat
        BY <2>1, <2>2, LenProperties
      <3> QED
        BY <2>1, <2>2, <3>1, <3>2, AppendKeepsPrefix
    <2>3. CASE watching[r] # s
      BY <2>1, <2>3 DEF Push, Typed, TypeOK
    <2> QED
      BY <2>2, <2>3
  <1> QED
    BY <1>1 DEF Delivery, SentInOrder, Unopened, readers

LEMMA DeliveryInit == Init => Delivery
  BY DEF Init, Delivery, SentInOrder, Unopened

LEMMA DeliveryNext == Typed /\ Delivery /\ [Next]_vars => Delivery'
  <1> SUFFICES ASSUME Typed, Delivery, [Next]_vars
               PROVE  Delivery'
    OBVIOUS
  <1> USE DEF Delivery, Unopened
  <1>1. ASSUME NEW s \in Streams, Pull(s) \/ Cancel(s) PROVE Delivery'
    <2>1. \E kind \in EventKinds : Push(s, kind)
      BY <1>1 DEF Pull, YieldStatus, YieldReport, YieldComplete, YieldError, Cancel,
                  EventKinds, TerminalEvents
    <2>2. UNCHANGED readers
      BY <1>1 DEF Pull, YieldStatus, YieldReport, YieldComplete, YieldError, Cancel
    <2> QED
      BY <2>1, <2>2, PushKeepsDelivery
  <1>2. ASSUME NEW s \in Streams,
               \/ StartBuild(s) \/ ConsumerReads(s) \/ ConsumerWrites(s) \/ ConsumerSaveFails(s)
               \/ StarterSaves(s) \/ Expire(s)
        PROVE  Delivery'
    <2>1. UNCHANGED <<readers, events>>
      BY <1>2 DEF StartBuild, ConsumerReads, ConsumerWrites, ConsumerSaveFails, StarterSaves,
                  StarterReads, StarterWrites, StarterSaveFails, Expire, entries
    <2> QED
      BY <2>1 DEF SentInOrder, readers
  <1>3. ASSUME NEW r \in Readers, NEW s \in Streams, Connect(r, s) PROVE Delivery'
    <2>1. cursor[r] = 0 /\ sent[r] = <<>> /\ watching' = [watching EXCEPT ![r] = s]
          /\ Send(r, s) /\ UNCHANGED events
      BY <1>3 DEF Connect
    <2>2. events[s] \in Seq(EventKinds)
      BY DEF Typed, TypeOK, EventKinds
    <2>3. 0 <= Len(events[s]) /\ SubSeq(events[s], 1, 0) = <<>>
      BY <2>2, LenProperties, SubSeqEmpty
    <2>4. /\ cursor'[r] <= Len(events'[s])
          /\ sent'[r] = SubSeq(events'[s], 1, cursor'[r])
          /\ reading'[r] # "off"
          /\ \A q \in Readers \ {r} :
                cursor'[q] = cursor[q] /\ sent'[q] = sent[q] /\ reading'[q] = reading[q]
      BY <2>1, <2>3, SendExtendsPrefix DEF Typed
    <2>5. watching'[r] = s /\ \A q \in Readers \ {r} : watching'[q] = watching[q]
      BY <2>1 DEF Typed, TypeOK
    <2> QED
      BY <2>1, <2>4, <2>5 DEF SentInOrder
  <1>4. ASSUME NEW r \in Readers, Poll(r) PROVE Delivery'
    <2>1. watching[r] \in Streams /\ watching[r] # Nobody
      BY <1>4, StreamsAssumption DEF Poll, Typed, Watched
    <2>2. Send(r, watching[r]) /\ UNCHANGED <<events, watching>>
      BY <1>4 DEF Poll, entries
    <2>3. /\ cursor'[r] <= Len(events'[watching[r]])
          /\ sent'[r] = SubSeq(events'[watching[r]], 1, cursor'[r])
          /\ reading'[r] # "off"
          /\ \A q \in Readers \ {r} :
                cursor'[q] = cursor[q] /\ sent'[q] = sent[q] /\ reading'[q] = reading[q]
      BY <2>1, <2>2, SendExtendsPrefix DEF Typed, SentInOrder
    <2> QED
      BY <2>2, <2>3 DEF SentInOrder
  <1>5. ASSUME NEW r \in Readers, Disconnect(r) PROVE Delivery'
    BY <1>5 DEF Disconnect, SentInOrder, entries, Typed, TypeOK
  <1>6. CASE Restart
    BY <1>6 DEF Restart, SentInOrder, Typed, TypeOK
  <1>7. CASE UNCHANGED vars
    BY <1>7 DEF vars, entries, readers, SentInOrder
  <1> QED
    BY <1>1, <1>2, <1>3, <1>4, <1>5, <1>6, <1>7 DEF Next, Consume

(* Every connection to every build is sent a prefix of the events, for any *)
(* number of connections, events and cancels.                              *)
THEOREM SentInOrderAlways == Spec => []SentInOrder
  <1>1. Delivery => SentInOrder
    BY DEF Delivery
  <1> QED
    BY <1>1, TypeInit, TypeNext, DeliveryInit, DeliveryNext, PTL DEF Spec

(***************************************************************************)
(* Entries: the status never runs ahead of the events or of the generator. *)
(***************************************************************************)
Told(s) == \E i \in DOMAIN events[s] : events[s][i] \in TerminalEvents

Completing == {"readComplete", "writeComplete"}

(* What a status, or a save that will set one, rests on.                   *)
StatusPosted ==
    /\ \A s \in Streams : TerminalStatus(s) \/ consumer[s] \in Completing => Told(s)
    /\ \A s \in Streams : consumer[s] \in Completing => gen[s] = "completed"

(* Before its end, a generator that nobody cancelled has told no outcome.  *)
NothingEarly ==
    \A s \in Streams :
        cancels[s] = 0 /\ gen[s] \notin {"completed", "failed"} =>
            \A i \in DOMAIN events[s] : events[s][i] \notin TerminalEvents

Outcomes == StatusPosted /\ NothingEarly /\ OneOutcome /\ EntryIsTruthful /\ ClosedKnowsOutcome

(* What a step that pushes one event does to the events of a stream.       *)
LEMMA PushTells ==
    ASSUME Typed, NEW s \in Streams, NEW kind \in EventKinds, Push(s, kind)
    PROVE  /\ \A q \in Streams \ {s} : events'[q] = events[q]
           /\ DOMAIN events'[s] = 1..(Len(events[s]) + 1)
           /\ DOMAIN events[s] = 1..Len(events[s])
           /\ Len(events[s]) \in Nat
           /\ Len(events'[s]) = Len(events[s]) + 1
           /\ \A i \in 1..Len(events[s]) : events'[s][i] = events[s][i]
           /\ events'[s][Len(events[s]) + 1] = kind
  <1>1. events[s] \in Seq(EventKinds)
    BY DEF Typed, TypeOK, EventKinds
  <1>2. events' = [events EXCEPT ![s] = Append(events[s], kind)]
    BY DEF Push
  <1>3. events'[s] = Append(events[s], kind) /\ \A q \in Streams \ {s} : events'[q] = events[q]
    BY <1>2 DEF Typed, TypeOK
  <1>4. Append(events[s], kind) \in Seq(EventKinds)
    BY <1>1, AppendProperties
  <1> QED
    BY <1>1, <1>3, <1>4, AppendProperties, LenProperties

(* So what was told stays told, and a terminal event tells the outcome.    *)
LEMMA PushKeepsTold ==
    ASSUME Typed, NEW s \in Streams, NEW kind \in EventKinds, Push(s, kind)
    PROVE  /\ \A q \in Streams : Told(q) => Told(q)'
           /\ kind \in TerminalEvents => Told(s)'
  <1>1. \A q \in Streams \ {s} : Told(q) => Told(q)'
    BY PushTells DEF Told
  <1>2. Told(s) => Told(s)'
    BY PushTells DEF Told
  <1>3. kind \in TerminalEvents => Told(s)'
    BY PushTells DEF Told
  <1> QED
    BY <1>1, <1>2, <1>3

LEMMA OutcomesInit == Init => Outcomes
  BY DEF Init, Outcomes, StatusPosted, NothingEarly, OneOutcome, EntryIsTruthful,
         ClosedKnowsOutcome, TerminalStatus, Completing

LEMMA StatusPostedNext == Typed /\ StatusPosted /\ [Next]_vars => StatusPosted'
  <1> SUFFICES ASSUME Typed, StatusPosted, [Next]_vars
               PROVE  StatusPosted'
    OBVIOUS
  <1> USE DEF StatusPosted, Completing, TerminalStatus
  <1>1. ASSUME NEW s \in Streams, YieldStatus(s) PROVE StatusPosted'
    <2>1. Push(s, "status") /\ UNCHANGED <<gen, consumer, entry>>
      BY <1>1 DEF YieldStatus
    <2> QED
      BY <2>1, PushKeepsTold DEF EventKinds
  <1>2. ASSUME NEW s \in Streams, NEW readiness \in {"blocked", "ready"}, YieldReport(s, readiness)
        PROVE StatusPosted'
    <2>1. /\ Push(s, "build_report") /\ UNCHANGED entry
          /\ gen' = [gen EXCEPT ![s] = "reported"]
          /\ consumer' = [consumer EXCEPT ![s] = "readReport"]
      BY <1>2 DEF YieldReport
    <2> QED
      BY <2>1, PushKeepsTold DEF EventKinds, Typed, TypeOK
  <1>3. ASSUME NEW s \in Streams, YieldComplete(s) PROVE StatusPosted'
    <2>1. /\ Push(s, "build_complete") /\ UNCHANGED entry
          /\ gen' = [gen EXCEPT ![s] = "completed"]
          /\ consumer' = [consumer EXCEPT ![s] = "readComplete"]
      BY <1>3 DEF YieldComplete
    <2> QED
      BY <2>1, PushKeepsTold DEF EventKinds, TerminalEvents, Typed, TypeOK
  <1>4. ASSUME NEW s \in Streams, YieldError(s) PROVE StatusPosted'
    <2>1. /\ Push(s, "error") /\ entry' = [entry EXCEPT ![s] = "error"]
          /\ gen' = [gen EXCEPT ![s] = "failed"]
          /\ consumer' = [consumer EXCEPT ![s] = "readError"]
      BY <1>4 DEF YieldError
    <2> QED
      BY <2>1, PushKeepsTold DEF EventKinds, TerminalEvents, Typed, TypeOK
  <1>5. ASSUME NEW s \in Streams, Cancel(s) PROVE StatusPosted'
    <2>1. /\ Push(s, "error") /\ entry' = [entry EXCEPT ![s] = "error"]
          /\ UNCHANGED <<gen, consumer>>
      BY <1>5 DEF Cancel
    <2> QED
      BY <2>1, PushKeepsTold DEF EventKinds, TerminalEvents, Typed, TypeOK
  <1>6. ASSUME NEW s \in Streams, ConsumerReads(s) \/ ConsumerWrites(s) \/ ConsumerSaveFails(s)
        PROVE  StatusPosted'
    <2>1. UNCHANGED <<gen, events>>
      BY <1>6 DEF ConsumerReads, ConsumerWrites, ConsumerSaveFails, entries
    <2>2. /\ consumer'[s] \in Completing => consumer[s] \in Completing
          /\ \A q \in Streams \ {s} : consumer'[q] = consumer[q]
      BY <1>6 DEF ConsumerReads, ConsumerWrites, ConsumerSaveFails, AfterRead, AfterWrite,
                  Typed, TypeOK
    <2>3. /\ entry'[s] = entry[s] \/ consumer[s] \in Completing
          /\ \A q \in Streams \ {s} : entry'[q] = entry[q]
      BY <1>6 DEF ConsumerReads, ConsumerWrites, ConsumerSaveFails, Settled, entries, Typed, TypeOK
    <2> QED
      BY <2>1, <2>2, <2>3 DEF Told
  <1>7. ASSUME NEW s \in Streams, StartBuild(s) PROVE StatusPosted'
    BY <1>7 DEF StartBuild, Told, Typed, TypeOK
  <1>8. ASSUME NEW s \in Streams, StarterSaves(s) \/ Expire(s) PROVE StatusPosted'
    BY <1>8 DEF StarterSaves, StarterReads, StarterWrites, StarterSaveFails, Expire, Told, entries
  <1>9. ASSUME NEW r \in Readers, \/ Poll(r) \/ Disconnect(r) \/ \E s \in Streams : Connect(r, s)
        PROVE  StatusPosted'
    BY <1>9 DEF Poll, Disconnect, Connect, Told, entries
  <1>10. CASE Restart
    BY <1>10 DEF Restart, Told, Ended, Typed, TypeOK
  <1>11. CASE UNCHANGED vars
    BY <1>11 DEF vars, entries, Told
  <1> QED
    BY <1>1, <1>2, <1>3, <1>4, <1>5, <1>6, <1>7, <1>8, <1>9, <1>10, <1>11 DEF Next, Consume, Pull

(* A stream nobody cancels tells one outcome, as its last event.           *)
LEMMA OneOutcomeNext ==
    Typed /\ NothingEarly /\ OneOutcome /\ [Next]_vars => NothingEarly' /\ OneOutcome'
  <1> SUFFICES ASSUME Typed, NothingEarly, OneOutcome, [Next]_vars
               PROVE  NothingEarly' /\ OneOutcome'
    OBVIOUS
  <1> USE DEF NothingEarly, OneOutcome
  <1>1. ASSUME NEW s \in Streams, Pull(s) PROVE NothingEarly' /\ OneOutcome'
    <2>1. PICK kind \in EventKinds :
             /\ Push(s, kind)
             /\ kind \in TerminalEvents => gen'[s] \in {"completed", "failed"}
      BY <1>1 DEF Pull, YieldStatus, YieldReport, YieldComplete, YieldError,
                  EventKinds, TerminalEvents, Typed, TypeOK
    <2>2. /\ gen[s] \notin {"completed", "failed"}
          /\ \A q \in Streams \ {s} : gen'[q] = gen[q]
          /\ UNCHANGED cancels
      BY <1>1 DEF Pull, YieldStatus, YieldReport, YieldComplete, YieldError, Typed, TypeOK
    <2>3. ASSUME cancels[s] = 0, NEW i \in DOMAIN events'[s], events'[s][i] \in TerminalEvents
          PROVE  i = Len(events'[s]) /\ gen'[s] \in {"completed", "failed"}
      <3>1. \A j \in 1..Len(events[s]) : events[s][j] \notin TerminalEvents
        BY <2>1, <2>2, <2>3, PushTells
      <3>2. i = Len(events[s]) + 1
        BY <2>1, <2>3, <3>1, PushTells
      <3> QED
        BY <2>1, <2>3, <3>2, PushTells
    <2>4. \A q \in Streams \ {s} : events'[q] = events[q]
      BY <2>1, PushTells
    <2> QED
      BY <2>2, <2>3, <2>4
  <1>2. ASSUME NEW s \in Streams, Cancel(s) PROVE NothingEarly' /\ OneOutcome'
    <2>1. /\ Push(s, "error") /\ UNCHANGED gen
          /\ cancels'[s] # 0 /\ \A q \in Streams \ {s} : cancels'[q] = cancels[q]
      BY <1>2 DEF Cancel, Typed, TypeOK
    <2>2. \A q \in Streams \ {s} : events'[q] = events[q]
      BY <2>1, PushTells DEF EventKinds, TerminalEvents
    <2> QED
      BY <2>1, <2>2
  <1>3. ASSUME NEW s \in Streams, StartBuild(s) PROVE NothingEarly' /\ OneOutcome'
    BY <1>3 DEF StartBuild, Typed, TypeOK
  <1>4. CASE Restart
    BY <1>4 DEF Restart, Ended, Typed, TypeOK
  <1>5. CASE UNCHANGED <<gen, cancels, events>>
    BY <1>5
  <1>6. ASSUME NEW s \in Streams,
               ConsumerReads(s) \/ ConsumerWrites(s) \/ ConsumerSaveFails(s) \/ StarterSaves(s)
               \/ Expire(s)
        PROVE  UNCHANGED <<gen, cancels, events>>
    BY <1>6 DEF ConsumerReads, ConsumerWrites, ConsumerSaveFails, StarterSaves, StarterReads,
                StarterWrites, StarterSaveFails, Expire, entries
  <1>7. ASSUME NEW r \in Readers, \/ Poll(r) \/ Disconnect(r) \/ \E s \in Streams : Connect(r, s)
        PROVE  UNCHANGED <<gen, cancels, events>>
    BY <1>7 DEF Poll, Disconnect, Connect, entries
  <1>8. CASE UNCHANGED vars
    BY <1>5, <1>8 DEF vars, entries
  <1> QED
    BY <1>1, <1>2, <1>3, <1>4, <1>5, <1>6, <1>7, <1>8 DEF Next, Consume

(* A status is set by the end of the generator or by a cancel.             *)
LEMMA EntryIsTruthfulNext ==
    Typed /\ StatusPosted /\ EntryIsTruthful /\ [Next]_vars => EntryIsTruthful'
  <1> SUFFICES ASSUME Typed, StatusPosted, EntryIsTruthful, [Next]_vars
               PROVE  EntryIsTruthful'
    OBVIOUS
  <1> USE DEF EntryIsTruthful, Typed, TypeOK
  <1>1. ASSUME NEW s \in Streams, Pull(s) PROVE EntryIsTruthful'
    BY <1>1 DEF Pull, YieldStatus, YieldReport, YieldComplete, YieldError
  <1>2. ASSUME NEW s \in Streams, Cancel(s) PROVE EntryIsTruthful'
    BY <1>2 DEF Cancel
  <1>3. ASSUME NEW s \in Streams, StartBuild(s) PROVE EntryIsTruthful'
    BY <1>3 DEF StartBuild
  <1>4. ASSUME NEW s \in Streams, ConsumerReads(s) \/ ConsumerWrites(s) \/ ConsumerSaveFails(s)
        PROVE  EntryIsTruthful'
    <2>1. /\ UNCHANGED <<gen, cancels>>
          /\ entry' = entry \/ (consumer[s] \in Completing /\ entry' = [entry EXCEPT ![s] = "done"])
      BY <1>4 DEF ConsumerReads, ConsumerWrites, ConsumerSaveFails, Settled, entries, Completing
    <2> QED
      BY <2>1 DEF StatusPosted
  <1>5. CASE Restart
    BY <1>5 DEF Restart, Ended
  <1>6. CASE UNCHANGED <<gen, cancels, entry>>
    BY <1>6
  <1>7. ASSUME NEW s \in Streams, StarterSaves(s) \/ Expire(s)
        PROVE  UNCHANGED <<gen, cancels, entry>>
    BY <1>7 DEF StarterSaves, StarterReads, StarterWrites, StarterSaveFails, Expire, entries
  <1>8. ASSUME NEW r \in Readers, \/ Poll(r) \/ Disconnect(r) \/ \E s \in Streams : Connect(r, s)
        PROVE  UNCHANGED <<gen, cancels, entry>>
    BY <1>8 DEF Poll, Disconnect, Connect, entries
  <1>9. CASE UNCHANGED vars
    BY <1>6, <1>9 DEF vars, entries
  <1> QED
    BY <1>1, <1>2, <1>3, <1>4, <1>5, <1>6, <1>7, <1>8, <1>9 DEF Next, Consume

(* A connection closes on a terminal status, having been sent all events.  *)
LEMMA ClosedKnowsOutcomeNext ==
    Typed /\ Delivery /\ StatusPosted /\ ClosedKnowsOutcome /\ [Next]_vars => ClosedKnowsOutcome'
  <1> SUFFICES ASSUME Typed, Delivery, StatusPosted, ClosedKnowsOutcome, [Next]_vars
               PROVE  ClosedKnowsOutcome'
    OBVIOUS
  <1> USE DEF ClosedKnowsOutcome
  <1>1. ASSUME NEW r \in Readers, NEW s \in Streams, Send(r, s),
               cursor[r] <= Len(events[s]), sent[r] = SubSeq(events[s], 1, cursor[r])
        PROVE  ClosedKnowsOutcome'
    <2>1. /\ sent'[r] = events[s]
          /\ reading'[r] = "closed" => TerminalStatus(s)
          /\ \A q \in Readers \ {r} : sent'[q] = sent[q] /\ reading'[q] = reading[q]
      BY <1>1, SendExtendsPrefix DEF Typed
    <2>2. TerminalStatus(s) => Told(s)
      BY DEF StatusPosted
    <2> QED
      BY <2>1, <2>2 DEF Told
  <1>2. ASSUME NEW r \in Readers, NEW s \in Streams, Connect(r, s) PROVE ClosedKnowsOutcome'
    <2>1. cursor[r] = 0 /\ sent[r] = <<>> /\ Send(r, s)
      BY <1>2 DEF Connect, Delivery, Unopened
    <2>2. events[s] \in Seq(EventKinds)
      BY DEF Typed, TypeOK, EventKinds
    <2>3. 0 <= Len(events[s]) /\ SubSeq(events[s], 1, 0) = <<>>
      BY <2>2, LenProperties, SubSeqEmpty
    <2> QED
      BY <1>1, <2>1, <2>3
  <1>3. ASSUME NEW r \in Readers, Poll(r) PROVE ClosedKnowsOutcome'
    <2>1. watching[r] \in Streams /\ watching[r] # Nobody /\ Send(r, watching[r])
      BY <1>3, StreamsAssumption DEF Poll, Typed, Watched
    <2> QED
      BY <1>1, <2>1 DEF Delivery, SentInOrder
  <1>4. ASSUME NEW r \in Readers, Disconnect(r) PROVE ClosedKnowsOutcome'
    BY <1>4 DEF Disconnect, Typed, TypeOK
  <1>5. CASE Restart
    BY <1>5 DEF Restart, Typed, TypeOK
  <1>6. CASE UNCHANGED <<reading, sent>>
    BY <1>6
  <1>7. ASSUME NEW s \in Streams, StartBuild(s) \/ Consume(s) \/ StarterSaves(s) \/ Cancel(s) \/ Expire(s)
        PROVE  UNCHANGED <<reading, sent>>
    BY <1>7 DEF StartBuild, Consume, Pull, YieldStatus, YieldReport, YieldComplete, YieldError,
                ConsumerReads, ConsumerWrites, ConsumerSaveFails, StarterSaves, StarterReads,
                StarterWrites, StarterSaveFails, Cancel, Expire, readers
  <1>8. CASE UNCHANGED vars
    BY <1>6, <1>8 DEF vars, readers
  <1> QED
    BY <1>2, <1>3, <1>4, <1>5, <1>6, <1>7, <1>8 DEF Next

LEMMA OutcomesNext == Typed /\ Delivery /\ Outcomes /\ [Next]_vars => Outcomes'
  BY StatusPostedNext, OneOutcomeNext, EntryIsTruthfulNext, ClosedKnowsOutcomeNext DEF Outcomes

(* No connection is closed before it knows the outcome, a stream nobody    *)
(* cancels has one outcome, and no entry claims an end that was not.       *)
THEOREM OutcomesAlways == Spec => [](ClosedKnowsOutcome /\ OneOutcome /\ EntryIsTruthful)
  <1>1. Outcomes => ClosedKnowsOutcome /\ OneOutcome /\ EntryIsTruthful
    BY DEF Outcomes
  <1> QED
    BY <1>1, TypeInit, TypeNext, DeliveryInit, DeliveryNext, OutcomesInit, OutcomesNext, PTL
    DEF Spec

(* A stream nobody cancels ends with the one outcome its generator had:    *)
(* the consumer posts no second terminal event.                            *)
THEOREM OneOutcomeAlways == Spec => []OneOutcome
  BY OutcomesAlways, PTL

(* A registry entry says done only of a build that completed, and error    *)
(* only of one that failed or was cancelled.                               *)
THEOREM EntryIsTruthfulAlways == Spec => []EntryIsTruthful
  BY OutcomesAlways, PTL

(* A connection that was closed had been sent the outcome of its build.    *)
THEOREM ClosedKnowsOutcomeAlways == Spec => []ClosedKnowsOutcome
  BY OutcomesAlways, PTL

(***************************************************************************)
(* The agent row.  A save writes what it read some time ago plus its patch,*)
(* so the claim must hold of every session read and not yet written back.  *)
(***************************************************************************)
(* The session x claims nothing that the generators' phases g and verdicts *)
(* v do not bear out.                                                      *)
BorneOut(x, g, v) ==
    /\ x.status = "done" => \E s \in Streams : v[s] # "none"
    /\ x.status = "failed" => \E s \in Streams : g[s] = "failed" \/ v[s] = "blocked"
    /\ x.report # "none" => \E s \in Streams : v[s] = x.report
    /\ x.stream # Nobody => g[x.stream] # "off"

(* What a save about to be written knows of its generator.                 *)
SaversKnow ==
    \A s \in Streams :
        /\ gen[s] \in {"off", "building"} => verdict[s] = "none"
        /\ gen[s] \in {"reported", "completed"} => verdict[s] # "none"
        /\ consumer[s] \in {"readReport", "writeReport"} => verdict[s] # "none"
        /\ consumer[s] \in {"readComplete", "writeComplete"} => verdict[s] # "none"
        /\ consumer[s] \in {"readError", "writeError"} => gen[s] = "failed"
        /\ starter[s] # "off" => gen[s] # "off"

SessionInv ==
    /\ SaversKnow
    /\ BorneOut(session, gen, verdict)
    /\ \A w \in {"consumer", "starter"}, s \in Streams : BorneOut(seen[w][s], gen, verdict)

(* Claims borne out stay so: phases that count are final, verdicts too.    *)
Lasting(g, v, g2, v2) ==
    \A s \in Streams :
        /\ g[s] # "off" => g2[s] # "off"
        /\ g[s] = "failed" => g2[s] = "failed"
        /\ v[s] # "none" => v2[s] = v[s]

LEMMA BorneOutLasts ==
    ASSUME NEW x \in Sessions, NEW g, NEW v, NEW g2, NEW v2,
           Lasting(g, v, g2, v2), BorneOut(x, g, v)
    PROVE  BorneOut(x, g2, v2)
  BY DEF BorneOut, Lasting, Sessions

LEMMA BlankBorneOut == ASSUME NEW g, NEW v PROVE BorneOut(Blank, g, v)
  BY DEF BorneOut, Blank

LEMMA SaversKnowNext == Typed /\ SaversKnow /\ [Next]_vars => SaversKnow'
  <1> SUFFICES ASSUME Typed, SaversKnow, [Next]_vars
               PROVE  SaversKnow'
    OBVIOUS
  <1> USE DEF SaversKnow, Typed, TypeOK
  <1>1. ASSUME NEW s \in Streams, StartBuild(s) PROVE SaversKnow'
    BY <1>1 DEF StartBuild
  <1>2. ASSUME NEW s \in Streams, Pull(s) PROVE SaversKnow'
    <2>1. CASE YieldStatus(s)
      BY <2>1 DEF YieldStatus, savers
    <2>2. ASSUME NEW readiness \in {"blocked", "ready"}, YieldReport(s, readiness) PROVE SaversKnow'
      BY <2>2 DEF YieldReport, savers
    <2>3. CASE YieldComplete(s)
      BY <2>3 DEF YieldComplete, savers
    <2>4. CASE YieldError(s)
      BY <2>4 DEF YieldError, savers
    <2> QED
      BY <1>2, <2>1, <2>2, <2>3, <2>4 DEF Pull
  <1>3. ASSUME NEW s \in Streams, ConsumerReads(s) \/ ConsumerWrites(s) \/ ConsumerSaveFails(s)
        PROVE  SaversKnow'
    <2>1. /\ UNCHANGED <<gen, verdict, starter>>
          /\ \A q \in Streams \ {s} : consumer'[q] = consumer[q]
          /\ \/ consumer[s] = "readReport" /\ consumer'[s] = "writeReport"
             \/ consumer[s] = "readComplete" /\ consumer'[s] = "writeComplete"
             \/ consumer[s] = "readError" /\ consumer'[s] = "writeError"
             \/ consumer'[s] \in {"pull", "ended"}
      BY <1>3 DEF ConsumerReads, ConsumerWrites, ConsumerSaveFails, AfterRead, AfterWrite
    <2> QED
      BY <2>1
  <1>4. ASSUME NEW s \in Streams, StarterSaves(s) PROVE SaversKnow'
    <2>1. /\ UNCHANGED <<gen, verdict, consumer>>
          /\ starter[s] # "off" /\ \A q \in Streams \ {s} : starter'[q] = starter[q]
      BY <1>4 DEF StarterSaves, StarterReads, StarterWrites, StarterSaveFails
    <2> QED
      BY <2>1
  <1>5. CASE Restart
    BY <1>5 DEF Restart, Ended
  <1>6. CASE UNCHANGED <<gen, verdict, consumer, starter>>
    BY <1>6
  <1>7. ASSUME NEW s \in Streams, Cancel(s) \/ Expire(s)
        PROVE  UNCHANGED <<gen, verdict, consumer, starter>>
    BY <1>7 DEF Cancel, Expire, savers
  <1>8. ASSUME NEW r \in Readers, \/ Poll(r) \/ Disconnect(r) \/ \E s \in Streams : Connect(r, s)
        PROVE  UNCHANGED <<gen, verdict, consumer, starter>>
    BY <1>8 DEF Poll, Disconnect, Connect, savers
  <1>9. CASE UNCHANGED vars
    BY <1>6, <1>9 DEF vars, savers
  <1> QED
    BY <1>1, <1>2, <1>3, <1>4, <1>5, <1>6, <1>7, <1>8, <1>9 DEF Next, Consume

(* The patches claim what SaversKnow knows, on top of what was read.       *)
LEMMA PatchesBorneOut ==
    ASSUME Typed, SessionInv, NEW s \in Streams
    PROVE  /\ consumer[s] = "writeReport" => BorneOut(ReportPatch(s), gen, verdict)
           /\ consumer[s] = "writeComplete" => BorneOut(CompletePatch(s), gen, verdict)
           /\ consumer[s] = "writeError" => BorneOut(ErrorPatch(s), gen, verdict)
           /\ starter[s] = "write" => BorneOut(StartPatch(s), gen, verdict)
  <1>1. /\ seen["consumer"][s] \in Sessions
        /\ seen["starter"][s] \in Sessions
        /\ BorneOut(seen["consumer"][s], gen, verdict)
        /\ BorneOut(seen["starter"][s], gen, verdict)
    BY DEF Typed, TypeOK, SessionInv
  <1>2. verdict[s] \in {"none", "blocked", "ready"}
    BY DEF Typed, TypeOK
  <1>3. ASSUME consumer[s] = "writeReport" PROVE BorneOut(ReportPatch(s), gen, verdict)
    <2>1. verdict[s] # "none"
      BY <1>3 DEF SessionInv, SaversKnow
    <2>2. /\ ReportPatch(s).report = verdict[s]
          /\ ReportPatch(s).status = IF verdict[s] = "blocked" THEN "failed" ELSE "done"
          /\ ReportPatch(s).stream = seen["consumer"][s].stream
      BY <1>1 DEF ReportPatch, Sessions
    <2> QED
      BY <1>1, <1>2, <2>1, <2>2 DEF BorneOut
  <1>4. ASSUME consumer[s] = "writeComplete" PROVE BorneOut(CompletePatch(s), gen, verdict)
    <2>1. verdict[s] # "none"
      BY <1>4 DEF SessionInv, SaversKnow
    <2>2. /\ CompletePatch(s).report = seen["consumer"][s].report
          /\ CompletePatch(s).status = "done"
          /\ CompletePatch(s).stream = seen["consumer"][s].stream
      BY <1>1 DEF CompletePatch, Sessions
    <2> QED
      BY <1>1, <2>1, <2>2 DEF BorneOut
  <1>5. ASSUME consumer[s] = "writeError" PROVE BorneOut(ErrorPatch(s), gen, verdict)
    <2>1. gen[s] = "failed"
      BY <1>5 DEF SessionInv, SaversKnow
    <2>2. /\ ErrorPatch(s).report = seen["consumer"][s].report
          /\ ErrorPatch(s).status = "failed"
          /\ ErrorPatch(s).stream = seen["consumer"][s].stream
      BY <1>1 DEF ErrorPatch, Sessions
    <2> QED
      BY <1>1, <2>1, <2>2 DEF BorneOut
  <1>6. ASSUME starter[s] = "write" PROVE BorneOut(StartPatch(s), gen, verdict)
    <2>1. gen[s] # "off"
      BY <1>6 DEF SessionInv, SaversKnow
    <2>2. /\ StartPatch(s).report = seen["starter"][s].report
          /\ StartPatch(s).status = "building"
          /\ StartPatch(s).stream = s
      BY <1>1 DEF StartPatch, Sessions
    <2> QED
      BY <1>1, <2>1, <2>2 DEF BorneOut
  <1> QED
    BY <1>3, <1>4, <1>5, <1>6

LEMMA SessionInit == Init => SessionInv
  BY BlankBorneOut DEF Init, SessionInv, SaversKnow

LEMMA SessionNext == Typed /\ SessionInv /\ [Next]_vars => SessionInv'
  <1> SUFFICES ASSUME Typed, SessionInv, [Next]_vars
               PROVE  SessionInv'
    OBVIOUS
  <1>1. SaversKnow'
    BY SaversKnowNext DEF SessionInv
  <1>2. /\ session \in Sessions
        /\ \A w \in {"consumer", "starter"}, s \in Streams : seen[w][s] \in Sessions
    BY DEF Typed, TypeOK
  <1>3. ASSUME Lasting(gen, verdict, gen', verdict'), UNCHANGED session,
               UNCHANGED seen \/ \A w \in {"consumer", "starter"}, s \in Streams : seen'[w][s] = Blank
        PROVE  SessionInv'
    BY <1>1, <1>2, <1>3, BorneOutLasts, BlankBorneOut DEF SessionInv
  <1>4. ASSUME UNCHANGED <<gen, verdict>>,
               NEW w0 \in {"consumer", "starter"}, NEW s0 \in Streams,
               \/ seen' = [seen EXCEPT ![w0][s0] = Blank]
               \/ seen' = [seen EXCEPT ![w0][s0] = session],
               \/ UNCHANGED session
               \/ BorneOut(session', gen, verdict)
        PROVE  SessionInv'
    <2>1. BorneOut(session', gen', verdict')
      BY <1>4 DEF SessionInv
    <2>2. ASSUME NEW w \in {"consumer", "starter"}, NEW s \in Streams
          PROVE  BorneOut(seen'[w][s], gen', verdict')
      <3>1. seen'[w][s] \in {seen[w][s], Blank, session}
        BY <1>4 DEF Typed, TypeOK
      <3>2. /\ BorneOut(seen[w][s], gen, verdict)
            /\ BorneOut(session, gen, verdict)
            /\ BorneOut(Blank, gen, verdict)
        BY BlankBorneOut DEF SessionInv
      <3> QED
        BY <1>4, <3>1, <3>2
    <2> QED
      BY <1>1, <2>1, <2>2 DEF SessionInv
  <1>5. ASSUME NEW s \in Streams, StartBuild(s) \/ Pull(s) PROVE SessionInv'
    <2>1. Lasting(gen, verdict, gen', verdict')
      BY <1>5 DEF StartBuild, Pull, YieldStatus, YieldReport, YieldComplete, YieldError, Lasting,
                  Typed, TypeOK, SessionInv, SaversKnow
    <2>2. UNCHANGED <<session, seen>>
      BY <1>5 DEF StartBuild, Pull, YieldStatus, YieldReport, YieldComplete, YieldError, savers
    <2> QED
      BY <1>3, <2>1, <2>2
  <1>6. ASSUME NEW s \in Streams, ConsumerReads(s) PROVE SessionInv'
    <2>1. UNCHANGED <<gen, verdict, session>> /\ seen' = [seen EXCEPT !["consumer"][s] = session]
      BY <1>6 DEF ConsumerReads
    <2> QED
      BY <1>4, <2>1
  <1>7. ASSUME NEW s \in Streams, ConsumerWrites(s) PROVE SessionInv'
    <2>1. UNCHANGED <<gen, verdict>> /\ seen' = [seen EXCEPT !["consumer"][s] = Blank]
      BY <1>7 DEF ConsumerWrites, Forget
    <2>2. BorneOut(session', gen, verdict)
      BY <1>7, PatchesBorneOut DEF ConsumerWrites, AfterWrite
    <2> QED
      BY <1>4, <2>1, <2>2
  <1>8. ASSUME NEW s \in Streams, ConsumerSaveFails(s) PROVE SessionInv'
    <2>1. UNCHANGED <<gen, verdict, session>> /\ seen' = [seen EXCEPT !["consumer"][s] = Blank]
      BY <1>8 DEF ConsumerSaveFails, Forget
    <2> QED
      BY <1>4, <2>1
  <1>9. ASSUME NEW s \in Streams, StarterReads(s) PROVE SessionInv'
    <2>1. UNCHANGED <<gen, verdict, session>> /\ seen' = [seen EXCEPT !["starter"][s] = session]
      BY <1>9 DEF StarterReads
    <2> QED
      BY <1>4, <2>1
  <1>10. ASSUME NEW s \in Streams, StarterWrites(s) PROVE SessionInv'
    <2>1. UNCHANGED <<gen, verdict>> /\ seen' = [seen EXCEPT !["starter"][s] = Blank]
      BY <1>10 DEF StarterWrites, Forget
    <2>2. BorneOut(session', gen, verdict)
      BY <1>10, PatchesBorneOut DEF StarterWrites
    <2> QED
      BY <1>4, <2>1, <2>2
  <1>11. ASSUME NEW s \in Streams, StarterSaveFails(s) PROVE SessionInv'
    <2>1. UNCHANGED <<gen, verdict, session>> /\ seen' = [seen EXCEPT !["starter"][s] = Blank]
      BY <1>11 DEF StarterSaveFails, Forget
    <2> QED
      BY <1>4, <2>1
  <1>12. CASE Restart
    <2>1. Lasting(gen, verdict, gen', verdict')
      BY <1>12 DEF Restart, Ended, Lasting, Typed, TypeOK
    <2>2. /\ UNCHANGED session
          /\ \A w \in {"consumer", "starter"}, s \in Streams : seen'[w][s] = Blank
      BY <1>12 DEF Restart
    <2> QED
      BY <1>3, <2>1, <2>2
  <1>13. CASE UNCHANGED <<gen, verdict, session, seen>>
    BY <1>1, <1>13 DEF SessionInv
  <1>14. ASSUME NEW s \in Streams, Cancel(s) \/ Expire(s)
         PROVE  UNCHANGED <<gen, verdict, session, seen>>
    BY <1>14 DEF Cancel, Expire, savers
  <1>15. ASSUME NEW r \in Readers, \/ Poll(r) \/ Disconnect(r) \/ \E s \in Streams : Connect(r, s)
         PROVE  UNCHANGED <<gen, verdict, session, seen>>
    BY <1>15 DEF Poll, Disconnect, Connect, savers
  <1>16. CASE UNCHANGED vars
    BY <1>13, <1>16 DEF vars, savers
  <1> QED
    BY <1>5, <1>6, <1>7, <1>8, <1>9, <1>10, <1>11, <1>12, <1>13, <1>14, <1>15, <1>16
    DEF Next, Consume, StarterSaves

(* However many builds of one agent overlap, and wherever the backend is   *)
(* restarted, the agent row claims nothing that did not happen.            *)
THEOREM SessionIsTruthfulAlways == Spec => []SessionIsTruthful
  <1>1. SessionInv => SessionIsTruthful
    BY DEF SessionInv, BorneOut, SessionIsTruthful
  <1> QED
    BY <1>1, TypeInit, TypeNext, SessionInit, SessionNext, PTL DEF Spec

(***************************************************************************)
(* The generator of each stream.  Only its own steps move the phase: the   *)
(* report, which carries the verdict, the completion and the error.        *)
(* SaversKnow says which of these may still come: a generator at work has  *)
(* no verdict yet, and one that has reported has.                          *)
(***************************************************************************)
LEMMA SaversKnowInit == Init => SaversKnow
  BY DEF Init, SaversKnow

LEMMA GeneratorInit == ASSUME NEW s \in Streams PROVE Init => Generator(s)!Init
  BY DEF Init, Generator!Init

(* A step of another stream's generator leaves this one's phase alone.     *)
LEMMA GeneratorNext ==
    ASSUME NEW s \in Streams
    PROVE  Typed /\ SaversKnow /\ [Next]_vars => [Generator(s)!Next]_(Generator(s)!vars)
  <1> SUFFICES ASSUME Typed, SaversKnow, [Next]_vars
               PROVE  [Generator(s)!Next]_(Generator(s)!vars)
    OBVIOUS
  <1>1. CASE UNCHANGED <<gen[s], verdict[s]>>
    BY <1>1 DEF Generator!vars
  <1>2. ASSUME NEW q \in Streams, Pull(q) PROVE [Generator(s)!Next]_(Generator(s)!vars)
    <2> USE DEF Typed, TypeOK, SaversKnow, Generator!Next
    <2>1. CASE q # s \/ YieldStatus(q)
      BY <1>1, <1>2, <2>1 DEF Pull, YieldStatus, YieldReport, YieldComplete, YieldError
    <2>2. ASSUME NEW readiness \in {"blocked", "ready"}, YieldReport(s, readiness)
          PROVE  Generator(s)!Report
      BY <2>2 DEF YieldReport, Generator!Report
    <2>3. CASE YieldComplete(s)
      BY <2>3 DEF YieldComplete, Generator!Complete
    <2>4. CASE YieldError(s)
      BY <2>4 DEF YieldError, Generator!Fail
    <2> QED
      BY <1>2, <2>1, <2>2, <2>3, <2>4 DEF Pull
  <1>3. ASSUME NEW q \in Streams, StartBuild(q) PROVE [Generator(s)!Next]_(Generator(s)!vars)
    BY <1>3 DEF StartBuild, Generator!vars, Typed, TypeOK
  <1>4. CASE Restart
    BY <1>4 DEF Restart, Ended, Generator!vars, Typed, TypeOK
  <1>5. ASSUME NEW q \in Streams,
               \/ ConsumerReads(q) \/ ConsumerWrites(q) \/ ConsumerSaveFails(q)
               \/ StarterSaves(q) \/ Cancel(q) \/ Expire(q)
        PROVE  UNCHANGED <<gen, verdict>>
    BY <1>5 DEF ConsumerReads, ConsumerWrites, ConsumerSaveFails, StarterSaves, StarterReads,
                StarterWrites, StarterSaveFails, Cancel, Expire
  <1>6. ASSUME NEW r \in Readers, \/ Poll(r) \/ Disconnect(r) \/ \E q \in Streams : Connect(r, q)
        PROVE  UNCHANGED <<gen, verdict>>
    BY <1>6 DEF Poll, Disconnect, Connect
  <1>7. CASE UNCHANGED vars
    BY <1>1, <1>7 DEF vars
  <1> QED
    BY <1>1, <1>2, <1>3, <1>4, <1>5, <1>6, <1>7 DEF Next, Consume

(* The generator behind each stream keeps BuildGenerator's promise, be the *)
(* stream cancelled, deleted from the registry or restarted under.         *)
THEOREM GeneratorKeepsPromise ==
    ASSUME NEW s \in Streams
    PROVE  Spec => Generator(s)!Spec
  BY TypeInit, TypeNext, SaversKnowInit, SaversKnowNext, GeneratorInit, GeneratorNext, PTL
  DEF Spec, Generator!Spec

(* So do all of them together, step by step: what BuildStream assumes of   *)
(* its generators is what BuildPipeline is proved to keep.                 *)
THEOREM StreamObeysGeneratorAlways == Spec => StreamObeysGenerator
  <1>1. Init => \A s \in Streams : Generator(s)!Init
    BY GeneratorInit
  <1>2. Typed /\ SaversKnow /\ [Next]_vars
           => \A s \in Streams : [Generator(s)!Next]_(Generator(s)!vars)
    BY GeneratorNext
  <1> QED
    BY <1>1, <1>2, TypeInit, TypeNext, SaversKnowInit, SaversKnowNext, PTL
    DEF Spec, StreamObeysGenerator
=============================================================================
