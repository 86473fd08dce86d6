---------------------------- MODULE BuildStream ----------------------------
(***************************************************************************)
(* The build endpoints of ruh-backend/src/app.ts and the stream registry   *)
(* behind them (streamRegistry.ts), for the builds of one agent.           *)
(*                                                                         *)
(*   POST   .../build                registers an entry and starts, in the *)
(*                                   background, a consumer that iterates  *)
(*                                   over the generator; nothing prevents  *)
(*                                   a second build of the same agent      *)
(*   GET    .../build/stream/:id     replays the entry's events and polls  *)
(*   POST   .../build/cancel/:id     aborts the generator                  *)
(*                                                                         *)
(* The consumer and the POST handler both save the outcome on the agent    *)
(* row, each by reading the whole creation_session and writing it back.    *)
(* The generator is abstract here: it does what BuildGenerator promises,   *)
(* and BuildPipeline is shown to keep that promise.                        *)
(*                                                                         *)
(* Left out: the two consumer branches for a generator that throws or ends *)
(* without a last event, which a generator that keeps its promise never    *)
(* takes.                                                                  *)
(***************************************************************************)
EXTENDS Naturals, Sequences, FiniteSets

CONSTANTS
    Streams,     \* the builds (stream ids) of the agent
    Readers,     \* SSE connections
    MaxStatus,   \* bound: status events a build yields
    MaxCancels   \* bound: cancel requests per stream

ASSUME BoundsAssumption == MaxStatus \in Nat /\ MaxCancels \in Nat

Nobody == "nobody"

ASSUME StreamsAssumption == Nobody \notin Streams

VARIABLES
    gen,         \* [stream -> phase of its generator], "off" before the POST
    verdict,     \* [stream -> readiness its report carried], "none" before
    cancels,     \* [stream -> cancel requests accepted]
    entry,       \* [stream -> entry.status]
    registered,  \* the streams _streams holds
    expiring,    \* the streams a deletion timer is set for
    events,      \* [stream -> entry.events]
    consumer,    \* [stream -> where the background loop stands]
    starter,     \* [stream -> where the POST's own save stands]
    seen,        \* [saver -> [stream -> the session it has read]]
    session,     \* the build part of creation_session
    watching,    \* [reader -> stream, or Nobody]
    reading,     \* [reader -> "off", "live", "closed" or "gone"]
    cursor,      \* [reader -> events sent so far]
    sent         \* [reader -> what it was sent]

entries  == <<entry, registered, expiring, events>>
savers   == <<starter, seen, session>>
readers  == <<watching, reading, cursor, sent>>
vars     == <<gen, verdict, cancels, entries, consumer, savers, readers>>

Ended == {"completed", "failed", "lost"}

TerminalEvents == {"build_complete", "error"}

TerminalStatus(s) == entry[s] \in {"done", "error"}

Blank == [status |-> "idle", stream |-> Nobody, report |-> "none"]

Init ==
    /\ gen = [s \in Streams |-> "off"]
    /\ verdict = [s \in Streams |-> "none"]
    /\ cancels = [s \in Streams |-> 0]
    /\ entry = [s \in Streams |-> "pending"]
    /\ registered = {}
    /\ expiring = {}
    /\ events = [s \in Streams |-> <<>>]
    /\ consumer = [s \in Streams |-> "off"]
    /\ starter = [s \in Streams |-> "off"]
    /\ seen = [w \in {"consumer", "starter"} |-> [s \in Streams |-> Blank]]
    /\ session = Blank
    /\ watching = [r \in Readers |-> Nobody]
    /\ reading = [r \in Readers |-> "off"]
    /\ cursor = [r \in Readers |-> 0]
    /\ sent = [r \in Readers |-> <<>>]

(***************************************************************************)
(* POST .../build                                                          *)
(***************************************************************************)
StartBuild(s) ==
    /\ gen[s] = "off"
    /\ gen' = [gen EXCEPT ![s] = "building"]
    /\ registered' = registered \cup {s}
    /\ consumer' = [consumer EXCEPT ![s] = "pull"]
    /\ starter' = [starter EXCEPT ![s] = "read"]
    /\ UNCHANGED <<verdict, cancels, entry, expiring, events, seen, session, readers>>

(***************************************************************************)
(* The consumer.  The generator runs only while the consumer asks for the  *)
(* next event, so an event and what the consumer does with it before its   *)
(* next await are one step.                                                *)
(***************************************************************************)
Push(s, kind) == events' = [events EXCEPT ![s] = Append(@, kind)]

StatusEvents(s) == {i \in DOMAIN events[s] : events[s][i] = "status"}

YieldStatus(s) ==
    /\ consumer[s] = "pull"
    /\ gen[s] = "building"
    /\ Cardinality(StatusEvents(s)) < MaxStatus
    /\ Push(s, "status")
    /\ UNCHANGED <<gen, verdict, cancels, entry, registered, expiring,
                   consumer, savers, readers>>

(* Faulty variant: the report is taken for the completion.                 *)
YieldReportAsComplete(s, readiness) ==
    /\ consumer[s] = "pull"
    /\ gen[s] = "building"
    /\ gen' = [gen EXCEPT ![s] = "reported"]
    /\ verdict' = [verdict EXCEPT ![s] = readiness]
    /\ Push(s, "build_complete")
    /\ consumer' = [consumer EXCEPT ![s] = "readReport"]
    /\ UNCHANGED <<cancels, entry, registered, expiring, savers, readers>>

YieldReport(s, readiness) ==
    /\ consumer[s] = "pull"
    /\ gen[s] = "building"
    /\ gen' = [gen EXCEPT ![s] = "reported"]
    /\ verdict' = [verdict EXCEPT ![s] = readiness]
    /\ Push(s, "build_report")
    /\ consumer' = [consumer EXCEPT ![s] = "readReport"]
    /\ UNCHANGED <<cancels, entry, registered, expiring, savers, readers>>

YieldComplete(s) ==
    /\ consumer[s] = "pull"
    /\ gen[s] = "reported"
    /\ gen' = [gen EXCEPT ![s] = "completed"]
    /\ Push(s, "build_complete")
    /\ consumer' = [consumer EXCEPT ![s] = "readComplete"]
    /\ UNCHANGED <<verdict, cancels, entry, registered, expiring, savers, readers>>

(* Faulty variant: the generator may still fail after its report.          *)
YieldErrorAfterReport(s) ==
    /\ consumer[s] = "pull"
    /\ gen[s] \in {"building", "reported"}
    /\ gen' = [gen EXCEPT ![s] = "failed"]
    /\ Push(s, "error")
    /\ entry' = [entry EXCEPT ![s] = "error"]
    /\ consumer' = [consumer EXCEPT ![s] = "readError"]
    /\ UNCHANGED <<verdict, cancels, registered, expiring, savers, readers>>

YieldError(s) ==
    /\ consumer[s] = "pull"
    /\ gen[s] = "building"
    /\ gen' = [gen EXCEPT ![s] = "failed"]
    /\ Push(s, "error")
    /\ entry' = [entry EXCEPT ![s] = "error"]
    /\ consumer' = [consumer EXCEPT ![s] = "readError"]
    /\ UNCHANGED <<verdict, cancels, registered, expiring, savers, readers>>

(***************************************************************************)
(* persistBuildSession: getAgent, then updateAgentConfig with the session  *)
(* that was read and the patch on top of it.  Either query may fail; the   *)
(* failure is swallowed.                                                   *)
(***************************************************************************)
AfterRead == [readReport |-> "writeReport", readComplete |-> "writeComplete",
              readError |-> "writeError"]

AfterWrite == [writeReport |-> "pull", writeComplete |-> "ended", writeError |-> "ended"]

ReportPatch(s) ==
    [seen["consumer"][s] EXCEPT
        !.report = verdict[s],
        !.status = IF verdict[s] = "blocked" THEN "failed" ELSE "done"]

CompletePatch(s) == [seen["consumer"][s] EXCEPT !.status = "done"]

(* Faulty variant: any end of a build is stored as done.                   *)
ErrorPatchDone(s) == [seen["consumer"][s] EXCEPT !.status = "done"]

ErrorPatch(s) == [seen["consumer"][s] EXCEPT !.status = "failed"]

StartPatch(s) == [seen["starter"][s] EXCEPT !.status = "building", !.stream = s]

ConsumerReads(s) ==
    /\ consumer[s] \in DOMAIN AfterRead
    /\ seen' = [seen EXCEPT !["consumer"][s] = session]
    /\ consumer' = [consumer EXCEPT ![s] = AfterRead[@]]
    /\ UNCHANGED <<gen, verdict, cancels, entries, starter, session, readers>>

(* The session read is local to the save: it is forgotten with it.         *)
Forget(w, s) == seen' = [seen EXCEPT ![w][s] = Blank]

(* Faulty variants: the entry is done with the report; or only if the      *)
(* session could be read.                                                  *)
SettledEarly(s) ==
    IF consumer[s] \in {"writeReport", "readComplete", "writeComplete"}
    THEN [entry EXCEPT ![s] = "done"]
    ELSE entry

SettledIfRead(s) ==
    IF consumer[s] = "writeComplete" THEN [entry EXCEPT ![s] = "done"] ELSE entry

(* build_complete marks the entry done only after its save.                *)
Settled(s) ==
    IF consumer[s] \in {"readComplete", "writeComplete"}
    THEN [entry EXCEPT ![s] = "done"]
    ELSE entry

ConsumerWrites(s) ==
    /\ consumer[s] \in DOMAIN AfterWrite
    /\ session' = CASE consumer[s] = "writeReport"   -> ReportPatch(s)
                    [] consumer[s] = "writeComplete" -> CompletePatch(s)
                    [] consumer[s] = "writeError"    -> ErrorPatch(s)
    /\ entry' = Settled(s)
    /\ consumer' = [consumer EXCEPT ![s] = AfterWrite[@]]
    /\ Forget("consumer", s)
    /\ UNCHANGED <<gen, verdict, cancels, registered, expiring, events, starter, readers>>

ConsumerSaveFails(s) ==
    /\ consumer[s] \in DOMAIN AfterRead \cup DOMAIN AfterWrite
    /\ entry' = Settled(s)
    /\ consumer' = [consumer EXCEPT ![s] =
                        AfterWrite[IF @ \in DOMAIN AfterRead THEN AfterRead[@] ELSE @]]
    /\ Forget("consumer", s)
    /\ UNCHANGED <<gen, verdict, cancels, registered, expiring, events,
                   starter, session, readers>>

(* The POST's own save, fired and forgotten.                               *)
StarterReads(s) ==
    /\ starter[s] = "read"
    /\ seen' = [seen EXCEPT !["starter"][s] = session]
    /\ starter' = [starter EXCEPT ![s] = "write"]
    /\ UNCHANGED <<gen, verdict, cancels, entries, consumer, session, readers>>

StarterWrites(s) ==
    /\ starter[s] = "write"
    /\ session' = StartPatch(s)
    /\ starter' = [starter EXCEPT ![s] = "ended"]
    /\ Forget("starter", s)
    /\ UNCHANGED <<gen, verdict, cancels, entries, consumer, readers>>

StarterSaveFails(s) ==
    /\ starter[s] \in {"read", "write"}
    /\ starter' = [starter EXCEPT ![s] = "ended"]
    /\ Forget("starter", s)
    /\ UNCHANGED <<gen, verdict, cancels, entries, consumer, session, readers>>

(***************************************************************************)
(* POST .../build/cancel/:stream_id.  No guard on the entry's status: a    *)
(* finished build can be cancelled, a cancelled one cancelled again.       *)
(***************************************************************************)
(* Faulty variant: the cancel sets the status and tells nobody.            *)
CancelSilently(s) ==
    /\ s \in registered
    /\ cancels[s] < MaxCancels
    /\ cancels' = [cancels EXCEPT ![s] = @ + 1]
    /\ entry' = [entry EXCEPT ![s] = "error"]
    /\ UNCHANGED <<gen, verdict, registered, expiring, events, consumer, savers, readers>>

Cancel(s) ==
    /\ s \in registered
    /\ cancels[s] < MaxCancels
    /\ cancels' = [cancels EXCEPT ![s] = @ + 1]
    /\ entry' = [entry EXCEPT ![s] = "error"]
    /\ Push(s, "error")
    /\ UNCHANGED <<gen, verdict, registered, expiring, consumer, savers, readers>>

(***************************************************************************)
(* GET .../build/stream/:stream_id.  Replay and poll are synchronous.      *)
(***************************************************************************)
(* Faulty variants: the cursor is not advanced; or the connection is not   *)
(* closed.                                                                 *)
SendAgain(r, s) ==
    /\ sent' = [sent EXCEPT ![r] = @ \o SubSeq(events[s], cursor[r] + 1, Len(events[s]))]
    /\ cursor' = cursor
    /\ reading' = [reading EXCEPT ![r] = IF TerminalStatus(s) THEN "closed" ELSE "live"]

SendOnly(r, s) ==
    /\ sent' = [sent EXCEPT ![r] = @ \o SubSeq(events[s], cursor[r] + 1, Len(events[s]))]
    /\ cursor' = [cursor EXCEPT ![r] = Len(events[s])]
    /\ reading' = [reading EXCEPT ![r] = "live"]

Send(r, s) ==
    /\ sent' = [sent EXCEPT ![r] = @ \o SubSeq(events[s], cursor[r] + 1, Len(events[s]))]
    /\ cursor' = [cursor EXCEPT ![r] = Len(events[s])]
    /\ reading' = [reading EXCEPT ![r] = IF TerminalStatus(s) THEN "closed" ELSE "live"]

(* An entry that is over is replayed and left in the registry; any other   *)
(* is scheduled for deletion, counted from this connection.                *)
Connect(r, s) ==
    /\ reading[r] = "off"
    /\ s \in registered
    /\ watching' = [watching EXCEPT ![r] = s]
    /\ Send(r, s)
    /\ expiring' = IF TerminalStatus(s) THEN expiring ELSE expiring \cup {s}
    /\ UNCHANGED <<gen, verdict, cancels, entry, registered, events, consumer, savers>>

Poll(r) ==
    /\ reading[r] = "live"
    /\ Send(r, watching[r])
    /\ UNCHANGED <<gen, verdict, cancels, entries, consumer, savers, watching>>

Disconnect(r) ==
    /\ reading[r] = "live"
    /\ reading' = [reading EXCEPT ![r] = "gone"]
    /\ UNCHANGED <<gen, verdict, cancels, entries, consumer, savers, watching, cursor, sent>>

(* Ten minutes after a connection, whatever the build is doing then.       *)
Expire(s) ==
    /\ s \in expiring
    /\ expiring' = expiring \ {s}
    /\ registered' = registered \ {s}
    /\ UNCHANGED <<gen, verdict, cancels, entry, events, consumer, savers, readers>>

(* The backend restarts: registry, generators, savers and connections are  *)
(* gone, the agent row stays.                                              *)
Restart ==
    /\ registered # {}
    /\ gen' = [s \in Streams |-> IF gen[s] \in Ended \cup {"off"} THEN gen[s] ELSE "lost"]
    /\ registered' = {}
    /\ expiring' = {}
    /\ consumer' = [s \in Streams |-> IF consumer[s] = "off" THEN "off" ELSE "ended"]
    /\ starter' = [s \in Streams |-> IF starter[s] = "off" THEN "off" ELSE "ended"]
    /\ reading' = [r \in Readers |-> IF reading[r] = "live" THEN "gone" ELSE reading[r]]
    /\ seen' = [w \in {"consumer", "starter"} |-> [s \in Streams |-> Blank]]
    /\ UNCHANGED <<verdict, cancels, entry, events, session, watching, cursor, sent>>

-----------------------------------------------------------------------------
Pull(s) ==
    \/ YieldStatus(s)
    \/ \E readiness \in {"blocked", "ready"} : YieldReport(s, readiness)
    \/ YieldComplete(s)
    \/ YieldError(s)

Consume(s) ==
    \/ Pull(s)
    \/ ConsumerReads(s)
    \/ ConsumerWrites(s)
    \/ ConsumerSaveFails(s)

StarterSaves(s) ==
    \/ StarterReads(s)
    \/ StarterWrites(s)
    \/ StarterSaveFails(s)

Next ==
    \/ \E s \in Streams : StartBuild(s) \/ Consume(s) \/ StarterSaves(s) \/ Cancel(s) \/ Expire(s)
    \/ \E r \in Readers : Poll(r) \/ Disconnect(r)
    \/ \E r \in Readers, s \in Streams : Connect(r, s)
    \/ Restart

(* The background loop and the saves run on their own, and the interval    *)
(* of a live reader keeps firing.  Users and timers owe nothing.           *)
Fairness ==
    /\ \A s \in Streams : WF_vars(Consume(s)) /\ WF_vars(StarterSaves(s))
    /\ \A r \in Readers : WF_vars(Poll(r))

Spec == Init /\ [][Next]_vars /\ Fairness

-----------------------------------------------------------------------------
(***************************************************************************)
(* Properties.                                                             *)
(***************************************************************************)

(* Every variable keeps to its type.                                       *)
Sessions == [status : {"idle", "building", "done", "failed"},
             stream : Streams \cup {Nobody},
             report : {"none", "blocked", "ready"}]

TypeOK ==
    /\ gen \in [Streams -> {"off", "building", "reported"} \cup Ended]
    /\ verdict \in [Streams -> {"none", "blocked", "ready"}]
    /\ cancels \in [Streams -> Nat]
    /\ entry \in [Streams -> {"pending", "done", "error"}]
    /\ registered \subseteq Streams
    /\ expiring \subseteq Streams
    /\ events \in [Streams -> Seq({"status", "build_report"} \cup TerminalEvents)]
    /\ consumer \in [Streams -> {"off", "pull", "ended"} \cup DOMAIN AfterRead
                                                        \cup DOMAIN AfterWrite]
    /\ starter \in [Streams -> {"off", "read", "write", "ended"}]
    /\ seen \in [{"consumer", "starter"} -> [Streams -> Sessions]]
    /\ session \in Sessions
    /\ watching \in [Readers -> Streams \cup {Nobody}]
    /\ reading \in [Readers -> {"off", "live", "closed", "gone"}]
    /\ cursor \in [Readers -> Nat]
    /\ sent \in [Readers -> Seq({"status", "build_report"} \cup TerminalEvents)]

(* Every connection, early, late or reconnected, is sent the events of its *)
(* stream from the first on, in order, none twice and none skipped,        *)
(* although replay and polling race with the consumer and with cancels.    *)
SentInOrder ==
    \A r \in Readers :
        watching[r] # Nobody =>
            /\ cursor[r] <= Len(events[watching[r]])
            /\ sent[r] = SubSeq(events[watching[r]], 1, cursor[r])

(* A connection is closed only after it was sent how the build ended (or   *)
(* that it was cancelled): the status never runs ahead of the events.      *)
ClosedKnowsOutcome ==
    \A r \in Readers :
        reading[r] = "closed" => \E i \in DOMAIN sent[r] : sent[r][i] \in TerminalEvents

(* A stream nobody cancels has one terminal event, and it is the last one. *)
OneOutcome ==
    \A s \in Streams :
        cancels[s] = 0 =>
            \A i \in DOMAIN events[s] :
                events[s][i] \in TerminalEvents => i = Len(events[s])

(* The entry says done only of a build that completed, and error only of   *)
(* one that failed or was cancelled.                                       *)
EntryIsTruthful ==
    \A s \in Streams :
        /\ entry[s] = "done" => gen[s] = "completed"
        /\ entry[s] = "error" => gen[s] = "failed" \/ cancels[s] > 0

(* However the read-modify-writes of two builds overlap, what the agent    *)
(* row says did happen to some build of the agent: done to one that        *)
(* reported, failed to one that failed or reported a blocked build.        *)
SessionIsTruthful ==
    /\ session.status = "done" => \E s \in Streams : verdict[s] # "none"
    /\ session.status = "failed" =>
          \E s \in Streams : gen[s] = "failed" \/ verdict[s] = "blocked"
    /\ session.report # "none" => \E s \in Streams : verdict[s] = session.report
    /\ session.stream # Nobody => gen[session.stream] # "off"

(* A connection that stays open is told the end: whoever watches a build   *)
(* is closed after its outcome, even if the entry is deleted meanwhile.    *)
WatchersAreTold ==
    \A r \in Readers : reading[r] = "live" ~> reading[r] \in {"closed", "gone"}

(* A generator that ended leaves a terminal status behind, whatever became *)
(* of the saves in between.                                                *)
EntrySettles ==
    \A s \in Streams :
        gen[s] \in {"completed", "failed"} ~> (TerminalStatus(s) \/ s \notin registered)

(* The stream is fed nothing that a generator keeping its promise would    *)
(* not yield: no error after the report, no completion without one.  What  *)
(* is assumed here of a generator is no more than what BuildPipeline       *)
(* keeps.  A generator lost to a restart stands where it stood.  This is   *)
(* Generator(s)!Spec of every stream, in the form that TLC can check.      *)
Generator(s) == INSTANCE BuildGenerator WITH
    Tasks <- {},
    phase <- IF gen[s] \in {"completed", "failed"} THEN gen[s]
             ELSE IF verdict[s] # "none" THEN "reported" ELSE "building",
    open  <- {},
    ended <- {}

StreamObeysGenerator ==
    /\ \A s \in Streams : Generator(s)!Init
    /\ [][\A s \in Streams : [Generator(s)!Next]_(Generator(s)!vars)]_vars

(* A build whose report is blocked is recorded as failed once every save   *)
(* is over.                                                                *)
Quiet == \A s \in Streams : consumer[s] \in {"off", "ended"} /\ starter[s] \in {"off", "ended"}

BlockedIsNotDone ==
    Quiet /\ session.report = "blocked" => session.status # "done"
=============================================================================
