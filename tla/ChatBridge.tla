----------------------------- MODULE ChatBridge -----------------------------
(***************************************************************************)
(* Developer chat: POST chat/ws, which bridges a sandbox gateway's         *)
(* WebSocket to a stream of events (ruh-backend/src/app.ts), and the panel *)
(* that reads it (ruh-frontend/components/ChatPanel.tsx).                  *)
(*                                                                         *)
(* The handler of a frame is asynchronous: the one of the run's end waits  *)
(* for the transcript and for the database, and while it does the timeout, *)
(* a broken socket and a client that leaves find the exchange unresolved.  *)
(*                                                                         *)
(* The gateway is external.  It is taken to send the frames of one run: a  *)
(* challenge, two answers, text that only grows, tools to approve, phases, *)
(* and one end; to be silent at any point, and to close without a word,    *)
(* which nobody here listens for.                                          *)
(***************************************************************************)
EXTENDS Naturals, Sequences, FiniteSets, SequencesExt

CONSTANTS Exchanges,    \* how often the panel sends: 1 .. n, in order
          MaxText,      \* bound on the length of an answer
          MaxTools      \* bound on the tools one run uses

ASSUME ChatBoundsAssumption ==
    /\ Exchanges \subseteq Nat \ {0}
    /\ MaxText \in Nat
    /\ MaxTools \in Nat \ {0}

VARIABLES
    bridge,     \* the request of each exchange, see Bridges
    stream,     \* the events written to its response, in order
    saved,      \* exchanges whose two messages are in the conversation
    panel       \* what the panel holds

chatVars == <<bridge, stream, saved, panel>>

(* The frame a bridge waits for; "transcript" and "append" are the awaits  *)
(* of the end's handler.  The socket and the timer live apart from it.     *)
Bridges == [at : {"none", "challenge", "hello", "run", "transcript", "append", "finished"},
            resolved : BOOLEAN, ended : BOOLEAN, socket : BOOLEAN, text : 0 .. MaxText,
            tools : 0 .. MaxTools, active : BOOLEAN, live : BOOLEAN]

Events == {"text", "tool_start", "tool_end", "error", "persistence_error", "done"}

NoExchange == 0

Panels == [exchange : Exchanges \cup {NoExchange}, sending : BOOLEAN, read : Nat, text : Nat,
           tools : Nat, failed : BOOLEAN,
           shown : [Exchanges -> {"nothing", "answer", "error"}]]

ChatInit ==
    /\ bridge = [e \in Exchanges |-> [at |-> "none", resolved |-> FALSE, ended |-> FALSE,
                                      socket |-> FALSE, text |-> 0, tools |-> 0,
                                      active |-> FALSE, live |-> FALSE]]
    /\ stream = [e \in Exchanges |-> <<>>]
    /\ saved = {}
    /\ panel = [exchange |-> NoExchange, sending |-> FALSE, read |-> 0, text |-> 0, tools |-> 0,
                failed |-> FALSE, shown |-> [e \in Exchanges |-> "nothing"]]

(***************************************************************************)
(* The bridge.                                                             *)
(***************************************************************************)
(* What is written to a response that has ended reaches nobody.            *)
Written(e, events) == IF bridge[e].ended THEN stream[e] ELSE stream[e] \o events

Write(e, events) == stream' = [stream EXCEPT ![e] = Written(e, events)]

(* resolved, [DONE], the response's end, the socket closed, the timer off. *)
Resolve(e, events) ==
    /\ bridge' = [bridge EXCEPT ![e].resolved = TRUE, ![e].ended = TRUE, ![e].socket = FALSE]
    /\ Write(e, events \o <<"done">>)
    /\ UNCHANGED <<saved, panel>>

(* A frame is looked at only while the exchange is unresolved.             *)
Frame(e, at) ==
    /\ bridge[e].at = at
    /\ bridge[e].socket
    /\ ~bridge[e].resolved

Challenge(e) ==
    /\ Frame(e, "challenge")
    /\ bridge' = [bridge EXCEPT ![e].at = "hello"]
    /\ UNCHANGED <<stream, saved, panel>>

(* Authenticated: the message is sent to the session.                      *)
HelloOk(e) ==
    /\ Frame(e, "hello")
    /\ bridge' = [bridge EXCEPT ![e].at = "run"]
    /\ UNCHANGED <<stream, saved, panel>>

(* The gateway refuses the token, or the message.                          *)
Refused(e) ==
    /\ Frame(e, "hello") \/ (Frame(e, "run") /\ stream[e] = <<>>)
    /\ Resolve(e, <<"error">>)

Text(e) ==
    /\ Frame(e, "run")
    /\ bridge[e].text < MaxText
    /\ bridge' = [bridge EXCEPT ![e].text = @ + 1]
    /\ Write(e, <<"text">>)
    /\ UNCHANGED <<saved, panel>>

(* The end of the tool that runs, if one does.                             *)
ToolEnd(e) == IF bridge[e].active THEN <<"tool_end">> ELSE <<>>

(* exec.approval.requested: allowed, whatever it is.                       *)
AllowTool(e) ==
    /\ Frame(e, "run")
    /\ bridge[e].tools < MaxTools
    /\ bridge' = [bridge EXCEPT ![e].tools = @ + 1, ![e].active = TRUE, ![e].live = TRUE]
    /\ Write(e, ToolEnd(e) \o <<"tool_start">>)
    /\ UNCHANGED <<saved, panel>>

(* A lifecycle phase other than tool_execution and end.                    *)
Phase(e) ==
    /\ Frame(e, "run")
    /\ bridge[e].active
    /\ bridge' = [bridge EXCEPT ![e].active = FALSE]
    /\ Write(e, ToolEnd(e))
    /\ UNCHANGED <<saved, panel>>

(* Faulty variant: the end does not close the tool that runs.              *)
EndLeavingTool(e) ==
    /\ Frame(e, "run")
    /\ bridge' = [bridge EXCEPT ![e].at = IF bridge[e].live THEN "append" ELSE "transcript"]
    /\ UNCHANGED <<stream, saved, panel>>

End(e) ==
    /\ Frame(e, "run")
    /\ bridge' = [bridge EXCEPT ![e].at = IF bridge[e].live THEN "append" ELSE "transcript",
                                ![e].active = FALSE]
    /\ Write(e, ToolEnd(e))
    /\ UNCHANGED <<saved, panel>>

(* The transcript's tools are played to a client that saw none; a          *)
(* transcript that cannot be read has none.                                *)
Replay(e) ==
    /\ bridge[e].at = "transcript"
    /\ bridge' = [bridge EXCEPT ![e].at = "append"]
    /\ \E events \in {<<>>, <<"tool_start", "tool_end">>} : Write(e, events)
    /\ UNCHANGED <<saved, panel>>

(* The last lines of the end's handler, which do not look at resolved.     *)
Finish(e, events) ==
    /\ bridge' = [bridge EXCEPT ![e].at = "finished", ![e].resolved = TRUE,
                                ![e].ended = TRUE, ![e].socket = FALSE]
    /\ Write(e, events \o <<"done">>)
    /\ UNCHANGED panel

(* Faulty variant: a history that could not be written goes unmentioned.   *)
SaveFailsQuietly(e) ==
    /\ bridge[e].at = "append"
    /\ bridge[e].text > 0
    /\ Finish(e, <<>>)
    /\ UNCHANGED saved

SaveFails(e) ==
    /\ bridge[e].at = "append"
    /\ bridge[e].text > 0
    /\ Finish(e, <<"persistence_error">>)
    /\ UNCHANGED saved

(* An answer without text is not kept.                                     *)
Save(e) ==
    /\ bridge[e].at = "append"
    /\ saved' = IF bridge[e].text > 0 THEN saved \cup {e} ELSE saved
    /\ Finish(e, <<>>)

(* Faulty variant: the timer is for the connection, not for the run.       *)
TimeoutConnecting(e) ==
    /\ bridge[e].at \in {"challenge", "hello"}
    /\ ~bridge[e].resolved
    /\ Resolve(e, <<"error">>)

(* Three minutes after the request, whatever the run is at.                *)
Timeout(e) ==
    /\ bridge[e].at # "none"
    /\ ~bridge[e].resolved
    /\ Resolve(e, <<"error">>)

SocketBreaks(e) ==
    /\ bridge[e].socket
    /\ ~bridge[e].resolved
    /\ Resolve(e, <<"error">>)

(* The gateway closes the socket: no handler.                              *)
SocketCloses(e) ==
    /\ bridge[e].socket
    /\ bridge' = [bridge EXCEPT ![e].socket = FALSE]
    /\ UNCHANGED <<stream, saved, panel>>

(***************************************************************************)
(* The panel.                                                              *)
(***************************************************************************)
Current == panel.exchange

Send ==
    /\ ~panel.sending
    /\ \E e \in Exchanges :
           /\ e = panel.exchange + 1
           /\ bridge' = [bridge EXCEPT ![e].at = "challenge", ![e].socket = TRUE]
           /\ panel' = [panel EXCEPT !.exchange = e, !.sending = TRUE, !.read = 0, !.text = 0,
                                     !.tools = 0, !.failed = FALSE]
    /\ UNCHANGED <<stream, saved>>

Unread == panel.sending /\ panel.read < Len(stream[Current])

Event == stream[Current][panel.read + 1]

(* sendMessage comes to its end and shows what it has.  An error is shown  *)
(* where it is read, and followed by the text up to there.                 *)
Shown(how) == [panel EXCEPT !.read = @ + 1, !.sending = FALSE, !.shown[Current] = how]

(* A line with a tool and no result is a tool that starts.                 *)
ReadTool ==
    /\ Unread /\ Event \in {"tool_start", "tool_end"}
    /\ panel' = [panel EXCEPT !.read = @ + 1, !.tools = @ + 1]
    /\ UNCHANGED <<bridge, stream, saved>>

ReadText ==
    /\ Unread /\ Event = "text"
    /\ panel' = [panel EXCEPT !.read = @ + 1, !.text = @ + 1]
    /\ UNCHANGED <<bridge, stream, saved>>

ReadFailure ==
    /\ Unread /\ Event = "persistence_error"
    /\ panel' = [panel EXCEPT !.read = @ + 1, !.failed = TRUE]
    /\ UNCHANGED <<bridge, stream, saved>>

ReadError ==
    /\ Unread /\ Event = "error"
    /\ panel' = Shown("error")
    /\ UNCHANGED <<bridge, stream, saved>>

ReadDone ==
    /\ Unread /\ Event = "done"
    /\ panel' = Shown(IF panel.failed THEN "error" ELSE "answer")
    /\ UNCHANGED <<bridge, stream, saved>>

Read == ReadTool \/ ReadText \/ ReadFailure \/ ReadError \/ ReadDone

(* The panel is closed: it aborts its request, and the backend's close     *)
(* hook resolves the exchange.  Opened again, it shows the history.        *)
Leave ==
    /\ panel.sending
    /\ bridge' = [bridge EXCEPT ![Current].resolved = TRUE, ![Current].ended = TRUE,
                                ![Current].socket = FALSE]
    /\ panel' = [panel EXCEPT !.sending = FALSE]
    /\ UNCHANGED <<stream, saved>>

Await(e) == Replay(e) \/ Save(e) \/ SaveFails(e)

ChatNext ==
    \/ \E e \in Exchanges :
           \/ Challenge(e) \/ HelloOk(e) \/ Refused(e) \/ Text(e) \/ AllowTool(e) \/ Phase(e)
           \/ End(e) \/ Await(e) \/ Timeout(e) \/ SocketBreaks(e) \/ SocketCloses(e)
    \/ Send \/ Read \/ Leave

(* The timer fires, what is awaited comes back, and the panel reads on.    *)
ChatFairness ==
    /\ \A e \in Exchanges : WF_chatVars(Timeout(e)) /\ WF_chatVars(Await(e))
    /\ WF_chatVars(Read)

ChatSpec == ChatInit /\ [][ChatNext]_chatVars /\ ChatFairness

-----------------------------------------------------------------------------
ChatTypeOK ==
    /\ bridge \in [Exchanges -> Bridges]
    /\ \A e \in Exchanges :
           Range(stream[e]) \subseteq Events /\ Len(stream[e]) <= MaxText + 2 * MaxTools + 2
    /\ saved \subseteq Exchanges
    /\ panel \in Panels

(* SPEC-atomic-chat-persistence: an answer the panel shows as such, and    *)
(* that said something, is in the conversation, also when it could not be  *)
(* written at first sight, when the timer fired meanwhile, or when an      *)
(* earlier exchange is still being saved.                                  *)
ShownIsSaved ==
    \A e \in Exchanges : panel.shown[e] = "answer" /\ bridge[e].text > 0 => e \in saved

Count(e, event) == Cardinality({i \in 1 .. Len(stream[e]) : stream[e][i] = event})

(* A stream that ended without an error leaves no tool running: each start *)
(* has its end, those of the live run and those played from a transcript.  *)
ToolsAreEnded ==
    \A e \in Exchanges :
        Contains(stream[e], "done") /\ ~Contains(stream[e], "error") =>
            Count(e, "tool_start") = Count(e, "tool_end")

(* Whatever the gateway does, the panel is not left waiting.               *)
AlwaysAnswered == panel.sending ~> ~panel.sending
=============================================================================
