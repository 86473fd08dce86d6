--------------------------- MODULE ForgeProvision ---------------------------
(***************************************************************************)
(* The forge sandboxes of one agent (ruh-backend/src/app.ts and            *)
(* sandboxManager.ts).                                                     *)
(*                                                                         *)
(*   POST forge leaves an entry in _streams; GET forge/stream consumes it  *)
(*   and drives the generator createOpenclawSandbox, which starts a        *)
(*   container, configures it, yields `result' (the handler saves the row  *)
(*   and links it to the agent) and then waits for a device to approve.    *)
(*                                                                         *)
(* Beside the handler run its watchdog, the hook on the closed request     *)
(* that removes the container, promotion, the two kinds of deletion, and   *)
(* restarts of the backend, which keep containers and rows and lose the    *)
(* rest.                                                                   *)
(*                                                                         *)
(* A stream makes one sandbox, and names it here.  `docker rm -f' is taken *)
(* to succeed.  An entry's own deletion a minute later is left out: it     *)
(* only changes the answer of a second GET from 409 to 404.  So are the    *)
(* approved mark of a row and the events that nothing below asks about.    *)
(***************************************************************************)

CONSTANTS Streams,      \* the stream ids handed out
          None

ASSUME StreamsAssumption == None \notin Streams

VARIABLES
    entry,      \* status of the stream's entry in _streams
    handler,    \* the GET of a stream: see Handlers
    box,        \* the stream's container, and who removed it
    row,        \* sandboxes with a row in the database
    told,       \* sandboxes a client was sent the result of
    hook,       \* containers whose removal the close hook has begun
    agent,      \* the agent's row
    poster,     \* the POST forge that is to hand out the stream
    promotion,  \* what POST forge/promote has read
    discard     \* DELETE forge, and what it still has to remove

rest == <<poster, promotion, discard>>
vars == <<entry, handler, box, row, told, hook, agent, rest>>

(* The generator's part up to its result: steps that must succeed, then    *)
(* steps whose result nobody looks at.                                     *)
Boot == {"install", "onboard", "configure", "gateway"}
Tail == {"skills", "soul", "pairing"}

Generating == {"create", "approval"} \cup Boot \cup Tail
Working == Generating \cup {"saving", "linking", "marking", "finish"}

(* Where a handler that is over left its loop: at the end, on an error the *)
(* generator yielded, on the watchdog's word, on an exception, or because  *)
(* the backend went away.                                                  *)
Over == {"ended", "failed", "broke", "threw", "lost"}

Handlers == [at : {"idle"} \cup Working \cup Over, named : BOOLEAN, completed : BOOLEAN,
             stalled : BOOLEAN, closed : BOOLEAN]

Agents == [exists : BOOLEAN, forge : Streams \cup {None}, ids : SUBSET Streams,
           status : {"forging", "draft", "active"}]

(* POST agents/create has made the agent and left its first entry.         *)
Init ==
    /\ \E first \in Streams :
           entry = [s \in Streams |-> IF s = first THEN "pending" ELSE "none"]
    /\ handler = [s \in Streams |-> [at |-> "idle", named |-> FALSE, completed |-> FALSE,
                                    stalled |-> FALSE, closed |-> FALSE]]
    /\ box = [s \in Streams |-> "absent"]
    /\ row = {}
    /\ told = {}
    /\ hook = {}
    /\ agent = [exists |-> TRUE, forge |-> None, ids |-> {}, status |-> "forging"]
    /\ poster = [s \in Streams |-> "idle"]
    /\ promotion = [at |-> "idle", forge |-> None, ids |-> {}]
    /\ discard = [at |-> "idle", todo |-> {}]

(***************************************************************************)
(* The handler and its generator.                                          *)
(***************************************************************************)
At(s, where) == handler[s].at = where

Goto(s, where) == handler' = [handler EXCEPT ![s].at = where]

(* The handler leaves its loop and writes the entry's last status.         *)
Leave(s, how, status) ==
    /\ Goto(s, how)
    /\ entry' = [entry EXCEPT ![s] = status]

outside == <<row, told, hook, agent, rest>>

Start(s) ==
    /\ entry[s] = "pending"
    /\ agent.exists
    /\ entry' = [entry EXCEPT ![s] = "running"]
    /\ Goto(s, "create")
    /\ UNCHANGED <<box, outside>>

(* Whatever the generator yields once the watchdog has fired is the last   *)
(* thing the handler takes from it: not an error, nothing is cleaned up.   *)
Abandon(s) ==
    /\ handler[s].at \in Generating
    /\ handler[s].stalled
    /\ Leave(s, "broke", "done")
    /\ UNCHANGED <<box, outside>>

(* docker run.  The line that says so carries the container's name.        *)
CreateBox(s) ==
    /\ At(s, "create")
    /\ box' = [box EXCEPT ![s] = "up"]
    /\ IF handler[s].stalled
       THEN Leave(s, "broke", "done")
       ELSE /\ handler' = [handler EXCEPT ![s].at = "install", ![s].named = TRUE]
            /\ UNCHANGED entry
    /\ UNCHANGED outside

CreateFails(s) ==
    /\ At(s, "create")
    /\ ~handler[s].stalled
    /\ Leave(s, "failed", "error")
    /\ UNCHANGED <<box, outside>>

(* A step that must succeed: commands run by docker exec, which needs the  *)
(* container.                                                              *)
BootStep(s, step, next) ==
    /\ At(s, step)
    /\ box[s] = "up"
    /\ ~handler[s].stalled
    /\ Goto(s, next)
    /\ UNCHANGED <<entry, box, outside>>

Install(s) == BootStep(s, "install", "onboard")

Onboard(s) == BootStep(s, "onboard", "configure")

Configure(s) == BootStep(s, "configure", "gateway")

StartGateway(s) == BootStep(s, "gateway", "skills")

(* Faulty variant: the generator reports the failure and leaves the        *)
(* container.                                                              *)
RequiredStepFailsKeepingBox(s) ==
    /\ handler[s].at \in Boot
    /\ IF handler[s].stalled THEN Leave(s, "broke", "done")
                             ELSE Leave(s, "failed", "error")
    /\ UNCHANGED <<box, outside>>

(* failCreate: the container goes before the error is yielded.             *)
RequiredStepFails(s) ==
    /\ handler[s].at \in Boot
    /\ box' = [box EXCEPT ![s] = "gone"]
    /\ IF handler[s].stalled THEN Leave(s, "broke", "done")
                             ELSE Leave(s, "failed", "error")
    /\ UNCHANGED outside

(* A step after those: it writes what it can, so the generator comes to    *)
(* its result with or without a container.                                 *)
TailStep(s, step, next) ==
    /\ At(s, step)
    /\ ~handler[s].stalled
    /\ Goto(s, next)
    /\ UNCHANGED <<entry, box, outside>>

InstallSkills(s) == TailStep(s, "skills", "soul")

InstallSoul(s) == TailStep(s, "soul", "pairing")

YieldResult(s) ==
    /\ At(s, "pairing")
    /\ ~handler[s].stalled
    /\ handler' = [handler EXCEPT ![s].at = "saving", ![s].completed = TRUE]
    /\ UNCHANGED <<entry, box, outside>>

(* Faulty variant: the handler does not wait for the row it saves.         *)
SaveRowLater(s) ==
    /\ At(s, "saving")
    /\ Goto(s, "linking")
    /\ UNCHANGED <<entry, box, outside>>

SaveRow(s) ==
    /\ At(s, "saving")
    /\ row' = row \cup {s}
    /\ Goto(s, "linking")
    /\ UNCHANGED <<entry, box, told, hook, agent, rest>>

(* setForgeSandbox updates no row once the agent is deleted.               *)
Linked(s) == [agent EXCEPT !.forge = s, !.ids = @ \cup {s}, !.status = "forging"]

Link(s) ==
    /\ At(s, "linking")
    /\ agent' = IF agent.exists THEN Linked(s) ELSE agent
    /\ told' = IF handler[s].closed THEN told ELSE told \cup {s}
    /\ Goto(s, "approval")
    /\ UNCHANGED <<entry, box, row, hook, rest>>

(* A store throws while the handler treats an event of the generator.      *)
StoreFails(s) ==
    /\ handler[s].at \in {"saving", "linking", "marking"}
    /\ Leave(s, "threw", "error")
    /\ UNCHANGED <<box, outside>>

DeviceApproved(s) ==
    /\ At(s, "approval")
    /\ box[s] = "up"
    /\ ~handler[s].stalled
    /\ Goto(s, "marking")
    /\ UNCHANGED <<entry, box, outside>>

MarkApproved(s) ==
    /\ At(s, "marking")
    /\ entry' = [entry EXCEPT ![s] = "done"]
    /\ Goto(s, "finish")
    /\ UNCHANGED <<box, outside>>

(* Template clone and its setup, or the Architect's SOUL.md, then the sync *)
(* script: all best effort, and only then is the client told.  The         *)
(* generator has one more line, which the watchdog may turn into a break.  *)
Finish(s) ==
    /\ At(s, "finish")
    /\ Leave(s, "ended", "done")
    /\ UNCHANGED <<box, outside>>

(* Nobody connects within APPROVAL_TIMEOUT: the generator just ends.       *)
NobodyApproves(s) ==
    /\ At(s, "approval")
    /\ Leave(s, "ended", "done")
    /\ UNCHANGED <<box, outside>>

(* The watchdog tells the client and leaves the loop to notice.            *)
Stall(s) ==
    /\ handler[s].at \in Working
    /\ ~handler[s].stalled
    /\ handler' = [handler EXCEPT ![s].stalled = TRUE]
    /\ UNCHANGED <<entry, box, outside>>

(***************************************************************************)
(* The request closes, because the client left or because it was answered. *)
(***************************************************************************)
Close(s) ==
    /\ handler[s].at \notin {"idle", "lost"}
    /\ ~handler[s].closed
    /\ handler' = [handler EXCEPT ![s].closed = TRUE]
    /\ hook' = IF handler[s].named /\ ~handler[s].completed THEN hook \cup {s} ELSE hook
    /\ UNCHANGED <<entry, box, row, told, agent, rest>>

HookRemoves(s) ==
    /\ s \in hook
    /\ hook' = hook \ {s}
    /\ box' = [box EXCEPT ![s] = IF @ = "up" THEN "hooked" ELSE @]
    /\ UNCHANGED <<entry, handler, row, told, agent, rest>>

(***************************************************************************)
(* The other requests.                                                     *)
(***************************************************************************)
inside == <<handler, told, hook>>

Ready == agent.forge \in row /\ box[agent.forge] = "up"

(* POST forge.  A sandbox that runs is the answer, one that does not is    *)
(* unlinked first, in a step of its own.                                   *)
AskForge(s) ==
    /\ entry[s] = "none"
    /\ poster[s] = "idle"
    /\ agent.exists
    /\ IF agent.forge = None
       THEN /\ entry' = [entry EXCEPT ![s] = "pending"]
            /\ UNCHANGED poster
       ELSE /\ ~Ready
            /\ poster' = [poster EXCEPT ![s] = "clearing"]
            /\ UNCHANGED entry
    /\ UNCHANGED <<box, row, agent, promotion, discard, inside>>

ClearForge(s) ==
    /\ poster[s] = "clearing"
    /\ agent' = [agent EXCEPT !.forge = None, !.status = IF agent.exists THEN "draft" ELSE @]
    /\ entry' = [entry EXCEPT ![s] = "pending"]
    /\ poster' = [poster EXCEPT ![s] = "idle"]
    /\ UNCHANGED <<box, row, promotion, discard, inside>>

ReadForPromotion ==
    /\ promotion.at = "idle"
    /\ agent.exists /\ agent.forge # None
    /\ promotion' = [at |-> "read", forge |-> agent.forge, ids |-> agent.ids]
    /\ UNCHANGED <<entry, box, row, agent, poster, discard, inside>>

(* The list that was read is written back whole.                           *)
Promote ==
    /\ promotion.at = "read"
    /\ promotion' = [at |-> "idle", forge |-> None, ids |-> {}]
    /\ agent' = IF agent.exists
                THEN [agent EXCEPT !.forge = None, !.status = "active",
                                   !.ids = promotion.ids \cup {promotion.forge}]
                ELSE agent
    /\ UNCHANGED <<entry, box, row, poster, discard, inside>>

(* Row and container go together: nothing tells their order apart.         *)
Remove(s) ==
    /\ row' = row \ {s}
    /\ box' = [box EXCEPT ![s] = "deleted"]

(* DELETE /api/sandboxes/:id leaves the agent alone; the agent's own       *)
(* DELETE takes the sandbox off its list, though not off forge_sandbox_id. *)
DeleteSandbox(s) ==
    /\ Remove(s)
    /\ \/ s \in row /\ UNCHANGED agent
       \/ s \in agent.ids /\ agent.exists /\ agent' = [agent EXCEPT !.ids = @ \ {s}]
    /\ UNCHANGED <<entry, rest, inside>>

ReadForDiscard ==
    /\ discard.at = "idle"
    /\ agent.exists
    /\ discard' = [at |-> "removing", todo |-> agent.ids \cup ({agent.forge} \ {None})]
    /\ UNCHANGED <<entry, box, row, agent, poster, promotion, inside>>

DiscardSandbox(s) ==
    /\ s \in discard.todo
    /\ discard' = [discard EXCEPT !.todo = @ \ {s}]
    /\ Remove(s)
    /\ UNCHANGED <<entry, agent, poster, promotion, inside>>

DiscardAgent ==
    /\ discard.at = "removing"
    /\ discard.todo = {}
    /\ discard' = [discard EXCEPT !.at = "answered"]
    /\ agent' = [exists |-> FALSE, forge |-> None, ids |-> {}, status |-> "draft"]
    /\ UNCHANGED <<entry, box, row, poster, promotion, inside>>

(* The backend restarts: streams, handlers, hooks and requests are gone.   *)
Restart ==
    /\ \E s \in Streams : handler[s].at \in Working
    /\ entry' = [s \in Streams |-> IF entry[s] = "none" THEN "none" ELSE "lost"]
    /\ handler' = [s \in Streams |->
                      IF At(s, "idle") THEN handler[s]
                      ELSE [handler[s] EXCEPT !.at = IF @ \in Working THEN "lost" ELSE @,
                                              !.closed = TRUE]]
    /\ hook' = {}
    /\ poster' = [s \in Streams |-> "idle"]
    /\ promotion' = [at |-> "idle", forge |-> None, ids |-> {}]
    /\ discard' = IF discard.at = "removing" THEN [at |-> "idle", todo |-> {}] ELSE discard
    /\ UNCHANGED <<box, row, told, agent>>

Work(s) ==
    \/ Start(s) \/ Abandon(s) \/ CreateBox(s) \/ CreateFails(s)
    \/ Install(s) \/ Onboard(s) \/ Configure(s) \/ StartGateway(s) \/ RequiredStepFails(s)
    \/ InstallSkills(s) \/ InstallSoul(s) \/ YieldResult(s)
    \/ SaveRow(s) \/ Link(s) \/ StoreFails(s)
    \/ DeviceApproved(s) \/ MarkApproved(s) \/ Finish(s) \/ NobodyApproves(s)

Next ==
    \/ \E s \in Streams :
           \/ Work(s) \/ Stall(s) \/ Close(s) \/ HookRemoves(s)
           \/ AskForge(s) \/ ClearForge(s) \/ DeleteSandbox(s) \/ DiscardSandbox(s)
    \/ ReadForPromotion \/ Promote \/ ReadForDiscard \/ DiscardAgent \/ Restart

Spec == Init /\ [][Next]_vars

-----------------------------------------------------------------------------
TypeOK ==
    /\ entry \in [Streams -> {"none", "pending", "running", "done", "error", "lost"}]
    /\ handler \in [Streams -> Handlers]
    /\ box \in [Streams -> {"absent", "up", "gone", "hooked", "deleted"}]
    /\ row \in SUBSET Streams
    /\ told \in SUBSET Streams
    /\ hook \in SUBSET Streams
    /\ agent \in Agents
    /\ poster \in [Streams -> {"idle", "clearing"}]
    /\ promotion \in [at : {"idle", "read"}, forge : Streams \cup {None}, ids : SUBSET Streams]
    /\ discard \in [at : {"idle", "removing", "answered"}, todo : SUBSET Streams]

(* A container nobody answers for, neither a handler at work nor a row an  *)
(* operator can see, was left behind by the watchdog's break, by a store   *)
(* that threw or by a restart: never by a bootstrap that failed, and never *)
(* by a client that left.                                                  *)
NothingLeaks ==
    \A s \in Streams :
        box[s] = "up" /\ s \notin row =>
            handler[s].at \in Working \cup {"broke", "threw", "lost"}

(* The agent is never linked to, and no client ever told of, a sandbox     *)
(* without a row, unless an operator deleted it.                           *)
LinkedIsSaved ==
    \A s \in Streams :
        agent.forge = s \/ s \in agent.ids \cup told =>
            s \in row \/ box[s] = "deleted"
=============================================================================
