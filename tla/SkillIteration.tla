--------------------------- MODULE SkillIteration ---------------------------
(***************************************************************************)
(* executeIteratedSkills (ruh-backend/src/agentBuild.ts) and the interject *)
(* queue it drains (ruh-backend/src/interjectQueue.ts).                    *)
(*                                                                         *)
(* The loop writes one skill per LLM call.  Before each call it reads the  *)
(* plan afresh, announces the iteration and drains the agent's queue; after*)
(* the call it commits.  Its events are collected in a buffer that         *)
(* runAgentBuild yields to the stream when the loop returns.               *)
(*                                                                         *)
(* Meanwhile the user pushes messages and edits the plan.  The queue is    *)
(* keyed by agent, and nothing keeps two builds of one agent apart, one    *)
(* after the other or at the same time.                                    *)
(***************************************************************************)
EXTENDS Naturals, Sequences, FiniteSets

CONSTANTS
    Builds,     \* runs of the loop for one agent
    Skills,     \* the skills of the plan
    Owned,      \* the sequence of skills whose ids are locked at run start
    Messages    \* what the user may type, each once: the bound on pushes

ASSUME OwnedAssumption ==
    /\ Owned \in Seq(Skills)
    /\ \A i, j \in DOMAIN Owned : Owned[i] = Owned[j] => i = j

OwnedSkills == {Owned[i] : i \in DOMAIN Owned}

VARIABLES
    queue,      \* queues.get(agentId)
    plan,       \* the skills architecture.json names
    files,      \* the skills whose SKILL.md exists
    pc,         \* [build -> where its loop stands]
    iter,       \* [build -> the iteration, from 1]
    aborted,    \* [build -> signal.aborted]
    buffer,     \* [build -> events collected by the loop]
    out,        \* [build -> events the stream has got]
    result,     \* [build -> how the task ended]
    \* History of the messages.
    pushed,     \* the messages accepted, in order
    taken       \* the messages that left the queue, in order, for a
                \* prompt or with a restart

loop     == <<pc, iter, aborted, buffer, out, result>>
messages == <<queue, pushed, taken>>
vars     == <<loop, messages, plan, files>>

Running == {b \in Builds : pc[b] \notin {"off", "over", "thrown"}}

Init ==
    /\ queue = <<>>
    /\ plan = Skills
    /\ files \in SUBSET Skills
    /\ pc = [b \in Builds |-> "off"]
    /\ iter = [b \in Builds |-> 1]
    /\ aborted = [b \in Builds |-> FALSE]
    /\ buffer = [b \in Builds |-> <<>>]
    /\ out = [b \in Builds |-> <<>>]
    /\ result = [b \in Builds |-> "none"]
    /\ pushed = <<>>
    /\ taken = <<>>

Move(b, from, to) == pc[b] = from /\ pc' = [pc EXCEPT ![b] = to]

Event(kind, i) == [kind |-> kind, iteration |-> i]

Collect(b, kind) == buffer' = [buffer EXCEPT ![b] = Append(@, Event(kind, iter[b]))]

NextIteration(b, from) ==
    /\ Move(b, from, "top")
    /\ iter' = [iter EXCEPT ![b] = @ + 1]

(***************************************************************************)
(* The loop.                                                               *)
(***************************************************************************)
(* Faulty variant: the plan as edited is what counts.                      *)
AllThereInPlan(ok) == OwnedSkills \cap plan \subseteq (IF ok THEN files ELSE {})

(* reconcileSpecialistFiles: no files seen when docker exec fails.         *)
AllThere(ok) == OwnedSkills \subseteq (IF ok THEN files ELSE {})

Begin(b, ok) ==
    /\ pc[b] = "off"
    /\ IF AllThere(ok) /\ OwnedSkills # {}
       THEN /\ Move(b, "off", "flush")
            /\ result' = [result EXCEPT ![b] = "done"]
       ELSE /\ Move(b, "off", "top")
            /\ UNCHANGED result
    /\ UNCHANGED <<iter, aborted, buffer, out, messages, plan, files>>

(* The AbortError leaves the loop at once: the buffer is lost with it.     *)
Throw(b) ==
    /\ Move(b, "top", "thrown")
    /\ iter[b] <= Len(Owned)
    /\ aborted[b]
    /\ buffer' = [buffer EXCEPT ![b] = <<>>]
    /\ UNCHANGED <<iter, aborted, out, result, messages, plan, files>>

EnterIteration(b) ==
    /\ Move(b, "top", "readPlan")
    /\ iter[b] <= Len(Owned)
    /\ ~aborted[b]
    /\ UNCHANGED <<iter, aborted, buffer, out, result, messages, plan, files>>

(* A plan that cannot be read or parsed falls back on the one captured at  *)
(* the start, which has all owned skills.                                  *)
InPlan(b, ok) == ok => Owned[iter[b]] \in plan

(* Faulty variant: a skill that left the plan is looked at again.          *)
SkipRemovedForever(b, ok) ==
    /\ Move(b, "readPlan", "top")
    /\ ~InPlan(b, ok)
    /\ UNCHANGED <<iter, aborted, buffer, out, result, messages, plan, files>>

SkipRemoved(b, ok) ==
    /\ NextIteration(b, "readPlan")
    /\ ~InPlan(b, ok)
    /\ UNCHANGED <<aborted, buffer, out, result, messages, plan, files>>

(* Faulty variants: the signal is not handed to the call; or the queue is  *)
(* read and not cleared.                                                   *)
AnnounceAndCallUnchecked(b, ok) ==
    /\ Move(b, "readPlan", "calling")
    /\ InPlan(b, ok)
    /\ Collect(b, "announce")
    /\ taken' = taken \o queue
    /\ queue' = <<>>
    /\ UNCHANGED <<iter, aborted, out, result, pushed, plan, files>>

AnnounceAndCallPeeking(b, ok) ==
    /\ Move(b, "readPlan", IF aborted[b] THEN "refused" ELSE "calling")
    /\ InPlan(b, ok)
    /\ Collect(b, "announce")
    /\ taken' = taken \o queue
    /\ UNCHANGED <<iter, aborted, out, result, queue, pushed, plan, files>>

(* Announce, drain and place the call: no await in between.  A call placed *)
(* with an aborted signal is refused, its messages are gone all the same.  *)
AnnounceAndCall(b, ok) ==
    /\ Move(b, "readPlan", IF aborted[b] THEN "refused" ELSE "calling")
    /\ InPlan(b, ok)
    /\ Collect(b, "announce")
    /\ taken' = taken \o queue
    /\ queue' = <<>>
    /\ UNCHANGED <<iter, aborted, out, result, pushed, plan, files>>

(* What the prompt asks for: the skill of this iteration.                  *)
Asked(b) == {Owned[i] : i \in DOMAIN Owned \cap {iter[b]}}

(* The call ends well, with or without the file it was asked for.          *)
CallReturns(b, W) ==
    /\ Move(b, "calling", "commit")
    /\ files' = files \cup W
    /\ UNCHANGED <<iter, aborted, buffer, out, result, messages, plan>>

(* A commit that fails is reported in passing: the iteration is done either*)
(* way.                                                                    *)
Commit(b) ==
    /\ NextIteration(b, "commit")
    /\ Collect(b, "done")
    /\ UNCHANGED <<aborted, out, result, messages, plan, files>>

(* Faulty variant: a skill that failed is written again.                   *)
CallFailsAgain(b, W) ==
    /\ Move(b, "calling", "top")
    /\ files' = files \cup W
    /\ UNCHANGED <<iter, aborted, buffer, out, result, messages, plan>>

(* Any error but a timeout: the loop goes on without this skill.           *)
CallFails(b, W) ==
    /\ NextIteration(b, "calling")
    /\ files' = files \cup W
    /\ UNCHANGED <<aborted, buffer, out, result, messages, plan>>

(* A timeout or an abort of the call ends the task.                        *)
CallTimesOut(b, W) ==
    /\ \/ Move(b, "calling", "flush") /\ files' = files \cup W
       \/ Move(b, "refused", "flush") /\ UNCHANGED files
    /\ result' = [result EXCEPT ![b] = "failed"]
    /\ UNCHANGED <<iter, aborted, buffer, out, messages, plan>>

(* The last look is at the skills of the plan captured at the start.       *)
Reconcile(b, ok) ==
    /\ Move(b, "top", "flush")
    /\ iter[b] > Len(Owned)
    /\ result' = [result EXCEPT ![b] = IF AllThere(ok) THEN "done" ELSE "failed"]
    /\ UNCHANGED <<iter, aborted, buffer, out, messages, plan, files>>

(* runAgentBuild yields what the loop collected.                           *)
Flush(b) ==
    /\ Move(b, "flush", "over")
    /\ out' = [out EXCEPT ![b] = @ \o buffer[b]]
    /\ buffer' = [buffer EXCEPT ![b] = <<>>]
    /\ UNCHANGED <<iter, aborted, result, messages, plan, files>>

(***************************************************************************)
(* The user, and the backend's restart.                                    *)
(***************************************************************************)
(* POST /api/agents/:id/interjects: accepted whether a build runs or not.  *)
PushInterject(m) ==
    /\ \A i \in DOMAIN pushed : pushed[i] # m
    /\ queue' = Append(queue, m)
    /\ pushed' = Append(pushed, m)
    /\ UNCHANGED <<loop, taken, plan, files>>

EditPlan(kept) ==
    /\ Running # {}
    /\ plan' = kept
    /\ UNCHANGED <<loop, messages, files>>

Cancel(b) ==
    /\ b \in Running
    /\ ~aborted[b]
    /\ aborted' = [aborted EXCEPT ![b] = TRUE]
    /\ UNCHANGED <<pc, iter, buffer, out, result, messages, plan, files>>

(* The queue is a Map in memory: a restart drops it with the builds.       *)
Restart ==
    /\ Running # {}
    /\ pc' = [b \in Builds |-> IF b \in Running THEN "thrown" ELSE pc[b]]
    /\ buffer' = [b \in Builds |-> <<>>]
    /\ taken' = taken \o queue
    /\ queue' = <<>>
    /\ UNCHANGED <<iter, aborted, out, result, pushed, plan, files>>

-----------------------------------------------------------------------------
Loop(b) ==
    \/ Throw(b)
    \/ EnterIteration(b)
    \/ \E ok \in BOOLEAN :
          SkipRemoved(b, ok) \/ AnnounceAndCall(b, ok) \/ Reconcile(b, ok)
    \/ Commit(b)
    \/ \E W \in SUBSET Asked(b) : CallReturns(b, W) \/ CallFails(b, W) \/ CallTimesOut(b, W)
    \/ Flush(b)

Next ==
    \/ \E b \in Builds : Loop(b) \/ Cancel(b)
    \/ \E b \in Builds, ok \in BOOLEAN : Begin(b, ok)
    \/ \E m \in Messages : PushInterject(m)
    \/ \E kept \in SUBSET Skills : EditPlan(kept)
    \/ Restart

(* A loop that has begun runs on: its calls and commands have timeouts.    *)
Spec == Init /\ [][Next]_vars /\ \A b \in Builds : WF_vars(Loop(b))

-----------------------------------------------------------------------------
(***************************************************************************)
(* Properties.                                                             *)
(***************************************************************************)

(* Every variable keeps to its type.                                       *)
Events == [kind : {"announce", "done"}, iteration : Nat \ {0}]

Locations == {"off", "top", "readPlan", "calling", "refused", "commit",
              "flush", "over", "thrown"}

TypeOK ==
    /\ queue \in Seq(Messages)
    /\ plan \subseteq Skills
    /\ files \subseteq Skills
    /\ pc \in [Builds -> Locations]
    /\ iter \in [Builds -> Nat \ {0}]
    /\ aborted \in [Builds -> BOOLEAN]
    /\ buffer \in [Builds -> Seq(Events)]
    /\ out \in [Builds -> Seq(Events)]
    /\ result \in [Builds -> {"none", "done", "failed"}]
    /\ pushed \in Seq(Messages)
    /\ taken \in Seq(Messages)

(* The queue hands on every message it accepted, once and in order,        *)
(* although two builds may drain it: what left it (for a prompt, or with a *)
(* restart), followed by what is in it, is what was pushed.                *)
NothingLostOrRepeated == pushed = taken \o queue

(* A skills task is done only if every skill it owns has its file, even    *)
(* when the user dropped skills from the plan or another build shares the  *)
(* workspace.                                                              *)
DoneHasSkills == \A b \in Builds : result[b] = "done" => OwnedSkills \subseteq files

(* The stream tells the iterations in order: each at most once, and done   *)
(* only of one announced before.                                           *)
IterationsInOrder ==
    \A b \in Builds : \A i, j \in DOMAIN out[b] :
        i < j => \/ out[b][i].iteration < out[b][j].iteration
                 \/ /\ out[b][i].iteration = out[b][j].iteration
                    /\ out[b][i].kind = "announce"
                    /\ out[b][j].kind = "done"

(* A cancelled loop places no further call.                                *)
NoCallAfterCancel ==
    [][\A b \in Builds : aborted[b] /\ pc[b] # "calling" => pc'[b] # "calling"]_vars

(* A loop that has begun ends.                                             *)
LoopsEnd == \A b \in Builds : pc[b] = "top" ~> pc[b] \in {"over", "thrown"}
=============================================================================
