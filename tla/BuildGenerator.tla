--------------------------- MODULE BuildGenerator ---------------------------
(***************************************************************************)
(* What the build generator promises to whoever iterates over it.          *)
(*                                                                         *)
(* A build works through a set of tasks one at a time, starts each of them *)
(* at most once, reports only when every task has ended, and finishes      *)
(* exactly once: either with a report followed by build_complete, or with  *)
(* an error.  An error may leave a task open (a cancelled one), but it     *)
(* never follows the report.                                               *)
(***************************************************************************)

CONSTANT Tasks

VARIABLES phase,   \* "building", "reported", "completed" or "failed"
          open,    \* the tasks started and not ended
          ended    \* the tasks that ended, well or badly

vars == <<phase, open, ended>>

Phases == {"building", "reported", "completed", "failed"}

Init ==
    /\ phase = "building"
    /\ open = {}
    /\ ended = {}

Start(t) ==
    /\ phase = "building"
    /\ open = {}
    /\ t \notin ended
    /\ open' = {t}
    /\ UNCHANGED <<phase, ended>>

End(t) ==
    /\ phase = "building"
    /\ open = {t}
    /\ open' = {}
    /\ ended' = ended \cup {t}
    /\ UNCHANGED phase

Report ==
    /\ phase = "building"
    /\ open = {}
    /\ ended = Tasks
    /\ phase' = "reported"
    /\ UNCHANGED <<open, ended>>

Complete ==
    /\ phase = "reported"
    /\ phase' = "completed"
    /\ UNCHANGED <<open, ended>>

Fail ==
    /\ phase = "building"
    /\ phase' = "failed"
    /\ UNCHANGED <<open, ended>>

Next ==
    \/ \E t \in Tasks : Start(t) \/ End(t)
    \/ Report
    \/ Complete
    \/ Fail

Spec == Init /\ [][Next]_vars
=============================================================================
