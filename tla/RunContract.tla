---------------------------- MODULE RunContract ----------------------------
(***************************************************************************)
(* What the status column of analysis_runs promises its readers.           *)
(*                                                                         *)
(* A run record is created "pending"; the background task that executes it *)
(* moves it to "running" once, and then to "completed" or "failed".  Only  *)
(* a completed run may still change: a workflow whose completion could be  *)
(* stored but not announced is declared failed by the handler of its own   *)
(* exception.  A failed run is final, and no run goes back.  "none" is the *)
(* run id that has not been handed out.                                    *)
(***************************************************************************)
CONSTANT Runs

VARIABLE status

Status == {"none", "pending", "running", "completed", "failed"}

Move(r, from, to) ==
    /\ status[r] = from
    /\ status' = [status EXCEPT ![r] = to]

Create(r)   == Move(r, "none", "pending")
Begin(r)    == Move(r, "pending", "running")
Complete(r) == Move(r, "running", "completed")
Fail(r)     == Move(r, "running", "failed")
Retract(r)  == Move(r, "completed", "failed")

Init == status = [r \in Runs |-> "none"]

Next == \E r \in Runs :
          \/ Create(r)
          \/ Begin(r)
          \/ Complete(r)
          \/ Fail(r)
          \/ Retract(r)

Spec == Init /\ [][Next]_status
=============================================================================
