---------------------------- MODULE StartupScript ----------------------------
(***************************************************************************)
(* What the startup scripts of an attempt show to the scheduler, whatever  *)
(* their workers do among themselves: how far worker 0 of each slice is,   *)
(* which as long as it lives renews the heartbeat, and the markers of the  *)
(* attempt, which all slices that were requested for it share.             *)
(***************************************************************************)
CONSTANT Slices   \* the QRs requested for the attempt

VARIABLES
    worker,      \* of each slice "boot"; "run" once its worker 0 has claimed;
                 \* "tail" when worker 0 has ended, while others may run on
    claimed, succeeded, failed

scriptVars == <<worker, claimed, succeeded, failed>>

ScriptInit ==
    /\ worker = [s \in Slices |-> "boot"]
    /\ claimed = FALSE /\ succeeded = FALSE /\ failed = FALSE

Moves(s, to) == worker' = [worker EXCEPT ![s] = to]

(* Worker 0 claims the attempt ... *)
Claim(s) ==
    /\ worker[s] = "boot" /\ Moves(s, "run")
    /\ claimed' = TRUE /\ UNCHANGED <<succeeded, failed>>

(* ... and only then may report that it has succeeded, as it ends.  (Where *)
(* two hosts take themselves for worker 0, the other one may run on.)      *)
ReportSuccess(s) ==
    /\ worker[s] = "run" /\ (Moves(s, "tail") \/ Moves(s, "run"))
    /\ succeeded' = TRUE /\ UNCHANGED <<claimed, failed>>

(* Any worker may report a failure: worker 0 as it ends, or one that       *)
(* leaves worker 0 alone.                                                  *)
ReportFailure(s) ==
    /\ \E w \in {"tail", worker[s]} : Moves(s, w)
    /\ failed' = TRUE /\ UNCHANGED <<claimed, succeeded>>

(* Worker 0 ends without a word. *)
Vanish(s) ==
    /\ Moves(s, "tail")
    /\ UNCHANGED <<claimed, succeeded, failed>>

ScriptNext ==
    \E s \in Slices : Claim(s) \/ ReportSuccess(s) \/ ReportFailure(s) \/ Vanish(s)

ScriptSpec == ScriptInit /\ [][ScriptNext]_scriptVars
=============================================================================
