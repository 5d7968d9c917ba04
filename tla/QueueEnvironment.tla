-------------------------- MODULE QueueEnvironment --------------------------
(***************************************************************************)
(* What goes on around the scheduler: users at the CLI, Google Cloud, and  *)
(* the startup script on a QR's workers.  Each action is one write another *)
(* process sees, so that they interleave freely with the scheduler's.      *)
(***************************************************************************)
EXTENDS QueueState

-----------------------------------------------------------------------------
(***************************************************************************)
(* The CLI.  It reads the snapshot the scheduler last published, and the   *)
(* job directories only when it cannot: there is none yet, or the read     *)
(* fails.  A directory that does not parse is then left out.               *)
(***************************************************************************)
Scanned ==
    [j \in Jobs |-> View(IF j \in Listed \ Unreadable THEN StateOnFile(j)
                                                    ELSE NoRecord)]

Views == {snapshot} \cup {Scanned : b \in Happenings \cap {"blind"}}

(* tpu create and tpu rerun write spec.json, then status.json; Submit is   *)
(* the two writes in one go.                                               *)
Submit(j) ==
    /\ filed[j] = "new"
    /\ filed' = [filed EXCEPT ![j] = "full"]
    /\ statusFile' = [statusFile EXCEPT ![j] = NewRecord]
    /\ UNCHANGED <<canceled, retryAsked, claimed, succeeded, failed, snapshot,
                   qrs>>

SubmitSpec(j) ==
    /\ "slow" \in Happenings /\ filed[j] = "new"
    /\ filed' = [filed EXCEPT ![j] = "spec"]
    /\ UNCHANGED <<statusFile, canceled, retryAsked, claimed, succeeded,
                   failed, snapshot, qrs>>

(* The second write is unconditional and its result ignored.  It is given  *)
(* up after 15 s, which TimeUp in QueueScheduler stands for.               *)
SubmitStatus(j) ==
    /\ filed[j] = "spec"
    /\ filed' = [filed EXCEPT ![j] = "full"]
    /\ \/ statusFile' = [statusFile EXCEPT ![j] = NewRecord]
       \/ UNCHANGED statusFile
    /\ UNCHANGED <<canceled, retryAsked, claimed, succeeded, failed, snapshot,
                   qrs>>

(* tpu delete: refused when the job is shown terminal.                     *)
RequestCancel(j) ==
    /\ "cancel" \in Happenings
    /\ filed[j] # "reaped"
    /\ \E v \in Views : v[j].status \notin Terminal \cup {"ABSENT"}
    /\ j \notin canceled
    /\ canceled' = canceled \cup {j}
    /\ UNCHANGED <<filed, statusFile, retryAsked, claimed, succeeded, failed,
                   snapshot, qrs>>

(* tpu retry: refused unless the job is shown FAILED.                      *)
RequestRetry(j) ==
    /\ "retry" \in Happenings
    /\ filed[j] # "reaped"
    /\ \E v \in Views :
          /\ v[j].status = "FAILED" /\ v[j].attempt # retryAsked[j]
          /\ retryAsked' = [retryAsked EXCEPT ![j] = v[j].attempt]
    /\ UNCHANGED <<filed, statusFile, canceled, claimed, succeeded, failed,
                   snapshot, qrs>>

Cli(j) ==
    \/ Submit(j) \/ SubmitSpec(j) \/ SubmitStatus(j)
    \/ RequestCancel(j) \/ RequestRetry(j)

-----------------------------------------------------------------------------
(***************************************************************************)
(* Google Cloud and the workers: external, as the scheduler meets them.    *)
(***************************************************************************)

(* Capacity is granted: the QR becomes ACTIVE and its VM boots the script. *)
Grant(q) ==
    /\ qrs[q].infra = "WAITING"
    /\ qrs' = [qrs EXCEPT ![q].infra = "ACTIVE", ![q].worker = "boot"]
    /\ UNCHANGED gcsVars

(* The VM is stopped or falls ill; its workers may write markers yet. *)
Sicken(q) ==
    /\ "sicken" \in Happenings /\ qrs[q].infra = "ACTIVE"
    /\ qrs' = [qrs EXCEPT ![q].infra = "SICK"]
    /\ UNCHANGED gcsVars

(* Spot reclaim, or a request that fails: the workers are gone. *)
Suspend(q) ==
    /\ "suspend" \in Happenings
    /\ qrs[q].infra \in {"WAITING", "ACTIVE", "SICK"}
    /\ qrs' = [qrs EXCEPT ![q].infra = "SUSPENDED", ![q].worker = "over"]
    /\ UNCHANGED gcsVars

(* An asynchronous deletion completes. *)
Remove(q) ==
    /\ qrs[q].infra = "DELETING"
    /\ qrs' = [qrs EXCEPT ![q].infra = "GONE", ![q].worker = "over"]
    /\ UNCHANGED gcsVars

-----------------------------------------------------------------------------
(* The startup script of a QR, as far as the scheduler can tell: it runs   *)
(* until its VM is gone, also while the QR is being deleted.               *)
Up(q) == qrs[q].infra \in {"ACTIVE", "SICK", "DELETING"}

AttemptOf(q) == <<qrs[q].job, qrs[q].attempt>>

(* Setup is done on every worker; worker 0 writes `claimed`. *)
Claim(q) ==
    /\ Up(q) /\ qrs[q].worker = "boot"
    /\ qrs' = [qrs EXCEPT ![q].worker = "run"]
    /\ claimed' = claimed \cup {AttemptOf(q)}
    /\ UNCHANGED <<filed, statusFile, canceled, retryAsked, succeeded, failed,
                   snapshot>>

(* Worker 0 exits with 0 and writes `succeeded`; other workers may run on, *)
(* among them one that takes itself for worker 0 too (StartupScript).      *)
ReportSuccess(q) ==
    /\ Up(q) /\ qrs[q].worker = "run"
    /\ \E w \in {"tail", "run"} : qrs' = [qrs EXCEPT ![q].worker = w]
    /\ succeeded' = succeeded \cup {AttemptOf(q)}
    /\ UNCHANGED <<filed, statusFile, canceled, retryAsked, claimed, failed,
                   snapshot>>

(* Some worker exits with an error and writes `failed`: worker 0, or one   *)
(* that leaves worker 0 and its heartbeat alone.                           *)
ReportFailure(q) ==
    /\ Up(q) /\ qrs[q].worker \in {"boot", "run", "tail"}
    /\ \E w \in {"tail", qrs[q].worker} : qrs' = [qrs EXCEPT ![q].worker = w]
    /\ failed' = failed \cup {AttemptOf(q)}
    /\ UNCHANGED <<filed, statusFile, canceled, retryAsked, claimed, succeeded,
                   snapshot>>

(* Worker 0 ends without a marker: exit code 42 or 143, a write that       *)
(* fails, or a hung VM.                                                    *)
Vanish(q) ==
    /\ "vanish" \in Happenings
    /\ Up(q) /\ qrs[q].worker \in {"boot", "run"}
    /\ qrs' = [qrs EXCEPT ![q].worker = "tail"]
    /\ UNCHANGED gcsVars

CloudOf(q) == Grant(q) \/ Sicken(q) \/ Suspend(q) \/ Remove(q)
WorkerOf(q) == Claim(q) \/ ReportSuccess(q) \/ ReportFailure(q) \/ Vanish(q)

Environment ==
    /\ \/ \E j \in Jobs : Cli(j)
       \/ \E q \in Names : CloudOf(q) \/ WorkerOf(q)
    /\ UNCHANGED <<memVars, loopVars, budgetVars>>
=============================================================================
