---------------------------- MODULE AdminCleanup ----------------------------
(***************************************************************************)
(* tpu admin cleanup --idle-minutes N --yes beside the scheduler: it reads *)
(* what the CLI knows of the jobs, lists the QRs of the queue, passes a    *)
(* sentence on each, and then executes them one after the other, on the    *)
(* strength of what it has read.  It may be interrupted anywhere.  (Bound: *)
(* one command per behaviour.  A list or a probe of `claimed` that fails   *)
(* spares the QRs concerned, as if they were not there or not idle.)       *)
(***************************************************************************)
EXTENDS QueueProperties

VARIABLES
    step,       \* "ready", "listing", "judging" or "executing"
    named,      \* the entries read: a view of the jobs
    unjudged,   \* QRs that are listed and not yet looked at
    sentence,   \* QRs to be deleted, with the job to be canceled if any
    doomed      \* the one whose job has just been canceled, as a set

adminVars == <<step, named, unjudged, sentence, doomed>>
others    == <<memVars, loopVars, crashes>>

NamedFor(q) == {j \in Jobs : named[j].qr = q}

-----------------------------------------------------------------------------
ReadEntries ==
    /\ "cleanup" \in Happenings /\ step = "ready"
    /\ step' = "listing" /\ named' \in Views
    /\ NoFault /\ UNCHANGED <<gcsVars, qrs, unjudged, sentence, doomed>>

ListQrs ==
    /\ step = "listing"
    /\ step' = "judging" /\ unjudged' = {q \in Names : qrs[q].infra # "GONE"}
    /\ NoFault /\ UNCHANGED <<gcsVars, qrs, named, sentence, doomed>>

Look(q) ==
    /\ step = "judging" /\ q \in unjudged
    /\ unjudged' = unjudged \ {q}
    /\ UNCHANGED <<gcsVars, qrs, step, named, doomed>>

(* A QR no entry names is an orphan. *)
CondemnOrphan(q) ==
    /\ Look(q) /\ NamedFor(q) = {}
    /\ sentence' = sentence \cup {[qr |-> q, cancel |-> {}]}
    /\ NoFault

(* An entry's attempt that is claimed is idle when its heartbeat is older  *)
(* than the idle minutes, missing, or cannot be read.  One that is renewed *)
(* gets that old when the admin asks for less than a heartbeat interval.   *)
Silent(j) == ~Beating(j, NextAttempt(named[j])) \/ "impatient" \in Happenings
Idle(j)   == <<j, NextAttempt(named[j])>> \in claimed /\ Silent(j)

CondemnIdle(q, j) ==
    /\ Look(q) /\ j \in NamedFor(q)
    /\ sentence' = sentence \cup {[qr |-> q, cancel |-> {j}]}
    /\ \/ NoFault /\ Idle(j)
       \/ IsFault("heartbeat") /\ <<j, NextAttempt(named[j])>> \in claimed

(* Whatever is named may be spared: not claimed, not silent for long       *)
(* enough, or no --idle-minutes.                                           *)
Spare(q) ==
    /\ Look(q) /\ NamedFor(q) # {}
    /\ NoFault /\ UNCHANGED sentence

CloseList ==
    /\ step = "judging" /\ unjudged = {}
    /\ step' = "executing" /\ named' = [j \in Jobs |-> View(NoRecord)]
    /\ NoFault /\ UNCHANGED <<gcsVars, qrs, unjudged, sentence, doomed>>

(* The sentinel of an idle QR's job is written, then the QR is deleted.    *)
CancelIdle(s) ==
    /\ step = "executing" /\ doomed = {} /\ s.cancel # {}
    /\ sentence' = sentence \ {s} /\ doomed' = {s}
    /\ canceled' = canceled \cup s.cancel
    /\ NoFault /\ UNCHANGED <<filed, statusFile, retryAsked, claimed, succeeded,
                              failed, snapshot, qrs, step, named, unjudged>>

Delete(q) ==
    \/ NoFault /\ qrs' = [qrs EXCEPT ![q] = Deleted(@)]
    \/ IsFault("delete") /\ qrs' \in {qrs, [qrs EXCEPT ![q] = WithoutVm(@)]}

DeleteOrphan(s) ==
    /\ step = "executing" /\ doomed = {} /\ s.cancel = {}
    /\ sentence' = sentence \ {s}
    /\ Delete(s.qr)
    /\ UNCHANGED <<gcsVars, step, named, unjudged, doomed>>

DeleteIdle(s) ==
    /\ doomed' = {}
    /\ Delete(s.qr)
    /\ UNCHANGED <<gcsVars, step, named, unjudged, sentence>>

-----------------------------------------------------------------------------
CleanupInit ==
    /\ Init
    /\ step = "ready" /\ named = [j \in Jobs |-> View(NoRecord)]
    /\ unjudged = {} /\ sentence = {} /\ doomed = {}

Judge(q) == CondemnOrphan(q) \/ Spare(q) \/ \E j \in Jobs : CondemnIdle(q, j)

Cleanup ==
    /\ \/ ReadEntries \/ ListQrs \/ CloseList
       \/ \E q \in unjudged : Judge(q)
       \/ \E s \in sentence : CancelIdle(s) \/ DeleteOrphan(s)
       \/ \E s \in doomed : DeleteIdle(s)
    /\ UNCHANGED others

CleanupNext == (Next /\ UNCHANGED adminVars) \/ Cleanup

CleanupSpec == CleanupInit /\ [][CleanupNext]_<<vars, adminVars>>

(* The command need not come to its end. *)
FairCleanupSpec == CleanupSpec /\ LoopFairness

-----------------------------------------------------------------------------
(* No QR is deleted as idle while it waits for capacity or boots, whatever *)
(* idle minutes the admin asks for, and none that keeps its heartbeat      *)
(* going, unless they are fewer than its interval or a call failed: the    *)
(* entries of the command, up to a minute old, name QR and attempt that    *)
(* belong together (cli.py:1037-1050).  (Unless two QRs were requested for *)
(* the attempt: a marker of the one then speaks for the other.)            *)
Alone(q) == \A p \in Names : AttemptOf(p) = AttemptOf(q) => p = q

IdleCleanupSparesTheLiving ==
    [][\A s \in doomed : Deletes(s.qr) /\ Alone(s.qr) =>
           /\ qrs[s.qr].worker \notin {"off", "boot"}
           /\ qrs[s.qr].worker = "run" => faults > 0 \/ "impatient" \in Happenings]_<<vars, adminVars>>
=============================================================================
