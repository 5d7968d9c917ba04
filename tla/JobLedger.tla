------------------------------ MODULE JobLedger ------------------------------
(***************************************************************************)
(* What status.json promises whoever reads it, whatever becomes of the     *)
(* scheduler: the attempt log of a job only grows, its entries are         *)
(* numbered from 1 without a gap, no more than max_attempts of them, and a *)
(* job that SUCCEEDED or was CANCELED stays so.  A write that was lost may *)
(* make several entries appear at once.  Only the end of retention removes *)
(* a record (and not always a terminal one: the last write may be lost).   *)
(***************************************************************************)
EXTENDS Integers, Sequences

CONSTANTS Jobs, MaxAttempts

VARIABLE ledger   \* [Jobs -> [status, log]], an entry [attempt, outcome]

Absent == [status |-> "ABSENT", log |-> <<>>]
Open   == {"PENDING", "PROVISIONING", "RUNNING"}
Final  == {"SUCCEEDED", "CANCELED"}
Closed == Final \cup {"FAILED"}

Extends(s, t) == Len(t) <= Len(s) /\ t = SubSeq(s, 1, Len(t))

(* The log justifies the status. *)
Justified(j, r) ==
    LET n == Len(r.log) IN
    /\ n <= MaxAttempts[j]
    /\ \A i \in 1..n :
          /\ r.log[i].attempt = i
          /\ r.log[i].outcome = "OK" => i = n /\ r.status = "SUCCEEDED"
    /\ r.status \in Open => n < MaxAttempts[j]
    /\ r.status = "SUCCEEDED" => n > 0 /\ r.log[n].outcome = "OK"
    /\ r.status = "FAILED" => n > 0 /\ (r.log[n].outcome = "APP" \/ n = MaxAttempts[j])

LedgerInit == ledger = [j \in Jobs |-> Absent]

(* Any progress the scheduler may report, a first record included. *)
Report(j) ==
    /\ ledger[j].status \notin Final
    /\ ledger'[j].status \in Open \cup Closed
    /\ Extends(ledger'[j].log, ledger[j].log)
    /\ Justified(j, ledger'[j])
    /\ ledger' = [ledger EXCEPT ![j] = ledger'[j]]

Expire(j) ==
    /\ ledger[j] # Absent
    /\ ledger' = [ledger EXCEPT ![j] = Absent]

LedgerNext == \E j \in Jobs : Report(j) \/ Expire(j)

LedgerSpec == LedgerInit /\ [][LedgerNext]_ledger
=============================================================================
