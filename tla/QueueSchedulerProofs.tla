------------------------ MODULE QueueSchedulerProofs ------------------------
(***************************************************************************)
(* Type correctness of the scheduler, its environment and the job records, *)
(* for any number of jobs, attempts, crashes and faults.                   *)
(***************************************************************************)
EXTENDS QueueProperties, TLAPS

-----------------------------------------------------------------------------
(* Operators on records. *)

LEMMA NoRecordType == NoRecord \in Record /\ NewRecord \in Record
<1>1. <<>> \in Seq(Entry)
  OBVIOUS
<1>2. NoRecord \in Record
  BY <1>1 DEF NoRecord, Record
<1> QED
  BY <1>2 DEF NewRecord, Record, Statuses

LEMMA ReleasedType ==
    ASSUME NEW r \in Record
    PROVE  /\ Released(r) \in Record /\ Released(r).qr = 0
           /\ Released(r).status = r.status
  BY DEF Released, Record

LEMMA ClosedType ==
    ASSUME NEW r \in Record, NEW outcome \in Outcomes
    PROVE  Closed(r, outcome) \in Record
<1> DEFINE e == [attempt |-> NextAttempt(r), qr |-> r.qr, outcome |-> outcome]
<1>1. NextAttempt(r) \in Nat
  BY DEF NextAttempt, Record
<1>2. e \in Entry
  BY <1>1 DEF Entry, Record
<1>3. Append(r.log, e) \in Seq(Entry)
  BY <1>2 DEF Record
<1> QED
  BY <1>1, <1>3 DEF Closed, Record

LEMMA StatusType ==
    ASSUME NEW r \in Record, NEW s \in Statuses
    PROVE  /\ [r EXCEPT !.status = s] \in Record
           /\ [r EXCEPT !.status = s].qr = r.qr
           /\ [r EXCEPT !.status = s].status = s
  BY DEF Record

LEMMA RequeuedType ==
    ASSUME NEW j \in Jobs, NEW r \in Record
    PROVE  Requeued(j, r) \in Record /\ Requeued(j, r).qr = r.qr
  BY StatusType DEF Requeued, Statuses, Terminal

LEMMA FinishedType ==
    ASSUME NEW r \in Record, NEW outcome \in {"APP", "OK"}
    PROVE  Finished(r, outcome) \in Record /\ Finished(r, outcome).qr = 0
<1>1. Released(Closed(r, outcome)) \in Record /\ Released(Closed(r, outcome)).qr = 0
  BY ClosedType, ReleasedType DEF Outcomes
<1> QED
  BY <1>1, StatusType DEF Finished, Statuses, Terminal

LEMMA RetriedType ==
    ASSUME TypeOK, NEW j \in Jobs
    PROVE  RetriedRecord(j) \in Record /\ RetriedRecord(j).qr \in Known
<1>1. mem[j] \in Record /\ mem[j].qr \in Known
  BY DEF TypeOK, MemoryOK
<1> QED
  BY <1>1, ReleasedType, StatusType DEF RetriedRecord, Statuses, Known

LEMMA LoadedType ==
    ASSUME TypeOK, NEW j \in Jobs
    PROVE  LoadedState(j) \in Record /\ LoadedState(j).qr \in Known
<1>1. statusFile[j] \in Record /\ statusFile[j].qr \in Known
  BY DEF TypeOK, GcsOK
<1>2. NewRecord.qr = 0
  BY DEF NewRecord, NoRecord
<1> QED
  BY <1>1, <1>2, NoRecordType DEF LoadedState, StateOnFile, Known

-----------------------------------------------------------------------------
(* Calls that may fail. *)

LEMMA FaultType ==
    ASSUME BudgetOK, NEW kind, NoFault \/ IsFault(kind)
    PROVE  faults' \in 0..MaxFaults
  BY FaultAssumption DEF BudgetOK, NoFault, IsFault

LEMMA SameNames ==
    ASSUME UNCHANGED qrs
    PROVE  Names' = Names /\ Known' = Known
  BY DEF Names, Known

LEMMA WriteType ==
    ASSUME TypeOK, NEW j \in Jobs, NEW r \in Record, r.qr \in Known,
           WriteStatus(j, r)
    PROVE  /\ mem' \in [Jobs -> Record] /\ statusFile' \in [Jobs -> Record]
           /\ \A k \in Jobs : mem'[k].qr \in Known /\ statusFile'[k].qr \in Known
           /\ faults' \in 0..MaxFaults
<1>1. faults' \in 0..MaxFaults
  BY FaultType DEF WriteStatus, TypeOK
<1> QED
  BY <1>1 DEF WriteStatus, TypeOK, GcsOK, MemoryOK

LEMMA CleanupType ==
    ASSUME TypeOK, NEW q, CleanupResources(q)
    PROVE  /\ CloudOK' /\ Names' = Names /\ Known' = Known
           /\ tracked' \subseteq Names
           /\ faults' \in 0..MaxFaults
<1>1. faults' \in 0..MaxFaults
  BY FaultType DEF CleanupResources, TypeOK
<1>2. \A r \in QR : Deleted(r) \in QR
  BY DEF Deleted, QR, Infra, Worker
<1>3. qrs' \in Seq(QR) /\ DOMAIN qrs' = DOMAIN qrs
  <2>1. \A r \in QR : WithoutVm(r) \in QR
    BY DEF WithoutVm, QR, Worker
  <2>2. \/ qrs' = qrs
        \/ qrs' = [qrs EXCEPT ![q] = Deleted(@)]
        \/ qrs' = [qrs EXCEPT ![q] = WithoutVm(@)]
    BY DEF CleanupResources
  <2> QED
    BY <1>2, <2>1, <2>2 DEF TypeOK, CloudOK
<1>4. tracked' \subseteq Names
  BY DEF CleanupResources, TypeOK, MemoryOK
<1> QED
  BY <1>1, <1>3, <1>4 DEF CloudOK, Names, Known

-----------------------------------------------------------------------------
(* Parts of the state that a step leaves alone, or changes in one way only. *)

LEMMA SameGcs ==
    ASSUME TypeOK, UNCHANGED gcsVars, Known \subseteq Known'
    PROVE  GcsOK'
  BY DEF TypeOK, GcsOK, gcsVars

(* When a submission's time is up nothing moves but filed. *)
LEMMA TimeUpGcs ==
    ASSUME TypeOK, NEW js, TimeUp(js), UNCHANGED qrs,
           UNCHANGED <<statusFile, canceled, retryAsked, claimed, succeeded, failed, snapshot>>
    PROVE  GcsOK'
<1>1. filed' \in [Jobs -> {"new", "spec", "full", "torn", "reaped"}]
  BY DEF TimeUp, TypeOK, GcsOK
<1> QED
  BY <1>1, SameNames DEF TypeOK, GcsOK

LEMMA SameMemory ==
    ASSUME TypeOK, UNCHANGED memVars, Names \subseteq Names'
    PROVE  MemoryOK'
  BY DEF TypeOK, MemoryOK, memVars, Known

LEMMA SameLoop ==
    ASSUME TypeOK, UNCHANGED loopVars, Names \subseteq Names'
    PROVE  LoopOK'
  BY DEF TypeOK, LoopOK, DueOK, loopVars, Known

LEMMA SameBudget ==
    ASSUME TypeOK, UNCHANGED crashes, faults' \in 0..MaxFaults
    PROVE  BudgetOK'
  BY DEF TypeOK, BudgetOK

LEMMA FaultOrNone ==
    ASSUME TypeOK, NEW kind, NoFault \/ IsFault(kind)
    PROVE  faults' \in 0..MaxFaults
  BY FaultType DEF TypeOK

LEMMA DoType ==
    ASSUME NEW task \in Tasks, NEW j \in Jobs, NEW q, q \in Known',
           Do(task, j, q), task = "adopt" => q # 0
    PROVE  DueOK'
  BY DEF Do, DueOK

LEMMA DueKept ==
    ASSUME TypeOK, UNCHANGED due \/ Done, Names \subseteq Names'
    PROVE  DueOK'
  BY DEF TypeOK, LoopOK, DueOK, Done, Known

LEMMA VisitType ==
    ASSUME TypeOK, NEW stage, NEW j, Visit(stage, j),
           Names \subseteq Names', DueOK'
    PROVE  LoopOK'
  BY DEF TypeOK, LoopOK, DueOK, Visit

LEMMA VisitQrType ==
    ASSUME TypeOK, NEW stage, NEW q, VisitQr(stage, q),
           Names \subseteq Names', DueOK'
    PROVE  LoopOK'
  BY DEF TypeOK, LoopOK, DueOK, VisitQr

LEMMA ResumeType ==
    ASSUME TypeOK, NEW d, NEW task, Resume(d, task),
           Names \subseteq Names', DueOK'
    PROVE  LoopOK'
  BY DEF TypeOK, LoopOK, DueOK, Resume

(* A step that saves one record and changes nothing else but tracked.      *)
LEMMA SaveStep ==
    ASSUME TypeOK, NEW j \in Jobs, NEW r \in Record, r.qr \in Known,
           WriteStatus(j, r), LoopOK', tracked' \subseteq Names,
           UNCHANGED <<filed, canceled, retryAsked, claimed, succeeded, failed,
                       snapshot, qrs, backoff, crashes>>
    PROVE  TypeOK'
<1>1. Names' = Names /\ Known' = Known
  BY SameNames
<1>2. /\ mem' \in [Jobs -> Record] /\ statusFile' \in [Jobs -> Record]
      /\ \A k \in Jobs : mem'[k].qr \in Known /\ statusFile'[k].qr \in Known
      /\ faults' \in 0..MaxFaults
  BY WriteType
<1>3. GcsOK'
  BY <1>1, <1>2 DEF TypeOK, GcsOK
<1>4. MemoryOK' /\ CloudOK'
  BY <1>1, <1>2 DEF TypeOK, MemoryOK, CloudOK
<1>5. BudgetOK'
  BY <1>2, SameBudget
<1> QED
  BY <1>3, <1>4, <1>5 DEF TypeOK

(* A step that deletes one QR and changes nothing else but records in memory. *)
LEMMA CleanupStep ==
    ASSUME TypeOK, NEW q, CleanupResources(q), LoopOK',
           mem' \in [Jobs -> Record], \A k \in Jobs : mem'[k].qr \in Known,
           UNCHANGED <<gcsVars, backoff, crashes>>
    PROVE  TypeOK'
<1>1. /\ CloudOK' /\ Names' = Names /\ Known' = Known
      /\ tracked' \subseteq Names
      /\ faults' \in 0..MaxFaults
  BY CleanupType
<1>2. GcsOK' /\ BudgetOK'
  BY <1>1, SameGcs, SameBudget
<1>3. MemoryOK'
  BY <1>1 DEF TypeOK, MemoryOK
<1> QED
  BY <1>1, <1>2, <1>3 DEF TypeOK

(* A step that changes no more than the pipeline and the fault budget.     *)
LEMMA QuietStep ==
    ASSUME TypeOK, UNCHANGED <<gcsVars, qrs, memVars, crashes>>, LoopOK',
           faults' \in 0..MaxFaults
    PROVE  TypeOK'
<1>1. Names' = Names /\ Known' = Known
  BY SameNames
<1> QED
  BY <1>1, SameGcs, SameMemory, SameBudget DEF TypeOK, CloudOK

-----------------------------------------------------------------------------
(* The environment. *)

(* Setting a field of a QR that was created. *)
LEMMA InfraType ==
    ASSUME NEW s \in Seq(QR), NEW q \in DOMAIN s, NEW i \in Infra
    PROVE  /\ [s EXCEPT ![q].infra = i] \in Seq(QR)
           /\ DOMAIN [s EXCEPT ![q].infra = i] = DOMAIN s
<1>1. s[q] \in QR
  OBVIOUS
<1>2. [s[q] EXCEPT !.infra = i] \in QR
  BY <1>1 DEF QR
<1> QED
  BY <1>2

LEMMA WorkerType ==
    ASSUME NEW s \in Seq(QR), NEW q \in DOMAIN s, NEW w \in Worker
    PROVE  /\ [s EXCEPT ![q].worker = w] \in Seq(QR)
           /\ DOMAIN [s EXCEPT ![q].worker = w] = DOMAIN s
<1>1. s[q] \in QR
  OBVIOUS
<1>2. [s[q] EXCEPT !.worker = w] \in QR
  BY <1>1 DEF QR
<1> QED
  BY <1>2

LEMMA FieldsType ==
    ASSUME NEW s \in Seq(QR), NEW q \in DOMAIN s, NEW i \in Infra, NEW w \in Worker
    PROVE  /\ [s EXCEPT ![q].infra = i, ![q].worker = w] \in Seq(QR)
           /\ DOMAIN [s EXCEPT ![q].infra = i, ![q].worker = w] = DOMAIN s
<1> DEFINE t == [s EXCEPT ![q].infra = i]
<1>1. t \in Seq(QR) /\ DOMAIN t = DOMAIN s
  BY InfraType
<1>2. [t EXCEPT ![q].worker = w] \in Seq(QR) /\ DOMAIN [t EXCEPT ![q].worker = w] = DOMAIN t
  <2> HIDE DEF t
  <2> QED
    BY <1>1, WorkerType
<1> QED
  BY <1>1, <1>2

(* What the CLI is shown of a job. *)
LEMMA ViewType ==
    ASSUME NEW r \in Record
    PROVE  View(r) \in [status : Statuses \cup {"ABSENT"}, attempt : Nat, qr : Nat]
  BY DEF View, Record

LEMMA ViewsType ==
    ASSUME TypeOK, NEW v \in Views, NEW j \in Jobs
    PROVE  v[j].attempt \in Nat
<1>1. CASE v = snapshot
  BY <1>1 DEF TypeOK, GcsOK
<1>2. CASE v = Scanned
  <2>1. StateOnFile(j) \in Record /\ NoRecord \in Record
    BY NoRecordType DEF StateOnFile, TypeOK, GcsOK
  <2> QED
    BY <1>2, <2>1, ViewType DEF Scanned
<1> QED
  BY <1>1, <1>2 DEF Views

LEMMA EnvironmentType == ASSUME TypeOK, Environment PROVE TypeOK'
<1>1. UNCHANGED <<memVars, loopVars, budgetVars>>
  BY DEF Environment
<1>2. CASE \E j \in Jobs : Cli(j)
  <2>1. PICK j \in Jobs : Cli(j)
    BY <1>2
  <2>2. UNCHANGED qrs /\ Names' = Names /\ Known' = Known
    BY <2>1, SameNames DEF Cli, Submit, SubmitSpec, SubmitStatus, RequestCancel,
       RequestRetry
  <2>3. NewRecord \in Record /\ NewRecord.qr = 0
    BY NoRecordType DEF NewRecord, NoRecord
  <2>4. GcsOK'
    <3>1. CASE Submit(j) \/ SubmitSpec(j) \/ SubmitStatus(j) \/ RequestCancel(j)
      BY <2>2, <2>3, <3>1 DEF TypeOK, GcsOK, Submit, SubmitSpec, SubmitStatus,
         RequestCancel, Known
    <3>2. CASE RequestRetry(j)
      <4>1. PICK v \in Views : retryAsked' = [retryAsked EXCEPT ![j] = v[j].attempt]
        BY <3>2 DEF RequestRetry
      <4>2. retryAsked' \in [Jobs -> Nat]
        BY <4>1, ViewsType DEF TypeOK, GcsOK
      <4> QED
        BY <2>2, <3>2, <4>2 DEF TypeOK, GcsOK, RequestRetry
    <3> QED
      BY <2>1, <3>1, <3>2 DEF Cli
  <2> QED
    BY <1>1, <2>2, <2>4, SameMemory, SameLoop
       DEF TypeOK, CloudOK, BudgetOK, budgetVars
<1>3. CASE \E q \in Names : CloudOf(q) \/ WorkerOf(q)
  <2>1. PICK q \in Names : CloudOf(q) \/ WorkerOf(q)
    BY <1>3
  <2>2. qrs \in Seq(QR) /\ qrs[q] \in QR
    BY DEF TypeOK, CloudOK, Names
  <2>3. qrs' \in Seq(QR) /\ DOMAIN qrs' = DOMAIN qrs
    <3>1. CASE Grant(q) \/ Suspend(q) \/ Remove(q)
      <4>1. PICK i \in Infra, w \in Worker :
               qrs' = [qrs EXCEPT ![q].infra = i, ![q].worker = w]
        BY <3>1 DEF Grant, Suspend, Remove, Infra, Worker
      <4> QED
        BY <2>2, <4>1, FieldsType DEF Names
    <3>2. CASE Sicken(q)
      BY <2>2, <3>2, InfraType DEF Sicken, Infra, Names
    <3>3. CASE WorkerOf(q)
      <4>1. PICK w \in Worker : qrs' = [qrs EXCEPT ![q].worker = w]
        BY <3>3 DEF WorkerOf, Claim, ReportSuccess, ReportFailure, Vanish, Worker
      <4> QED
        BY <2>2, <4>1, WorkerType DEF Names
    <3> QED
      BY <2>1, <3>1, <3>2, <3>3 DEF CloudOf
  <2>4. CloudOK' /\ Names' = Names /\ Known' = Known
    BY <2>3 DEF CloudOK, Names, Known
  <2>5. AttemptOf(q) \in Jobs \X Nat
    BY <2>2 DEF AttemptOf, QR
  <2>6. GcsOK'
    BY <2>1, <2>4, <2>5 DEF TypeOK, GcsOK, CloudOf, WorkerOf, Grant, Sicken,
       Suspend, Remove, Claim, ReportSuccess, ReportFailure, Vanish, gcsVars
  <2> QED
    BY <1>1, <2>4, <2>6, SameMemory, SameLoop
       DEF TypeOK, BudgetOK, budgetVars
<1> QED
  BY <1>2, <1>3 DEF Environment

-----------------------------------------------------------------------------
(* The stages of run_once, one lemma per action. *)

LEMMA ScanType == ASSUME TypeOK, ScanJobs PROVE TypeOK'
<1>1. PICK complete \in BOOLEAN, got \in SUBSET Loadable :
         /\ faults' \in 0..MaxFaults
         /\ Load(got)
         /\ phase' \in Phases
         /\ late' \in BOOLEAN
  <2>1. PICK c \in BOOLEAN, g \in SUBSET Loadable :
           /\ NoFault \/ IsFault("scan")
           /\ Load(g)
           /\ phase' = IF MayProceed(c) THEN "scan" ELSE "idle"
           /\ late' = (late \/ ~c)
    BY DEF ScanJobs
  <2> QED
    BY <2>1, FaultOrNone DEF Phases
<1>2. UNCHANGED <<qrs, backoff, jobsLeft, qrsLeft, due, crashes>> /\ GcsOK'
  BY TimeUpGcs DEF ScanJobs
<1>3. Names' = Names /\ Known' = Known
  BY <1>2, SameNames
<1>4. got \subseteq Jobs
  BY <1>1 DEF Loadable, Missing, Listed
<1>5. mem' \in [Jobs -> Record] /\ \A j \in Jobs : mem'[j].qr \in Known
  BY <1>1, <1>4, LoadedType DEF Load, TypeOK, MemoryOK
<1>6. tracked' \subseteq Names
  BY <1>1, <1>4 DEF Load, Adopted, TypeOK, GcsOK, MemoryOK, Known
<1>7. MemoryOK' /\ LoopOK'
  BY <1>1, <1>2, <1>3, <1>5, <1>6 DEF TypeOK, MemoryOK, LoopOK, DueOK
<1> QED
  BY <1>1, <1>2, <1>3, <1>7, SameBudget DEF TypeOK, CloudOK

LEMMA RefreshType ==
    ASSUME TypeOK, NEW j \in Jobs, RefreshState(j)
    PROVE  TypeOK'
<1>1. /\ Visit("refresh", j) /\ UNCHANGED <<gcsVars, qrs, backoff, due, crashes>>
      /\ NoFault \/ IsFault("refresh")
  BY DEF RefreshState, Visit
<1>2. statusFile[j] \in Record /\ statusFile[j].qr \in Known
  BY DEF TypeOK, GcsOK
<1>3. Names' = Names /\ Known' = Known
  BY <1>1, SameNames
<1>4. mem' \in [Jobs -> Record] /\ \A k \in Jobs : mem'[k].qr \in Known
  BY <1>2 DEF RefreshState, TypeOK, MemoryOK
<1>5. tracked' \subseteq Names
  BY <1>2 DEF RefreshState, Adopted, TypeOK, MemoryOK, Known
<1>6. MemoryOK' /\ CloudOK'
  BY <1>1, <1>3, <1>4, <1>5 DEF TypeOK, MemoryOK, CloudOK
<1>7. LoopOK' /\ GcsOK' /\ BudgetOK'
  BY <1>1, <1>3, DueKept, VisitType, SameGcs, SameBudget, FaultOrNone
<1> QED
  BY <1>6, <1>7 DEF TypeOK

LEMMA CheckCanceledType ==
    ASSUME TypeOK, NEW j \in Jobs, CheckCanceled(j)
    PROVE  TypeOK'
<1>1. Visit("cancel", j) /\ UNCHANGED <<gcsVars, backoff, crashes>>
  BY DEF CheckCanceled, Visit
<1>2. mem[j] \in Record
  BY DEF TypeOK, MemoryOK
<1>3. CASE CancelJob(j)
  <2> DEFINE r == [Released(mem[j]) EXCEPT !.status = "CANCELED"]
  <2>1. r \in Record /\ r.qr = 0
    BY <1>2, ReleasedType, StatusType DEF Statuses, Terminal
  <2>2. mem' \in [Jobs -> Record] /\ \A k \in Jobs : mem'[k].qr \in Known
    BY <1>3, <2>1 DEF CancelJob, TypeOK, MemoryOK, Known
  <2>3. Names' = Names /\ Known' = Known
    BY <1>3, CleanupType, SameNames DEF CancelJob
  <2>4. LoopOK'
    BY <1>1, <1>3, <2>3, DoType, VisitType DEF CancelJob, Tasks, Known
  <2>5. CASE CleanupResources(mem[j].qr)
    BY <1>1, <2>2, <2>4, <2>5, CleanupStep
  <2>6. CASE NoFault /\ UNCHANGED <<qrs, tracked>>
    <3>1. MemoryOK' /\ CloudOK'
      BY <1>1, <2>2, <2>3, <2>6 DEF TypeOK, MemoryOK, CloudOK
    <3>2. GcsOK' /\ BudgetOK'
      BY <1>1, <2>3, <2>6, SameGcs, SameBudget, FaultOrNone
    <3> QED
      BY <2>4, <3>1, <3>2 DEF TypeOK
  <2> QED
    BY <1>3, <2>5, <2>6 DEF CancelJob
<1>4. CASE j \notin canceled
  <2>1. NoFault /\ UNCHANGED <<qrs, memVars, due>>
    BY <1>4 DEF CheckCanceled, memVars
  <2>2. LoopOK' /\ faults' \in 0..MaxFaults
    BY <1>1, <2>1, SameNames, DueKept, VisitType, FaultOrNone
  <2> QED
    BY <1>1, <2>1, <2>2, QuietStep
<1> QED
  BY <1>3, <1>4 DEF CheckCanceled

LEMMA QrType ==
    ASSUME TypeOK, NEW q \in Names
    PROVE  /\ qrs[q] \in QR
           /\ qrs[q].job \in Jobs
           /\ Described(q) # "none" => Described(q) \in QrStates
<1>1. qrs[q] \in QR
  BY DEF TypeOK, CloudOK, Names
<1>2. qrs[q].job \in Jobs /\ qrs[q].infra \in Infra
  BY <1>1 DEF QR
<1> QED
  BY <1>1, <1>2 DEF Described, Infra, QrStates

LEMMA PollType ==
    ASSUME TypeOK, NEW q \in Names, PollQueuedResource(q)
    PROVE  TypeOK'
<1> DEFINE j == qrs[q].job
<1>1. VisitQr("poll", q) /\ UNCHANGED crashes
  BY DEF PollQueuedResource, PollForgotten, PollReplaced, PollDisappeared,
     PollDescribed, VisitQr
<1>2. j \in Jobs
  BY QrType
<1>3. mem[j] \in Record /\ mem[j].qr \in Known
  BY <1>2 DEF TypeOK, MemoryOK
<1>4. CASE PollForgotten(q)
  <2>1. /\ UNCHANGED <<gcsVars, qrs, mem, backoff, due>> /\ NoFault
        /\ tracked' = tracked \ {q}
    BY <1>4 DEF PollForgotten
  <2>2. Names' = Names /\ Known' = Known
    BY <2>1, SameNames
  <2>3. LoopOK' /\ GcsOK' /\ BudgetOK'
    BY <1>1, <2>1, <2>2, DueKept, VisitQrType, SameGcs, SameBudget, FaultOrNone
  <2>4. MemoryOK' /\ CloudOK'
    BY <2>1, <2>2 DEF TypeOK, MemoryOK, CloudOK
  <2> QED
    BY <2>3, <2>4 DEF TypeOK
<1>5. CASE PollReplaced(q)
  <2>1. CleanupResources(q) /\ UNCHANGED <<gcsVars, mem, backoff, due>>
    BY <1>5 DEF PollReplaced
  <2>2. LoopOK'
    BY <1>1, <2>1, CleanupType, DueKept, VisitQrType
  <2>3. mem' \in [Jobs -> Record] /\ \A k \in Jobs : mem'[k].qr \in Known
    BY <2>1 DEF TypeOK, MemoryOK
  <2> QED
    BY <1>1, <2>1, <2>2, <2>3, CleanupStep
<1>6. CASE PollDisappeared(q)
  <2>1. /\ UNCHANGED <<gcsVars, qrs, memVars>> /\ Do("preempt", j, q)
        /\ NoFault \/ IsFault("describe")
    BY <1>6 DEF PollDisappeared, memVars
  <2>2. LoopOK' /\ faults' \in 0..MaxFaults
    BY <1>1, <1>2, <2>1, SameNames, DoType, VisitQrType, FaultOrNone DEF Tasks, Known
  <2> QED
    BY <1>1, <2>1, <2>2, QuietStep
<1>7. CASE PollDescribed(q)
  <2> DEFINE s == Described(q)
             r == [mem[j] EXCEPT !.qrState = s]
  <2>1. s \in QrStates
    BY <1>7, QrType DEF PollDescribed
  <2>2. r \in Record /\ r.qr \in Known
    BY <1>3, <2>1 DEF Record
  <2>3. UNCHANGED <<filed, canceled, retryAsked, claimed, succeeded, failed,
                    snapshot, qrs, tracked, backoff>>
    BY <1>7 DEF PollDescribed
  <2>4. UNCHANGED due \/ Do("examine", j, q) \/ Do("preempt", j, q)
    BY <1>7 DEF PollDescribed, HandleState
  <2>5. LoopOK'
    BY <1>1, <1>2, <2>3, <2>4, SameNames, DueKept, DoType, VisitQrType DEF Tasks, Known
  <2>6. CASE WriteStatus(j, r)
    <3> HIDE DEF r
    <3>1. tracked' \subseteq Names
      BY <2>3 DEF TypeOK, MemoryOK
    <3> QED
      BY <1>1, <1>2, <2>2, <2>3, <2>5, <2>6, <3>1, SaveStep
  <2>7. CASE NoFault /\ UNCHANGED <<mem, statusFile>>
    <3>1. UNCHANGED <<gcsVars, memVars>>
      BY <2>3, <2>7 DEF gcsVars, memVars
    <3> QED
      BY <1>1, <2>3, <2>5, <2>7, <3>1, QuietStep, FaultOrNone
  <2> QED
    BY <1>7, <2>6, <2>7 DEF PollDescribed
<1> QED
  BY <1>4, <1>5, <1>6, <1>7 DEF PollQueuedResource

LEMMA CheckCompletedType ==
    ASSUME TypeOK, NEW j \in Jobs, CheckCompleted(j) \/ CheckCompletedMissingReport(j)
    PROVE  TypeOK'
<1>1. /\ Visit("complete", j)
      /\ UNCHANGED <<filed, canceled, retryAsked, claimed, succeeded, failed,
                     snapshot, qrs, tracked, backoff, crashes>>
  BY DEF CheckCompleted, CheckCompletedMissingReport, Visit
<1>2. mem[j] \in Record /\ mem[j].qr \in Known /\ tracked \subseteq Names
  BY DEF TypeOK, MemoryOK
<1>3. Names' = Names /\ Known' = Known
  BY <1>1, SameNames
<1>4. ASSUME NEW outcome \in {"APP", "OK"}, Do("cleanup", j, mem[j].qr),
             mem' = [mem EXCEPT ![j] = Finished(mem[j], outcome)],
             statusFile' \in {statusFile, [statusFile EXCEPT ![j] = Finished(mem[j], outcome)]},
             faults' \in 0..MaxFaults
      PROVE  TypeOK'
  <2>1. Finished(mem[j], outcome) \in Record /\ Finished(mem[j], outcome).qr \in Known
    BY <1>2, FinishedType DEF Known
  <2>2. MemoryOK' /\ GcsOK' /\ CloudOK'
    BY <1>1, <1>3, <1>4, <2>1 DEF TypeOK, MemoryOK, GcsOK, CloudOK
  <2>3. LoopOK' /\ BudgetOK'
    BY <1>1, <1>2, <1>3, <1>4, DoType, VisitType, SameBudget DEF Tasks
  <2> QED
    BY <2>2, <2>3 DEF TypeOK
<1>5. ASSUME UNCHANGED <<mem, statusFile, due>>, faults' \in 0..MaxFaults
      PROVE  TypeOK'
  <2>1. LoopOK'
    BY <1>1, <1>3, <1>5, DueKept, VisitType
  <2>2. UNCHANGED <<gcsVars, qrs, memVars, crashes>>
    BY <1>1, <1>5 DEF gcsVars, memVars
  <2> QED
    BY <1>5, <2>1, <2>2, QuietStep
<1>6. NoFault \/ IsFault("read") \/ IsFault("save") => faults' \in 0..MaxFaults
  BY FaultOrNone
<1>7. CASE CheckCompleted(j)
  <2>1. CASE \E outcome \in {"APP", "OK"} : FinishJob(j, outcome)
    BY <1>4, <1>6, <2>1 DEF FinishJob, WriteStatus
  <2>2. CASE NoFault /\ UNCHANGED <<mem, statusFile, due>>
    BY <1>5, <1>6, <2>2
  <2> QED
    BY <1>7, <2>1, <2>2 DEF CheckCompleted
<1>8. CASE CheckCompletedMissingReport(j)
  BY <1>4, <1>5, <1>6, <1>8 DEF CheckCompletedMissingReport
<1> QED
  BY <1>7, <1>8

LEMMA CheckRetryType ==
    ASSUME TypeOK, NEW j \in Jobs, CheckRetry(j)
    PROVE  TypeOK'
<1>1. /\ Visit("retry", j)
      /\ NoFault \/ IsFault("unmark")
      /\ retryAsked' \in {retryAsked, [retryAsked EXCEPT ![j] = 0]}
      /\ UNCHANGED due \/ Do("requeue", j, 0)
      /\ UNCHANGED <<filed, statusFile, canceled, claimed, succeeded, failed,
                     snapshot, qrs, memVars, crashes>>
  BY DEF CheckRetry, Visit
<1>2. Names' = Names /\ Known' = Known
  BY <1>1, SameNames
<1>3. LoopOK' /\ BudgetOK'
  BY <1>1, <1>2, DueKept, DoType, VisitType, SameBudget, FaultOrNone DEF Tasks, Known
<1>4. retryAsked' \in [Jobs -> Nat]
  BY <1>1 DEF TypeOK, GcsOK
<1>5. GcsOK'
  BY <1>1, <1>2, <1>4 DEF TypeOK, GcsOK
<1>6. MemoryOK' /\ CloudOK'
  BY <1>1, <1>2, SameMemory DEF TypeOK, CloudOK
<1> QED
  BY <1>3, <1>5, <1>6 DEF TypeOK

LEMMA ScheduleType ==
    ASSUME TypeOK, NEW j \in Jobs,
           PassOver(j) \/ CreateQueuedResource(j) \/ CreateFails(j)
    PROVE  TypeOK'
<1>1. /\ Visit("schedule", j)
      /\ UNCHANGED <<gcsVars, mem, tracked, crashes>>
      /\ backoff' \subseteq backoff \cup {j}
      /\ NoFault \/ IsFault("create")
      /\ qrs' = qrs \/ qrs' = Append(qrs, NewQR(j, NextAttempt(mem[j])))
      /\ UNCHANGED due \/ (Do("adopt", j, Len(qrs) + 1) /\ qrs' # qrs)
  <2>1. CASE PassOver(j)
    BY <2>1 DEF PassOver, Visit, memVars
  <2>2. CASE CreateQueuedResource(j)
    <3>1. Append(qrs, NewQR(j, NextAttempt(mem[j]))) # qrs
      BY DEF TypeOK, CloudOK
    <3> QED
      BY <2>2, <3>1 DEF CreateQueuedResource, Visit, memVars
  <2>3. CASE CreateFails(j)
    BY <2>3 DEF CreateFails, Visit
  <2> QED
    BY <2>1, <2>2, <2>3
<1>2. NewQR(j, NextAttempt(mem[j])) \in QR
  BY DEF NewQR, NextAttempt, QR, Infra, Worker, TypeOK, MemoryOK, Record
<1>3. qrs \in Seq(QR) /\ Names = 1..Len(qrs)
  BY DEF TypeOK, CloudOK, Names
<1>4. /\ qrs' \in Seq(QR) /\ Names \subseteq Names' /\ Known \subseteq Known'
      /\ qrs' # qrs => Len(qrs) + 1 \in Names'
  BY <1>1, <1>2, <1>3 DEF Names, Known
<1>5. DueOK'
  BY <1>1, <1>4, DueKept, DoType DEF Tasks, Known
<1>6. LoopOK' /\ GcsOK' /\ BudgetOK'
  BY <1>1, <1>4, <1>5, VisitType, SameGcs, SameBudget, FaultOrNone
<1>7. MemoryOK'
  BY <1>1, <1>4 DEF TypeOK, MemoryOK
<1> QED
  BY <1>4, <1>6, <1>7 DEF TypeOK, CloudOK

LEMMA ReapType ==
    ASSUME TypeOK, NEW j \in Jobs, ReapTerminal(j) \/ ReapFails(j) \/ NotYetExpired(j)
    PROVE  TypeOK'
<1>1. /\ Visit("reap", j)
      /\ UNCHANGED <<snapshot, qrs, tracked, backoff, due, crashes>>
      /\ NoFault \/ IsFault("reap")
  BY DEF ReapTerminal, ReapFails, NotYetExpired, Visit, gcsVars, memVars
<1>2. Names' = Names /\ Known' = Known
  BY <1>1, SameNames
<1>3. LoopOK' /\ BudgetOK' /\ CloudOK'
  BY <1>1, <1>2, DueKept, VisitType, SameBudget, FaultOrNone DEF TypeOK, CloudOK
<1>4. NoRecord \in Record /\ NoRecord.qr \in Known
  BY NoRecordType DEF NoRecord, Known
<1>5. MemoryOK'
  BY <1>1, <1>2, <1>4 DEF TypeOK, MemoryOK, ReapTerminal, ReapFails, NotYetExpired,
     Forget, memVars
<1>6. GcsOK'
  <2>1. CASE ReapTerminal(j)
    BY <1>1, <1>2, <1>4, <2>1 DEF TypeOK, GcsOK, ReapTerminal, NotOf
  <2>2. CASE ReapFails(j)
    <3>1. /\ filed' \in [Jobs -> {"new", "spec", "full", "torn", "reaped"}]
          /\ canceled' \subseteq Jobs /\ retryAsked' \in [Jobs -> Nat]
      BY <2>2 DEF TypeOK, GcsOK, ReapFails
    <3>2. /\ claimed' \subseteq Jobs \X Nat /\ succeeded' \subseteq Jobs \X Nat
          /\ failed' \subseteq Jobs \X Nat
      BY <2>2 DEF TypeOK, GcsOK, ReapFails, SomeOf
    <3>3. /\ statusFile' \in [Jobs -> Record]
          /\ \A k \in Jobs : statusFile'[k].qr \in Known
      BY <1>4, <2>2 DEF TypeOK, GcsOK, ReapFails
    <3> QED
      BY <1>1, <1>2, <3>1, <3>2, <3>3 DEF TypeOK, GcsOK
  <2>3. CASE NotYetExpired(j)
    BY <1>2, <2>3, SameGcs DEF NotYetExpired
  <2> QED
    BY <2>1, <2>2, <2>3
<1> QED
  BY <1>3, <1>5, <1>6 DEF TypeOK

LEMMA ReconcileType ==
    ASSUME TypeOK, NEW q, ReconcileOrphan(q)
    PROVE  TypeOK'
<1>1. /\ VisitQr("reconcile", q) /\ CleanupResources(q)
      /\ UNCHANGED <<gcsVars, mem, backoff, due, crashes>>
  BY DEF ReconcileOrphan, VisitQr
<1>2. LoopOK'
  BY <1>1, CleanupType, DueKept, VisitQrType
<1> QED
  BY <1>1, <1>2, CleanupStep DEF TypeOK, MemoryOK

-----------------------------------------------------------------------------
(* The rest of a handler. *)

LEMMA CarryType ==
    ASSUME TypeOK, NEW d \in due, Carry(d)
    PROVE  TypeOK'
<1>1. /\ d.job \in Jobs /\ d.qr \in Known /\ UNCHANGED crashes
      /\ mem[d.job] \in Record /\ mem[d.job].qr \in Known
  <2>1. d.job \in Jobs /\ d.qr \in Known
    BY DEF TypeOK, LoopOK, DueOK
  <2>2. UNCHANGED crashes
    BY DEF Carry, SaveStatus, CleanupFinished, Requeue, AdoptQr, HandlePreemption,
       ExamineSickVm, ExamineStarted, ExamineTimeout, ExamineInTime, Resume
  <2> QED
    BY <2>1, <2>2 DEF TypeOK, MemoryOK
<1>2. UNCHANGED qrs => Names' = Names /\ Known' = Known
  BY SameNames
<1>3. tracked \subseteq Names
  BY DEF TypeOK, MemoryOK
<1>4. CASE SaveStatus(d)
  <2>1. LoopOK'
    BY <1>2, <1>4, DueKept, ResumeType DEF SaveStatus
  <2> QED
    BY <1>1, <1>3, <1>4, <2>1, SaveStep DEF SaveStatus
<1>5. CASE CleanupFinished(d)
  <2>1. LoopOK'
    BY <1>5, CleanupType, DueKept, ResumeType DEF CleanupFinished
  <2> QED
    BY <1>1, <1>5, <2>1, CleanupStep DEF CleanupFinished, TypeOK, MemoryOK
<1>6. CASE Requeue(d)
  <2>1. LoopOK'
    BY <1>2, <1>6, DueKept, ResumeType DEF Requeue
  <2> QED
    BY <1>1, <1>3, <1>6, <2>1, RetriedType, SaveStep DEF Requeue
<1>7. CASE AdoptQr(d)
  <2> DEFINE r == [mem[d.job] EXCEPT !.status = "PROVISIONING", !.qr = d.qr,
                                     !.qrState = "WAITING"]
  <2>1. r \in Record /\ r.qr = d.qr
    <3>1. Known \subseteq Nat
      BY DEF Known, Names, TypeOK, CloudOK
    <3> QED
      BY <1>1, <3>1 DEF Record, Statuses, Holding, QrStates
  <2>2. /\ Resume(d, "adopt") /\ Done /\ WriteStatus(d.job, r)
        /\ tracked' = tracked \cup {d.qr}
        /\ UNCHANGED <<filed, canceled, retryAsked, claimed, succeeded, failed,
                       snapshot, qrs, backoff>>
    BY <1>7 DEF AdoptQr
  <2> HIDE DEF r
  <2>3. d.qr # 0
    BY <2>2 DEF Resume, TypeOK, LoopOK, DueOK
  <2>4. LoopOK'
    BY <1>2, <2>2, DueKept, ResumeType
  <2> QED
    BY <1>1, <1>3, <2>1, <2>2, <2>3, <2>4, SaveStep DEF Known
<1>8. CASE HandlePreemption(d)
  <2> DEFINE r == Requeued(d.job, Released(Closed(mem[d.job], "INFRA")))
  <2>1. r \in Record /\ r.qr = 0
    BY <1>1, ClosedType, ReleasedType, RequeuedType DEF Outcomes
  <2>2. /\ mem' = [mem EXCEPT ![d.job] = r]
        /\ CleanupResources(d.qr) /\ Do("save", d.job, 0) /\ Resume(d, "preempt")
        /\ UNCHANGED <<gcsVars, backoff>>
    BY <1>8 DEF HandlePreemption
  <2> HIDE DEF r
  <2>3. Names' = Names /\ Known' = Known
    BY <2>2, CleanupType
  <2>4. mem' \in [Jobs -> Record] /\ \A k \in Jobs : mem'[k].qr \in Known
    BY <2>1, <2>2 DEF TypeOK, MemoryOK, Known
  <2>5. LoopOK'
    BY <1>1, <2>2, <2>3, DoType, ResumeType DEF Tasks, Known
  <2> QED
    BY <1>1, <2>2, <2>4, <2>5, CleanupStep
<1>9. CASE ExamineStarted(d)
  <2>1. LoopOK'
    BY <1>2, <1>9, DueKept, ResumeType DEF ExamineStarted
  <2>2. [mem[d.job] EXCEPT !.status = "RUNNING"] \in Record
        /\ [mem[d.job] EXCEPT !.status = "RUNNING"].qr \in Known
    BY <1>1, StatusType DEF Statuses, Holding
  <2> QED
    BY <1>1, <1>3, <1>9, <2>1, <2>2, SaveStep DEF ExamineStarted
<1>10. CASE ExamineSickVm(d) \/ ExamineTimeout(d) \/ ExamineInTime(d)
  <2>1. /\ UNCHANGED <<gcsVars, qrs, memVars>> /\ Resume(d, "examine")
        /\ Done \/ Do("preempt", d.job, d.qr)
        /\ NoFault \/ IsFault("probe")
    BY <1>10 DEF ExamineSickVm, ExamineTimeout, ExamineInTime, NoClaimTimeout,
       HeartbeatTimeout
  <2>2. LoopOK'
    BY <1>1, <1>2, <2>1, DueKept, DoType, ResumeType DEF Tasks
  <2> QED
    BY <1>1, <2>1, <2>2, QuietStep, FaultOrNone
<1> QED
  BY <1>4, <1>5, <1>6, <1>7, <1>8, <1>9, <1>10 DEF Carry

-----------------------------------------------------------------------------
(* The loop, and the process. *)

LEMMA StageType ==
    ASSUME TypeOK, NEW p \in DOMAIN Place
    PROVE  p \in Phases /\ JobsFor(p) \subseteq Jobs /\ QrsFor(p) \subseteq Names
<1>1. Loaded \subseteq Jobs /\ tracked \subseteq Names /\ Orphans \subseteq Names
  BY DEF Loaded, Orphans, TypeOK, MemoryOK
<1>2. p \in Phases
  BY DEF Place, Phases
<1>3. JobsFor(p) \subseteq Jobs
  BY <1>1 DEF JobsFor, Attended
<1>4. QrsFor(p) \subseteq Names
  BY <1>1 DEF QrsFor
<1> QED
  BY <1>2, <1>3, <1>4

LEMMA MoveOnType ==
    ASSUME TypeOK, EndIteration \/ \E p \in DOMAIN Place : Advance(p)
    PROVE  TypeOK'
<1>1. /\ UNCHANGED <<gcsVars, qrs, memVars, due, budgetVars>>
      /\ phase' \in Phases /\ jobsLeft' \subseteq Jobs /\ qrsLeft' \subseteq Names
  BY StageType DEF EndIteration, Advance, Phases, TypeOK, LoopOK
<1>2. late' \in BOOLEAN
  BY DEF EndIteration, Advance, LateFor
<1>3. Names' = Names /\ Known' = Known
  BY <1>1, SameNames
<1>4. LoopOK' /\ faults' \in 0..MaxFaults /\ crashes' = crashes
  BY <1>1, <1>2, <1>3 DEF LoopOK, DueOK, TypeOK, BudgetOK, budgetVars
<1> QED
  BY <1>1, <1>4, QuietStep

LEMMA PublishType == ASSUME TypeOK, WriteSchedulerState PROVE TypeOK'
<1>1. UNCHANGED <<filed, statusFile, canceled, retryAsked, claimed, succeeded,
                  failed, qrs, memVars, jobsLeft, qrsLeft, due, late, budgetVars>>
  BY DEF WriteSchedulerState
<1>2. Names' = Names /\ Known' = Known
  BY <1>1, SameNames
<1>3. \A j \in Jobs : mem[j] \in Record
  BY DEF TypeOK, MemoryOK
<1>4. snapshot' \in [Jobs -> [status : Statuses \cup {"ABSENT"}, attempt : Nat, qr : Nat]]
  BY <1>3, ViewType DEF WriteSchedulerState, Published
<1>5. phase' = "idle"
  BY DEF WriteSchedulerState
<1>6. GcsOK' /\ LoopOK'
  BY <1>1, <1>2, <1>4, <1>5 DEF TypeOK, GcsOK, LoopOK, DueOK, Phases
<1>7. MemoryOK' /\ CloudOK' /\ BudgetOK'
  BY <1>1, <1>2, SameMemory DEF TypeOK, CloudOK, BudgetOK, budgetVars
<1> QED
  BY <1>6, <1>7 DEF TypeOK

LEMMA UnwindType == ASSUME Unwind PROVE LoopOK'
  BY DEF Unwind, LoopOK, DueOK, Phases

LEMMA ProcessType == ASSUME TypeOK, Abort \/ Crash PROVE TypeOK'
<1>1. LoopOK' /\ UNCHANGED qrs
  BY UnwindType DEF Abort, Crash
<1>2. Names' = Names /\ Known' = Known
  BY <1>1, SameNames
<1>3. CASE Abort
  BY <1>1, <1>3, QuietStep, FaultOrNone DEF Abort
<1>4. CASE Crash
  <2>1. crashes' \in 0..MaxCrashes /\ faults' = faults
    BY <1>4, FaultAssumption DEF Crash, TypeOK, BudgetOK
  <2>2. MemoryOK'
    BY <1>4, NoRecordType DEF Crash, MemoryOK, NoRecord, Known
  <2>3. GcsOK' /\ CloudOK' /\ BudgetOK'
    BY <1>1, <1>4, <2>1, TimeUpGcs DEF Crash, TypeOK, CloudOK, BudgetOK
  <2> QED
    BY <1>1, <2>2, <2>3 DEF TypeOK
<1> QED
  BY <1>3, <1>4

LEMMA SchedulerType == ASSUME TypeOK, Scheduler PROVE TypeOK'
<1>1. jobsLeft \subseteq Jobs /\ qrsLeft \subseteq Names
  BY DEF TypeOK, LoopOK
<1>2. ASSUME NEW j \in jobsLeft, VisitJob(j) PROVE TypeOK'
  BY <1>1, <1>2, RefreshType, CheckCanceledType, CheckCompletedType, CheckRetryType,
     ScheduleType, ReapType DEF VisitJob
<1>3. ASSUME NEW q \in qrsLeft, VisitName(q) PROVE TypeOK'
  BY <1>1, <1>3, PollType, ReconcileType DEF VisitName
<1> QED
  BY <1>2, <1>3, ScanType, PublishType, MoveOnType, CarryType DEF Scheduler

LEMMA NextType == ASSUME TypeOK, Next PROVE TypeOK'
<1>1. ASSUME NEW j \in backoff, BackoffOver(j) PROVE TypeOK'
  <2>1. UNCHANGED <<gcsVars, qrs, mem, tracked, loopVars, budgetVars>>
        /\ backoff' \subseteq backoff
    BY <1>1 DEF BackoffOver
  <2>2. Names' = Names /\ Known' = Known
    BY <2>1, SameNames
  <2> QED
    BY <2>1, <2>2, SameGcs, SameLoop DEF TypeOK, MemoryOK, CloudOK, BudgetOK, budgetVars
<1> QED
  BY <1>1, EnvironmentType, SchedulerType, ProcessType DEF Next

LEMMA InitType == Init => TypeOK
<1> SUFFICES ASSUME Init PROVE TypeOK
  OBVIOUS
<1>1. NoRecord \in Record /\ NoRecord.qr = 0
  BY NoRecordType DEF NoRecord
<1>2. GcsOK
  BY <1>1, ViewType DEF Init, GcsOK, Known
<1>3. MemoryOK /\ CloudOK
  BY <1>1 DEF Init, MemoryOK, CloudOK, Known
<1>4. LoopOK
  BY DEF Init, LoopOK, DueOK, Phases
<1>5. BudgetOK
  BY FaultAssumption DEF Init, BudgetOK
<1> QED
  BY <1>2, <1>3, <1>4, <1>5 DEF TypeOK

(* Through every interleaving of users, cloud, workers and scheduler, any   *)
(* crash and any failing call, the job directories, the cloud, the         *)
(* scheduler's memory and its pipeline keep their shape; in particular no  *)
(* record, tracked set or pending task names a QR that was never created   *)
(* (scheduler.py:47-57, 516-552).                                          *)
THEOREM TypeCorrect == Spec => []TypeOK
<1>1. TypeOK /\ [Next]_vars => TypeOK'
  <2> SUFFICES ASSUME TypeOK, [Next]_vars PROVE TypeOK'
    OBVIOUS
  <2>1. CASE UNCHANGED vars
    <3>1. UNCHANGED <<gcsVars, qrs, memVars, loopVars, budgetVars>>
      BY <2>1 DEF vars
    <3> QED
      BY <3>1, SameNames, SameGcs, SameMemory, SameLoop
         DEF TypeOK, CloudOK, BudgetOK, budgetVars
  <2> QED
    BY <2>1, NextType
<1> QED
  BY InitType, <1>1, PTL DEF Spec
=============================================================================
