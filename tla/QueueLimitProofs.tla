-------------------------- MODULE QueueLimitProofs --------------------------
(***************************************************************************)
(* Quotas of resource groups and chip limits of users hold in memory and   *)
(* through every restart, for any number of jobs, attempts and crashes and *)
(* whatever calls fail, as long as each decision reaches status.json: no   *)
(* write of it is lost, and no exception comes between the two.            *)
(***************************************************************************)
EXTENDS QueueCapacityProofs, FiniteSetTheorems

(* Chips, counted. *)
UnitsOf(j) == {j} \X (1..Chips[j])

LEMMA ChipsOfOne ==
    ASSUME NEW j \in Jobs
    PROVE  IsFiniteSet(UnitsOf(j)) /\ Cardinality(UnitsOf(j)) = Chips[j]
<1>1. Chips[j] \in Nat
  BY SpecAssumption
<1>2. IsFiniteSet({j}) /\ Cardinality({j}) = 1
  BY FS_Singleton
<1>3. IsFiniteSet(1..Chips[j]) /\ Cardinality(1..Chips[j]) = Chips[j]
  BY <1>1, FS_Interval
<1>4. /\ IsFiniteSet({j} \X (1..Chips[j]))
      /\ Cardinality({j} \X (1..Chips[j])) = Cardinality({j}) * Cardinality(1..Chips[j])
  BY <1>2, <1>3, FS_Product
<1> QED
  BY <1>1, <1>2, <1>3, <1>4 DEF UnitsOf

LEMMA UnitsFinite ==
    ASSUME NEW S \in SUBSET Jobs, IsFiniteSet(S)
    PROVE  IsFiniteSet(Units(S)) /\ Usage(S) \in Nat
<1> DEFINE T == {UnitsOf(j) : j \in S}
           f == [j \in S |-> UnitsOf(j)]
<1>1. f \in Surjection(S, T)
  BY DEF Surjection
<1>2. IsFiniteSet(T)
  BY <1>1, FS_Surjection
<1>3. \A t \in T : IsFiniteSet(t)
  BY ChipsOfOne
<1>4. IsFiniteSet(UNION T)
  BY <1>2, <1>3, FS_UNION
<1>5. Units(S) = UNION T
  BY DEF Units, UnitsOf
<1> QED
  BY <1>4, <1>5, FS_CardinalityType DEF Usage

LEMMA UsageOfFewer ==
    ASSUME NEW S \in SUBSET Jobs, IsFiniteSet(S), NEW R \in SUBSET S
    PROVE  Usage(R) \in Nat /\ Usage(S) \in Nat /\ Usage(R) <= Usage(S)
<1>1. IsFiniteSet(R)
  BY FS_Subset
<1>2. Units(R) \subseteq Units(S)
  BY DEF Units
<1>3. IsFiniteSet(Units(S))
  BY UnitsFinite
<1>4. Cardinality(Units(R)) <= Cardinality(Units(S))
  BY <1>2, <1>3, FS_Subset
<1> QED
  BY <1>1, <1>4, UnitsFinite DEF Usage

LEMMA UsageWithOneMore ==
    ASSUME NEW S \in SUBSET Jobs, IsFiniteSet(S), NEW j \in Jobs
    PROVE  Usage(S \cup {j}) <= Usage(S) + Chips[j]
<1>1. Units(S \cup {j}) = Units(S) \cup UnitsOf(j)
  BY DEF Units, UnitsOf
<1>2. IsFiniteSet(Units(S)) /\ Cardinality(Units(S)) \in Nat
  BY UnitsFinite DEF Usage
<1>3. IsFiniteSet(UnitsOf(j)) /\ Cardinality(UnitsOf(j)) = Chips[j] /\ Chips[j] \in Nat
  BY ChipsOfOne, SpecAssumption
<1>4. Cardinality(Units(S) \cup UnitsOf(j)) =
        Cardinality(Units(S)) + Cardinality(UnitsOf(j)) - Cardinality(Units(S) \cap UnitsOf(j))
  BY <1>2, <1>3, FS_Union
<1>5. Cardinality(Units(S) \cap UnitsOf(j)) \in Nat
  BY <1>2, FS_Intersection, FS_CardinalityType
<1> DEFINE both == Cardinality(Units(S) \cap UnitsOf(j))
<1>6. Usage(S \cup {j}) = Usage(S) + Chips[j] - both
  BY <1>1, <1>3, <1>4 DEF Usage
<1>7. both \in Nat /\ Usage(S) \in Nat
  BY <1>2, <1>5 DEF Usage
<1> HIDE DEF both
<1> QED
  BY <1>3, <1>6, <1>7

-----------------------------------------------------------------------------
(* A job that memory or status.json has holding capacity: what a restart   *)
(* brings back counts, too.                                                *)
Claims(j) == mem[j].status \in Holding \/ statusFile[j].status \in Holding

Claiming    == {j \in Jobs : Claims(j)}
ClaimsIn(g) == {j \in Claiming : Group[j] = g}
ClaimsOf(u) == {j \in Claiming : Owner[j] = u}

(* Only a job whose record is about to be written, or which the process    *)
(* has not loaded yet, claims more than memory says.                       *)
SettledAt(j) ==
    statusFile[j].status \in Holding =>
        \/ mem[j].status \in Holding
        \/ phase = "idle" /\ mem[j].status = "ABSENT"
        \/ \E d \in due : d.do = "save" /\ d.job = j

Settled == \A j \in Jobs : SettledAt(j)

Reaping == phase = "reap" => \A j \in jobsLeft : mem[j].status \in Terminal

WithinLimits ==
    /\ \A g \in Groups : Usage(ClaimsIn(g)) <= Quota[g]
    /\ \A u \in Capped : Usage(ClaimsOf(u)) <= UserCap[u]

(* There is room for what has been requested and is not yet in the books.  *)
RoomFor(j) ==
    /\ Usage(ClaimsIn(Group[j])) + Chips[j] <= Quota[Group[j]]
    /\ Owner[j] \in Capped => Usage(ClaimsOf(Owner[j])) + Chips[j] <= UserCap[Owner[j]]

RoomKept == \A d \in due : d.do = "adopt" => RoomFor(d.job)

Modest == Settled /\ Reaping /\ WithinLimits /\ RoomKept

(* What the reaper may have left of a status.json claims nothing. *)
NothingLeft == \A j \in Jobs : filed[j] = "reaped" => statusFile[j].status \notin Holding

(* What all steps but a request and its adoption do.                       *)
NoNewClaim ==
    /\ \A j \in Jobs : mem'[j].status \in Holding \/ statusFile'[j].status \in Holding
                           => Claims(j)
    /\ \A d \in due' : d.do = "adopt" => d \in due

Steady == Settled' /\ Reaping' /\ NoNewClaim

-----------------------------------------------------------------------------
LEMMA WriteBoth ==
    ASSUME Consistent, "save" \notin FaultKinds, NEW j \in Jobs, NEW r, WriteStatus(j, r)
    PROVE  /\ mem'[j] = r /\ statusFile'[j] = r
           /\ \A k \in Jobs \ {j} : mem'[k] = mem[k] /\ statusFile'[k] = statusFile[k]
  BY DEF WriteStatus, IsFault, Consistent, TypeOK, GcsOK, MemoryOK

(* A step of a stage that is about one job. *)
LEMMA OneJobSteady ==
    ASSUME Settled, Reaping, NEW j \in Jobs,
           \A k \in Jobs \ {j} : mem'[k] = mem[k] /\ statusFile'[k] = statusFile[k],
           phase' = phase, phase # "idle", \A d \in due : d.job = j,
           jobsLeft \subseteq Jobs, jobsLeft' \subseteq jobsLeft \ {j} \/ phase # "reap",
           statusFile'[j].status \in Holding =>
               mem'[j].status \in Holding \/ \E d \in due' : d.do = "save" /\ d.job = j,
           mem'[j].status \in Holding \/ statusFile'[j].status \in Holding => Claims(j),
           \A d \in due' : d.do = "adopt" => d \in due
    PROVE  Steady
<1>1. ASSUME NEW k \in Jobs PROVE SettledAt(k)'
  <2>1. CASE k = j
    BY <2>1 DEF SettledAt
  <2>2. CASE k # j
    BY <2>2 DEF Settled, SettledAt
  <2> QED
    BY <2>1, <2>2
<1>2. Reaping'
  BY DEF Reaping
<1>3. NoNewClaim
  BY DEF NoNewClaim, Claims
<1> QED
  BY <1>1, <1>2, <1>3 DEF Steady, Settled

(* A step that leaves the records alone, or memory's copy behind the file's. *)
LEMMA QuietSteady ==
    ASSUME Settled, Reaping, UNCHANGED <<mem, statusFile>>,
           \/ UNCHANGED <<phase, due>> /\ jobsLeft' \subseteq jobsLeft
           \/ due = {} /\ due' = {} /\ phase # "idle" /\ phase' # "reap"
           \/ due = {} /\ due' = {} /\ phase # "idle" /\ phase' = "reap"
              /\ \A j \in jobsLeft' : mem[j].status \in Terminal
    PROVE  Steady
  BY DEF Steady, Settled, SettledAt, Reaping, NoNewClaim, Claims

LEMMA VisitSteady ==
    ASSUME Consistent, Orderly, Settled, Reaping, "save" \notin FaultKinds,
           NEW j \in jobsLeft, VisitJob(j), ~CreateQueuedResource(j)
    PROVE  Steady
<1>1. /\ j \in Jobs /\ phase' = phase /\ phase # "idle" /\ due = {}
      /\ jobsLeft \subseteq Jobs /\ jobsLeft' \subseteq jobsLeft \ {j}
  BY DEF VisitJob, RefreshState, CheckCanceled, CheckCompleted, CheckCompletedMissingReport,
     CheckRetry, PassOver, CreateFails, ReapTerminal, ReapFails,
     NotYetExpired, Visit, Consistent, TypeOK, LoopOK
<1>2. statusFile[j].status \in Holding => mem[j].status \in Holding
  BY <1>1 DEF Settled, SettledAt
<1>3. CASE RefreshState(j)
  <2>1. UNCHANGED <<statusFile, due>>
    BY <1>3 DEF RefreshState, gcsVars
  <2>2. /\ mem'[j] \in {mem[j], statusFile[j]}
        /\ \A k \in Jobs \ {j} : mem'[k] = mem[k]
    BY <1>1, <1>3 DEF RefreshState, Consistent, TypeOK, MemoryOK
  <2> QED
    BY <1>1, <1>2, <2>1, <2>2, OneJobSteady DEF Claims
<1>4. CASE CheckCanceled(j)
  <2>1. CASE CancelJob(j)
    <3>1. UNCHANGED statusFile /\ due' = {[do |-> "save", job |-> j, qr |-> 0]}
      BY <1>4, <2>1 DEF CheckCanceled, CancelJob, Do, gcsVars
    <3>2. /\ mem'[j].status = "CANCELED"
          /\ \A k \in Jobs \ {j} : mem'[k] = mem[k]
      BY <1>1, <2>1 DEF CancelJob, Released, Consistent, TypeOK, MemoryOK, Record
    <3> QED
      BY <1>1, <3>1, <3>2, OneJobSteady DEF Claims, Holding
  <2>2. CASE UNCHANGED <<mem, due>>
    BY <1>1, <1>4, <2>2, QuietSteady DEF CheckCanceled, gcsVars
  <2> QED
    BY <1>4, <2>1, <2>2 DEF CheckCanceled
<1>5. CASE CheckCompleted(j) \/ CheckCompletedMissingReport(j)
  <2>1. CASE UNCHANGED <<mem, statusFile, due>>
    BY <1>1, <2>1, QuietSteady
  <2>2. ASSUME NEW o \in {"OK", "APP"}, NEW q,
               mem'[j] = Finished(mem[j], o), statusFile'[j] = Finished(mem[j], o),
               \A k \in Jobs \ {j} : mem'[k] = mem[k] /\ statusFile'[k] = statusFile[k],
               Do("cleanup", j, q)
        PROVE  Steady
    <3>1. mem[j] \in Record
      BY <1>1, RecordsFit DEF Consistent
    <3>2. Finished(mem[j], o).status \in Terminal
      BY <1>1, <3>1, FinishedFree
    <3> QED
      BY <1>1, <2>2, <3>2, OneJobSteady DEF Do, Holding, Terminal
  <2>3. CASE \E o \in {"OK", "APP"} : FinishJob(j, o)
    BY <1>1, <2>2, <2>3, WriteBoth DEF FinishJob
  <2>4. CASE /\ mem' = [mem EXCEPT ![j] = Finished(@, "OK")]
             /\ statusFile' = [statusFile EXCEPT ![j] = Finished(mem[j], "OK")]
             /\ Do("cleanup", j, mem[j].qr)
    <3>1. /\ mem'[j] = Finished(mem[j], "OK") /\ statusFile'[j] = Finished(mem[j], "OK")
          /\ \A k \in Jobs \ {j} : mem'[k] = mem[k] /\ statusFile'[k] = statusFile[k]
      BY <1>1, <2>4 DEF Consistent, TypeOK, GcsOK, MemoryOK
    <3> QED
      BY <2>2, <2>4, <3>1
  <2> QED
    BY <1>5, <2>1, <2>3, <2>4 DEF CheckCompleted, CheckCompletedMissingReport
<1>6. CASE CheckRetry(j)
  <2>1. UNCHANGED <<mem, statusFile>>
    BY <1>6 DEF CheckRetry, memVars
  <2>2. \A d \in due' : d.do # "adopt"
    BY <1>1, <1>6 DEF CheckRetry, Do
  <2> QED
    BY <1>1, <1>2, <2>1, <2>2, OneJobSteady DEF Claims
<1>7. CASE PassOver(j) \/ CreateFails(j) \/ NotYetExpired(j)
  <2>1. UNCHANGED <<mem, statusFile, due>>
    BY <1>7 DEF PassOver, CreateFails, NotYetExpired, memVars, gcsVars
  <2> QED
    BY <1>1, <2>1, QuietSteady
<1>8. CASE ReapTerminal(j) \/ ReapFails(j)
  <2>1. phase = "reap" /\ mem[j].status \in Terminal
    BY <1>8 DEF ReapTerminal, ReapFails, Visit, Reaping
  <2>2. /\ mem'[j] = NoRecord /\ statusFile'[j] \in {statusFile[j], NoRecord}
        /\ \A k \in Jobs \ {j} : mem'[k] = mem[k] /\ statusFile'[k] = statusFile[k]
        /\ UNCHANGED due
    BY <1>1, <1>8 DEF ReapTerminal, ReapFails, Forget, Consistent, TypeOK, GcsOK, MemoryOK
  <2>3. statusFile'[j].status \notin Holding /\ mem'[j].status \notin Holding
    BY <1>2, <2>1, <2>2 DEF NoRecord, Holding, Terminal
  <2> QED
    BY <1>1, <2>2, <2>3, OneJobSteady
<1> QED
  BY <1>3, <1>4, <1>5, <1>6, <1>7, <1>8 DEF VisitJob

LEMMA NameSteady ==
    ASSUME Consistent, Orderly, Settled, Reaping, "save" \notin FaultKinds,
           NEW q \in qrsLeft, VisitName(q)
    PROVE  Steady
<1>1. CASE PollDescribed(q)
  <2> DEFINE j == qrs[q].job
             r == [mem[j] EXCEPT !.qrState = Described(q)]
  <2>1. /\ j \in Jobs /\ mem[j] \in Record /\ mem[j].qr = q /\ q # 0
        /\ phase = "poll" /\ phase' = phase /\ due = {} /\ jobsLeft \subseteq Jobs
    <3>1. q \in Names /\ jobsLeft \subseteq Jobs /\ qrs \in Seq(QR)
      BY DEF Consistent, TypeOK, LoopOK, CloudOK
    <3>2. qrs[q] \in QR /\ q # 0
      BY <3>1 DEF Names
    <3> QED
      BY <1>1, <3>1, <3>2, RecordsFit DEF PollDescribed, VisitQr, QR
  <2>2. mem[j].status \in Holding
    BY <2>1, RecordsFit DEF QrFits
  <2>3. r.status = mem[j].status
    BY <2>1 DEF Record
  <2>4. \A d \in due' : d.do # "adopt"
    BY <1>1, <2>1 DEF PollDescribed, HandleState, Do
  <2>5. \/ /\ mem'[j] = r /\ statusFile'[j] = r
           /\ \A k \in Jobs \ {j} : mem'[k] = mem[k] /\ statusFile'[k] = statusFile[k]
        \/ UNCHANGED <<mem, statusFile>>
    BY <1>1, <2>1, WriteBoth DEF PollDescribed
  <2> HIDE DEF j, r
  <2> QED
    BY <2>1, <2>2, <2>3, <2>4, <2>5, OneJobSteady DEF Claims
<1>2. CASE PollForgotten(q) \/ PollReplaced(q) \/ ReconcileOrphan(q)
  BY <1>2, QuietSteady DEF PollForgotten, PollReplaced, ReconcileOrphan, VisitQr, gcsVars
<1>3. CASE PollDisappeared(q)
  <2>1. /\ UNCHANGED <<mem, statusFile, phase, jobsLeft>> /\ due = {} /\ phase = "poll"
        /\ \A d \in due' : d.do # "adopt"
    BY <1>3 DEF PollDisappeared, VisitQr, gcsVars, Do
  <2> QED
    BY <2>1 DEF Steady, Settled, SettledAt, Reaping, NoNewClaim, Claims
<1> QED
  BY <1>1, <1>2, <1>3 DEF VisitName, PollQueuedResource

LEMMA CarrySteady ==
    ASSUME Consistent, Orderly, Settled, Reaping, "save" \notin FaultKinds,
           NEW d \in due, Carry(d), ~AdoptQr(d)
    PROVE  Steady
<1> DEFINE j == d.job
<1>1. /\ j \in Jobs /\ mem[j] \in Record /\ \A e \in due : e.job = j
      /\ phase' = phase /\ phase # "idle" /\ jobsLeft \subseteq Jobs
      /\ jobsLeft' \subseteq jobsLeft \ {j}
      /\ d.do \in {"examine", "preempt"} => mem[j].status \in Holding
  <2>1. \A e \in due : e.job = j
    BY DEF Consistent, PipelineFits, OneHandler
  <2>2. \E task : Resume(d, task)
    BY DEF Carry, SaveStatus, CleanupFinished, Requeue, HandlePreemption, ExamineSickVm,
       ExamineStarted, ExamineTimeout, ExamineInTime
  <2> QED
    BY <2>1, <2>2, ResumingTask, Resuming DEF Consistent, TypeOK, LoopOK
<1>2. \A e \in due' : e.do # "adopt"
  BY DEF Carry, SaveStatus, CleanupFinished, Requeue, HandlePreemption, ExamineSickVm,
     ExamineStarted, ExamineTimeout, ExamineInTime, Do, Done
<1>3. CASE SaveStatus(d) \/ Requeue(d) \/ ExamineStarted(d)
  <2>1. PICK r : WriteStatus(j, r) /\ (r.status \in Holding => mem[j].status \in Holding)
    <3>1. CASE SaveStatus(d)
      BY <3>1 DEF SaveStatus
    <3>2. CASE Requeue(d)
      <4>1. RetriedRecord(j).status \in {"PENDING", mem[j].status}
        BY <1>1 DEF RetriedRecord, Released, Record
      <4> QED
        BY <3>2, <4>1 DEF Requeue, Holding
    <3>3. CASE ExamineStarted(d)
      BY <3>3 DEF ExamineStarted, Holding
    <3> QED
      BY <1>3, <3>1, <3>2, <3>3
  <2>2. /\ mem'[j] = r /\ statusFile'[j] = r
        /\ \A k \in Jobs \ {j} : mem'[k] = mem[k] /\ statusFile'[k] = statusFile[k]
    BY <1>1, <2>1, WriteBoth
  <2> HIDE DEF j
  <2> QED
    BY <1>1, <1>2, <2>1, <2>2, OneJobSteady DEF Claims
<1>4. CASE HandlePreemption(d)
  <2> DEFINE r == Requeued(j, Released(Closed(mem[j], "INFRA")))
  <2>1. /\ due' = {[do |-> "save", job |-> j, qr |-> 0]} /\ UNCHANGED statusFile
        /\ mem' = [mem EXCEPT ![j] = r]
    BY <1>4 DEF HandlePreemption, Do, gcsVars
  <2>2. \A k \in Jobs \ {j} : mem'[k] = mem[k]
    BY <2>1 DEF Consistent, TypeOK, MemoryOK
  <2>3. mem[j].status \in Holding
    BY <1>1, <1>4 DEF HandlePreemption, Resume
  <2> HIDE DEF j, r
  <2> QED
    BY <1>1, <1>2, <2>1, <2>2, <2>3, OneJobSteady DEF Claims
<1>5. CASE CleanupFinished(d) \/ ExamineSickVm(d) \/ ExamineTimeout(d) \/ ExamineInTime(d)
  <2>1. UNCHANGED <<mem, statusFile>> /\ d.do # "save"
    BY <1>5 DEF CleanupFinished, ExamineSickVm, ExamineTimeout, ExamineInTime, Resume,
       gcsVars, memVars
  <2>2. statusFile[j].status \in Holding => mem[j].status \in Holding
    BY <1>1, <2>1 DEF Settled, SettledAt, Consistent, PipelineFits, OneHandler
  <2> HIDE DEF j
  <2> QED
    BY <1>1, <1>2, <2>1, <2>2, OneJobSteady DEF Claims
<1> QED
  BY <1>3, <1>4, <1>5 DEF Carry

-----------------------------------------------------------------------------
(* The loop, the process, and the world around it. *)

LEMMA EnvironmentSteady ==
    ASSUME Consistent, Settled, Reaping, Environment
    PROVE  Steady
<1>1. UNCHANGED <<mem, phase, jobsLeft, due>>
  BY DEF Environment, memVars, loopVars
<1>2. \/ UNCHANGED statusFile
      \/ \E j \in Jobs : statusFile' = [statusFile EXCEPT ![j] = NewRecord]
  BY DEF Environment, Cli, Submit, SubmitSpec, SubmitStatus, RequestCancel, RequestRetry,
     CloudOf, WorkerOf, Grant, Sicken, Suspend, Remove, Claim, ReportSuccess, ReportFailure,
     Vanish, gcsVars
<1>3. NewRecord.status \notin Holding
  BY DEF NewRecord, NoRecord, Holding
<1>4. \A j \in Jobs : statusFile'[j] = statusFile[j] \/ statusFile'[j].status \notin Holding
  BY <1>2, <1>3 DEF Consistent, TypeOK, GcsOK
<1> QED
  BY <1>1, <1>4 DEF Steady, Settled, SettledAt, Reaping, NoNewClaim, Claims

LEMMA MoveOnSteady ==
    ASSUME Consistent, Orderly, Settled, Reaping,
           \/ WriteSchedulerState \/ EndIteration
           \/ (\E p \in DOMAIN Place : Advance(p)) \/ (\E j \in backoff : BackoffOver(j))
    PROVE  Steady
<1>1. UNCHANGED <<mem, statusFile, due>>
  BY DEF WriteSchedulerState, EndIteration, Advance, BackoffOver, gcsVars, memVars, loopVars
<1>2. CASE WriteSchedulerState \/ EndIteration
  BY <1>1, <1>2, QuietSteady DEF WriteSchedulerState, EndIteration, Drained
<1>3. CASE \E p \in DOMAIN Place : Advance(p)
  <2>1. PICK p \in DOMAIN Place : Advance(p)
    BY <1>3
  <2>2. phase # "idle" /\ due = {} /\ phase' = p /\ jobsLeft' = JobsFor(p)
    BY <2>1 DEF Advance, Drained
  <2>3. p = "reap" => \A j \in jobsLeft' : mem[j].status \in Terminal
    BY <2>2 DEF JobsFor
  <2> QED
    BY <1>1, <2>2, <2>3, QuietSteady
<1>4. CASE \E j \in backoff : BackoffOver(j)
  BY <1>1, <1>4, QuietSteady DEF BackoffOver, loopVars
<1> QED
  BY <1>2, <1>3, <1>4

LEMMA CrashSteady ==
    ASSUME Crash
    PROVE  Steady
  BY DEF Crash, Unwind, gcsVars, NoRecord, Holding, Steady, Settled, SettledAt, Reaping,
     NoNewClaim, Claims

(* A scan that goes on to the stages has loaded whatever is on file. *)
LEMMA ScanSteady ==
    ASSUME Consistent, Covered, Settled, NothingLeft, ScanJobs
    PROVE  Steady
<1>1. PICK got \in SUBSET Loadable :
        /\ Load(got)
        /\ phase' = "idle" \/ got = Missing
        /\ phase = "idle" /\ phase' \in {"idle", "scan"}
        /\ UNCHANGED <<statusFile, due>>
  BY DEF ScanJobs, MayProceed, gcsVars
<1>2. \A j \in Jobs : mem'[j] = IF j \in got THEN StateOnFile(j) ELSE mem[j]
  BY <1>1 DEF Load, LoadedState
<1>3. due = {}
  BY <1>1 DEF Consistent, PipelineFits, OneHandler
<1>4. ASSUME NEW j \in Jobs, statusFile[j].status \in Holding
      PROVE  mem'[j].status \in Holding \/ (phase' = "idle" /\ mem'[j].status = "ABSENT")
  <2>1. statusFile[j].qr # 0
    BY <1>4, RecordsFit DEF QrFits
  <2>2. j \in Listed
    BY <1>4, <2>1 DEF Covered, NamesQr, NothingLeft
  <2>3. CASE j \in got
    <3>1. StateOnFile(j) = statusFile[j]
      BY <1>4 DEF StateOnFile, Holding
    <3> QED
      BY <1>2, <1>4, <2>3, <3>1
  <2>4. CASE j \notin got
    <3>1. mem'[j] = mem[j] /\ (mem[j].status \in Holding \/ mem[j].status = "ABSENT")
      BY <1>2, <1>3, <1>4, <2>4 DEF Settled, SettledAt
    <3>2. mem[j].status = "ABSENT" => j \in Missing
      BY <2>2 DEF Missing, Loaded
    <3> QED
      BY <1>1, <2>4, <3>1, <3>2
  <2> QED
    BY <2>3, <2>4
<1>5. \A j \in Jobs : mem'[j].status \in Holding => Claims(j)
  BY <1>2 DEF Claims, StateOnFile, NewRecord, NoRecord, Holding
<1>6. Settled' /\ Reaping'
  BY <1>1, <1>4 DEF Settled, SettledAt, Reaping
<1>7. NoNewClaim
  BY <1>1, <1>3, <1>5 DEF NoNewClaim, Claims
<1> QED
  BY <1>6, <1>7 DEF Steady

-----------------------------------------------------------------------------
(* Usage of what is claimed. *)

LEMMA ClaimingSets ==
    ASSUME IsFiniteSet(Jobs)
    PROVE  /\ \A g : ClaimsIn(g) \in SUBSET Jobs /\ IsFiniteSet(ClaimsIn(g))
           /\ \A u : ClaimsOf(u) \in SUBSET Jobs /\ IsFiniteSet(ClaimsOf(u))
  BY FS_Subset DEF ClaimsIn, ClaimsOf, Claiming

(* A step without a new claim keeps within the limits, and keeps the room  *)
(* for what is to be adopted.                                              *)
LEMMA SteadyIsModest ==
    ASSUME IsFiniteSet(Jobs), Consistent, Modest, Steady
    PROVE  Modest'
<1>1. /\ \A g : ClaimsIn(g)' \in SUBSET ClaimsIn(g)
      /\ \A u : ClaimsOf(u)' \in SUBSET ClaimsOf(u)
  BY DEF Steady, NoNewClaim, ClaimsIn, ClaimsOf, Claiming, Claims
<1>2. /\ \A g : Usage(ClaimsIn(g)') <= Usage(ClaimsIn(g))
                /\ Usage(ClaimsIn(g)') \in Nat /\ Usage(ClaimsIn(g)) \in Nat
      /\ \A u : Usage(ClaimsOf(u)') <= Usage(ClaimsOf(u))
                /\ Usage(ClaimsOf(u)') \in Nat /\ Usage(ClaimsOf(u)) \in Nat
  BY <1>1, ClaimingSets, UsageOfFewer
<1>3. /\ \A g : Usage(ClaimsIn(g))' <= Usage(ClaimsIn(g))
                /\ Usage(ClaimsIn(g))' \in Nat /\ Usage(ClaimsIn(g)) \in Nat
      /\ \A u : Usage(ClaimsOf(u))' <= Usage(ClaimsOf(u))
                /\ Usage(ClaimsOf(u))' \in Nat /\ Usage(ClaimsOf(u)) \in Nat
  BY <1>2 DEF Usage, Units
<1>4. WithinLimits'
  BY <1>3, LimitAssumption DEF Modest, WithinLimits
<1>5. ASSUME NEW d \in due', d.do = "adopt" PROVE RoomFor(d.job)'
  <2>1. d \in due /\ d.job \in Jobs
    BY <1>5 DEF Steady, NoNewClaim, Consistent, TypeOK, LoopOK, DueOK
  <2>2. RoomFor(d.job)
    BY <1>5, <2>1 DEF Modest, RoomKept
  <2>3. /\ Chips[d.job] \in Nat /\ Group[d.job] \in Groups /\ Owner[d.job] \in Users
        /\ Quota[Group[d.job]] \in Nat /\ UserCap[Owner[d.job]] \in Nat
    BY <2>1, SpecAssumption, LimitAssumption
  <2> QED
    BY <1>3, <2>2, <2>3 DEF RoomFor
<1> QED
  BY <1>4, <1>5 DEF Modest, Steady, RoomKept

(* When a QR is requested, what memory counts is all that is claimed.      *)
LEMMA RequestIsModest ==
    ASSUME IsFiniteSet(Jobs), Consistent, Modest, NEW j \in Jobs, CreateQueuedResource(j)
    PROVE  Modest'
<1>1. /\ phase = "schedule" /\ phase' = phase /\ due = {} /\ UNCHANGED <<mem, statusFile>>
      /\ \A d \in due' : d.job = j
      /\ Fits(j)
  BY DEF CreateQueuedResource, Visit, Do, Eligible, gcsVars, memVars
<1>2. \A k \in Jobs : Claims(k) => k \in HoldingJobs
  BY <1>1 DEF Claims, Modest, Settled, SettledAt, HoldingJobs, Loaded, Holding
<1>3. /\ ClaimsIn(Group[j]) \subseteq InGroup(Group[j])
      /\ ClaimsOf(Owner[j]) \subseteq OfUser(Owner[j])
      /\ InGroup(Group[j]) \subseteq Jobs /\ OfUser(Owner[j]) \subseteq Jobs
  BY <1>2 DEF ClaimsIn, ClaimsOf, Claiming, InGroup, OfUser, HoldingJobs, Loaded
<1>4. /\ Usage(ClaimsIn(Group[j])) <= Usage(InGroup(Group[j]))
      /\ Usage(ClaimsIn(Group[j])) \in Nat /\ Usage(InGroup(Group[j])) \in Nat
      /\ Usage(ClaimsOf(Owner[j])) <= Usage(OfUser(Owner[j]))
      /\ Usage(ClaimsOf(Owner[j])) \in Nat /\ Usage(OfUser(Owner[j])) \in Nat
  BY <1>3, FS_Subset, UsageOfFewer
<1>5. /\ Chips[j] \in Nat /\ Group[j] \in Groups /\ Owner[j] \in Users
      /\ Quota[Group[j]] \in Nat /\ UserCap[Owner[j]] \in Nat
  BY SpecAssumption, LimitAssumption
<1>6. RoomFor(j)
  BY <1>1, <1>4, <1>5 DEF Fits, RoomFor
<1>7. /\ \A k \in Jobs : Claims(k)' <=> Claims(k)
      /\ \A g : ClaimsIn(g)' = ClaimsIn(g)
      /\ \A u : ClaimsOf(u)' = ClaimsOf(u)
  BY <1>1 DEF Claims, ClaimsIn, ClaimsOf, Claiming
<1>8. RoomFor(j)' /\ WithinLimits'
  BY <1>6, <1>7 DEF RoomFor, WithinLimits, Modest, Usage, Units
<1> QED
  BY <1>1, <1>8 DEF Modest, Settled, SettledAt, Reaping, RoomKept

(* An adoption takes up the room that was kept for it. *)
LEMMA AdoptionIsModest ==
    ASSUME IsFiniteSet(Jobs), Consistent, Orderly, Modest, "save" \notin FaultKinds,
           NEW d \in due, AdoptQr(d)
    PROVE  Modest'
<1> DEFINE j == d.job
<1>1. /\ j \in Jobs /\ mem[j] \in Record /\ d.do = "adopt" /\ due = {d}
      /\ due' = {} /\ phase' = phase /\ phase # "idle" /\ jobsLeft' = jobsLeft /\ j \notin jobsLeft
      /\ jobsLeft \subseteq Jobs
  <2>1. due = {d}
    BY DEF Consistent, PipelineFits, OneHandler
  <2> QED
    BY <2>1, ResumingTask, Resuming DEF AdoptQr, Done, Resume, Consistent, TypeOK, LoopOK
<1>2. PICK r : /\ r.status = "PROVISIONING" /\ mem'[j] = r /\ statusFile'[j] = r
               /\ \A k \in Jobs \ {j} : mem'[k] = mem[k] /\ statusFile'[k] = statusFile[k]
  <2> DEFINE r == [mem[j] EXCEPT !.status = "PROVISIONING", !.qr = d.qr, !.qrState = "WAITING"]
  <2>1. WriteStatus(j, r)
    BY DEF AdoptQr
  <2>2. r.status = "PROVISIONING"
    BY <1>1 DEF Record
  <2> HIDE DEF r
  <2> QED
    BY <1>1, <2>1, <2>2, WriteBoth
<1>3. RoomFor(j)
  BY <1>1 DEF Modest, RoomKept
<1>4. \A k \in Jobs \ {j} : Claims(k)' <=> Claims(k)
  BY <1>2 DEF Claims
<1>5. /\ ClaimsIn(Group[j])' \subseteq ClaimsIn(Group[j]) \cup {j}
      /\ ClaimsOf(Owner[j])' \subseteq ClaimsOf(Owner[j]) \cup {j}
      /\ \A g : g # Group[j] => ClaimsIn(g)' \in SUBSET ClaimsIn(g)
      /\ \A u : u # Owner[j] => ClaimsOf(u)' \in SUBSET ClaimsOf(u)
  BY <1>4 DEF ClaimsIn, ClaimsOf, Claiming
<1>6. /\ Chips[j] \in Nat /\ Group[j] \in Groups /\ Owner[j] \in Users
      /\ Quota \in [Groups -> Nat] /\ UserCap \in [Users -> Nat] /\ Capped \subseteq Users
  BY <1>1, SpecAssumption, LimitAssumption
<1>7. ASSUME NEW S \in SUBSET Jobs, NEW T \in SUBSET (S \cup {j}), IsFiniteSet(S)
      PROVE  Usage(T) \in Nat /\ Usage(T) <= Usage(S) + Chips[j]
  <2>1. S \cup {j} \in SUBSET Jobs /\ IsFiniteSet(S \cup {j})
    BY <1>1, <1>7, FS_Subset
  <2>2. Usage(T) <= Usage(S \cup {j}) /\ Usage(T) \in Nat /\ Usage(S \cup {j}) \in Nat
    BY <2>1, UsageOfFewer
  <2>3. Usage(S \cup {j}) <= Usage(S) + Chips[j] /\ Usage(S) \in Nat
    BY <1>1, <1>7, UsageWithOneMore, UnitsFinite
  <2> QED
    BY <1>6, <2>2, <2>3
<1>8. /\ Usage(ClaimsIn(Group[j])') \in Nat /\ Usage(ClaimsOf(Owner[j])') \in Nat
      /\ Usage(ClaimsIn(Group[j])') <= Usage(ClaimsIn(Group[j])) + Chips[j]
      /\ Usage(ClaimsOf(Owner[j])') <= Usage(ClaimsOf(Owner[j])) + Chips[j]
  BY <1>5, <1>7, ClaimingSets
<1>9. /\ \A g : /\ Usage(ClaimsIn(g)) \in Nat
                /\ g # Group[j] => /\ Usage(ClaimsIn(g)') \in Nat
                                   /\ Usage(ClaimsIn(g)') <= Usage(ClaimsIn(g))
      /\ \A u : /\ Usage(ClaimsOf(u)) \in Nat
                /\ u # Owner[j] => /\ Usage(ClaimsOf(u)') \in Nat
                                   /\ Usage(ClaimsOf(u)') <= Usage(ClaimsOf(u))
  BY <1>5, ClaimingSets, UsageOfFewer
<1>10. \A g \in Groups : Usage(ClaimsIn(g)') <= Quota[g]
  BY <1>3, <1>6, <1>8, <1>9 DEF RoomFor, Modest, WithinLimits
<1>11. \A u \in Capped : Usage(ClaimsOf(u)') <= UserCap[u]
  BY <1>3, <1>6, <1>8, <1>9 DEF RoomFor, Modest, WithinLimits
<1>12. WithinLimits'
  BY <1>10, <1>11 DEF WithinLimits, Usage, Units
<1>13. Settled'
  <2>1. ASSUME NEW k \in Jobs PROVE SettledAt(k)'
    <3>1. CASE k = j
      BY <1>2, <3>1 DEF SettledAt, Holding
    <3>2. CASE k # j
      BY <1>1, <1>2, <3>2 DEF Modest, Settled, SettledAt
    <3> QED
      BY <3>1, <3>2
  <2> QED
    BY <2>1 DEF Settled
<1>14. Reaping'
  BY <1>1, <1>2 DEF Modest, Reaping
<1> QED
  BY <1>1, <1>12, <1>13, <1>14 DEF Modest, RoomKept

LEMMA NextModest ==
    ASSUME IsFiniteSet(Jobs), "save" \notin FaultKinds, "abort" \notin FaultKinds,
           Consistent, Orderly, Covered, Modest, NothingLeft, Next
    PROVE  Modest'
<1>1. Settled /\ Reaping /\ jobsLeft \subseteq Jobs
  BY DEF Modest, Consistent, TypeOK, LoopOK
<1>2. ASSUME NEW j \in jobsLeft, VisitJob(j) PROVE Modest'
  BY <1>1, <1>2, RequestIsModest, VisitSteady, SteadyIsModest
<1>3. ASSUME NEW q \in qrsLeft, VisitName(q) PROVE Modest'
  BY <1>1, <1>3, NameSteady, SteadyIsModest
<1>4. ASSUME NEW d \in due, Carry(d) PROVE Modest'
  BY <1>1, <1>4, AdoptionIsModest, CarrySteady, SteadyIsModest
<1>5. ~Abort
  BY DEF Abort, IsFault
<1>6. \/ Environment \/ ScanJobs \/ Crash
      \/ WriteSchedulerState \/ EndIteration
      \/ (\E p \in DOMAIN Place : Advance(p)) \/ (\E j \in backoff : BackoffOver(j))
      => Modest'
  BY <1>1, EnvironmentSteady, ScanSteady, CrashSteady, MoveOnSteady, SteadyIsModest
<1> QED
  BY <1>2, <1>3, <1>4, <1>5, <1>6 DEF Next, Scheduler

LEMMA OnlyReapingReaps ==
    ASSUME Consistent, Next, NEW j \in Jobs, filed[j] # "reaped", filed'[j] = "reaped"
    PROVE  j \in jobsLeft /\ (ReapTerminal(j) \/ ReapFails(j))
<1>1. filed \in [Jobs -> {"new", "spec", "full", "torn", "reaped"}] /\ jobsLeft \subseteq Jobs
  BY DEF Consistent, TypeOK, GcsOK, LoopOK
<1>2. ASSUME NEW k \in jobsLeft, VisitJob(k) PROVE k = j /\ (ReapTerminal(j) \/ ReapFails(j))
  BY <1>1, <1>2 DEF VisitJob, RefreshState, CheckCanceled, CheckCompleted, FinishJob,
     CheckCompletedMissingReport, CheckRetry, PassOver, CreateQueuedResource, CreateFails,
     ReapTerminal, ReapFails, NotYetExpired, WriteStatus, gcsVars
<1>3. ASSUME NEW q \in qrsLeft, VisitName(q) PROVE UNCHANGED filed
  BY <1>3 DEF VisitName, PollQueuedResource, PollForgotten, PollReplaced, PollDisappeared,
     PollDescribed, HandleState, ReconcileOrphan, WriteStatus, gcsVars
<1>4. ASSUME NEW d \in due, Carry(d) PROVE UNCHANGED filed
  BY <1>4 DEF Carry, SaveStatus, CleanupFinished, Requeue, AdoptQr, HandlePreemption,
     ExamineSickVm, ExamineStarted, ExamineTimeout, ExamineInTime, WriteStatus, gcsVars
<1>5. CASE Environment
  BY <1>1, <1>5 DEF Environment, Cli, Submit, SubmitSpec, SubmitStatus, RequestCancel,
     RequestRetry, CloudOf, WorkerOf, Grant, Sicken, Suspend, Remove, Claim, ReportSuccess,
     ReportFailure, Vanish, gcsVars
<1>6. CASE \/ WriteSchedulerState \/ EndIteration \/ Abort
           \/ (\E p \in DOMAIN Place : Advance(p)) \/ (\E k \in backoff : BackoffOver(k))
  BY <1>6 DEF WriteSchedulerState, EndIteration, Abort, Advance, BackoffOver, gcsVars
<1>7. CASE ScanJobs \/ Crash
  BY <1>7, TimeUpListed DEF ScanJobs, Crash
<1> QED
  BY <1>2, <1>3, <1>4, <1>5, <1>6, <1>7 DEF Next, Scheduler

LEMMA NextNothingLeft ==
    ASSUME Consistent, Orderly, Consistent', Covered', Settled, Reaping, NothingLeft, Next
    PROVE  NothingLeft'
<1> SUFFICES ASSUME NEW j \in Jobs, filed'[j] = "reaped", statusFile'[j].status \in Holding
             PROVE  FALSE
  BY DEF NothingLeft
<1>1. mem'[j].status = "ABSENT"
  BY DEF Covered, Listed
<1>2. statusFile'[j].qr # 0
  BY DEF Consistent, CurrentQrFitsAttempt, Records, QrFits
<1>3. statusFile'[j] = statusFile[j]
  BY <1>1, <1>2, FileAfter, NextLawful
<1>4. filed[j] # "reaped"
  BY <1>3 DEF NothingLeft
<1>5. phase = "reap" /\ due = {} /\ j \in jobsLeft
  BY <1>4, OnlyReapingReaps DEF ReapTerminal, ReapFails, Visit
<1> QED
  BY <1>3, <1>5 DEF Settled, SettledAt, Reaping, Terminal, Holding

LEMMA SameModest ==
    ASSUME Modest, UNCHANGED <<statusFile, mem, phase, jobsLeft, due>>
    PROVE  Modest'
  BY DEF Modest, Settled, SettledAt, Reaping, RoomKept, RoomFor, WithinLimits, ClaimsIn,
     ClaimsOf, Claiming, Claims, Usage, Units

LEMMA BeginsModest == Init => Covered /\ Modest /\ NothingLeft
<1> SUFFICES ASSUME Init PROVE Covered /\ Modest /\ NothingLeft
  OBVIOUS
<1>1. Covered /\ Settled /\ Reaping /\ RoomKept /\ NothingLeft
  BY DEF Init, Covered, NamesQr, NoRecord, Settled, SettledAt, Holding, Reaping, RoomKept,
     NothingLeft
<1>2. Claiming = {}
  BY DEF Init, NoRecord, Claiming, Claims, Holding
<1>3. /\ \A g : Units(ClaimsIn(g)) = {}
      /\ \A u : Units(ClaimsOf(u)) = {}
  BY <1>2 DEF ClaimsIn, ClaimsOf, Units
<1>4. WithinLimits
  BY <1>3, FS_EmptySet, LimitAssumption DEF WithinLimits, Usage
<1> QED
  BY <1>1, <1>4 DEF Modest

LEMMA ModestMeansLimits ==
    ASSUME IsFiniteSet(Jobs), Modest
    PROVE  LimitsRespected
<1>1. /\ \A g : InGroup(g) \in SUBSET ClaimsIn(g)
      /\ \A u : OfUser(u) \in SUBSET ClaimsOf(u)
  BY DEF InGroup, OfUser, HoldingJobs, Loaded, ClaimsIn, ClaimsOf, Claiming, Claims
<1>2. /\ \A g : Usage(InGroup(g)) <= Usage(ClaimsIn(g))
                /\ Usage(InGroup(g)) \in Nat /\ Usage(ClaimsIn(g)) \in Nat
      /\ \A u : Usage(OfUser(u)) <= Usage(ClaimsOf(u))
                /\ Usage(OfUser(u)) \in Nat /\ Usage(ClaimsOf(u)) \in Nat
  BY <1>1, ClaimingSets, UsageOfFewer
<1> QED
  BY <1>2, LimitAssumption DEF Modest, WithinLimits, LimitsRespected

(* Quota groups and per-user chip limits hold, for any set of jobs, before *)
(* and after any number of restarts, while users, cloud and workers move   *)
(* and calls fail; lost writes of status.json, and exceptions between a    *)
(* decision and its write, are excluded: a restart then brings back a job  *)
(* whose room was given to another (scheduler.py:452-507, 163-182, 409-437). *)
THEOREM LimitsAlways ==
    ASSUME IsFiniteSet(Jobs), "save" \notin FaultKinds, "abort" \notin FaultKinds
    PROVE  Spec => []LimitsRespected
<1> DEFINE I == Consistent /\ Orderly
<1>1. Spec => [](I /\ VerdictsHaveEvidence)
  BY OrderAlways
<1>2. Init => Covered /\ Modest /\ NothingLeft
  BY BeginsModest
<1>3. I /\ I' /\ Covered /\ Modest /\ NothingLeft /\ [Next]_vars
        => Covered' /\ Modest' /\ NothingLeft'
  <2>1. UNCHANGED vars /\ Covered /\ Modest /\ NothingLeft => Covered' /\ Modest' /\ NothingLeft'
    BY SameCovered, SameModest DEF vars, gcsVars, memVars, loopVars, NothingLeft
  <2>2. Next /\ I /\ I' /\ Covered /\ Modest /\ NothingLeft => Covered' /\ Modest'
    BY NextCovered, NextModest
  <2> QED
    BY <2>1, <2>2, NextNothingLeft DEF Modest
<1>4. Modest => LimitsRespected
  BY ModestMeansLimits
<1> QED
  BY <1>1, <1>2, <1>3, <1>4, PTL DEF Spec

-----------------------------------------------------------------------------
(* Who has been passed over in this stage could not have had a QR, and     *)
(* cannot have one now: in a stage that schedules, usage only grows.       *)
PassedOver ==
    /\ backoff = {}
    /\ phase = "schedule" =>
          /\ \A d \in due : d.do = "adopt"
          /\ \A k \in Loaded \ jobsLeft :
                mem[k].status = "PENDING" => ~Eligible(k) \/ \E d \in due : d.job = k

LEMMA OnlyRequests ==
    ASSUME Next, NEW d \in due' \ due, d.do = "adopt"
    PROVE  \E j \in jobsLeft : CreateQueuedResource(j) /\ d.job = j
<1>1. ASSUME NEW j \in jobsLeft, VisitJob(j)
      PROVE  CreateQueuedResource(j) /\ d.job = j
  BY <1>1 DEF VisitJob, RefreshState, CheckCanceled, CancelJob, CheckCompleted, FinishJob,
     CheckCompletedMissingReport, CheckRetry, PassOver, CreateQueuedResource, CreateFails,
     ReapTerminal, ReapFails, NotYetExpired, Do
<1>2. ASSUME NEW q \in qrsLeft, VisitName(q) PROVE FALSE
  BY <1>2 DEF VisitName, PollQueuedResource, PollForgotten, PollReplaced, PollDisappeared,
     PollDescribed, HandleState, ReconcileOrphan, Do
<1>3. ASSUME NEW e \in due, Carry(e) PROVE FALSE
  BY <1>3 DEF Carry, SaveStatus, CleanupFinished, Requeue, AdoptQr, HandlePreemption,
     ExamineSickVm, ExamineStarted, ExamineTimeout, ExamineInTime, Do, Done
<1>4. ~ \/ Environment \/ ScanJobs \/ WriteSchedulerState \/ EndIteration \/ Abort \/ Crash
        \/ (\E p \in DOMAIN Place : Advance(p)) \/ (\E j \in backoff : BackoffOver(j))
  BY DEF Environment, ScanJobs, WriteSchedulerState, EndIteration, Abort, Crash, Unwind,
     Advance, BackoffOver, loopVars
<1> QED
  BY <1>1, <1>2, <1>3, <1>4 DEF Next, Scheduler

LEMMA NobodyBacksOff ==
    ASSUME "create" \notin FaultKinds, backoff = {}, Next
    PROVE  backoff' = {}
<1>1. ASSUME NEW j \in jobsLeft, VisitJob(j) PROVE UNCHANGED backoff
  BY <1>1 DEF VisitJob, RefreshState, CheckCanceled, CheckCompleted,
     CheckCompletedMissingReport, CheckRetry, PassOver, CreateQueuedResource, CreateFails,
     ReapTerminal, ReapFails, NotYetExpired, IsFault, memVars
<1>2. ASSUME NEW q \in qrsLeft, VisitName(q) PROVE UNCHANGED backoff
  BY <1>2 DEF VisitName, PollQueuedResource, PollForgotten, PollReplaced, PollDisappeared,
     PollDescribed, ReconcileOrphan
<1>3. ASSUME NEW d \in due, Carry(d) PROVE UNCHANGED backoff
  BY <1>3 DEF Carry, SaveStatus, CleanupFinished, Requeue, AdoptQr, HandlePreemption,
     ExamineSickVm, ExamineStarted, ExamineTimeout, ExamineInTime, memVars
<1>4. CASE \/ Environment \/ ScanJobs \/ WriteSchedulerState \/ EndIteration \/ Abort \/ Crash
           \/ (\E p \in DOMAIN Place : Advance(p)) \/ (\E j \in backoff : BackoffOver(j))
  BY <1>4 DEF Environment, ScanJobs, WriteSchedulerState, EndIteration, Abort, Crash,
     Advance, BackoffOver, memVars
<1> QED
  BY <1>1, <1>2, <1>3, <1>4 DEF Next, Scheduler

(* Usage that grows leaves no room where there was none. *)
LEMMA StillNoRoom ==
    ASSUME IsFiniteSet(Jobs), NEW k \in Jobs, ~Eligible(k), UNCHANGED backoff,
           HoldingJobs \subseteq HoldingJobs'
    PROVE  ~Eligible(k)'
<1>1. /\ InGroup(Group[k]) \subseteq InGroup(Group[k])' /\ InGroup(Group[k])' \subseteq Jobs
      /\ OfUser(Owner[k]) \subseteq OfUser(Owner[k])' /\ OfUser(Owner[k])' \subseteq Jobs
  BY DEF InGroup, OfUser, HoldingJobs, Loaded
<1>2. /\ Usage(InGroup(Group[k])) <= Usage(InGroup(Group[k])')
      /\ Usage(InGroup(Group[k])) \in Nat /\ Usage(InGroup(Group[k])') \in Nat
      /\ Usage(OfUser(Owner[k])) <= Usage(OfUser(Owner[k])')
      /\ Usage(OfUser(Owner[k])) \in Nat /\ Usage(OfUser(Owner[k])') \in Nat
  BY <1>1, FS_Subset, UsageOfFewer
<1>3. /\ Usage(InGroup(Group[k]))' = Usage(InGroup(Group[k])')
      /\ Usage(OfUser(Owner[k]))' = Usage(OfUser(Owner[k])')
  BY DEF Usage, Units
<1>4. /\ Chips[k] \in Nat /\ Quota[Group[k]] \in Nat /\ UserCap[Owner[k]] \in Nat
  BY SpecAssumption, LimitAssumption
<1>5. ~Fits(k) => ~Fits(k)'
  BY <1>2, <1>3, <1>4 DEF Fits
<1> QED
  BY <1>5 DEF Eligible

LEMMA NextPassesOver ==
    ASSUME IsFiniteSet(Jobs), "create" \notin FaultKinds,
           \A c \in 0..MaxCrashes : Focus[c] = "all",
           Consistent, Orderly, PassedOver, Next
    PROVE  PassedOver'
<1>1. backoff = {} /\ backoff' = {}
  BY NobodyBacksOff DEF PassedOver
<1>2. jobsLeft \subseteq Jobs /\ Loaded \subseteq Jobs
  BY DEF Consistent, TypeOK, LoopOK, Loaded
<1>3. CASE UNCHANGED <<mem, phase, jobsLeft, due>>
  BY <1>1, <1>3 DEF PassedOver, Loaded, Eligible, Fits, InGroup, OfUser, HoldingJobs,
     Usage, Units
<1>4. CASE phase' # "schedule"
  BY <1>1, <1>4 DEF PassedOver
<1>5. ASSUME NEW j \in jobsLeft, VisitJob(j), phase' = "schedule" PROVE PassedOver'
  <2>1. PassOver(j) \/ CreateQueuedResource(j)
    BY <1>5 DEF VisitJob, RefreshState, CheckCanceled, CheckCompleted,
       CheckCompletedMissingReport, CheckRetry, CreateFails, IsFault, ReapTerminal,
       ReapFails, NotYetExpired, Visit
  <2>2. phase = "schedule" /\ due = {} /\ jobsLeft' = jobsLeft \ {j} /\ UNCHANGED <<mem, backoff>>
    BY <2>1 DEF PassOver, CreateQueuedResource, Visit, memVars
  <2>3. Loaded' = Loaded /\ \A k \in Jobs : Eligible(k)' <=> Eligible(k)
    BY <2>2 DEF Loaded, Eligible, Fits, InGroup, OfUser, HoldingJobs, Usage, Units
  <2>4. \A d \in due' : d.do = "adopt" /\ d.job = j
    BY <2>1, <2>2 DEF PassOver, CreateQueuedResource, Do
  <2>5. Eligible(j) => \E d \in due' : d.job = j
    <3>1. CASE PassOver(j)
      BY <3>1 DEF PassOver
    <3>2. CASE CreateQueuedResource(j)
      <4>1. [do |-> "adopt", job |-> j, qr |-> Len(qrs) + 1] \in due'
        BY <3>2 DEF CreateQueuedResource, Do
      <4> QED
        BY <4>1
    <3> QED
      BY <2>1, <3>1, <3>2
  <2> QED
    BY <1>1, <1>2, <2>2, <2>3, <2>4, <2>5 DEF PassedOver
<1>6. ASSUME NEW q \in qrsLeft, VisitName(q) PROVE phase' # "schedule"
  BY <1>6 DEF VisitName, PollQueuedResource, PollForgotten, PollReplaced, PollDisappeared,
     PollDescribed, ReconcileOrphan, VisitQr
<1>7. ASSUME NEW d \in due, Carry(d), phase' = "schedule" PROVE PassedOver'
  <2>1. \E task : Resume(d, task)
    BY <1>7 DEF Carry, SaveStatus, CleanupFinished, Requeue, AdoptQr, HandlePreemption,
       ExamineSickVm, ExamineStarted, ExamineTimeout, ExamineInTime
  <2>2. phase = "schedule" /\ d.do = "adopt" /\ due = {d} /\ jobsLeft' = jobsLeft
    BY <1>7, <2>1 DEF Resume, PassedOver, Consistent, PipelineFits, OneHandler
  <2>3. AdoptQr(d)
    BY <1>7, <2>2 DEF Carry, SaveStatus, CleanupFinished, Requeue, HandlePreemption,
       ExamineSickVm, ExamineStarted, ExamineTimeout, ExamineInTime, Resume
  <2>4. PICK r : mem' = [mem EXCEPT ![d.job] = r] /\ r.status = "PROVISIONING"
    <3>1. d.job \in Jobs /\ mem[d.job] \in Record
      BY <2>3, Resuming DEF AdoptQr
    <3> DEFINE r == [mem[d.job] EXCEPT !.status = "PROVISIONING", !.qr = d.qr,
                                      !.qrState = "WAITING"]
    <3>2. mem' = [mem EXCEPT ![d.job] = r]
      BY <2>3 DEF AdoptQr, WriteStatus
    <3>3. r.status = "PROVISIONING"
      BY <3>1 DEF Record
    <3> QED
      BY <3>2, <3>3
  <2>5. \A k \in Jobs : mem'[k] = IF k = d.job THEN r ELSE mem[k]
    BY <2>4 DEF Consistent, TypeOK, MemoryOK
  <2>6. HoldingJobs \subseteq HoldingJobs' /\ due' = {}
    BY <2>3, <2>4, <2>5 DEF HoldingJobs, Loaded, Holding, AdoptQr, Done
  <2>7. ASSUME NEW k \in Loaded' \ jobsLeft', mem'[k].status = "PENDING" PROVE ~Eligible(k)'
    <3>1. k \in Jobs /\ k # d.job /\ mem'[k] = mem[k]
      BY <2>4, <2>5, <2>7 DEF Loaded
    <3>2. k \in Loaded \ jobsLeft
      BY <2>2, <2>7, <3>1 DEF Loaded
    <3>3. ~Eligible(k)
      BY <2>2, <2>7, <3>1, <3>2 DEF PassedOver
    <3> QED
      BY <1>1, <2>6, <3>1, <3>3, StillNoRoom
  <2> QED
    BY <1>1, <2>6, <2>7 DEF PassedOver
<1>8. ASSUME NEW p \in DOMAIN Place, Advance(p), phase' = "schedule" PROVE PassedOver'
  <2>1. p = "schedule" /\ due = {} /\ due' = {} /\ UNCHANGED mem /\ jobsLeft' = JobsFor(p)
    BY <1>8 DEF Advance, Drained, memVars
  <2>2. FocusedOn = "all"
    BY DEF FocusedOn, Consistent, TypeOK, BudgetOK
  <2>3. \A k \in Loaded' : mem'[k].status = "PENDING" => k \in jobsLeft'
    BY <2>1, <2>2 DEF JobsFor, Attended, Attends, Loaded
  <2> QED
    BY <1>1, <2>1, <2>3 DEF PassedOver
<1>9. \/ ScanJobs \/ WriteSchedulerState \/ EndIteration \/ Abort \/ Crash
      => phase' # "schedule"
  BY DEF ScanJobs, WriteSchedulerState, EndIteration, Abort, Crash, Unwind
<1>10. Environment \/ (\E j \in backoff : BackoffOver(j)) => UNCHANGED <<mem, phase, jobsLeft, due>>
  BY DEF Environment, BackoffOver, memVars, loopVars
<1> QED
  BY <1>3, <1>4, <1>5, <1>6, <1>7, <1>8, <1>9, <1>10 DEF Next, Scheduler

LEMMA SamePassedOver ==
    ASSUME PassedOver, UNCHANGED <<mem, backoff, phase, jobsLeft, due>>
    PROVE  PassedOver'
  BY DEF PassedOver, Loaded, Eligible, Fits, InGroup, OfUser, HoldingJobs, Usage, Units

(* The step requests no QR out of turn. *)
InOrder ==
    \A j \in Jobs : Requests(j) =>
        \A k \in Loaded : ~ /\ mem[k].status = "PENDING"
                            /\ Rank[k] < Rank[j] /\ Eligible(k)

LEMMA NextInOrder == ASSUME PassedOver, Next PROVE InOrder
<1> SUFFICES ASSUME NEW j \in Jobs, Requests(j), NEW k \in Loaded,
                    mem[k].status = "PENDING", Rank[k] < Rank[j]
             PROVE  ~Eligible(k)
  BY DEF InOrder
<1>1. j \in jobsLeft /\ CreateQueuedResource(j)
  BY OnlyRequests DEF Requests
<1>2. phase = "schedule" /\ due = {} /\ IsNext(j)
  BY <1>1 DEF CreateQueuedResource, Visit
<1>3. k \notin jobsLeft
  BY <1>2, SpecAssumption DEF IsNext, Loaded
<1> QED
  BY <1>2, <1>3 DEF PassedOver

(* No QR is requested while a pending job that comes earlier in (priority, *)
(* submit_time, job_id) could have had one (scheduler.py:468-491), for any *)
(* set of jobs; a focused process has other users' jobs wait, and a job    *)
(* whose backoff ends half-way waits for the next iteration.               *)
THEOREM OrderAlwaysKept ==
    ASSUME IsFiniteSet(Jobs), "create" \notin FaultKinds,
           \A c \in 0..MaxCrashes : Focus[c] = "all"
    PROVE  Spec => NoPriorityInversion
<1> DEFINE I == Consistent /\ Orderly
<1>1. Spec => [](I /\ VerdictsHaveEvidence)
  BY OrderAlways
<1>2. Init => PassedOver
  BY DEF Init, PassedOver
<1>3. I /\ PassedOver /\ [Next]_vars => PassedOver'
  <2>1. UNCHANGED vars /\ PassedOver => PassedOver'
    BY SamePassedOver DEF vars, memVars, loopVars
  <2> QED
    BY <2>1, NextPassesOver
<1>4. I /\ PassedOver /\ [Next]_vars => [InOrder]_vars
  BY NextInOrder
<1> QED
  BY <1>1, <1>2, <1>3, <1>4, PTL DEF Spec, NoPriorityInversion, InOrder
=============================================================================
