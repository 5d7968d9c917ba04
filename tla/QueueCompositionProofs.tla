----------------------- MODULE QueueCompositionProofs -----------------------
(***************************************************************************)
(* What is proved of the scheduler alone, and what becomes of it beside an *)
(* admin's cleanup and beside a second scheduler.  The cleanup writes      *)
(* nothing but cancellations and deletes QRs, which the scheduler expects  *)
(* of others anyway.  A second scheduler is an instance of the same        *)
(* module, so that every lemma about the first holds of the second too:    *)
(* each finds its books in order after its own steps by NextKeeps, and     *)
(* after the other's by OthersKeep.  The cleanup in its turn spares what   *)
(* lives, because QRs only go from bad to worse.  Last, the workers that   *)
(* the scheduler's environment lets run are those of StartupScript.        *)
(***************************************************************************)
EXTENDS SplitSchedulers, QueueLimitProofs

-----------------------------------------------------------------------------
(* The admin's lists name QRs that were created, and jobs.                 *)
AdminOK ==
    /\ unjudged \subseteq Names
    /\ sentence \cup doomed \subseteq [qr : Names, cancel : SUBSET Jobs]

Deletion(q) ==
    /\ q \in Names
    /\ \/ qrs' = [qrs EXCEPT ![q] = Deleted(@)]
       \/ qrs' = [qrs EXCEPT ![q] = WithoutVm(@)]

LEMMA DeletionType ==
    ASSUME TypeOK, NEW q, Deletion(q)
    PROVE  /\ CloudOK' /\ Names' = Names /\ Known' = Known
           /\ SameAttempts
           /\ \A p \in Names \ {q} : qrs'[p] = qrs[p]
           /\ qrs'[q] \in {Deleted(qrs[q]), WithoutVm(qrs[q])}
<1>1. qrs \in Seq(QR) /\ q \in DOMAIN qrs /\ qrs[q] \in QR
  BY DEF TypeOK, CloudOK, Deletion, Names
<1>2. /\ Deleted(qrs[q]) \in QR
      /\ Deleted(qrs[q]).job = qrs[q].job /\ Deleted(qrs[q]).attempt = qrs[q].attempt
  BY <1>1 DEF Deleted, QR, Infra, Worker
<1>3. /\ WithoutVm(qrs[q]) \in QR
      /\ WithoutVm(qrs[q]).job = qrs[q].job /\ WithoutVm(qrs[q]).attempt = qrs[q].attempt
  BY <1>1 DEF WithoutVm, QR, Infra, Worker
<1> QED
  BY <1>1, <1>2, <1>3 DEF Deletion, CloudOK, Names, Known, SameAttempts

(* All that a step of the cleanup changes outside the admin's own lists.   *)
LEMMA CleanupTouches ==
    ASSUME Consistent, AdminOK, Cleanup
    PROVE  /\ UNCHANGED <<filed, statusFile, retryAsked, claimed, succeeded, failed, snapshot>>
           /\ UNCHANGED <<memVars, loopVars, crashes>>
           /\ canceled \subseteq canceled' /\ canceled' \subseteq Jobs
           /\ UNCHANGED qrs \/ \E q : Deletion(q)
           /\ faults' \in 0..MaxFaults /\ faults <= faults'
<1>1. /\ canceled \subseteq Jobs /\ faults \in 0..MaxFaults /\ MaxFaults \in Nat
  BY FaultAssumption DEF Consistent, TypeOK, GcsOK, BudgetOK
<1>2. UNCHANGED <<memVars, loopVars, crashes>>
  BY DEF Cleanup, others
<1>3. ASSUME NoFault \/ \E kind : IsFault(kind)
      PROVE  faults' \in 0..MaxFaults /\ faults <= faults'
  BY <1>1, <1>3 DEF NoFault, IsFault
<1>4. CASE ReadEntries \/ ListQrs \/ CloseList \/ \E q \in unjudged : Judge(q)
  <2>1. UNCHANGED <<gcsVars, qrs>> /\ (NoFault \/ \E kind : IsFault(kind))
    BY <1>4 DEF ReadEntries, ListQrs, CloseList, Judge, CondemnOrphan, Spare, CondemnIdle, Look
  <2> QED
    BY <1>1, <1>2, <1>3, <2>1 DEF gcsVars
<1>5. ASSUME NEW s \in sentence, CancelIdle(s)
      PROVE  /\ UNCHANGED <<filed, statusFile, retryAsked, claimed, succeeded, failed, snapshot, qrs>>
             /\ canceled' = canceled \cup s.cancel /\ NoFault
  BY <1>5 DEF CancelIdle
<1>6. \A s \in sentence \cup doomed : s.qr \in Names /\ s.cancel \subseteq Jobs
  BY DEF AdminOK
<1>7. ASSUME NEW s \in sentence \cup doomed, DeleteOrphan(s) \/ DeleteIdle(s)
      PROVE  UNCHANGED gcsVars /\ Delete(s.qr)
  BY <1>7 DEF DeleteOrphan, DeleteIdle
<1>8. ASSUME NEW q \in Names, Delete(q)
      PROVE  /\ UNCHANGED qrs \/ \E p : Deletion(p)
             /\ NoFault \/ \E kind : IsFault(kind)
  BY <1>8 DEF Delete, Deletion
<1> QED
  BY <1>1, <1>2, <1>3, <1>4, <1>5, <1>6, <1>7, <1>8 DEF Cleanup, gcsVars

LEMMA CleanupKeepsAdmin ==
    ASSUME AdminOK, Names \subseteq Names', Cleanup
    PROVE  AdminOK'
<1> USE DEF AdminOK
<1>1. CASE ReadEntries \/ ListQrs \/ CloseList
  BY <1>1 DEF ReadEntries, ListQrs, CloseList
<1>2. ASSUME NEW q \in unjudged, Judge(q)
      PROVE  AdminOK'
  <2>1. /\ unjudged' \subseteq unjudged /\ doomed' = doomed
        /\ \/ sentence' = sentence
           \/ \E c \in SUBSET Jobs : sentence' = sentence \cup {[qr |-> q, cancel |-> c]}
    BY <1>2 DEF Judge, CondemnOrphan, Spare, CondemnIdle, Look
  <2> QED
    BY <2>1
<1>3. ASSUME NEW s \in sentence \cup doomed, DeleteOrphan(s) \/ DeleteIdle(s)
      PROVE  AdminOK'
  BY <1>3 DEF DeleteOrphan, DeleteIdle
<1>4. ASSUME NEW s \in sentence, CancelIdle(s)
      PROVE  AdminOK'
  BY <1>4 DEF CancelIdle
<1> QED
  BY <1>1, <1>2, <1>3, <1>4 DEF Cleanup

(* Beside an admin, everything the scheduler's own steps keep is kept.     *)
Sound == Consistent /\ Orderly /\ VerdictsHaveEvidence /\ AdminOK

LEMMA CleanupKeepsBooks ==
    ASSUME Consistent, AdminOK, Cleanup
    PROVE  Consistent' /\ AdminOK' /\ SameAttempts
<1>1. /\ UNCHANGED <<filed, statusFile, retryAsked, claimed, succeeded, failed, snapshot>>
      /\ UNCHANGED <<memVars, loopVars, crashes>>
      /\ canceled' \subseteq Jobs /\ faults' \in 0..MaxFaults
      /\ UNCHANGED qrs \/ \E q : Deletion(q)
  BY CleanupTouches
<1>2. CloudOK' /\ Known' = Known /\ Names' = Names /\ SameAttempts
  BY <1>1, DeletionType, SameNames, UnchangedAttempts DEF Consistent, TypeOK, CloudOK
<1>3. GcsOK' /\ BudgetOK'
  BY <1>1, <1>2 DEF Consistent, TypeOK, GcsOK, BudgetOK
<1>4. \A j \in Jobs : QrFits(j, statusFile[j])'
  BY <1>1, <1>2, RecordsFit, FitKept
<1> QED
  BY <1>1, <1>2, <1>3, <1>4, OthersKeep, CleanupKeepsAdmin

LEMMA CleanupKeeps ==
    ASSUME Sound, Cleanup
    PROVE  Sound' /\ Lawful /\ SameAttempts
<1>1. UNCHANGED <<filed, statusFile, mem, succeeded, failed, phase, jobsLeft, due>>
  BY CleanupTouches DEF Sound, memVars, loopVars
<1>2. Lawful /\ Orderly'
  BY <1>1, NothingChanges, SameOrderly DEF Sound
<1> QED
  BY <1>2, EvidenceKept, CleanupKeepsBooks DEF Sound

LEMMA BesideAdmin ==
    ASSUME Sound, CleanupNext
    PROVE  Sound' /\ Lawful /\ SameAttempts
<1>1. CASE Next /\ UNCHANGED adminVars
  <2>1. Consistent' /\ Lawful /\ Orderly' /\ SameAttempts
    BY <1>1, NextKeeps, NextLawful, NextAttempts DEF Sound
  <2>2. AdminOK'
    BY <1>1, <2>1 DEF Sound, AdminOK, adminVars, SameAttempts
  <2> QED
    BY <2>1, <2>2, EvidenceKept DEF Sound
<1> QED
  BY <1>1, CleanupKeeps DEF CleanupNext

LEMMA StutteringKeepsBooks ==
    ASSUME Consistent, AdminOK, UNCHANGED <<vars, adminVars>>
    PROVE  Consistent' /\ AdminOK' /\ SameAttempts
<1>1. UNCHANGED <<gcsVars, qrs, memVars, loopVars, budgetVars, unjudged, sentence, doomed>>
  BY DEF vars, adminVars
<1>2. /\ SameAttempts /\ Known' = Known
      /\ GcsOK' /\ CloudOK' /\ BudgetOK'
  BY <1>1, SameNames, SameGcs, UnchangedAttempts
     DEF Consistent, TypeOK, CloudOK, BudgetOK, budgetVars
<1>3. \A j \in Jobs : QrFits(j, statusFile[j])'
  BY <1>1, <1>2, RecordsFit, FitKept DEF gcsVars
<1>4. AdminOK'
  BY <1>1, SameNames DEF AdminOK
<1> QED
  BY <1>1, <1>2, <1>3, <1>4, OthersKeep

LEMMA StutteringKeeps ==
    ASSUME Sound, UNCHANGED <<vars, adminVars>>
    PROVE  Sound' /\ Lawful /\ SameAttempts
<1>1. UNCHANGED <<filed, statusFile, mem, succeeded, failed, phase, jobsLeft, due>>
  BY DEF vars, gcsVars, memVars, loopVars
<1> QED
  BY <1>1, StutteringKeepsBooks, NothingChanges, SameOrderly, EvidenceKept DEF Sound

LEMMA SoundFromTheStart == CleanupInit => Sound
<1> SUFFICES ASSUME CleanupInit PROVE Sound
  OBVIOUS
<1>1. Consistent
  BY InitConsistent DEF CleanupInit
<1>2. Orderly /\ VerdictsHaveEvidence
  BY DEF CleanupInit, Init, Orderly, VisitsFit, TasksFit, VerdictsHaveEvidence, Records, NoRecord
<1> QED
  BY <1>1, <1>2 DEF CleanupInit, Sound, AdminOK

LEMMA SoundBesideAdmin == CleanupSpec => []Sound
<1>1. Sound /\ [CleanupNext]_<<vars, adminVars>> => Sound'
  BY BesideAdmin, StutteringKeeps
<1> QED
  BY <1>1, SoundFromTheStart, PTL DEF CleanupSpec

-----------------------------------------------------------------------------
(* A cleanup between any two steps of the scheduler forges no evidence:    *)
(* verdicts still rest on the markers of the very attempt.                 *)
THEOREM VerdictsBesideAdmin == CleanupSpec => []VerdictsHaveEvidence
<1>1. Sound => VerdictsHaveEvidence
  BY DEF Sound
<1> QED
  BY <1>1, SoundBesideAdmin, PTL

-----------------------------------------------------------------------------
(* The jobs a cleanup cancels are shown: it has their QRs from a snapshot. *)
CancelsTheShown ==
    /\ \A j \in Jobs : snapshot[j].qr # 0 => snapshot[j].status # "ABSENT"
    /\ \A j \in Jobs : named[j].qr # 0 => Shown(j)
    /\ \A s \in sentence : \A j \in s.cancel : Shown(j)

TimelyAdmin == Timely /\ ("slow" \in Happenings => CancelsTheShown)

LEMMA NextCancelsTheShown ==
    ASSUME Consistent, BooksFit, Lawful, PublishesLast, \A j \in Jobs : FreshFits(j),
           CancelsTheShown, AdminOK, UNCHANGED adminVars
    PROVE  CancelsTheShown'
<1>1. \A j \in Jobs : Shown(j) => Shown(j)'
  BY ShownStays DEF Lawful, BooksFit
<1>2. ASSUME NEW j \in Jobs, snapshot'[j].qr # 0 PROVE snapshot'[j].status # "ABSENT"
  <2>1. CASE snapshot' = snapshot
    BY <1>2, <2>1 DEF CancelsTheShown
  <2>2. CASE snapshot' = Published
    <3>1. snapshot'[j].status = mem[j].status /\ mem[j].qr # 0
      BY <1>2, <2>2 DEF Published, View
    <3> QED
      BY <3>1, RecordsFit DEF QrFits, Holding
  <2> QED
    BY <2>1, <2>2 DEF PublishesLast
<1> QED
  BY <1>1, <1>2 DEF CancelsTheShown, adminVars, AdminOK

LEMMA CleanupCancelsTheShown ==
    ASSUME Consistent, AdminOK, CancelsTheShown, "blind" \notin Happenings, Cleanup
    PROVE  /\ CancelsTheShown'
           /\ \A j \in canceled' : j \in canceled \/ Shown(j)
<1>1. UNCHANGED <<filed, snapshot>>
  BY CleanupTouches
<1>2. \A j : Shown(j)' <=> Shown(j)
  BY <1>1 DEF Shown, Fresh
<1>3. CASE ReadEntries
  <2>1. named' = snapshot /\ UNCHANGED <<sentence, canceled>>
    BY <1>3 DEF ReadEntries, Views, gcsVars
  <2>2. \A j \in Jobs : named'[j].qr # 0 => Shown(j)
    BY <2>1 DEF CancelsTheShown, Shown
  <2> QED
    BY <1>1, <1>2, <2>1, <2>2 DEF CancelsTheShown
<1>4. CASE ListQrs \/ CloseList
  <2>1. /\ UNCHANGED <<sentence, canceled>>
        /\ \A j \in Jobs : named'[j].qr # 0 => named[j].qr # 0
    BY <1>4 DEF ListQrs, CloseList, View, NoRecord, gcsVars
  <2> QED
    BY <1>1, <1>2, <2>1 DEF CancelsTheShown
<1>5. ASSUME NEW q \in unjudged, Judge(q)
      PROVE  /\ CancelsTheShown' /\ canceled' = canceled
  <2>1. q # 0
    BY DEF AdminOK, Consistent, TypeOK, CloudOK, Names
  <2>2. /\ UNCHANGED <<named, canceled>>
        /\ \/ sentence' \subseteq sentence \cup {[qr |-> q, cancel |-> {}]}
           \/ \E j \in NamedFor(q) : sentence' = sentence \cup {[qr |-> q, cancel |-> {j}]}
    BY <1>5 DEF Judge, CondemnOrphan, Spare, CondemnIdle, Look, gcsVars
  <2>3. \A j \in NamedFor(q) : Shown(j)
    BY <2>1 DEF NamedFor, CancelsTheShown
  <2>4. \A s \in sentence' : \A j \in s.cancel : Shown(j)
    BY <2>2, <2>3 DEF CancelsTheShown
  <2> QED
    BY <1>1, <1>2, <2>2, <2>4 DEF CancelsTheShown
<1>6. ASSUME NEW s \in sentence, CancelIdle(s) \/ DeleteOrphan(s)
      PROVE  /\ CancelsTheShown' /\ \A j \in canceled' : j \in canceled \/ Shown(j)
  <2>1. /\ UNCHANGED named /\ sentence' \subseteq sentence
        /\ canceled' \subseteq canceled \cup s.cancel
    BY <1>6 DEF CancelIdle, DeleteOrphan, gcsVars
  <2> QED
    BY <1>1, <1>2, <2>1 DEF CancelsTheShown
<1>7. ASSUME NEW s \in doomed, DeleteIdle(s)
      PROVE  /\ CancelsTheShown' /\ canceled' = canceled
  BY <1>1, <1>2, <1>7 DEF DeleteIdle, CancelsTheShown, gcsVars
<1> QED
  BY <1>3, <1>4, <1>5, <1>6, <1>7 DEF Cleanup

LEMMA CleanupKeepsTimely ==
    ASSUME Sound, Timely, Cleanup,
           "slow" \in Happenings => \A j \in canceled' : j \in canceled \/ Shown(j)
    PROVE  Timely'
<1>1. /\ UNCHANGED <<filed, statusFile, snapshot, mem, phase>>
      /\ canceled \subseteq canceled' /\ SameAttempts
  BY CleanupTouches, CleanupKeeps DEF Sound, memVars, loopVars
<1>2. \A j : (Shown(j)' <=> Shown(j)) /\ (Fresh(j)' <=> Fresh(j))
  BY <1>1 DEF Shown, Fresh
<1>3. UNCHANGED qrs \/ \E q : Deletion(q)
  BY CleanupTouches DEF Sound
<1>4. Names' = Names /\ \A q \in Names : qrs'[q].job = qrs[q].job
  BY <1>1, <1>3, DeletionType, SameNames DEF SameAttempts, Sound, Consistent
<1>5. \A j : QrsOf(j)' = QrsOf(j)
  BY <1>4 DEF QrsOf
<1>6. ASSUME "slow" \in Happenings, NEW j \in Jobs PROVE FreshFits(j)'
  BY <1>1, <1>2, <1>5, <1>6 DEF Timely, FreshFits
<1> QED
  BY <1>1, <1>6 DEF Timely

LEMMA TimelyBesideAdmin ==
    ASSUME Sound, BooksFit, BooksFit', TimelyAdmin, SlowIsAlone,
           [CleanupNext]_<<vars, adminVars>>
    PROVE  TimelyAdmin'
<1>1. CASE Next /\ UNCHANGED adminVars
  <2>1. Timely'
    BY <1>1, TimelyKept DEF Sound, TimelyAdmin
  <2>2. ASSUME "slow" \in Happenings PROVE CancelsTheShown'
    <3>1. PublishesLast /\ Lawful /\ \A j \in Jobs : FreshFits(j)
      BY <1>1, <2>2, NextPublishesLast, NextLawful DEF Sound, TimelyAdmin, Timely
    <3> QED
      BY <1>1, <2>2, <3>1, NextCancelsTheShown DEF Sound, TimelyAdmin
  <2> QED
    BY <2>1, <2>2 DEF TimelyAdmin
<1>2. CASE Cleanup
  <2>1. "slow" \in Happenings =>
            CancelsTheShown' /\ \A j \in canceled' : j \in canceled \/ Shown(j)
    BY <1>2, CleanupCancelsTheShown DEF Sound, TimelyAdmin, SlowIsAlone
  <2> QED
    BY <1>2, <2>1, CleanupKeepsTimely DEF TimelyAdmin
<1>3. CASE UNCHANGED <<vars, adminVars>>
  <2>1. UNCHANGED <<filed, statusFile, canceled, snapshot, qrs, mem, phase, named, sentence>>
    BY <1>3 DEF vars, gcsVars, memVars, loopVars, adminVars
  <2> QED
    BY <2>1 DEF TimelyAdmin, Timely, FreshFits, Fresh, CancelsTheShown, Shown, QrsOf, Names
<1> QED
  BY <1>1, <1>2, <1>3 DEF CleanupNext

(* status.json implements JobLedger also beside a cleanup, which takes QRs *)
(* away and cancels jobs under the scheduler's hands (cli.py:1037-1060),   *)
(* and whose cancellation a submitter's late write cannot undo either.     *)
THEOREM LedgerBesideAdmin ==
    ASSUME SlowIsAlone
    PROVE  CleanupSpec => StatusFileIsLedger
<1> DEFINE ledger == [j \in Jobs |-> LedgerOf(statusFile[j])]
<1>1. CleanupInit => BooksFit /\ TimelyAdmin /\ Ledger!LedgerInit
  BY LedgerBegins
     DEF CleanupInit, Init, TimelyAdmin, CancelsTheShown, View, NoRecord
<1>2. Sound /\ BooksFit /\ TimelyAdmin /\ [CleanupNext]_<<vars, adminVars>>
        => BooksFit' /\ TimelyAdmin' /\ [Ledger!LedgerNext]_ledger
  <2> SUFFICES ASSUME Sound, BooksFit, TimelyAdmin, [CleanupNext]_<<vars, adminVars>>
               PROVE  BooksFit' /\ TimelyAdmin' /\ [Ledger!LedgerNext]_ledger
    OBVIOUS
  <2>1. Sound' /\ Lawful
    BY BesideAdmin, StutteringKeeps
  <2> QED
    BY <2>1, BooksKept, TimelyBesideAdmin, LedgerStep DEF Sound, Consistent, TimelyAdmin
<1> QED
  BY <1>1, <1>2, SoundBesideAdmin, PTL DEF CleanupSpec, StatusFileIsLedger, Ledger!LedgerSpec
-----------------------------------------------------------------------------
(* What a cleanup leaves as it is, for the other results about the         *)
(* scheduler.                                                              *)
LEMMA QuietCleanup ==
    ASSUME Sound, Cleanup \/ UNCHANGED <<vars, adminVars>>
    PROVE  /\ UNCHANGED <<filed, statusFile, mem, tracked, backoff, phase, jobsLeft, due>>
           /\ Sound' /\ Lawful /\ SameAttempts
           /\ UNCHANGED qrs \/ \E q : Deletion(q)
<1>1. CASE Cleanup
  BY <1>1, CleanupTouches, CleanupKeeps DEF Sound, memVars, loopVars
<1>2. CASE UNCHANGED <<vars, adminVars>>
  BY <1>2, StutteringKeeps DEF vars, gcsVars, memVars, loopVars
<1> QED
  BY <1>1, <1>2

LEMMA SchedulerOrQuiet ==
    ASSUME [CleanupNext]_<<vars, adminVars>>
    PROVE  Next \/ Cleanup \/ UNCHANGED <<vars, adminVars>>
  BY DEF CleanupNext

(* A deletion leaves whatever was safe from reconciliation safe: the QR is *)
(* tracked or on its way out.                                              *)
LEMMA CleanupCovers ==
    ASSUME Sound, Covered, Cleanup \/ UNCHANGED <<vars, adminVars>>
    PROVE  Covered'
<1>1. /\ UNCHANGED <<filed, statusFile, mem, tracked, phase>>
      /\ Consistent /\ Consistent' /\ Lawful
      /\ UNCHANGED qrs \/ \E q : Deletion(q)
  BY QuietCleanup DEF Sound
<1>2. StaysListed /\ NobodyLoaded
  BY <1>1, SameListed, SamePhase
<1>3. ASSUME NEW q, Deletion(q) PROVE StaysSafe
  <2>1. \A p \in Names : /\ qrs[p] \in QR
                         /\ p # q => qrs'[p] = qrs[p]
                         /\ p = q => qrs'[p] \in {Deleted(qrs[q]), WithoutVm(qrs[q])}
    BY <1>1, <1>3, DeletionType DEF Consistent, TypeOK, CloudOK, Names
  <2>2. \A r \in QR : /\ Deleted(r).infra \in {"DELETING", "GONE"}
                      /\ WithoutVm(r).infra = r.infra
    BY DEF Deleted, WithoutVm, QR
  <2>3. \A p \in Names : Doomed(p) => Doomed(p)'
    BY <2>1, <2>2 DEF Doomed
  <2> QED
    BY <1>1, <2>3, FileOf DEF StaysSafe, NamesQr, Safe, Doomed
<1> QED
  BY <1>1, <1>2, <1>3, SameSafe, StillCovered

(* A cleanup makes the scheduler give up no healthy attempt: a QR that the *)
(* admin deletes is no longer healthy (scheduler.py:330-405).              *)
THEOREM HealthBesideAdmin ==
    ASSUME "describe" \notin FaultKinds, "probe" \notin FaultKinds
    PROVE  CleanupSpec => HealthyAttemptKept
<1>1. Sound /\ [CleanupNext]_<<vars, adminVars>> =>
         [\A d \in due' \ due : d.do = "preempt" => ~Healthy(d.qr)]_vars
  <2> SUFFICES ASSUME Sound, Next \/ Cleanup \/ UNCHANGED <<vars, adminVars>>
               PROVE  SparesHealth
    BY SchedulerOrQuiet DEF SparesHealth
  <2> QED
    BY NextSpares, QuietCleanup, OtherTask DEF Sound
<1> QED
  BY <1>1, SoundBesideAdmin, PTL DEF CleanupSpec, HealthyAttemptKept

(* Deletions behind the scheduler's back do not make it track two QRs for  *)
(* one attempt (scheduler.py:315-330, 516-552).                            *)
THEOREM OneQrBesideAdmin ==
    ASSUME "reap" \notin FaultKinds
    PROVE  CleanupSpec => []OneQrPerAttempt
<1>1. CleanupInit => Newest
  BY DEF CleanupInit, Init, Newest, OneQrPerAttempt
<1>2. Sound /\ Newest /\ [CleanupNext]_<<vars, adminVars>> => Newest'
  <2> SUFFICES ASSUME Sound, Newest, Next \/ Cleanup \/ UNCHANGED <<vars, adminVars>>
               PROVE  Newest'
    BY SchedulerOrQuiet
  <2>1. CASE ~Next
    <3>1. SameAttempts /\ UNCHANGED <<filed, mem, tracked>>
      BY <2>1, QuietCleanup
    <3> QED
      BY <3>1, QuietStaysNewest DEF Sound, StaysReaped
  <2> QED
    BY <2>1, NextNewest DEF Sound
<1>3. Newest => OneQrPerAttempt
  BY DEF Newest
<1> QED
  BY <1>1, <1>2, <1>3, SoundBesideAdmin, PTL DEF CleanupSpec

(* Nor do they make it exceed a limit: a job whose QR has been deleted     *)
(* counts until its attempt is closed (scheduler.py:452-507).              *)
THEOREM LimitsBesideAdmin ==
    ASSUME IsFiniteSet(Jobs), "save" \notin FaultKinds, "abort" \notin FaultKinds
    PROVE  CleanupSpec => []LimitsRespected
<1>1. CleanupInit => Covered /\ Modest /\ NothingLeft
  BY BeginsModest DEF CleanupInit
<1>2. Sound /\ Covered /\ Modest /\ NothingLeft /\ [CleanupNext]_<<vars, adminVars>>
        => Covered' /\ Modest' /\ NothingLeft'
  <2> SUFFICES ASSUME Sound, Covered, Modest, NothingLeft, [CleanupNext]_<<vars, adminVars>>
               PROVE  Covered' /\ Modest' /\ NothingLeft'
    OBVIOUS
  <2>1. Sound'
    BY BesideAdmin, StutteringKeeps
  <2>2. CASE Next
    <3>1. Covered' /\ Modest'
      BY <2>1, <2>2, NextCovered, NextModest DEF Sound
    <3> QED
      BY <2>1, <2>2, <3>1, NextNothingLeft DEF Sound, Modest
  <2>3. CASE Cleanup \/ UNCHANGED <<vars, adminVars>>
    BY <2>3, QuietCleanup, CleanupCovers, SameModest DEF NothingLeft
  <2> QED
    BY <2>2, <2>3, SchedulerOrQuiet
<1>3. Modest => LimitsRespected
  BY ModestMeansLimits
<1> QED
  BY <1>1, <1>2, <1>3, SoundBesideAdmin, PTL DEF CleanupSpec

(* Capacity that an admin frees goes to whoever is first in the queue      *)
(* (scheduler.py:468-491).                                                 *)
THEOREM OrderBesideAdmin ==
    ASSUME IsFiniteSet(Jobs), "create" \notin FaultKinds,
           \A c \in 0..MaxCrashes : Focus[c] = "all"
    PROVE  CleanupSpec => NoPriorityInversion
<1>1. CleanupInit => PassedOver
  BY DEF CleanupInit, Init, PassedOver
<1>2. Sound /\ PassedOver /\ [CleanupNext]_<<vars, adminVars>> => PassedOver' /\ [InOrder]_vars
  <2> SUFFICES ASSUME Sound, PassedOver, Next \/ Cleanup \/ UNCHANGED <<vars, adminVars>>
               PROVE  PassedOver' /\ InOrder
    BY SchedulerOrQuiet
  <2>1. CASE ~Next
    <3>1. UNCHANGED <<mem, backoff, phase, jobsLeft, due>>
      BY <2>1, QuietCleanup
    <3> QED
      BY <3>1, SamePassedOver DEF InOrder, Requests
  <2> QED
    BY <2>1, NextPassesOver, NextInOrder DEF Sound
<1> QED
  BY <1>1, <1>2, SoundBesideAdmin, PTL DEF CleanupSpec, NoPriorityInversion, InOrder

-----------------------------------------------------------------------------
(***************************************************************************)
(* The second scheduler.  SplitSchedulers lets it take the steps of        *)
(* QueueScheduler; here the module with the proofs is instantiated in the  *)
(* same way, so that its lemmas are about the second scheduler, and the    *)
(* two instances are shown to take the same steps.                         *)
(***************************************************************************)
Theirs == INSTANCE QueueCapacityProofs WITH
    mem <- theirMem, tracked <- theirTracked, backoff <- theirBackoff,
    phase <- theirPhase, jobsLeft <- theirJobsLeft, qrsLeft <- theirQrsLeft,
    due <- theirDue, late <- theirLate,
    Focus <- [k \in 0..MaxCrashes |-> Partner]

LEMMA SameMoves ==
    There!ScanJobs \/ There!WriteSchedulerState \/ There!EndIteration
        => Theirs!ScanJobs \/ Theirs!WriteSchedulerState \/ Theirs!EndIteration
  BY DEF There!ScanJobs, There!WriteSchedulerState, There!EndIteration, There!Loadable,
     There!NoFault, There!Missing, There!IsFault, There!Load, There!MayProceed,
     There!gcsVars, There!Published, There!memVars, There!budgetVars, There!Drained,
     There!Place, There!Periodic, There!Ahead, There!LateFor, There!Listed,
     There!Loaded, There!LoadedState, There!Adopted, There!View, There!Busy,
     There!StateOnFile, There!Holding, There!JobsFor, There!QrsFor, There!Readers,
     There!NewRecord, There!Attended, There!Cancelable, There!Outdated,
     There!Everything, There!Terminal, There!Attends, There!Orphans, There!NoRecord,
     There!QrsOf, There!FocusedOn, There!Names, There!TimeUp, Theirs!TimeUp, Theirs!ScanJobs,
     Theirs!WriteSchedulerState, Theirs!EndIteration, Theirs!Loadable,
     Theirs!NoFault, Theirs!Missing, Theirs!IsFault, Theirs!Load, Theirs!MayProceed,
     Theirs!gcsVars, Theirs!Published, Theirs!memVars, Theirs!budgetVars,
     Theirs!Drained, Theirs!Place, Theirs!Periodic, Theirs!Ahead, Theirs!LateFor,
     Theirs!Listed, Theirs!Loaded, Theirs!LoadedState, Theirs!Adopted, Theirs!View,
     Theirs!Busy, Theirs!StateOnFile, Theirs!Holding, Theirs!JobsFor, Theirs!QrsFor,
     Theirs!Readers, Theirs!NewRecord, Theirs!Attended, Theirs!Cancelable,
     Theirs!Outdated, Theirs!Everything, Theirs!Terminal, Theirs!Attends,
     Theirs!Orphans, Theirs!NoRecord, Theirs!QrsOf, Theirs!FocusedOn, Theirs!Names

LEMMA SameAdvance == ASSUME NEW p, There!Advance(p) PROVE Theirs!Advance(p)
  BY DEF There!Advance, There!Drained, There!Ahead, There!Place, There!Periodic,
     There!JobsFor, There!QrsFor, There!LateFor, There!gcsVars, There!memVars,
     There!budgetVars, There!Busy, There!Loaded, There!Attended, There!Cancelable,
     There!Outdated, There!Everything, There!Terminal, There!Attends, There!Orphans,
     There!Published, There!Readers, There!Holding, There!QrsOf, There!Adopted,
     There!FocusedOn, There!Names, There!View, Theirs!Advance, Theirs!Drained,
     Theirs!Ahead, Theirs!Place, Theirs!Periodic, Theirs!JobsFor, Theirs!QrsFor,
     Theirs!LateFor, Theirs!gcsVars, Theirs!memVars, Theirs!budgetVars, Theirs!Busy,
     Theirs!Loaded, Theirs!Attended, Theirs!Cancelable, Theirs!Outdated,
     Theirs!Everything, Theirs!Terminal, Theirs!Attends, Theirs!Orphans,
     Theirs!Published, Theirs!Readers, Theirs!Holding, Theirs!QrsOf, Theirs!Adopted,
     Theirs!FocusedOn, Theirs!Names, Theirs!View

LEMMA SameLimits == \A j : There!Eligible(j) <=> Theirs!Eligible(j)
<1>1. There!HoldingJobs = Theirs!HoldingJobs
  BY DEF There!HoldingJobs, There!Loaded, There!Holding,
     Theirs!HoldingJobs, Theirs!Loaded, Theirs!Holding
<1>2. /\ \A g : There!InGroup(g) = Theirs!InGroup(g)
      /\ \A u : There!OfUser(u) = Theirs!OfUser(u)
  BY <1>1 DEF There!InGroup, Theirs!InGroup, There!OfUser, Theirs!OfUser
<1>3. \A js : There!Usage(js) = Theirs!Usage(js)
  <2>1. \A js : There!Units(js) = Theirs!Units(js)
    BY DEF There!Units, Theirs!Units
  <2> QED
    BY <2>1 DEF There!Usage, Theirs!Usage, There!Cardinality, Theirs!Cardinality
<1>4. \A j : There!Fits(j) <=> Theirs!Fits(j)
  BY <1>2, <1>3 DEF There!Fits, Theirs!Fits
<1> QED
  BY <1>4 DEF There!Eligible, Theirs!Eligible

LEMMA SameScheduling ==
    ASSUME NEW j
    PROVE  There!PassOver(j) \/ There!CreateQueuedResource(j) \/ There!CreateFails(j)
               => Theirs!PassOver(j) \/ Theirs!CreateQueuedResource(j) \/ Theirs!CreateFails(j)
  BY SameLimits
     DEF There!PassOver, There!CreateQueuedResource, There!CreateFails, There!Visit,
     There!IsNext, There!NoFault, There!gcsVars, There!memVars, There!NewQR,
     There!NextAttempt, There!Do, There!IsFault, Theirs!PassOver,
     Theirs!CreateQueuedResource, Theirs!CreateFails, Theirs!Visit, Theirs!IsNext,
     Theirs!NoFault, Theirs!gcsVars, Theirs!memVars, Theirs!NewQR,
     Theirs!NextAttempt, Theirs!Do, Theirs!IsFault

LEMMA SameVisits == ASSUME NEW j, There!VisitJob(j) PROVE Theirs!VisitJob(j)
<1>1. \/ There!RefreshState(j) \/ There!CheckCanceled(j) \/ There!CheckCompleted(j)
      \/ There!CheckCompletedMissingReport(j) \/ There!CheckRetry(j)
      \/ There!ReapTerminal(j) \/ There!ReapFails(j) \/ There!NotYetExpired(j)
      => \/ Theirs!RefreshState(j) \/ Theirs!CheckCanceled(j) \/ Theirs!CheckCompleted(j)
         \/ Theirs!CheckCompletedMissingReport(j) \/ Theirs!CheckRetry(j)
         \/ Theirs!ReapTerminal(j) \/ Theirs!ReapFails(j) \/ Theirs!NotYetExpired(j)
  BY DEF There!RefreshState, There!CheckCanceled, There!CheckCompleted,
     There!CheckCompletedMissingReport, There!CheckRetry, There!ReapTerminal,
     There!ReapFails, There!NotYetExpired, There!Visit, There!NoFault, There!QrsOf,
     There!Adopted, There!IsFault, There!gcsVars, There!CancelJob,
     There!ReadAttempt, There!FinishJob, There!Finished, There!Do, There!memVars,
     There!Forget, There!NoRecord, There!NotOf, There!Names, There!Holding,
     There!Released, There!CleanupResources, There!NextAttempt, There!WriteStatus,
     There!Closed, There!Deleted, There!WithoutVm, There!SomeOf, Theirs!WithoutVm,
     Theirs!SomeOf, Theirs!RefreshState, Theirs!CheckCanceled,
     Theirs!CheckCompleted, Theirs!CheckCompletedMissingReport, Theirs!CheckRetry,
     Theirs!ReapTerminal, Theirs!ReapFails, Theirs!NotYetExpired, Theirs!Visit,
     Theirs!NoFault, Theirs!QrsOf, Theirs!Adopted, Theirs!IsFault, Theirs!gcsVars,
     Theirs!CancelJob, Theirs!ReadAttempt, Theirs!FinishJob, Theirs!Finished,
     Theirs!Do, Theirs!memVars, Theirs!Forget, Theirs!NoRecord, Theirs!NotOf,
     Theirs!Names, Theirs!Holding, Theirs!Released, Theirs!CleanupResources,
     Theirs!NextAttempt, Theirs!WriteStatus, Theirs!Closed, Theirs!Deleted
<1> QED
  BY <1>1, SameScheduling DEF There!VisitJob, Theirs!VisitJob

LEMMA SamePolls == ASSUME NEW q, There!VisitName(q) PROVE Theirs!VisitName(q)
  BY DEF There!VisitName, There!PollQueuedResource, There!ReconcileOrphan,
     There!PollForgotten, There!PollReplaced, There!PollDisappeared,
     There!PollDescribed, There!VisitQr, There!CleanupResources, There!gcsVars,
     There!Loaded, There!NoFault, There!Described, There!IsFault, There!Do,
     There!WriteStatus, There!HandleState, There!Deleted, There!WithoutVm,
     Theirs!WithoutVm, Theirs!VisitName,
     Theirs!PollQueuedResource, Theirs!ReconcileOrphan, Theirs!PollForgotten,
     Theirs!PollReplaced, Theirs!PollDisappeared, Theirs!PollDescribed,
     Theirs!VisitQr, Theirs!CleanupResources, Theirs!gcsVars, Theirs!Loaded,
     Theirs!NoFault, Theirs!Described, Theirs!IsFault, Theirs!Do,
     Theirs!WriteStatus, Theirs!HandleState, Theirs!Deleted

LEMMA SameHandlers == ASSUME NEW d, There!Carry(d) PROVE Theirs!Carry(d)
  BY DEF There!Carry, There!SaveStatus, There!CleanupFinished, There!Requeue,
     There!AdoptQr, There!HandlePreemption, There!ExamineSickVm,
     There!ExamineStarted, There!ExamineTimeout, There!ExamineInTime, There!Resume,
     There!Done, There!WriteStatus, There!CleanupResources, There!gcsVars,
     There!RetriedRecord, There!Requeued, There!Released, There!Closed, There!Do,
     There!NoFault, There!memVars, There!ReadAttempt, There!NoClaimTimeout,
     There!HeartbeatTimeout, There!IsFault, There!Deleted, There!WithoutVm,
     Theirs!WithoutVm, There!AttemptsLeft,
     There!NextAttempt, There!Beating, There!QrsOf, There!Names, Theirs!Carry,
     Theirs!SaveStatus, Theirs!CleanupFinished, Theirs!Requeue, Theirs!AdoptQr,
     Theirs!HandlePreemption, Theirs!ExamineSickVm, Theirs!ExamineStarted,
     Theirs!ExamineTimeout, Theirs!ExamineInTime, Theirs!Resume, Theirs!Done,
     Theirs!WriteStatus, Theirs!CleanupResources, Theirs!gcsVars,
     Theirs!RetriedRecord, Theirs!Requeued, Theirs!Released, Theirs!Closed,
     Theirs!Do, Theirs!NoFault, Theirs!memVars, Theirs!ReadAttempt,
     Theirs!NoClaimTimeout, Theirs!HeartbeatTimeout, Theirs!IsFault, Theirs!Deleted,
     Theirs!AttemptsLeft, Theirs!NextAttempt, Theirs!Beating, Theirs!QrsOf,
     Theirs!Names

LEMMA StepIsTheirs ==
    ASSUME StepThere
    PROVE  Theirs!Scheduler \/ \E j \in theirBackoff : Theirs!BackoffOver(j)
<1>1. ASSUME NEW j, There!BackoffOver(j) PROVE Theirs!BackoffOver(j)
  BY <1>1
     DEF There!BackoffOver, There!gcsVars, There!loopVars, There!budgetVars,
     Theirs!BackoffOver, Theirs!gcsVars, Theirs!loopVars, Theirs!budgetVars
<1>2. DOMAIN There!Place = DOMAIN Theirs!Place
  BY DEF There!Place, Theirs!Place
<1>3. There!Scheduler => Theirs!Scheduler
  BY <1>2, SameMoves, SameAdvance, SameVisits, SamePolls, SameHandlers
     DEF There!Scheduler, Theirs!Scheduler
<1> QED
  BY <1>1, <1>3 DEF StepThere

LEMMA StepIsNext == ASSUME StepThere PROVE Theirs!Next
  BY StepIsTheirs DEF Theirs!Next
-----------------------------------------------------------------------------
(* What the two share, and what each keeps for itself.                     *)
LEMMA SharedTypes ==
    /\ GcsOK <=> Theirs!GcsOK
    /\ CloudOK <=> Theirs!CloudOK
    /\ BudgetOK <=> Theirs!BudgetOK
  BY DEF GcsOK, CloudOK, BudgetOK, Theirs!GcsOK, Theirs!CloudOK, Theirs!BudgetOK, Record, Entry,
     Statuses, Holding, Terminal, Outcomes, QrStates, Known, Names, QR, Infra, Worker,
     Theirs!Record, Theirs!Entry, Theirs!Statuses, Theirs!Holding, Theirs!Terminal,
     Theirs!Outcomes, Theirs!QrStates, Theirs!Known, Theirs!Names, Theirs!QR, Theirs!Infra,
     Theirs!Worker

LEMMA SharedAttempts ==
    /\ SameAttempts <=> Theirs!SameAttempts
    /\ \A j, r : QrFits(j, r) <=> Theirs!QrFits(j, r)
  BY DEF SameAttempts, QrFits, AttemptOf, Names, NextAttempt, Holding, Theirs!SameAttempts,
     Theirs!QrFits, Theirs!AttemptOf, Theirs!Names, Theirs!NextAttempt, Theirs!Holding

Unstarted ==
    /\ theirMem = [j \in Jobs |-> NoRecord] /\ theirTracked = {} /\ theirBackoff = {}
    /\ theirJobsLeft = {} /\ theirQrsLeft = {} /\ theirDue = {} /\ theirLate = TRUE

(* The books of both are in order, and the second one never reaps.         *)
BothSound ==
    /\ Consistent /\ AdminOK /\ KeepsFocus
    /\ IF Deployed THEN Theirs!Consistent /\ theirPhase # "reap" ELSE Unstarted

LEMMA PartnersFocus ==
    /\ [k \in 0..MaxCrashes |-> Partner] \in [0..MaxCrashes -> Users \cup {"all"}]
    /\ BudgetOK => Theirs!FocusedOn = Partner
  BY PartnerAssumption DEF BudgetOK, Theirs!FocusedOn

LEMMA TheirFaults ==
    /\ Happenings \subseteq Theirs!AllHappenings
    /\ FaultKinds \subseteq Theirs!AllFaultKinds
  BY FaultAssumption DEF AllHappenings, AllFaultKinds, Theirs!AllHappenings, Theirs!AllFaultKinds

LEMMA TheirNext ==
    ASSUME Theirs!Consistent, Theirs!Next
    PROVE  Theirs!Consistent' /\ Theirs!SameAttempts
  BY Theirs!NextKeeps, Theirs!NextAttempts, PartnersFocus, TheirFaults, SpecAssumption,
     AttemptAssumption, LimitAssumption, FaultAssumption

LEMMA TheyStandBy ==
    ASSUME Theirs!Consistent, Consistent', SameAttempts, UNCHANGED theirVars
    PROVE  Theirs!Consistent'
<1>1. UNCHANGED <<Theirs!memVars, Theirs!loopVars>>
  BY DEF theirVars, theirMemory, theirLoop, Theirs!memVars, Theirs!loopVars
<1>2. Theirs!GcsOK' /\ Theirs!CloudOK' /\ Theirs!BudgetOK' /\ Theirs!SameAttempts
  BY SharedTypes, SharedAttempts, PTL DEF Consistent, TypeOK
<1>3. \A j \in Jobs : Theirs!QrFits(j, statusFile[j])'
  BY DEF Consistent, CurrentQrFitsAttempt, Records, QrFits, AttemptOf, Names, NextAttempt,
     Holding, Theirs!QrFits, Theirs!AttemptOf, Theirs!Names, Theirs!NextAttempt,
     Theirs!Holding
<1> QED
  BY <1>1, <1>2, <1>3, Theirs!OthersKeep, PartnersFocus, TheirFaults, SpecAssumption,
     AttemptAssumption, LimitAssumption, FaultAssumption

LEMMA TheyStart ==
    ASSUME BothSound, StartThere, Consistent'
    PROVE  Theirs!Consistent'
<1>1. /\ theirMem' = [j \in Jobs |-> NoRecord] /\ theirTracked' = {} /\ theirBackoff' = {}
      /\ theirJobsLeft' = {} /\ theirQrsLeft' = {} /\ theirDue' = {} /\ theirLate' = TRUE
      /\ theirPhase' = "idle"
  BY DEF BothSound, Unstarted, StartThere, theirMemory
<1>2. Theirs!GcsOK' /\ Theirs!CloudOK' /\ Theirs!BudgetOK'
  BY SharedTypes, PTL DEF Consistent, TypeOK
<1>3. NoRecord \in Theirs!Record
  BY NoRecordType DEF Record, Entry, Statuses, Holding, Terminal, Outcomes, QrStates,
     Theirs!Record, Theirs!Entry, Theirs!Statuses, Theirs!Holding, Theirs!Terminal,
     Theirs!Outcomes, Theirs!QrStates
<1>4. Theirs!MemoryOK'
  BY <1>1, <1>3 DEF Theirs!MemoryOK, Theirs!Known, NoRecord
<1>5. Theirs!LoopOK'
  BY <1>1 DEF Theirs!LoopOK, Theirs!DueOK, Theirs!Phases
<1>6. Theirs!PipelineFits'
  BY <1>1 DEF Theirs!PipelineFits, Theirs!OneHandler, Theirs!DueFits, Theirs!OrphansFit
<1>7. Theirs!CurrentQrFitsAttempt'
  <2>1. \A j \in Jobs : Theirs!QrFits(j, statusFile[j])'
    BY DEF Consistent, CurrentQrFitsAttempt, Records, QrFits, AttemptOf, Names, NextAttempt,
       Holding, Theirs!QrFits, Theirs!AttemptOf, Theirs!Names, Theirs!NextAttempt,
       Theirs!Holding
  <2>2. \A j \in Jobs : Theirs!QrFits(j, theirMem[j])'
    BY <1>1 DEF Theirs!QrFits, Theirs!Holding, NoRecord
  <2> QED
    BY <2>1, <2>2 DEF Theirs!CurrentQrFitsAttempt, Theirs!Records
<1>8. Theirs!HeldIsTracked'
  BY <1>1 DEF Theirs!HeldIsTracked, Theirs!Holding, NoRecord
<1> QED
  BY <1>2, <1>4, <1>5, <1>6, <1>7, <1>8 DEF Theirs!Consistent, Theirs!TypeOK

(* A step of the second scheduler is for the first one what others do.     *)
LEMMA StandingBy ==
    ASSUME Consistent, KeepsFocus, UNCHANGED <<memVars, loopVars, crashes>>, SameAttempts,
           GcsOK', CloudOK', BudgetOK',
           \A j \in Jobs : QrFits(j, statusFile[j])', canceled \subseteq canceled'
    PROVE  Consistent' /\ KeepsFocus'
  BY OthersKeep, OthersKeepFocus DEF memVars

LEMMA TheirStep ==
    ASSUME BothSound, StepThere
    PROVE  BothSound' /\ SameAttempts
<1>1. /\ Deployed /\ UNCHANGED <<memVars, loopVars, crashes, unjudged, sentence, doomed>>
  BY DEF StepThere, adminVars
<1>2. Theirs!Consistent /\ theirPhase # "reap"
  BY <1>1 DEF BothSound
<1>3. Theirs!Consistent' /\ Theirs!SameAttempts
  BY <1>2, TheirNext, StepIsNext
<1>4. Theirs!FocusedOn # "all"
  BY PartnersFocus, PartnerAssumption DEF BothSound, Consistent, TypeOK
<1>5. theirPhase' # "reap" /\ UNCHANGED canceled
  BY <1>2, <1>4, StepIsTheirs, Theirs!NeverReaps, PartnersFocus, TheirFaults, SpecAssumption,
     AttemptAssumption, LimitAssumption, FaultAssumption
<1>6. GcsOK' /\ CloudOK' /\ BudgetOK' /\ SameAttempts
  BY <1>3, SharedTypes, SharedAttempts, PTL DEF Theirs!Consistent, Theirs!TypeOK
<1>7. \A j \in Jobs : QrFits(j, statusFile[j])'
  BY <1>3 DEF QrFits, AttemptOf, Names, NextAttempt, Holding, Theirs!Consistent,
     Theirs!CurrentQrFitsAttempt, Theirs!Records, Theirs!QrFits, Theirs!AttemptOf, Theirs!Names,
     Theirs!NextAttempt, Theirs!Holding
<1>8. Consistent' /\ KeepsFocus'
  BY <1>1, <1>5, <1>6, <1>7, StandingBy DEF BothSound
<1>9. AdminOK' /\ Deployed'
  <2>1. theirPhase' \in Theirs!Phases
    BY <1>3 DEF Theirs!Consistent, Theirs!TypeOK, Theirs!LoopOK
  <2> QED
    BY <1>1, <1>6, <2>1 DEF BothSound, AdminOK, SameAttempts, Deployed, Theirs!Phases
<1> QED
  BY <1>3, <1>5, <1>6, <1>8, <1>9 DEF BothSound

LEMMA BothStart ==
    ASSUME BothSound, StartThere
    PROVE  BothSound' /\ SameAttempts
<1>1. /\ UNCHANGED <<gcsVars, qrs, memVars, loopVars, crashes, unjudged, sentence, doomed>>
      /\ faults' \in {faults, MaxFaults} /\ theirPhase' = "idle"
  BY DEF StartThere
<1>2. GcsOK' /\ CloudOK' /\ BudgetOK' /\ SameAttempts
  BY <1>1, SameNames, SameGcs, UnchangedAttempts, FaultAssumption
     DEF BothSound, Consistent, TypeOK, CloudOK, BudgetOK
<1>3. \A j \in Jobs : QrFits(j, statusFile[j])'
  BY <1>1, <1>2, RecordsFit, FitKept DEF BothSound, gcsVars
<1>4. Consistent' /\ KeepsFocus'
  BY <1>1, <1>2, <1>3, StandingBy DEF BothSound, gcsVars
<1>5. AdminOK' /\ Deployed'
  BY <1>1, <1>2 DEF BothSound, AdminOK, SameAttempts, Deployed
<1> QED
  BY <1>1, <1>2, <1>4, <1>5, TheyStart DEF BothSound

LEMMA BothKeep ==
    ASSUME BothSound, [SplitNext]_allVars
    PROVE  BothSound' /\ SameAttempts /\ (UNCHANGED loopVars \/ KeepsToItsUser)
<1>1. CASE \/ CleanupNext /\ UNCHANGED theirVars
           \/ UNCHANGED allVars
  <2>1. UNCHANGED <<theirVars, theirMem, theirTracked, theirBackoff, theirPhase, theirJobsLeft,
                    theirQrsLeft, theirDue, theirLate>>
    BY <1>1 DEF allVars, theirVars, theirMemory, theirLoop
  <2>2. /\ Consistent' /\ AdminOK' /\ KeepsFocus' /\ SameAttempts
        /\ UNCHANGED loopVars \/ KeepsToItsUser
    <3>1. CASE Next /\ UNCHANGED adminVars
      <4>1. Consistent' /\ SameAttempts
        BY <3>1, NextKeeps, NextAttempts DEF BothSound
      <4>2. AdminOK'
        BY <3>1, <4>1 DEF BothSound, AdminOK, adminVars, SameAttempts
      <4> QED
        BY <3>1, <4>1, <4>2, NextKeepsFocus DEF BothSound
    <3>2. CASE Cleanup
      <4>1. Consistent' /\ AdminOK' /\ SameAttempts
        BY <3>2, CleanupKeepsBooks DEF BothSound
      <4>2. UNCHANGED <<memVars, loopVars, crashes>> /\ canceled \subseteq canceled'
        BY <3>2, CleanupTouches DEF BothSound
      <4> QED
        BY <4>1, <4>2, OthersKeepFocus DEF BothSound, memVars
    <3>3. CASE UNCHANGED allVars
      <4>1. UNCHANGED <<vars, adminVars>>
        BY <3>3 DEF allVars
      <4>2. Consistent' /\ AdminOK' /\ SameAttempts
        BY <4>1, StutteringKeepsBooks DEF BothSound
      <4>3. UNCHANGED <<mem, loopVars, crashes, canceled>>
        BY <4>1 DEF vars, gcsVars, memVars, budgetVars
      <4> QED
        BY <4>2, <4>3, OthersKeepFocus DEF BothSound
    <3> QED
      BY <1>1, <3>1, <3>2, <3>3 DEF CleanupNext
  <2>3. Deployed => Theirs!Consistent'
    BY <2>1, <2>2, TheyStandBy DEF BothSound
  <2> QED
    BY <2>1, <2>2, <2>3 DEF BothSound, Deployed, Unstarted
<1>2. CASE StartThere \/ StepThere
  BY <1>2, BothStart, TheirStep DEF StartThere, StepThere
<1> QED
  BY <1>1, <1>2 DEF SplitNext

LEMMA BothFromTheStart == SplitInit => BothSound
<1> SUFFICES ASSUME SplitInit PROVE BothSound
  OBVIOUS
<1>1. Consistent /\ AdminOK
  BY SoundFromTheStart DEF SplitInit, Sound
<1>2. KeepsFocus
  BY DEF SplitInit, CleanupInit, Init, KeepsFocus
<1> QED
  BY <1>1, <1>2 DEF SplitInit, CleanupInit, Init, BothSound, Deployed, Unstarted

LEMMA BothAlways == SplitSpec => []BothSound
<1>1. BothSound /\ [SplitNext]_allVars => BothSound'
  BY BothKeep
<1> QED
  BY <1>1, BothFromTheStart, PTL DEF SplitSpec

(* With two schedulers in one queue, whose hosts share nothing but GCS and *)
(* the cloud, a record still never names another attempt's QR, and each of *)
(* them tracks what it believes to hold (scheduler.py:118-125, 449,        *)
(* 516-552).  Nothing is said of the verdicts and the ledger: each may     *)
(* close an attempt that the other has closed already.                     *)
THEOREM RecordsFitForBoth ==
    SplitSpec => [](/\ CurrentQrFitsAttempt /\ HeldIsTracked
                    /\ Deployed => Theirs!CurrentQrFitsAttempt /\ Theirs!HeldIsTracked)
<1>1. BothSound => /\ CurrentQrFitsAttempt /\ HeldIsTracked
                   /\ Deployed => Theirs!CurrentQrFitsAttempt /\ Theirs!HeldIsTracked
  BY DEF BothSound, Consistent, Theirs!Consistent
<1> QED
  BY <1>1, BothAlways, PTL

(* A focused scheduler requests no QR for other users' jobs, answers no    *)
(* retry of theirs, changes no status and deletes no QR, except to honour  *)
(* a cancellation (README.md:221-227, scheduler.py:711-733), whoever else  *)
(* is at work beside it.                                                   *)
THEOREM FocusAlwaysKept == SplitSpec => FocusKeepsToItsUser
<1>1. BothSound /\ [SplitNext]_allVars => [~UNCHANGED loopVars => KeepsToItsUser]_allVars
  BY BothKeep
<1> QED
  BY <1>1, BothAlways, PTL DEF SplitSpec, FocusKeepsToItsUser

-----------------------------------------------------------------------------
(***************************************************************************)
(* What the admin's sentences rest on.  A worker never goes back, and the  *)
(* marker `claimed` proves that one of the attempt has got past its boot;  *)
(* so what was silent when it was judged is silent when it is deleted.     *)
(***************************************************************************)
LEMMA CleanupOnward ==
    ASSUME Consistent, AdminOK, NobodyWaits, Cleanup
    PROVE  Onward
  BY CleanupTouches, CleanupKeepsBooks, QrsOnward DEF Deletion, Shrinks

-----------------------------------------------------------------------------
(* An entry of the admin's, and of the snapshot it may come from, names a  *)
(* QR of the attempt its markers and heartbeat are read for.               *)
EntryFits(j, v) ==
    v.qr # 0 => v.qr \in Names /\ AttemptOf(v.qr) = <<j, NextAttempt(v)>>

(* A call has failed, or the admin asks for less than a heartbeat interval. *)
Excused == faults > 0 \/ "impatient" \in Happenings

(* Some worker of the QR's attempt is silent, or else there is an excuse.  *)
Silenced(q) ==
    \E p \in Names :
        /\ AttemptOf(p) = AttemptOf(q)
        /\ qrs[p].worker \in Ended \/ (qrs[p].worker = "run" /\ Excused)

Informed ==
    /\ NobodyWaits
    /\ \A a \in claimed : \E q \in Names :
           AttemptOf(q) = a /\ qrs[q].worker \in {"run"} \cup Ended
    /\ \A j \in Jobs : EntryFits(j, snapshot[j]) /\ EntryFits(j, named[j])
    /\ \A s \in sentence \cup doomed : s.cancel # {} => Silenced(s.qr)
    /\ \A s \in doomed : s.cancel # {}

LEMMA ViewFits ==
    ASSUME NEW j \in Jobs, NEW r, QrFits(j, r)
    PROVE  EntryFits(j, View(r))
  BY DEF View, QrFits, EntryFits, NextAttempt

LEMMA ViewsFit ==
    ASSUME Consistent, Informed, NEW v \in Views, NEW j \in Jobs
    PROVE  EntryFits(j, v[j])
<1>1. CASE v = snapshot
  BY <1>1 DEF Informed
<1>2. CASE v = Scanned
  <2>1. QrFits(j, StateOnFile(j)) /\ QrFits(j, NoRecord)
    BY RecordsFit DEF StateOnFile, QrFits, NewRecord, NoRecord, Holding
  <2> QED
    BY <1>2, <2>1, ViewFits DEF Scanned
<1> QED
  BY <1>1, <1>2 DEF Views

LEMMA EntryKept ==
    ASSUME SameAttempts, NEW j \in Jobs, NEW v, EntryFits(j, v)
    PROVE  EntryFits(j, v)'
  BY DEF SameAttempts, EntryFits, AttemptOf

LEMMA SilencedStays ==
    ASSUME Consistent, Consistent', Onward, NEW q \in Names, Silenced(q)
    PROVE  Silenced(q)'
<1>1. PICK p \in Names : /\ AttemptOf(p) = AttemptOf(q)
                         /\ \/ qrs[p].worker \in Ended
                            \/ qrs[p].worker = "run" /\ Excused
  BY DEF Silenced
<1>2. p \in Names' /\ AttemptOf(p)' = AttemptOf(q)'
  BY <1>1 DEF Onward, SameAttempts, AttemptOf
<1>3. qrs'[p].worker \in Ended \/ (qrs'[p].worker = "run" /\ Excused')
  <2>1. Excused => Excused'
    BY FaultAssumption DEF Excused, Onward, Consistent, TypeOK, BudgetOK
  <2> QED
    BY <1>1, <2>1 DEF Onward
<1> QED
  BY <1>2, <1>3 DEF Silenced, AttemptOf, Ended, Excused

(* What a step leaves of all this, whoever makes it.                       *)
LEMMA StillInformed ==
    ASSUME Consistent, Consistent', AdminOK, Informed, Onward,
           \A j \in Jobs : EntryFits(j, snapshot'[j]),
           UNCHANGED <<named, sentence, doomed>>
    PROVE  Informed'
<1>1. SameAttempts
  BY DEF Onward
<1>2. NobodyWaits'
  BY DEF Onward, NobodyWaits
<1>3. \A a \in claimed' : \E q \in Names' :
          AttemptOf(q)' = a /\ qrs'[q].worker \in {"run"} \cup Ended
  BY <1>1 DEF Informed, Onward, SameAttempts, AttemptOf
<1>4. \A j \in Jobs : EntryFits(j, snapshot[j])' /\ EntryFits(j, named[j])'
  <2> SUFFICES ASSUME NEW j \in Jobs
               PROVE  EntryFits(j, snapshot[j])' /\ EntryFits(j, named[j])'
    OBVIOUS
  <2>1. EntryFits(j, snapshot'[j]) /\ EntryFits(j, named[j])
    BY DEF Informed
  <2> QED
    BY <1>1, <2>1 DEF SameAttempts, EntryFits, AttemptOf
<1>5. \A s \in sentence \cup doomed : s.qr \in Names
  BY DEF AdminOK
<1>6. \A s \in sentence' \cup doomed' : s.cancel # {} => Silenced(s.qr)'
  BY <1>5, SilencedStays DEF Informed
<1> QED
  BY <1>2, <1>3, <1>4, <1>6 DEF Informed

LEMMA NextInformed ==
    ASSUME Consistent, AdminOK, Informed, Next, UNCHANGED <<named, sentence, doomed>>
    PROVE  Informed'
<1>1. Consistent' /\ Onward
  BY NextKeeps, EnvironmentOnward, ProcessOnward DEF Informed
<1>2. \A j \in Jobs : EntryFits(j, snapshot'[j])
  BY NextPublishesLast, RecordsFit, ViewFits DEF PublishesLast, Published, Informed
<1> QED
  BY <1>1, <1>2, StillInformed

(* A QR is condemned as idle on the silence of a worker of its attempt.    *)
LEMMA CondemnedForSilence ==
    ASSUME Consistent, Consistent', AdminOK, Informed,
           NEW q \in unjudged, NEW j \in Jobs, CondemnIdle(q, j)
    PROVE  Silenced(q)'
<1>1. q \in Names /\ named[j].qr = q /\ UNCHANGED qrs
  BY DEF AdminOK, CondemnIdle, NamedFor, Look
<1>2. q # 0
  BY <1>1 DEF Consistent, TypeOK, CloudOK, Names
<1>3. AttemptOf(q) = <<j, NextAttempt(named[j])>>
  BY <1>1, <1>2 DEF Informed, EntryFits
<1>4. AttemptOf(q) \in claimed
  BY <1>3 DEF CondemnIdle, Idle
<1>5. PICK p \in Names : AttemptOf(p) = AttemptOf(q) /\ qrs[p].worker \in {"run"} \cup Ended
  BY <1>4 DEF Informed
<1>6. qrs'[p].worker \in Ended \/ (qrs'[p].worker = "run" /\ Excused')
  <2>1. CASE NoFault /\ Idle(j)
    <3>1. qrs[p].job = j /\ qrs[p].attempt = NextAttempt(named[j])
      BY <1>3, <1>5 DEF AttemptOf
    <3>2. qrs[p].worker # "run" \/ Excused'
      BY <1>5, <2>1, <3>1 DEF Idle, Silent, Beating, QrsOf, Excused
    <3> QED
      BY <1>1, <1>5, <3>2
  <2>2. CASE IsFault("heartbeat")
    <3>1. faults' > 0
      BY <2>2, FaultAssumption DEF IsFault, Consistent, TypeOK, BudgetOK
    <3> QED
      BY <1>1, <1>5, <3>1 DEF Excused
  <2> QED
    BY <2>1, <2>2 DEF CondemnIdle
<1> QED
  BY <1>1, <1>5, <1>6 DEF Silenced, AttemptOf, Ended, Names, Excused

LEMMA CleanupInformed ==
    ASSUME Consistent, AdminOK, Informed, Cleanup
    PROVE  Informed'
<1>1. Consistent' /\ AdminOK' /\ Onward /\ UNCHANGED <<claimed, snapshot>>
  BY CleanupKeepsBooks, CleanupOnward, CleanupTouches DEF Informed
<1>2. NobodyWaits'
  BY <1>1 DEF Onward, NobodyWaits
<1>3. \A a \in claimed' : \E q \in Names' :
          AttemptOf(q)' = a /\ qrs'[q].worker \in {"run"} \cup Ended
  BY <1>1 DEF Informed, Onward, SameAttempts, AttemptOf
<1>4. \A j \in Jobs : EntryFits(j, snapshot[j])'
  BY <1>1 DEF Informed, Onward, SameAttempts, EntryFits, AttemptOf
<1>5. \A s \in sentence \cup doomed : s.cancel # {} => Silenced(s.qr)'
  BY <1>1, SilencedStays DEF Informed, AdminOK
<1>6. named' \in {named, [j \in Jobs |-> View(NoRecord)]} \cup Views
  BY DEF Cleanup, ReadEntries, ListQrs, CloseList, Judge, CondemnOrphan, Spare, CondemnIdle,
     Look, CancelIdle, DeleteOrphan, DeleteIdle
<1>7. \A j \in Jobs : EntryFits(j, named[j])'
  <2> SUFFICES ASSUME NEW j \in Jobs PROVE EntryFits(j, named[j])'
    OBVIOUS
  <2>1. EntryFits(j, View(NoRecord))
    BY DEF View, NoRecord, EntryFits
  <2>2. \A v \in {named, [k \in Jobs |-> View(NoRecord)]} \cup Views : EntryFits(j, v[j])
    BY <2>1, ViewsFit DEF Informed
  <2>3. EntryFits(j, named'[j])
    BY <1>6, <2>2
  <2> QED
    BY <1>1, <2>3 DEF Onward, SameAttempts, EntryFits, AttemptOf
<1>8. /\ \A s \in sentence' \cup doomed' : s.cancel # {} => Silenced(s.qr)'
      /\ \A s \in doomed' : s.cancel # {}
  <2>1. CASE ReadEntries \/ ListQrs \/ CloseList
    <3>1. UNCHANGED <<sentence, doomed>>
      BY <2>1 DEF ReadEntries, ListQrs, CloseList
    <3> QED
      BY <1>5, <3>1 DEF Informed
  <2>2. ASSUME NEW q \in unjudged, NEW j \in Jobs, CondemnIdle(q, j)
        PROVE  /\ \A s \in sentence' : s.cancel # {} => Silenced(s.qr)'
               /\ doomed' = doomed
    <3>1. Silenced(q)'
      BY <1>1, <2>2, CondemnedForSilence
    <3>2. sentence' = sentence \cup {[qr |-> q, cancel |-> {j}]} /\ doomed' = doomed
      BY <2>2 DEF CondemnIdle, Look
    <3> QED
      BY <1>5, <3>1, <3>2
  <2>3. ASSUME NEW q \in unjudged, CondemnOrphan(q) \/ Spare(q)
        PROVE  /\ sentence' \in {sentence, sentence \cup {[qr |-> q, cancel |-> {}]}}
               /\ doomed' = doomed
    BY <2>3 DEF CondemnOrphan, Spare, Look
  <2>4. ASSUME NEW s \in sentence, CancelIdle(s) \/ DeleteOrphan(s)
        PROVE  /\ sentence' \subseteq sentence
               /\ doomed' = doomed \/ (doomed' = {s} /\ s.cancel # {})
    BY <2>4 DEF CancelIdle, DeleteOrphan
  <2>5. ASSUME NEW s \in doomed, DeleteIdle(s)
        PROVE  sentence' = sentence /\ doomed' = {}
    BY <2>5 DEF DeleteIdle
  <2>6. \A s \in doomed : s.cancel # {}
    BY DEF Informed
  <2> QED
    BY <1>5, <2>1, <2>2, <2>3, <2>4, <2>5, <2>6 DEF Cleanup, Judge
<1> QED
  BY <1>2, <1>3, <1>4, <1>7, <1>8 DEF Informed

(* The second scheduler deletes and publishes just like the first.         *)
LEMMA TheyGoOnward ==
    ASSUME BothSound, NobodyWaits, StepThere
    PROVE  Onward /\ \A j \in Jobs : snapshot'[j] = snapshot[j] \/ EntryFits(j, snapshot'[j])
<1>1. Theirs!Consistent /\ Theirs!Next /\ Theirs!NobodyWaits
  BY StepIsNext DEF BothSound, StepThere, NobodyWaits, Names, Theirs!NobodyWaits, Theirs!Names
<1>2. Theirs!Onward
  BY <1>1, Theirs!EnvironmentOnward, Theirs!ProcessOnward, PartnersFocus, TheirFaults,
     SpecAssumption, AttemptAssumption, LimitAssumption, FaultAssumption
<1>3. Onward
  BY <1>2, SharedAttempts DEF Onward, Names, AttemptOf, Ended, Theirs!Onward, Theirs!Names,
     Theirs!AttemptOf, Theirs!Ended
<1>4. Theirs!PublishesLast
  BY <1>1, Theirs!NextPublishesLast, PartnersFocus, TheirFaults, SpecAssumption,
     AttemptAssumption, LimitAssumption, FaultAssumption
<1>5. \A j \in Jobs : QrFits(j, theirMem[j])
  BY <1>1, SharedAttempts DEF Theirs!Consistent, Theirs!CurrentQrFitsAttempt, Theirs!Records
<1>6. ASSUME NEW j \in Jobs, snapshot'[j] # snapshot[j] PROVE EntryFits(j, snapshot'[j])
  <2>1. snapshot'[j] = View(theirMem[j])
    BY <1>4, <1>6 DEF Theirs!PublishesLast, Theirs!Published, Theirs!View, View
  <2> QED
    BY <1>5, <2>1, ViewFits
<1> QED
  BY <1>3, <1>6

Judicious == BothSound /\ Informed

LEMMA JudiciousKept ==
    ASSUME Judicious, [SplitNext]_allVars
    PROVE  Judicious'
<1>1. BothSound' /\ Consistent /\ Consistent' /\ AdminOK /\ Informed /\ NobodyWaits
  BY BothKeep DEF Judicious, BothSound, Informed
<1>2. CASE CleanupNext /\ UNCHANGED theirVars
  <2>1. CASE Next /\ UNCHANGED adminVars
    BY <1>1, <2>1, NextInformed DEF adminVars, Judicious
  <2> QED
    BY <1>1, <1>2, <2>1, CleanupInformed DEF CleanupNext, Judicious
<1>3. CASE StepThere
  <2>1. UNCHANGED <<named, sentence, doomed>>
    BY <1>3 DEF StepThere, adminVars
  <2>2. Onward /\ \A j \in Jobs : EntryFits(j, snapshot'[j])
    BY <1>1, <1>3, TheyGoOnward DEF Judicious, Informed
  <2> QED
    BY <1>1, <2>1, <2>2, StillInformed DEF Judicious
<1>4. CASE StartThere \/ UNCHANGED allVars
  <2>1. UNCHANGED <<claimed, snapshot, qrs, named, sentence, doomed>>
    BY <1>4 DEF StartThere, allVars, vars, gcsVars, adminVars
  <2>2. faults' \in {faults, MaxFaults}
    BY <1>4 DEF StartThere, allVars, vars, budgetVars
  <2>3. Onward
    <3>1. faults <= faults'
      BY <2>2, FaultAssumption DEF BothSound, Consistent, TypeOK, BudgetOK, Judicious
    <3> QED
      BY <1>1, <2>1, <3>1, QrsOnward, UnchangedAttempts
  <2> QED
    BY <1>1, <2>1, <2>3, StillInformed DEF Judicious, Informed
<1> QED
  BY <1>2, <1>3, <1>4 DEF SplitNext

LEMMA JudiciousFromTheStart == SplitInit => Judicious
<1> SUFFICES ASSUME SplitInit PROVE Judicious
  OBVIOUS
<1>1. Informed
  BY DEF SplitInit, CleanupInit, Init, Informed, NobodyWaits, Names, EntryFits, View, NoRecord
<1> QED
  BY <1>1, BothFromTheStart DEF Judicious

LEMMA JudiciousAlways == SplitSpec => []Judicious
<1>1. Judicious /\ [SplitNext]_allVars => Judicious'
  BY JudiciousKept
<1> QED
  BY <1>1, JudiciousFromTheStart, PTL DEF SplitSpec

(* An admin's cleanup deletes no QR as idle while it waits for capacity or *)
(* boots, and none that keeps its heartbeat going unless a call failed or  *)
(* the admin asks for less than a heartbeat interval, although it acts on  *)
(* entries up to a minute old and on heartbeats read before the deletions  *)
(* began (cli.py:1037-1060), and although two schedulers may move, fail    *)
(* and publish in between.  (For a QR that is the only one requested for   *)
(* its attempt: another one's markers would speak for it, too.)            *)
THEOREM CleanupSparesTheLiving == SplitSpec => IdleCleanupSparesTheLiving
<1>1. ASSUME Judicious, NEW s \in doomed, Alone(s.qr)
      PROVE  /\ qrs[s.qr].worker \notin {"off", "boot"}
             /\ qrs[s.qr].worker = "run" => faults > 0 \/ "impatient" \in Happenings
  <2>1. Silenced(s.qr)
    BY <1>1 DEF Judicious, Informed
  <2> QED
    BY <1>1, <2>1 DEF Silenced, Alone, Ended, Excused
<1>2. Judicious =>
        [\A s \in doomed : Deletes(s.qr) /\ Alone(s.qr) =>
             /\ qrs[s.qr].worker \notin {"off", "boot"}
             /\ qrs[s.qr].worker = "run" => faults > 0 \/ "impatient" \in Happenings]_<<vars, adminVars>>
  BY <1>1
<1> QED
  BY <1>2, JudiciousAlways, PTL DEF IdleCleanupSparesTheLiving

-----------------------------------------------------------------------------
(***************************************************************************)
(* The startup scripts.  StartupScript says what the workers of the QRs of *)
(* an attempt show of themselves, and SetupBarrier implements it; here it  *)
(* meets the environment of the scheduler, where the markers of all        *)
(* attempts are sets and the script of a QR ends with its VM.              *)
(***************************************************************************)
Script(S, a) == INSTANCE StartupScript WITH
    Slices <- S, worker <- [q \in S |-> qrs[q].worker], claimed <- a \in claimed,
    succeeded <- a \in succeeded, failed <- a \in failed

OnlyTheirMarkers(a) ==
    \A b \in (Jobs \X Nat) \ {a} : /\ (b \in claimed') <=> (b \in claimed)
                                   /\ (b \in succeeded') <=> (b \in succeeded)
                                   /\ (b \in failed') <=> (b \in failed)

(* A step of the workers of S touches nothing but how far they are, and    *)
(* the markers of their attempt.                                           *)
OnlyTheseScripts(S, a) ==
    /\ DOMAIN qrs' = DOMAIN qrs
    /\ \A q \in Names : IF q \in S THEN \E w : qrs'[q] = [qrs[q] EXCEPT !.worker = w]
                                    ELSE qrs'[q] = qrs[q]
    /\ OnlyTheirMarkers(a)
    /\ UNCHANGED <<filed, statusFile, canceled, retryAsked, snapshot>>

LEMMA SameMarkers ==
    ASSUME NEW S, NEW T, NEW a, \A b : b # a => (b \in T <=> b \in S)
    PROVE  /\ (a \in T <=> a \in S) => T = S
           /\ a \in T => T = S \cup {a}
<1>1. ASSUME a \in T <=> a \in S PROVE T = S
  BY <1>1
<1> QED
  BY <1>1

(* When one slice moves, so does its worker, and nothing else.             *)
LEMMA OneScriptMoves ==
    ASSUME TypeOK, CloudOK', NEW S \in SUBSET Names, NEW a, OnlyTheseScripts(S, a),
           NEW q \in S, NEW w,
           \A p \in S : qrs'[p].worker = IF p = q THEN w ELSE qrs[p].worker
    PROVE  /\ qrs' = [qrs EXCEPT ![q].worker = w]
           /\ w = qrs[q].worker => UNCHANGED qrs
<1>1. /\ qrs \in Seq(QR) /\ qrs' \in Seq(QR) /\ DOMAIN qrs = Names /\ DOMAIN qrs' = Names
      /\ \A p \in Names : qrs[p] \in QR /\ qrs'[p] \in QR
  BY DEF TypeOK, CloudOK, Names, OnlyTheseScripts
<1>3. \A p \in Names : qrs'[p] = IF p = q THEN [qrs[p] EXCEPT !.worker = w] ELSE qrs[p]
  <2> SUFFICES ASSUME NEW p \in Names
               PROVE  qrs'[p] = IF p = q THEN [qrs[p] EXCEPT !.worker = w] ELSE qrs[p]
    OBVIOUS
  <2>1. CASE p \notin S
    BY <2>1 DEF OnlyTheseScripts
  <2>2. CASE p \in S
    <3>1. PICK v : qrs'[p] = [qrs[p] EXCEPT !.worker = v]
      BY <2>2 DEF OnlyTheseScripts
    <3>2. v = qrs'[p].worker
      BY <1>1, <3>1 DEF QR
    <3>3. [qrs[p] EXCEPT !.worker = qrs[p].worker] = qrs[p]
      BY <1>1 DEF QR
    <3> QED
      BY <2>2, <3>1, <3>2, <3>3
  <2> QED
    BY <2>1, <2>2
<1>4. qrs' = [qrs EXCEPT ![q] = [qrs[q] EXCEPT !.worker = w]]
  BY <1>1, <1>3
<1>5. [qrs[q] EXCEPT !.worker = qrs[q].worker] = qrs[q]
  BY <1>1 DEF QR
<1> QED
  BY <1>1, <1>4, <1>5

(* The environment of the scheduler lets the scripts of the QRs of an      *)
(* attempt that are up, one or several, do whatever StartupScript allows:  *)
(* no behaviour of the workers, from the setup barrier to the reports      *)
(* (startup_script.py), is lost on the way from the one model to the other. *)
THEOREM ScriptsRun ==
    ASSUME TypeOK, GcsOK', CloudOK', "vanish" \in Happenings,
           NEW a \in Jobs \X Nat, NEW S \in SUBSET Names,
           \A q \in S : /\ AttemptOf(q) = a /\ Up(q)
                        /\ qrs[q].worker \in {"boot", "run", "tail"},
           OnlyTheseScripts(S, a), Script(S, a)!ScriptNext
    PROVE  (\E q \in S : WorkerOf(q)) \/ UNCHANGED <<qrs, gcsVars>>
<1>1. /\ claimed \subseteq Jobs \X Nat /\ claimed' \subseteq Jobs \X Nat
      /\ succeeded \subseteq Jobs \X Nat /\ succeeded' \subseteq Jobs \X Nat
      /\ failed \subseteq Jobs \X Nat /\ failed' \subseteq Jobs \X Nat
  BY DEF TypeOK, GcsOK
<1>2. ASSUME NEW b \in Jobs \X Nat, b # a
      PROVE  /\ b \in claimed' <=> b \in claimed
             /\ b \in succeeded' <=> b \in succeeded
             /\ b \in failed' <=> b \in failed
  <2>1. OnlyTheirMarkers(a)
    BY DEF OnlyTheseScripts
  <2> QED
    BY <1>2, <2>1 DEF OnlyTheirMarkers
<1>3. /\ (a \in claimed' <=> a \in claimed) => claimed' = claimed
      /\ a \in claimed' => claimed' = claimed \cup {a}
  <2>1. \A b : b # a => (b \in claimed' <=> b \in claimed)
    BY <1>1, <1>2
  <2> QED
    BY <2>1, SameMarkers
<1>4. /\ (a \in succeeded' <=> a \in succeeded) => succeeded' = succeeded
      /\ a \in succeeded' => succeeded' = succeeded \cup {a}
  <2>1. \A b : b # a => (b \in succeeded' <=> b \in succeeded)
    BY <1>1, <1>2
  <2> QED
    BY <2>1, SameMarkers
<1>5. /\ (a \in failed' <=> a \in failed) => failed' = failed
      /\ a \in failed' => failed' = failed \cup {a}
  <2>1. \A b : b # a => (b \in failed' <=> b \in failed)
    BY <1>1, <1>2
  <2> QED
    BY <2>1, SameMarkers
<1>6. UNCHANGED <<filed, statusFile, canceled, retryAsked, snapshot>>
  BY DEF OnlyTheseScripts
<1>7. PICK q \in S : \/ Script(S, a)!Claim(q) \/ Script(S, a)!ReportSuccess(q)
                     \/ Script(S, a)!ReportFailure(q) \/ Script(S, a)!Vanish(q)
  BY DEF Script!ScriptNext
<1>8. /\ AttemptOf(q) = a /\ Up(q) /\ qrs[q].worker \in {"boot", "run", "tail"}
      /\ [p \in S |-> qrs[p].worker][q] = qrs[q].worker
  OBVIOUS
<1>9. ASSUME NEW w, Script(S, a)!Moves(q, w)
      PROVE  qrs' = [qrs EXCEPT ![q].worker = w] /\ (w = qrs[q].worker => UNCHANGED qrs)
  <2>1. [p \in S |-> qrs'[p].worker] = [[p \in S |-> qrs[p].worker] EXCEPT ![q] = w]
    BY <1>9 DEF Script!Moves
  <2>2. \A p \in S : [r \in S |-> qrs'[r].worker][p]
                       = [[r \in S |-> qrs[r].worker] EXCEPT ![q] = w][p]
    BY <2>1
  <2>3. \A p \in S : qrs'[p].worker = IF p = q THEN w ELSE qrs[p].worker
    BY <2>2
  <2> QED
    BY <2>3, OneScriptMoves
<1>10. CASE Script(S, a)!Claim(q)
  BY <1>3, <1>4, <1>5, <1>6, <1>8, <1>9, <1>10 DEF Script!Claim, WorkerOf, Claim
<1>11. CASE Script(S, a)!ReportSuccess(q)
  BY <1>3, <1>4, <1>5, <1>6, <1>8, <1>9, <1>11 DEF Script!ReportSuccess, WorkerOf, ReportSuccess
<1>12. CASE Script(S, a)!ReportFailure(q)
  <2>1. PICK w \in {"tail", qrs[q].worker} : qrs' = [qrs EXCEPT ![q].worker = w]
    <3>1. PICK w \in {"tail", [p \in S |-> qrs[p].worker][q]} : Script(S, a)!Moves(q, w)
      BY <1>12 DEF Script!ReportFailure
    <3> QED
      BY <1>8, <1>9, <3>1
  <2>2. failed' = failed \cup {a} /\ UNCHANGED <<claimed, succeeded>>
    BY <1>3, <1>4, <1>5, <1>12 DEF Script!ReportFailure
  <2> QED
    BY <1>6, <1>8, <2>1, <2>2 DEF WorkerOf, ReportFailure
<1>13. CASE Script(S, a)!Vanish(q)
  BY <1>3, <1>4, <1>5, <1>6, <1>8, <1>9, <1>13 DEF Script!Vanish, WorkerOf, Vanish, gcsVars
<1> QED
  BY <1>7, <1>10, <1>11, <1>12, <1>13

(* ... and nothing else: a step of a worker in the scheduler's world is    *)
(* one of the scripts of its attempt.                                      *)
THEOREM OnlyScriptsRun ==
    ASSUME TypeOK, NEW a \in Jobs \X Nat, NEW S \in SUBSET Names,
           NEW q \in S, AttemptOf(q) = a, WorkerOf(q)
    PROVE  Script(S, a)!ScriptNext
<1>1. PICK w : qrs' = [qrs EXCEPT ![q].worker = w]
  BY DEF WorkerOf, Claim, ReportSuccess, ReportFailure, Vanish
<1>2. ASSUME NEW v, qrs' = [qrs EXCEPT ![q].worker = v]
      PROVE  Script(S, a)!Moves(q, v)
  <2>1. qrs \in Seq(QR) /\ q \in DOMAIN qrs /\ S \subseteq DOMAIN qrs /\ qrs[q] \in QR
    BY DEF TypeOK, CloudOK, Names
  <2>2. \A p \in S : qrs'[p].worker = IF p = q THEN v ELSE qrs[p].worker
    BY <1>2, <2>1 DEF QR
  <2> QED
    BY <2>2 DEF Script!Moves
<1>3. [p \in S |-> qrs[p].worker][q] = qrs[q].worker
  OBVIOUS
<1>4. CASE Claim(q)
  BY <1>2, <1>3, <1>4 DEF Claim, Script!ScriptNext, Script!Claim
<1>5. CASE ReportSuccess(q)
  BY <1>2, <1>3, <1>5 DEF ReportSuccess, Script!ScriptNext, Script!ReportSuccess
<1>6. CASE ReportFailure(q)
  <2>1. PICK u \in {"tail", qrs[q].worker} : qrs' = [qrs EXCEPT ![q].worker = u]
    BY <1>6 DEF ReportFailure
  <2>2. u \in {"tail", [p \in S |-> qrs[p].worker][q]} /\ Script(S, a)!Moves(q, u)
    BY <1>2, <1>3, <2>1
  <2>3. (a \in failed)' = TRUE /\ UNCHANGED <<a \in claimed, a \in succeeded>>
    BY <1>6 DEF ReportFailure
  <2>4. Script(S, a)!ReportFailure(q)
    BY <2>2, <2>3 DEF Script!ReportFailure
  <2> QED
    BY <2>4 DEF Script!ScriptNext
<1>7. CASE Vanish(q)
  BY <1>2, <1>3, <1>7 DEF Vanish, gcsVars, Script!ScriptNext, Script!Vanish
<1> QED
  BY <1>4, <1>5, <1>6, <1>7 DEF WorkerOf
=============================================================================
