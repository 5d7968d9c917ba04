------------------------- MODULE SetupBarrierProofs -------------------------
(***************************************************************************)
(* The barrier of SetupBarrier, for any finite set of workers and any set  *)
(* of slices that share the attempt.                                       *)
(*                                                                         *)
(* EveryNumberReady is not inductive: worker 0 decides to release the      *)
(* barrier one step, and enters the command two steps, after it has        *)
(* counted the markers.  OpenOnlyWhenReady adds those steps.  The count is *)
(* of numbers, not of hosts, and conclusive for numbers: a marker has an   *)
(* author of that number, of this slice or of another, whose setup is done.*)
(***************************************************************************)
EXTENDS SetupBarrier, FiniteSetTheorems, TLAPS

(* Once a worker 0 has counted enough markers, or anything that follows    *)
(* from it has happened, there is a host set up for every number.          *)
Past(h) == pc[h] \in {"release", "claim", "command"} \/ stage[h] = "command"

AllNumbers == \A n \in Workers : \E h \in Hosts : id[h] = n /\ HasSetUp(h)

OpenOnlyWhenReady ==
    (complete \/ claimed \/ succeeded \/ \E h \in Hosts : Past(h)) => AllNumbers

SignedMarkers == \A i \in ready : \E h \in Hosts : id[h] = i /\ HasSetUp(h)

Announcing == \A h \in Hosts : pc[h] = "announce" => HasSetUp(h)

IInv == TypeOK /\ id \in WorkerIds /\ OpenOnlyWhenReady /\ SignedMarkers /\ Announcing

-----------------------------------------------------------------------------
(* The markers are of numbers that hosts have, so as many of them as there *)
(* are workers are those of all numbers.                                   *)
LEMMA CountIsConclusive ==
    ASSUME IInv, NEW S \in Listings, AllReady(S)
    PROVE  AllNumbers
<1>1. \A h \in Hosts : id[h] \in Workers
  BY WorkersAssumption DEF IInv, WorkerIds
<1>2. S \subseteq ready /\ S \subseteq Workers
  BY <1>1 DEF IInv, SignedMarkers, Listings
<1>3. /\ IsFiniteSet(Workers) /\ IsFiniteSet(S)
      /\ Cardinality(S) <= Cardinality(Workers)
      /\ Cardinality(S) = Cardinality(Workers) => S = Workers
  BY <1>2, FS_Subset, WorkersAssumption
<1>4. Cardinality(S) \in Nat /\ Cardinality(Workers) \in Nat
  BY <1>3, FS_CardinalityType
<1>5. S = Workers
  BY <1>3, <1>4 DEF AllReady, ExpectedWorkers
<1> QED
  BY <1>2, <1>5 DEF IInv, SignedMarkers, AllNumbers

LEMMA InitIInv == Init => IInv
<1>1. WorkerIds \subseteq [Hosts -> Nat]
  BY WorkersAssumption DEF WorkerIds
<1> QED
  BY <1>1 DEF Init, IInv, TypeOK, OpenOnlyWhenReady, Past, SignedMarkers, Announcing

LEMMA ScriptKeepsType ==
    ASSUME TypeOK, id \in WorkerIds, NEW h \in Hosts, Script(h)
    PROVE  TypeOK' /\ (id \in WorkerIds)'
<1> USE DEF TypeOK, WorkerIds, Goto, markers
<1>1. CASE SetupDone(h)        BY <1>1 DEF SetupDone
<1>2. CASE Announce(h)         BY <1>2 DEF Announce, MarkerName
<1>3. CASE LeaderPolls(h)      BY <1>3 DEF LeaderPolls
<1>4. CASE LeaderCounts(h)     BY <1>4 DEF LeaderCounts
<1>5. CASE LeaderReleases(h)   BY <1>5 DEF LeaderReleases
<1>6. CASE LeaderClaims(h)     BY <1>6 DEF LeaderClaims
<1>7. CASE FollowerPolls(h)    BY <1>7 DEF FollowerPolls
<1>8. CASE FollowerPeeks(h)    BY <1>8 DEF FollowerPeeks
<1>9. CASE TimesOut(h)         BY <1>9 DEF TimesOut
<1>10. CASE Succeeds(h)        BY <1>10 DEF Succeeds
<1>11. CASE Fails(h)           BY <1>11 DEF Fails
<1>12. CASE Preempted(h)       BY <1>12 DEF Preempted
<1>13. CASE LooksForReport(h)  BY <1>13 DEF LooksForReport
<1>14. CASE WritesReport(h)    BY <1>14 DEF WritesReport, FailureType, Types
<1> QED
  BY <1>1, <1>2, <1>3, <1>4, <1>5, <1>6, <1>7, <1>8, <1>9, <1>10, <1>11,
     <1>12, <1>13, <1>14 DEF Script, Barrier

(* Only Announce adds a marker, and setup is never begun again. *)
LEMMA ScriptKeepsSigned ==
    ASSUME IInv, NEW h \in Hosts, Script(h)
    PROVE  SignedMarkers' /\ Announcing'
<1> USE DEF IInv, TypeOK, Goto, markers, HasSetUp
<1>1. CASE SetupDone(h)
  <2>1. UNCHANGED <<id, ready>> /\ \A g \in Hosts : stage[g] # "setup" => stage'[g] # "setup"
    BY <1>1 DEF SetupDone
  <2>2. SignedMarkers'
    BY <2>1 DEF SignedMarkers
  <2> QED
    BY <1>1, <2>2 DEF SetupDone, Announcing
<1>2. CASE Announce(h)
  <2>1. stage[h] # "setup"
    BY <1>2 DEF Announce, Announcing
  <2>2. UNCHANGED <<id, stage>> /\ ready' = ready \cup {id[h]}
    BY <1>2 DEF Announce, MarkerName
  <2>3. SignedMarkers'
    BY <2>1, <2>2 DEF SignedMarkers
  <2> QED
    BY <1>2, <2>3 DEF Announce, Announcing
<1>3. CASE ~SetupDone(h) /\ ~Announce(h)
  <2>1. /\ UNCHANGED <<id, ready>>
        /\ \A g \in Hosts : stage'[g] \in {stage[g], "command"}
        /\ \A g \in Hosts : pc'[g] = "announce" => pc[g] = "announce"
    BY <1>3 DEF Script, Barrier, LeaderPolls, LeaderCounts, LeaderReleases, LeaderClaims,
       FollowerPolls, FollowerPeeks, TimesOut, Succeeds, Fails, Preempted,
       LooksForReport, WritesReport
  <2>2. SignedMarkers'
    BY <2>1 DEF SignedMarkers
  <2>3. Announcing'
    BY <2>1 DEF Announcing
  <2> QED
    BY <2>2, <2>3
<1> QED
  BY <1>1, <1>2, <1>3

(* What is once set up for every number stays so. *)
LEMMA NumbersStay ==
    ASSUME IInv, AllNumbers, NEW h \in Hosts, Script(h)
    PROVE  AllNumbers'
<1>1. UNCHANGED id /\ \A g \in Hosts : stage[g] # "setup" => stage'[g] # "setup"
  BY DEF Script, Barrier, SetupDone, Announce, LeaderPolls, LeaderCounts, LeaderReleases,
     LeaderClaims, FollowerPolls, FollowerPeeks, TimesOut, Succeeds, Fails, Preempted,
     LooksForReport, WritesReport, Goto, IInv, TypeOK
<1> QED
  BY <1>1 DEF AllNumbers, HasSetUp

(* Only LeaderCounts passes from the waiting part to the part behind the   *)
(* barrier on its own judgement.                                           *)
LEMMA ScriptKeepsBarrier ==
    ASSUME IInv, NEW h \in Hosts, Script(h)
    PROVE  OpenOnlyWhenReady'
<1>1. CASE AllNumbers
  BY <1>1, NumbersStay DEF OpenOnlyWhenReady
<1>2. CASE ~AllNumbers
  <2>1. ~complete /\ ~claimed /\ ~succeeded /\ \A g \in Hosts : ~Past(g)
    BY <1>2 DEF IInv, OpenOnlyWhenReady
  <2>2. ASSUME NEW listing \in Listings PROVE ~AllReady(listing)
    BY <1>2, CountIsConclusive
  <2>3. ~complete' /\ ~claimed' /\ ~succeeded' /\ \A g \in Hosts : ~Past(g)'
    <3> USE DEF IInv, TypeOK, Past, Goto, markers
    <3>1. CASE SetupDone(h)       BY <2>1, <3>1 DEF SetupDone
    <3>2. CASE Announce(h)        BY <2>1, <3>2 DEF Announce
    <3>3. CASE LeaderPolls(h)     BY <2>1, <3>3 DEF LeaderPolls
    <3>4. CASE LeaderCounts(h)    BY <2>1, <2>2, <3>4 DEF LeaderCounts
    <3>5. CASE LeaderReleases(h) \/ LeaderClaims(h) \/ Succeeds(h)
      BY <2>1, <3>5 DEF LeaderReleases, LeaderClaims, Succeeds
    <3>6. CASE FollowerPolls(h)   BY <2>1, <3>6 DEF FollowerPolls
    <3>7. CASE FollowerPeeks(h)   BY <2>1, <3>7 DEF FollowerPeeks
    <3>8. CASE TimesOut(h)        BY <2>1, <3>8 DEF TimesOut
    <3>9. CASE Fails(h)           BY <2>1, <3>9 DEF Fails
    <3>10. CASE Preempted(h)      BY <2>1, <3>10 DEF Preempted
    <3>11. CASE LooksForReport(h) BY <2>1, <3>11 DEF LooksForReport
    <3>12. CASE WritesReport(h)   BY <2>1, <3>12 DEF WritesReport
    <3> QED
      BY <3>1, <3>2, <3>3, <3>4, <3>5, <3>6, <3>7, <3>8, <3>9, <3>10, <3>11, <3>12
         DEF Script, Barrier
  <2> QED
    BY <2>3 DEF OpenOnlyWhenReady
<1> QED
  BY <1>1, <1>2

LEMMA NextIInv == IInv /\ [Next]_vars => IInv'
<1> SUFFICES ASSUME IInv, [Next]_vars PROVE IInv'
  OBVIOUS
<1>1. CASE Next
  <2>1. PICK h \in Hosts : Script(h)
    BY <1>1 DEF Next
  <2>2. TypeOK' /\ (id \in WorkerIds)'
    BY <2>1, ScriptKeepsType DEF IInv
  <2>3. OpenOnlyWhenReady' /\ SignedMarkers' /\ Announcing'
    BY <2>1, ScriptKeepsBarrier, ScriptKeepsSigned
  <2> QED
    BY <2>2, <2>3 DEF IInv
<1>2. CASE UNCHANGED vars
  BY <1>2 DEF vars, markers, IInv, TypeOK, WorkerIds, OpenOnlyWhenReady, AllNumbers, Past,
     SignedMarkers, Announcing, HasSetUp
<1> QED
  BY <1>1, <1>2

(* Whatever the number of workers and of slices and however they           *)
(* interleave, the variables keep their types (startup_script.py:127-213). *)
THEOREM TypeCorrect == Spec => []TypeOK
<1>1. IInv => TypeOK
  BY DEF IInv
<1> QED
  BY <1>1, InitIInv, NextIInv, PTL DEF Spec

(* However many slices share the markers of an attempt, nobody enters the  *)
(* user command, and nothing is claimed or reported a success, before they *)
(* have for every number a worker that is set up (startup_script.py:66,    *)
(* 127-168, 240-244).                                                      *)
THEOREM NumbersReady == Spec => []EveryNumberReady
<1>1. IInv => EveryNumberReady
  BY DEF IInv, OpenOnlyWhenReady, AllNumbers, EveryNumberReady, Opened, Past
<1> QED
  BY <1>1, InitIInv, NextIInv, PTL DEF Spec

-----------------------------------------------------------------------------
(* A slice beside which no other one has completed the setup of a worker   *)
(* must have all those hosts itself.  A host goes by its own number or by  *)
(* 0: so host w is the only one for w, first for w # 0, then for 0.        *)
LEMMA FirstHasThemAll ==
    ASSUME IInv, AllNumbers, NEW s \in Slices, FirstToSetUp(s)
    PROVE  \A w \in Workers : id[<<s, w>>] = w /\ HasSetUp(<<s, w>>)
<1>1. ASSUME NEW n \in Workers
      PROVE  \E w \in Workers : /\ id[<<s, w>>] = n /\ HasSetUp(<<s, w>>)
                                /\ n \in {w, 0}
  <2>1. PICK h \in Hosts : id[h] = n /\ HasSetUp(h)
    BY DEF AllNumbers
  <2>2. SliceOf(h) = s
    BY <2>1 DEF FirstToSetUp
  <2>3. h = <<s, Number(h)>> /\ Number(h) \in Workers
    BY <2>2 DEF Hosts, SliceOf, Number
  <2>4. n \in {Number(h), 0}
    BY <2>1 DEF IInv, WorkerIds
  <2> QED
    BY <2>1, <2>3, <2>4
<1>2. ASSUME NEW n \in Workers, n # 0
      PROVE  id[<<s, n>>] = n /\ HasSetUp(<<s, n>>)
  BY <1>1, <1>2
<1>3. id[<<s, 0>>] = 0 /\ HasSetUp(<<s, 0>>)
  BY <1>1, <1>2, WorkersAssumption
<1> QED
  BY <1>2, <1>3

(* As long as the attempt has one slice that gets that far, nobody enters  *)
(* the user command, and nothing is claimed or reported a success, before  *)
(* all workers of the slice are set up (startup_script.py:127-168,         *)
(* 240-244).                                                               *)
THEOREM BarrierSafe == Spec => []NobodyEarly
<1>1. IInv => NobodyEarly
  BY FirstHasThemAll DEF IInv, OpenOnlyWhenReady, NobodyEarly, Opened, Past
<1> QED
  BY <1>1, InitIInv, NextIInv, PTL DEF Spec

(* Whichever of its hosts do not know their number, such a slice passes    *)
(* the barrier only with hosts of different numbers, so that one worker 0  *)
(* claims, runs and reports (startup_script.py:76-88, 195).                *)
THEOREM OneWorkerZero == Spec => []OneOfEachNumber
<1>1. IInv => OneOfEachNumber
  BY FirstHasThemAll DEF IInv, OpenOnlyWhenReady, OneOfEachNumber, Opened, Past
<1> QED
  BY <1>1, InitIInv, NextIInv, PTL DEF Spec

-----------------------------------------------------------------------------
(***************************************************************************)
(* What the scheduler sees of the slices is a StartupScript.               *)
(*                                                                         *)
(* Only hosts that take themselves for worker 0 come near the claim, and   *)
(* one of them that runs the command has claimed.                          *)
(***************************************************************************)
LeadersClaim ==
    \A h \in Hosts :
        /\ pc[h] = "setup" => stage[h] = "setup"
        /\ pc[h] \in {"count", "release", "claim"} => Leads(h)
        /\ pc[h] = "command" => stage[h] = "command"
        /\ Leads(h) /\ stage[h] = "command" => claimed

LEMMA ScriptKeepsClaim ==
    ASSUME IInv, LeadersClaim, NEW h \in Hosts, Script(h)
    PROVE  LeadersClaim'
<1> USE DEF IInv, TypeOK, LeadersClaim, Leads, Goto, markers
<1>1. CASE SetupDone(h)        BY <1>1 DEF SetupDone
<1>2. CASE Announce(h)         BY <1>2 DEF Announce, MarkerName
<1>3. CASE LeaderPolls(h)      BY <1>3 DEF LeaderPolls
<1>4. CASE LeaderCounts(h)     BY <1>4 DEF LeaderCounts
<1>5. CASE LeaderReleases(h)   BY <1>5 DEF LeaderReleases
<1>6. CASE LeaderClaims(h)     BY <1>6 DEF LeaderClaims
<1>7. CASE FollowerPolls(h)    BY <1>7 DEF FollowerPolls
<1>8. CASE FollowerPeeks(h)    BY <1>8 DEF FollowerPeeks
<1>9. CASE TimesOut(h)         BY <1>9 DEF TimesOut
<1>10. CASE Succeeds(h)        BY <1>10 DEF Succeeds
<1>11. CASE Fails(h)           BY <1>11 DEF Fails
<1>12. CASE Preempted(h)       BY <1>12 DEF Preempted
<1>13. CASE LooksForReport(h)  BY <1>13 DEF LooksForReport
<1>14. CASE WritesReport(h)    BY <1>14 DEF WritesReport
<1> QED
  BY <1>1, <1>2, <1>3, <1>4, <1>5, <1>6, <1>7, <1>8, <1>9, <1>10, <1>11,
     <1>12, <1>13, <1>14 DEF Script, Barrier

-----------------------------------------------------------------------------
Shown == [s \in Slices |-> WorkerZero(s)]

(* A step of host h shows on its slice only. *)
LEMMA OneSliceMoves ==
    ASSUME IInv, NEW h \in Hosts, UNCHANGED id,
           \A g \in Hosts \ {h} : pc'[g] = pc[g] /\ stage'[g] = stage[g]
    PROVE  Shown' = [Shown EXCEPT ![SliceOf(h)] = WorkerZero(SliceOf(h))']
<1>1. ASSUME NEW s \in Slices, s # SliceOf(h)
      PROVE  WorkerZero(s)' = WorkerZero(s)
  <2>1. Leaders(s)' = Leaders(s) /\ Leaders(s) \subseteq Hosts \ {h}
    BY <1>1 DEF Leaders, Leads
  <2>2. \A g \in Leaders(s) : pc'[g] = pc[g] /\ stage'[g] = stage[g]
    BY <2>1
  <2> QED
    BY <2>1, <2>2 DEF WorkerZero, Lives
<1>2. \A s \in Slices : s # SliceOf(h) => WorkerZero(s)' = WorkerZero(s)
  BY <1>1
<1> QED
  BY <1>2 DEF Shown

(* Where no worker 0 ends and none enters the command, nothing shows.      *)
LEMMA QuietIsUnseen ==
    ASSUME UNCHANGED id, NEW s \in Slices,
           \A g \in Hosts : Leads(g) => Lives(g)' = Lives(g),
           \A g \in Hosts : Leads(g) => (stage'[g] = "command" <=> stage[g] = "command")
    PROVE  WorkerZero(s)' = WorkerZero(s)
<1>1. Leaders(s)' = Leaders(s) /\ \A g \in Leaders(s) : g \in Hosts /\ Leads(g)
  BY DEF Leaders, Leads
<1> QED
  BY <1>1 DEF WorkerZero

(* A worker that ends, whatever it is. *)
LEMMA EndIsSeen ==
    ASSUME IInv, UNCHANGED <<id, stage>>, NEW h \in Hosts, NEW s \in Slices,
           pc' = [pc EXCEPT ![h] = "over"]
    PROVE  WorkerZero(s)' \in {WorkerZero(s), "tail"}
<1>1. Leaders(s)' = Leaders(s)
  BY DEF Leaders, Leads
<1>2. \A g \in Leaders(s) : Lives(g)' => Lives(g)
  BY DEF Leaders, Lives, IInv, TypeOK
<1> QED
  BY <1>1, <1>2 DEF WorkerZero

LEMMA ScriptIsSeen ==
    ASSUME IInv, LeadersClaim, NEW h \in Hosts, Script(h), IInv'
    PROVE  [Seen!ScriptNext]_Seen!scriptVars
<1> DEFINE s == SliceOf(h)
<1>1. s \in Slices
  BY DEF Hosts, SliceOf
<1>2. /\ UNCHANGED id
      /\ \A g \in Hosts \ {h} : pc'[g] = pc[g] /\ stage'[g] = stage[g]
  BY DEF Script, Barrier, SetupDone, Announce, LeaderPolls, LeaderCounts, LeaderReleases,
     LeaderClaims, FollowerPolls, FollowerPeeks, TimesOut, Succeeds, Fails, Preempted,
     LooksForReport, WritesReport, Goto, IInv, TypeOK
<1>3. Shown' = [Shown EXCEPT ![s] = WorkerZero(s)']
  BY <1>2, OneSliceMoves
<1>4. Shown[s] = WorkerZero(s) /\ Shown = [Shown EXCEPT ![s] = WorkerZero(s)]
  BY <1>1 DEF Shown
<1> HIDE DEF s
<1>5. ASSUME WorkerZero(s)' = WorkerZero(s), UNCHANGED <<claimed, succeeded, failed>>
      PROVE  UNCHANGED Seen!scriptVars
  BY <1>3, <1>4, <1>5 DEF Seen!scriptVars, Shown
<1>6. ASSUME WorkerZero(s)' \in {WorkerZero(s), "tail"}, UNCHANGED <<claimed, succeeded>>,
             failed' = failed \/ failed' # NoReport
      PROVE  [Seen!ScriptNext]_Seen!scriptVars
  <2>1. Seen!Moves(s, "tail") \/ Seen!Moves(s, WorkerZero(s))
    BY <1>3, <1>6 DEF Seen!Moves, Shown
  <2>2. CASE failed' = failed
    <3>1. CASE WorkerZero(s)' = WorkerZero(s)
      BY <1>5, <1>6, <2>2, <3>1
    <3>2. CASE WorkerZero(s)' = "tail"
      <4>1. Seen!Moves(s, "tail")
        BY <1>3, <3>2 DEF Seen!Moves, Shown
      <4>2. Seen!Vanish(s)
        BY <1>6, <2>2, <4>1 DEF Seen!Vanish
      <4> QED
        BY <1>1, <4>2 DEF Seen!ScriptNext
    <3> QED
      BY <1>6, <3>1, <3>2
  <2>3. CASE failed' # NoReport
    <3>1. Seen!Moves(s, "tail") \/ Seen!Moves(s, Shown[s])
      BY <1>4, <2>1
    <3>2. Seen!ReportFailure(s)
      BY <1>6, <2>3, <3>1 DEF Seen!ReportFailure, Shown
    <3> QED
      BY <1>1, <3>2 DEF Seen!ScriptNext
  <2> QED
    BY <1>6, <2>2, <2>3
<1>7. CASE \/ SetupDone(h) \/ Announce(h) \/ LeaderPolls(h) \/ LeaderCounts(h)
           \/ LeaderReleases(h) \/ FollowerPolls(h) \/ FollowerPeeks(h)
           \/ TimesOut(h) \/ Fails(h)
  <2>1. pc[h] # "over" /\ pc'[h] # "over" /\ UNCHANGED <<claimed, succeeded, failed>>
    BY <1>7 DEF SetupDone, Announce, LeaderPolls, LeaderCounts, LeaderReleases,
       FollowerPolls, FollowerPeeks, TimesOut, Fails, Goto, markers, IInv, TypeOK
  <2>2. Leads(h) => (stage'[h] = "command" <=> stage[h] = "command")
    BY <1>7 DEF SetupDone, Announce, LeaderPolls, LeaderCounts, LeaderReleases,
       FollowerPolls, FollowerPeeks, TimesOut, Fails, markers, IInv, TypeOK, LeadersClaim
  <2>3. WorkerZero(s)' = WorkerZero(s)
    BY <1>1, <1>2, <2>1, <2>2, QuietIsUnseen DEF Lives
  <2> QED
    BY <1>5, <2>1, <2>3
<1>8. CASE LeaderClaims(h)
  <2>1. /\ pc[h] = "claim" /\ pc'[h] = "command" /\ stage'[h] = "command"
        /\ claimed' = TRUE /\ UNCHANGED <<succeeded, failed>>
    BY <1>8 DEF LeaderClaims, Goto, IInv, TypeOK
  <2>2. Leads(h) /\ h \in Leaders(s) /\ h \in Leaders(s)' /\ Lives(h) /\ Lives(h)'
    BY <1>2, <2>1 DEF LeadersClaim, Leads, Leaders, Lives, s
  <2>3. WorkerZero(s) \in {"boot", "run"} /\ WorkerZero(s)' = "run"
    BY <2>1, <2>2 DEF WorkerZero
  <2>4. CASE WorkerZero(s) = "boot"
    <3>1. Shown[s] = "boot" /\ Seen!Moves(s, "run")
      BY <1>3, <1>4, <2>3, <2>4 DEF Seen!Moves, Shown
    <3>2. Seen!Claim(s)
      BY <2>1, <3>1 DEF Seen!Claim, Shown
    <3> QED
      BY <1>1, <3>2 DEF Seen!ScriptNext
  <2>5. CASE WorkerZero(s) = "run"
    <3>1. claimed
      BY <2>2, <2>5 DEF WorkerZero, Leaders, LeadersClaim
    <3>2. claimed' = claimed
      BY <2>1, <3>1 DEF IInv, TypeOK
    <3> QED
      BY <1>5, <2>1, <2>3, <2>5, <3>2
  <2> QED
    BY <2>3, <2>4, <2>5
<1>9. CASE Succeeds(h)
  <2>1. /\ pc' = [pc EXCEPT ![h] = "over"] /\ pc[h] = "command"
        /\ UNCHANGED <<id, stage, claimed, failed>>
        /\ succeeded' \in {succeeded, succeeded \/ Leads(h)}
    BY <1>9 DEF Succeeds, ReportsSuccess, Goto
  <2>2. WorkerZero(s)' \in {WorkerZero(s), "tail"}
    BY <1>1, <2>1, EndIsSeen
  <2>3. CASE succeeded' = succeeded
    BY <1>6, <2>1, <2>2, <2>3
  <2>4. CASE succeeded' # succeeded
    <3>1. Leads(h) /\ succeeded' = TRUE /\ stage[h] = "command" /\ Lives(h)
      BY <2>1, <2>4 DEF IInv, TypeOK, LeadersClaim, Lives
    <3>2. WorkerZero(s) = "run"
      BY <3>1 DEF WorkerZero, Leaders, s
    <3>3. Shown[s] = "run" /\ (Seen!Moves(s, "tail") \/ Seen!Moves(s, "run"))
      BY <1>3, <1>4, <2>2, <3>2 DEF Seen!Moves, Shown
    <3>4. Seen!ReportSuccess(s)
      BY <2>1, <3>1, <3>3 DEF Seen!ReportSuccess, Shown
    <3> QED
      BY <1>1, <3>4 DEF Seen!ScriptNext
  <2> QED
    BY <2>3, <2>4
<1>10. CASE Preempted(h) \/ (LooksForReport(h) /\ pc'[h] = "over") \/ WritesReport(h)
  <2>1. /\ pc' = [pc EXCEPT ![h] = "over"]
        /\ UNCHANGED <<id, stage, claimed, succeeded>>
        /\ \/ failed' = failed
           \/ failed' = [worker |-> id[h], type |-> FailureType(h)]
    BY <1>10 DEF Preempted, LooksForReport, WritesReport, markers, Goto, IInv, TypeOK
  <2>2. [worker |-> id[h], type |-> FailureType(h)] # NoReport
    BY ReportAssumption DEF FailureType, Types, IInv, TypeOK
  <2>3. WorkerZero(s)' \in {WorkerZero(s), "tail"}
    BY <1>1, <2>1, EndIsSeen
  <2> QED
    BY <1>6, <2>1, <2>2, <2>3
<1>11. CASE LooksForReport(h) /\ pc'[h] # "over"
  <2>1. pc[h] # "over" /\ UNCHANGED <<stage, claimed, succeeded, failed>>
    BY <1>11 DEF LooksForReport, markers
  <2>2. WorkerZero(s)' = WorkerZero(s)
    BY <1>1, <1>2, <1>11, <2>1, QuietIsUnseen DEF Lives
  <2> QED
    BY <1>5, <2>1, <2>2
<1> QED
  BY <1>7, <1>8, <1>9, <1>10, <1>11 DEF Script, Barrier

(* However many slices share the attempt, whoever takes himself for worker *)
(* 0, and however the workers fail, vanish and time out, what shows of     *)
(* them is a StartupScript, which is what the model of the scheduler takes *)
(* for them (startup_script.py:66, 127-262).                               *)
THEOREM WorkersActAsOne == Spec => BarrierIsStartupScript
<1> DEFINE I == IInv /\ LeadersClaim
<1>1. Init => I /\ Seen!ScriptInit
  <2> SUFFICES ASSUME Init PROVE LeadersClaim /\ Seen!ScriptInit
    BY InitIInv
  <2>1. LeadersClaim
    BY DEF Init, LeadersClaim
  <2>2. ASSUME NEW s \in Slices PROVE WorkerZero(s) = "boot"
    <3>1. <<s, 0>> \in Leaders(s)
      BY WorkersAssumption DEF Init, WorkerIds, Leads, Leaders, Hosts, SliceOf, Number
    <3>2. \A h \in Leaders(s) : Lives(h) /\ stage[h] # "command"
      BY DEF Init, Leaders, Lives
    <3> QED
      BY <3>1, <3>2 DEF WorkerZero
  <2> QED
    BY <2>1, <2>2 DEF Init, Seen!ScriptInit
<1>2. I /\ [Next]_vars => I' /\ [Seen!ScriptNext]_Seen!scriptVars
  <2> SUFFICES ASSUME I, [Next]_vars
               PROVE  LeadersClaim' /\ [Seen!ScriptNext]_Seen!scriptVars
    BY NextIInv
  <2>1. IInv'
    BY NextIInv
  <2>2. CASE Next
    BY <2>1, <2>2, ScriptKeepsClaim, ScriptIsSeen DEF Next, IInv
  <2>3. CASE UNCHANGED vars
    <3>1. UNCHANGED <<id, pc, stage, claimed, succeeded, failed>>
      BY <2>3 DEF vars, markers
    <3>2. LeadersClaim'
      BY <3>1 DEF LeadersClaim, Leads
    <3>3. Shown' = Shown
      BY <3>1 DEF Shown, WorkerZero, Leaders, Leads, Lives
    <3> QED
      BY <3>1, <3>2, <3>3 DEF Seen!scriptVars, Shown
  <2> QED
    BY <2>2, <2>3
<1> QED
  BY <1>1, <1>2, PTL DEF Spec, BarrierIsStartupScript, Seen!ScriptSpec
=============================================================================
