-------------------------- MODULE HaltLatch_proofs --------------------------
(***************************************************************************)
(* For every set of guards, assignments, cut-off points and number of      *)
(* flatten attempts: the types of HaltLatch, OncePerBreach and, where an   *)
(* alarm is never cut off, SeenAssignmentsHalt.  A frame lemma for each    *)
(* group of variables names the actions that write to it; the invariants   *)
(* then look at those alone.                                               *)
(***************************************************************************)
EXTENDS HaltLatch, TLAPS

-----------------------------------------------------------------------------
(* What a step can change.                                                 *)

\* The latch has five writers in the supervisor, four in the trader, one in
\* the operator's hand.
LEMMA LatchFrame ==
  ASSUME [Next]_vars
  PROVE  \/ UNCHANGED <<latchVars, acted>>
         \/ LatchAssignment \/ TagAssignment \/ LatchReason \/ LatchSource \/ LatchGuard
         \/ Lift \/ LiftSource \/ HaltReason \/ HaltSource \/ ClearHalt
<1>1. CASE UNCHANGED vars BY <1>1 DEF vars
<1>2. CASE \/ NoAssignments \/ MarkSeen \/ EvaluateGuards \/ ReadStanding \/ ReadMarker
           \/ Residue \/ CancelOrders \/ Verify \/ CutOff
  BY <1>2 DEF NoAssignments, MarkSeen, EvaluateGuards, ReadStanding, ReadMarker, Residue,
     CancelOrders, Verify, CutOff
<1>3. CASE \/ Sync \/ ReadBook \/ ReadBookFails \/ Compare \/ ReadSource \/ ReadReason
           \/ Approve \/ Submit
  BY <1>3 DEF Sync, ReadBook, ReadBookFails, Compare, ReadSource, ReadReason, Approve, Submit
<1>4. CASE FillEntry \/ Kill \/ Resume \/ Repair BY <1>4 DEF FillEntry, Kill, Resume, Repair
<1>5. ASSUME NEW x, CloseAll(x) \/ Assign(x) \/ Breach(x) \/ Recover(x)
      PROVE  UNCHANGED <<latchVars, acted>>
  BY <1>5 DEF CloseAll, Assign, Breach, Recover
<1> QED BY <1>1, <1>2, <1>3, <1>4, <1>5
   DEF Next, SupervisorTick, CheckAssignments, Flatten, TraderTick, News, Environment, Operator

\* The supervisor's control belongs to the supervisor.
LEMMA SupervisorFrame ==
  ASSUME [Next]_vars
  PROVE  \/ UNCHANGED supervisorVars
         \/ NoAssignments \/ MarkSeen \/ LatchAssignment \/ TagAssignment
         \/ EvaluateGuards \/ ReadStanding \/ ReadMarker \/ Residue
         \/ LatchReason \/ LatchSource \/ LatchGuard
         \/ CancelOrders \/ Verify \/ CutOff
         \/ \E S \in SUBSET Holdings : CloseAll(S)
<1>1. CASE UNCHANGED vars BY <1>1 DEF vars, supervisorVars
<1>2. CASE \/ Sync \/ ReadBook \/ ReadBookFails \/ Compare \/ ReadSource \/ ReadReason
           \/ Lift \/ LiftSource \/ HaltReason \/ HaltSource
  BY <1>2 DEF Sync, ReadBook, ReadBookFails, Compare, ReadSource, ReadReason, Lift, LiftSource,
     HaltReason, HaltSource, Unwatched
<1>3. CASE Approve \/ Submit BY <1>3 DEF Approve, Submit
<1>4. CASE FillEntry \/ Kill \/ Resume \/ ClearHalt \/ Repair
  BY <1>4 DEF FillEntry, Kill, Resume, ClearHalt, Repair, Still
<1>5. ASSUME NEW x, Assign(x) \/ Breach(x) \/ Recover(x)
      PROVE  UNCHANGED supervisorVars
  BY <1>5 DEF Assign, Breach, Recover, Still
<1> QED BY <1>1, <1>2, <1>3, <1>4, <1>5
   DEF Next, SupervisorTick, CheckAssignments, Flatten, TraderTick, News, Environment, Operator

\* Orders, fills and the flatten move the book.
LEMMA BookFrame ==
  ASSUME [Next]_vars
  PROVE  \/ UNCHANGED <<bookVars, view>>
         \/ CancelOrders \/ Sync \/ ReadBook \/ Compare \/ Submit \/ FillEntry \/ Repair
         \/ \E S \in SUBSET Holdings : CloseAll(S)
         \/ \E a \in Assignments : Assign(a)
<1>1. CASE UNCHANGED vars BY <1>1 DEF vars, bookVars, traderVars
<1>2. CASE \/ NoAssignments \/ MarkSeen \/ LatchAssignment \/ TagAssignment \/ EvaluateGuards
           \/ ReadStanding \/ ReadMarker \/ Residue
  BY <1>2 DEF NoAssignments, MarkSeen, LatchAssignment, TagAssignment, EvaluateGuards,
     ReadStanding, ReadMarker, Residue, traderVars
<1>3. CASE LatchReason \/ LatchSource \/ LatchGuard \/ Verify \/ CutOff \/ Approve
  BY <1>3 DEF LatchReason, LatchSource, LatchGuard, Verify, CutOff, Approve, traderVars
<1>4. CASE \/ ReadBookFails \/ ReadSource \/ ReadReason
           \/ Lift \/ LiftSource \/ HaltReason \/ HaltSource
  BY <1>4 DEF ReadBookFails, ReadSource, ReadReason, Lift, LiftSource, HaltReason, HaltSource,
     TraderGoto
<1>5. CASE Kill \/ Resume \/ ClearHalt BY <1>5 DEF Kill, Resume, ClearHalt, Still, traderVars
<1>6. ASSUME NEW g, Breach(g) \/ Recover(g)
      PROVE  UNCHANGED <<bookVars, view>>
  BY <1>6 DEF Breach, Recover, Still, traderVars
<1> QED BY <1>1, <1>2, <1>3, <1>4, <1>5, <1>6
   DEF Next, SupervisorTick, CheckAssignments, Flatten, TraderTick, News, Environment, Operator

\* The switch and the account move by themselves.
LEMMA WorldFrame ==
  ASSUME [Next]_vars
  PROVE  \/ UNCHANGED <<worldVars, seen>>
         \/ MarkSeen \/ Kill \/ Resume
         \/ \E a \in Assignments : Assign(a)
         \/ \E g \in Breaches : Breach(g) \/ Recover(g)
<1>1. CASE UNCHANGED vars BY <1>1 DEF vars, worldVars
<1>2. CASE \/ NoAssignments \/ LatchAssignment \/ TagAssignment \/ EvaluateGuards
           \/ ReadStanding \/ ReadMarker \/ Residue
  BY <1>2 DEF NoAssignments, LatchAssignment, TagAssignment, EvaluateGuards, ReadStanding,
     ReadMarker, Residue
<1>3. CASE LatchReason \/ LatchSource \/ LatchGuard \/ CancelOrders \/ Verify \/ CutOff
  BY <1>3 DEF LatchReason, LatchSource, LatchGuard, CancelOrders, Verify, CutOff
<1>4. CASE \/ Sync \/ ReadBook \/ ReadBookFails \/ Compare \/ ReadSource \/ ReadReason
           \/ Lift \/ LiftSource \/ HaltReason \/ HaltSource
  BY <1>4 DEF Sync, ReadBook, ReadBookFails, Compare, ReadSource, ReadReason, Lift, LiftSource,
     HaltReason, HaltSource, Unwatched
<1>5. CASE Approve \/ Submit \/ FillEntry \/ ClearHalt \/ Repair
  BY <1>5 DEF Approve, Submit, FillEntry, ClearHalt, Repair, Still, worldVars
<1>6. ASSUME NEW S, CloseAll(S) PROVE UNCHANGED <<worldVars, seen>> BY <1>6 DEF CloseAll
<1> QED BY <1>1, <1>2, <1>3, <1>4, <1>5, <1>6
   DEF Next, SupervisorTick, CheckAssignments, Flatten, TraderTick, News, Environment, Operator

\* Two program counters of the trader's own.
LEMMA TraderFrame ==
  ASSUME [Next]_vars
  PROVE  \/ UNCHANGED <<trader, news>>
         \/ Sync \/ ReadBook \/ ReadBookFails \/ Compare \/ ReadSource \/ ReadReason
         \/ Lift \/ LiftSource \/ HaltReason \/ HaltSource \/ Approve \/ Submit
<1>1. CASE UNCHANGED vars BY <1>1 DEF vars, traderVars
<1>2. CASE \/ NoAssignments \/ MarkSeen \/ LatchAssignment \/ TagAssignment \/ EvaluateGuards
           \/ ReadStanding \/ ReadMarker \/ Residue
  BY <1>2 DEF NoAssignments, MarkSeen, LatchAssignment, TagAssignment, EvaluateGuards,
     ReadStanding, ReadMarker, Residue, traderVars
<1>3. CASE LatchReason \/ LatchSource \/ LatchGuard \/ CancelOrders \/ Verify \/ CutOff
  BY <1>3 DEF LatchReason, LatchSource, LatchGuard, CancelOrders, Verify, CutOff, traderVars
<1>4. CASE FillEntry \/ Kill \/ Resume \/ ClearHalt \/ Repair
  BY <1>4 DEF FillEntry, Kill, Resume, ClearHalt, Repair, Still, traderVars
<1>5. ASSUME NEW x, CloseAll(x) \/ Assign(x) \/ Breach(x) \/ Recover(x)
      PROVE  UNCHANGED <<trader, news>>
  BY <1>5 DEF CloseAll, Assign, Breach, Recover, Still, traderVars
<1> QED BY <1>1, <1>2, <1>3, <1>4, <1>5
   DEF Next, SupervisorTick, CheckAssignments, Flatten, TraderTick, News, Environment, Operator

-----------------------------------------------------------------------------
(* Types, one group of variables at a time.                                *)

\* Counting the attempts of a flatten.
LEMMA Attempts ==
  /\ 0 \in 0..FlattenTries /\ 0 < FlattenTries
  /\ \A n \in 0..FlattenTries :
       /\ n # FlattenTries => n < FlattenTries
       /\ n < FlattenTries => n + 1 \in 0..FlattenTries
BY TriesAssumption

\* The initial state is typed.
LEMMA TypeInit == ASSUME Init PROVE TypeOK
<1>1. LatchTypeOK BY DEF Init, LatchTypeOK
<1>2. WorldTypeOK BY DEF Init, WorldTypeOK
<1>3. BookTypeOK BY DEF Init, BookTypeOK
<1>4. tries = 0 BY DEF Init
<1>5. ProcessTypeOK
  BY <1>4, Attempts DEF Init, ProcessTypeOK, SupervisorPC, TraderPC
<1> QED BY <1>1, <1>2, <1>3, <1>5 DEF TypeOK

\* What a tick is judging is a guard: MarkerInv in terms of types.
LEMMA VerdictIsGuard ==
  ASSUME ProcessTypeOK, MarkerInv, supervisor \in Judging
  PROVE  verdict \in Guards
BY DEF ProcessTypeOK, MarkerInv

\* The latch keeps its type.
LEMMA LatchStep ==
  ASSUME TypeOK, MarkerInv, [Next]_vars
  PROVE  LatchTypeOK'
<1> USE DEF LatchTypeOK
<1>0. LatchTypeOK BY DEF TypeOK
<1>1. CASE UNCHANGED <<latchVars, acted>> BY <1>0, <1>1 DEF latchVars
<1>2. CASE LatchAssignment \/ TagAssignment \/ LatchSource
  BY <1>0, <1>2 DEF LatchAssignment, TagAssignment, LatchSource, SetReason
<1>3. CASE LatchReason \/ LatchGuard
  <2>1. supervisor \in Judging BY <1>3 DEF LatchReason, LatchGuard, Judging
  <2>2. verdict \in Guards BY <2>1, VerdictIsGuard DEF TypeOK
  <2> QED BY <1>0, <1>3, <2>2 DEF LatchReason, LatchGuard, SetReason
<1>4. CASE Lift \/ LiftSource \/ HaltReason \/ HaltSource
  BY <1>0, <1>4 DEF Lift, LiftSource, HaltReason, HaltSource, EmptyReason, SetReason
<1>5. CASE ClearHalt BY <1>0, <1>5 DEF ClearHalt, EmptyReason
<1> QED BY <1>1, <1>2, <1>3, <1>4, <1>5, LatchFrame

\* The world keeps its type.
LEMMA WorldStep ==
  ASSUME TypeOK, [Next]_vars
  PROVE  WorldTypeOK'
<1> USE DEF WorldTypeOK
<1>0. WorldTypeOK BY DEF TypeOK
<1>1. alarmed' \subseteq Assignments
  <2>1. CASE LatchAssignment BY <1>0, <2>1 DEF LatchAssignment
  <2>2. CASE UNCHANGED alarmed BY <1>0, <2>2
  <2>3. UNCHANGED alarmed \/ LatchAssignment
    BY SupervisorFrame DEF supervisorVars, NoAssignments, MarkSeen, TagAssignment,
       EvaluateGuards, ReadStanding, ReadMarker, Residue, LatchReason, LatchSource, LatchGuard,
       CancelOrders, Verify, CutOff, CloseAll, SupervisorGoto, SupervisorRest
  <2> QED BY <2>1, <2>2, <2>3
<1>2. (kill \in BOOLEAN)'
  <2>1. CASE UNCHANGED kill BY <1>0, <2>1
  <2>2. CASE Kill \/ Resume BY <2>2 DEF Kill, Resume
  <2> QED BY <2>1, <2>2, WorldFrame DEF worldVars, MarkSeen, Assign, Breach, Recover
<1>3. (breached \subseteq AccountGuards)'
  <2>1. CASE UNCHANGED breached BY <1>0, <2>1
  <2>2. ASSUME NEW g \in Breaches, Breach(g) \/ Recover(g)
        PROVE  breached' \subseteq AccountGuards
    BY <1>0, <2>2, BreachesAssumption DEF Breach, Recover
  <2> QED BY <2>1, <2>2, WorldFrame DEF worldVars, MarkSeen, Assign, Kill, Resume
<1>4. (reported \subseteq Assignments /\ seen \subseteq Assignments)'
  <2>1. CASE UNCHANGED <<reported, seen>> BY <1>0, <2>1
  <2>2. CASE MarkSeen BY <1>0, <2>2 DEF MarkSeen, worldVars
  <2>3. ASSUME NEW a \in Assignments, Assign(a)
        PROVE  reported' \subseteq Assignments /\ seen' \subseteq Assignments
    BY <1>0, <2>3 DEF Assign, Still
  <2>4. ASSUME NEW g, Breach(g) \/ Recover(g) PROVE UNCHANGED <<reported, seen>>
    BY <2>4 DEF Breach, Recover, Still
  <2>5. CASE Kill \/ Resume BY <1>0, <2>5 DEF Kill, Resume, Still
  <2> QED BY <2>1, <2>2, <2>3, <2>4, <2>5, WorldFrame DEF worldVars
<1> QED BY <1>1, <1>2, <1>3, <1>4

\* The book keeps its type.
LEMMA BookStep ==
  ASSUME TypeOK, [Next]_vars
  PROVE  BookTypeOK'
<1> USE DEF BookTypeOK, Holdings, Legs
<1>0. BookTypeOK BY DEF TypeOK
<1>1. CASE UNCHANGED <<bookVars, view>> BY <1>0, <1>1 DEF bookVars
<1>2. CASE CancelOrders BY <1>0, <1>2 DEF CancelOrders, CancelEntry, traderVars
<1>3. CASE Sync \/ ReadBook \/ Compare
  BY <1>0, <1>3 DEF Sync, ReadBook, Compare, TraderGoto, bookVars
<1>4. CASE Submit BY <1>0, <1>4 DEF Submit, traderVars
<1>5. CASE FillEntry \/ Repair BY <1>0, <1>5 DEF FillEntry, Repair, Still, traderVars
<1>6. ASSUME NEW S \in SUBSET Holdings, CloseAll(S)
      PROVE  BookTypeOK'
  BY <1>0, <1>6 DEF CloseAll, CancelEntry, traderVars
<1>7. ASSUME NEW a \in Assignments, Assign(a)
      PROVE  BookTypeOK'
  BY <1>0, <1>7 DEF Assign, Still, traderVars
<1> QED BY <1>1, <1>2, <1>3, <1>4, <1>5, <1>6, <1>7, BookFrame

\* The control of the processes keeps its type.
LEMMA ProcessStep ==
  ASSUME TypeOK, TriesLeft, [Next]_vars
  PROVE  ProcessTypeOK' /\ TriesLeft'
<1>0. ProcessTypeOK BY DEF TypeOK
<1>1. (supervisor \in SupervisorPC /\ verdict \in {""} \cup Guards)'
  <2> USE DEF ProcessTypeOK, SupervisorPC
  <2>1. CASE UNCHANGED supervisorVars BY <1>0, <2>1 DEF supervisorVars
  <2>2. CASE NoAssignments \/ MarkSeen \/ LatchAssignment \/ TagAssignment
    BY <1>0, <2>2 DEF NoAssignments, MarkSeen, LatchAssignment, TagAssignment, SupervisorGoto
  <2>3. CASE EvaluateGuards
    BY <1>0, <2>3 DEF EvaluateGuards, Verdict, SupervisorRest, Guards, AccountGuards
  <2>4. CASE ReadStanding \/ ReadMarker \/ Residue
    BY <1>0, <2>4 DEF ReadStanding, ReadMarker, Residue, SupervisorGoto, SupervisorRest
  <2>5. CASE LatchReason \/ LatchSource \/ LatchGuard
    BY <1>0, <2>5 DEF LatchReason, LatchSource, LatchGuard, SupervisorGoto
  <2>6. CASE CancelOrders \/ Verify \/ CutOff
    BY <1>0, <2>6 DEF CancelOrders, Verify, CutOff, SupervisorGoto, SupervisorRest
  <2>7. ASSUME NEW S \in SUBSET Holdings, CloseAll(S)
        PROVE  supervisor' \in SupervisorPC /\ verdict' \in {""} \cup Guards
    BY <1>0, <2>7 DEF CloseAll, SupervisorGoto
  <2> QED BY <2>1, <2>2, <2>3, <2>4, <2>5, <2>6, <2>7, SupervisorFrame
<1>2. (trader \in TraderPC /\ news \in {"idle", "submit"})'
  <2> USE DEF ProcessTypeOK, TraderPC
  <2>1. CASE UNCHANGED <<trader, news>> BY <1>0, <2>1
  <2>2. CASE Sync \/ ReadBook \/ ReadBookFails \/ Compare \/ ReadSource \/ ReadReason
    BY <1>0, <2>2 DEF Sync, ReadBook, ReadBookFails, Compare, ReadSource, ReadReason, TraderGoto,
       Unwatched
  <2>3. CASE Lift \/ LiftSource \/ HaltReason \/ HaltSource
    BY <1>0, <2>3 DEF Lift, LiftSource, HaltReason, HaltSource, TraderGoto, Unwatched
  <2>4. CASE Approve \/ Submit BY <1>0, <2>4 DEF Approve, Submit, traderVars
  <2> QED BY <2>1, <2>2, <2>3, <2>4, TraderFrame
<1>3. (tries \in 0..FlattenTries /\ TriesLeft)'
  <2>0. tries \in 0..FlattenTries BY <1>0 DEF ProcessTypeOK
  <2> USE DEF TriesLeft
  <2>1. CASE UNCHANGED <<supervisor, tries>> BY <2>0, <2>1
  <2>2. CASE supervisor' # "close" /\ UNCHANGED tries BY <2>0, <2>2
  <2>3. CASE tries' = 0 BY <2>3, Attempts
  <2>4. CASE CancelOrders BY <2>3, <2>4 DEF CancelOrders
  <2>5. CASE CutOff BY <2>3, <2>5 DEF CutOff
  <2>6. CASE Verify
    <3>1. CASE tries' = 0 BY <2>3, <3>1
    <3>2. CASE tries # FlattenTries /\ UNCHANGED tries BY <2>0, <3>2, Attempts
    <3> QED BY <2>6, <3>1, <3>2 DEF Verify
  <2>7. ASSUME NEW S \in SUBSET Holdings, CloseAll(S)
        PROVE  tries' \in 0..FlattenTries /\ TriesLeft'
    <3>1. supervisor = "close" /\ supervisor' = "verify" /\ tries' = tries + 1
      BY <2>7 DEF CloseAll, SupervisorGoto
    <3> QED BY <2>0, <3>1, Attempts
  <2>8. CASE \/ NoAssignments \/ MarkSeen \/ LatchAssignment \/ TagAssignment
             \/ EvaluateGuards \/ ReadStanding \/ ReadMarker \/ Residue
    BY <2>2, <2>8 DEF NoAssignments, MarkSeen, LatchAssignment, TagAssignment, EvaluateGuards,
       ReadStanding, ReadMarker, Residue, SupervisorGoto, SupervisorRest
  <2>9. CASE LatchReason \/ LatchSource \/ LatchGuard
    BY <2>2, <2>9 DEF LatchReason, LatchSource, LatchGuard, SupervisorGoto
  <2> QED BY <2>1, <2>4, <2>5, <2>6, <2>7, <2>8, <2>9, SupervisorFrame DEF supervisorVars
<1> QED BY <1>1, <1>2, <1>3 DEF ProcessTypeOK

-----------------------------------------------------------------------------
(* The marker.                                                             *)

\* No step breaks the tie between the marker and the guard that latched: a
\* latch ends with both, and whoever empties the reason makes both void.
LEMMA MarkerStep ==
  ASSUME TypeOK, MarkerInv, [Next]_vars
  PROVE  MarkerInv'
<1>1. (acted # "" => guard = acted /\ reason # "")'
  <2> USE DEF MarkerInv
  <2>1. CASE UNCHANGED <<latchVars, acted>> BY <2>1 DEF latchVars
  <2>2. CASE LatchAssignment \/ TagAssignment \/ LatchSource
    BY <2>2 DEF LatchAssignment, TagAssignment, LatchSource, SetReason
  <2>3. CASE LatchReason BY <2>3 DEF LatchReason, SetReason, Judging
  <2>4. CASE LatchGuard BY <2>4 DEF LatchGuard
  <2>5. CASE Lift \/ ClearHalt BY <2>5 DEF Lift, ClearHalt, EmptyReason
  <2>6. CASE LiftSource \/ HaltReason \/ HaltSource
    BY <2>6 DEF LiftSource, HaltReason, HaltSource, SetReason
  <2> QED BY <2>1, <2>2, <2>3, <2>4, <2>5, <2>6, LatchFrame
<1>2. (supervisor \in Judging => verdict # "")'
  <2> USE DEF MarkerInv, Judging
  <2>1. CASE UNCHANGED supervisorVars BY <2>1 DEF supervisorVars
  <2>2. CASE \/ NoAssignments \/ MarkSeen \/ LatchAssignment \/ TagAssignment \/ Residue
    BY <2>2 DEF NoAssignments, MarkSeen, LatchAssignment, TagAssignment, Residue,
       SupervisorGoto, SupervisorRest
  <2>3. CASE EvaluateGuards BY <2>3 DEF EvaluateGuards, SupervisorRest
  <2>4. CASE ReadStanding \/ ReadMarker
    BY <2>4 DEF ReadStanding, ReadMarker, SupervisorGoto
  <2>5. CASE LatchReason \/ LatchSource \/ LatchGuard
    BY <2>5 DEF LatchReason, LatchSource, LatchGuard, SupervisorGoto
  <2>6. CASE CancelOrders \/ Verify \/ CutOff
    BY <2>6 DEF CancelOrders, Verify, CutOff, SupervisorGoto, SupervisorRest
  <2>7. ASSUME NEW S \in SUBSET Holdings, CloseAll(S)
        PROVE  (supervisor \in Judging => verdict # "")'
    BY <2>7 DEF CloseAll, SupervisorGoto
  <2> QED BY <2>1, <2>2, <2>3, <2>4, <2>5, <2>6, <2>7, SupervisorFrame
<1>3. (supervisor = "latch" => acted # verdict)'
  <2> USE DEF MarkerInv
  \* The tick has just read that no halt stands, or another guard's marker.
  <2>1. CASE ReadStanding BY <2>1 DEF ReadStanding, SupervisorGoto, Judging
  <2>2. CASE ReadMarker BY <2>2 DEF ReadMarker, SupervisorGoto, Judging
  \* From then on acted can only become void.
  <2>3. ASSUME supervisor = "latch", UNCHANGED supervisorVars PROVE acted' \in {"", acted}
    BY <2>3, LatchFrame DEF latchVars, LatchAssignment, TagAssignment, LatchReason, LatchSource,
       LatchGuard, Lift, LiftSource, HaltReason, HaltSource, ClearHalt, EmptyReason
  <2>4. CASE UNCHANGED supervisorVars
    BY <2>3, <2>4 DEF supervisorVars, Judging
  <2>5. CASE \/ NoAssignments \/ MarkSeen \/ LatchAssignment \/ TagAssignment
             \/ EvaluateGuards \/ Residue \/ LatchReason \/ LatchSource \/ LatchGuard
    BY <2>5 DEF NoAssignments, MarkSeen, LatchAssignment, TagAssignment, EvaluateGuards, Residue,
       LatchReason, LatchSource, LatchGuard, SupervisorGoto, SupervisorRest
  <2>6. CASE CancelOrders \/ Verify \/ CutOff
    BY <2>6 DEF CancelOrders, Verify, CutOff, SupervisorGoto, SupervisorRest
  <2>7. ASSUME NEW S \in SUBSET Holdings, CloseAll(S) PROVE supervisor' # "latch"
    BY <2>7 DEF CloseAll, SupervisorGoto
  <2> QED BY <2>1, <2>2, <2>4, <2>5, <2>6, <2>7, SupervisorFrame
<1> QED BY <1>1, <1>2, <1>3 DEF MarkerInv

\* LatchInv is inductive.
LEMMA InvStep == ASSUME LatchInv, [Next]_vars PROVE LatchInv'
BY LatchStep, WorldStep, BookStep, ProcessStep, MarkerStep DEF LatchInv, TypeOK

-----------------------------------------------------------------------------
(* The theorems.                                                           *)

\* The types, the tie between the marker and the guard that latched last, and
\* the count of flatten attempts hold in every reachable state.
THEOREM LatchInvariant == Spec => []LatchInv
<1>1. Init => LatchInv BY TypeInit DEF LatchInv, Init, MarkerInv, TriesLeft, Judging
<1>2. LatchInv /\ [Next]_vars => LatchInv' BY InvStep
<1> QED BY <1>1, <1>2, PTL DEF Spec

\* Every variable of the latch keeps its type.
THEOREM TypeCorrect == Spec => []TypeOK
<1>1. LatchInv => TypeOK BY DEF LatchInv
<1> QED BY <1>1, LatchInvariant, PTL

\* A guard that has written its marker does not act again on the same breach,
\* wherever a tick is cut off and whoever else writes to the latch meanwhile.
THEOREM ActsOncePerBreach == Spec => OncePerBreach
<1>1. LatchInv /\ [Next]_vars => [LatchReason => acted # verdict]_vars
  BY DEF LatchInv, MarkerInv, LatchReason
<1> QED BY <1>1, LatchInvariant, PTL DEF Spec, OncePerBreach

\* Only a tick that is cut off between marking an assignment as seen and
\* writing the halt can lose the alarm.
THEOREM AlarmNotLost ==
  ASSUME "alarm" \notin CutPoints
  PROVE  Spec => []SeenAssignmentsHalt
<1> USE DEF SeenAssignmentsHalt
<1>1. Init => SeenAssignmentsHalt BY DEF Init
<1>2. SeenAssignmentsHalt /\ [Next]_vars => SeenAssignmentsHalt'
  <2> SUFFICES ASSUME SeenAssignmentsHalt, [Next]_vars PROVE SeenAssignmentsHalt' OBVIOUS
  <2>1. CASE supervisor' = "alarm" BY <2>1
  <2>2. CASE LatchAssignment BY <2>2 DEF LatchAssignment
  <2>3. CASE UNCHANGED <<supervisor, seen, alarmed>> BY <2>3
  <2>4. CASE supervisor # "alarm" /\ UNCHANGED <<seen, alarmed>> BY <2>4
  <2>5. UNCHANGED seen \/ MarkSeen
    BY WorldFrame DEF Kill, Resume, Assign, Breach, Recover, Still
  <2>6. CASE MarkSeen BY <2>1, <2>6 DEF MarkSeen, SupervisorGoto
  <2>7. CASE NoAssignments \/ TagAssignment \/ EvaluateGuards \/ ReadStanding \/ ReadMarker
    BY <2>4, <2>7 DEF NoAssignments, TagAssignment, EvaluateGuards, ReadStanding, ReadMarker,
       SupervisorGoto, SupervisorRest
  <2>8. CASE Residue \/ LatchReason \/ LatchSource \/ LatchGuard \/ CancelOrders \/ Verify
    BY <2>4, <2>8 DEF Residue, LatchReason, LatchSource, LatchGuard, CancelOrders, Verify,
       SupervisorGoto, SupervisorRest
  <2>9. CASE CutOff BY <2>4, <2>9 DEF CutOff, SupervisorRest
  <2>10. ASSUME NEW S \in SUBSET Holdings, CloseAll(S) PROVE SeenAssignmentsHalt'
    BY <2>4, <2>10 DEF CloseAll, SupervisorGoto
  <2> QED BY <2>2, <2>3, <2>5, <2>6, <2>7, <2>8, <2>9, <2>10, SupervisorFrame DEF supervisorVars
<1> QED BY <1>1, <1>2, PTL DEF Spec

=============================================================================
