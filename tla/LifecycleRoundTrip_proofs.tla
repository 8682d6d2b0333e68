----------------------- MODULE LifecycleRoundTrip_proofs -----------------------
(***************************************************************************)
(* BookIsBacked for every set of positions, both thread sets and every     *)
(* fault: the invariant BackingInv of OrderLifecycle is inductive.         *)
(* Typing comes first, by groups of variables, then control (ControlStep), *)
(* then that a fill is never taken back (FilledStable) and that no thread  *)
(* holds, records or books what the broker has not done (HandsStep,        *)
(* RecordsStep, BookStep).                                                 *)
(*                                                                         *)
(* With the news socket off there is one thread, and a position has one    *)
(* transition and one order in hand at a time.  For every number of        *)
(* positions, rungs, attempts and crashes:                                 *)
(*   - under every fault, the rows never show two orders in flight for a   *)
(*     position, the learners are fed once and nothing is opened under a   *)
(*     halt (BookInv);                                                     *)
(*   - when no submission is lost on its way back, a cancel that was       *)
(*     accepted holds and orders fill whole, the lifecycle implements      *)
(*     RoundTrip and no more is held than was ordered once (BrokerInv).    *)
(***************************************************************************)
EXTENDS LifecycleRoundTrip, TLAPS

-----------------------------------------------------------------------------
(* The orders a handler makes.                                             *)

\* The ids of entries and closes are ids, for their own position and intent
\* (client_order_id, close_order_id).
LEMMA OrderShape ==
  /\ \A o \in OrderId : o.pos \in Positions /\ o.intent \in {"open", "close"}
  /\ \A p \in Positions, n \in 0..EntrySteps :
       /\ EntryId(p, n) \in OrderId
       /\ EntryId(p, n).pos = p /\ EntryId(p, n).intent = "open"
  /\ \A p \in Positions, r \in Reasons, n \in 0..MaxAttempt :
       /\ CloseId(p, r, n) \in OrderId
       /\ CloseId(p, r, n).pos = p /\ CloseId(p, r, n).intent = "close"
BY DEF OrderId, EntryId, CloseId

\* A rung is an order for the position, in the direction, of the one it replaces.
LEMMA RungOrder ==
  ASSUME StoreTypeOK, ControlOK, Rung
  PROVE  \E o \in OrderId :
           /\ Call("main", "record", o, "sync")
           /\ o.pos = cur["main"].pos /\ o.intent = cur["main"].intent
<1>1. cur["main"] \in OrderId BY ThreadsAssumption DEF Rung, ControlOK, HandlingPC
<1> DEFINE p == cur["main"].pos
<1>2. p \in Positions /\ cur["main"].intent \in {"open", "close"} BY <1>1, OrderShape
<1>3. CASE cur["main"].intent = "open"
  <2>1. entryAttempt[p] + 1 \in 0..EntrySteps
    BY <1>2, <1>3, BoundsAssumption DEF Rung, ControlOK, ConcedingPC, StoreTypeOK
  <2>2. Call("main", "record", EntryId(p, entryAttempt[p] + 1), "sync") BY <1>3 DEF Rung
  <2> QED BY <1>2, <1>3, <2>1, <2>2, OrderShape
<1>4. CASE cur["main"].intent = "close"
  <2>1. AttemptFromOne(p) \in Nat BY <1>2 DEF AttemptFromOne, StoreTypeOK
  <2>2. AttemptFromOne(p) < CloseLimit BY <1>4 DEF Rung, ControlOK, ConcedingPC
  <2>3. AttemptFromOne(p) + 1 \in 0..MaxAttempt BY <2>1, <2>2, BoundsAssumption
  <2>4. Call("main", "record", CloseId(p, "escalated", AttemptFromOne(p) + 1), "sync")
    BY <1>4 DEF Rung
  <2> QED BY <1>2, <1>4, <2>3, <2>4, OrderShape DEF Reasons
<1> QED BY <1>2, <1>3, <1>4

\* A close is an order for the position it closes.
LEMMA CloseRowOrder ==
  ASSUME StoreTypeOK, ControlOK, NEW t \in Threads, CloseRow(t),
         closeAttempt[pid[t]] <= MaxAttempt
  PROVE  \E o \in OrderId :
           /\ cur' = [cur EXCEPT ![t] = o]
           /\ o.pos = pid[t] /\ o.intent = "close"
<1> DEFINE reason == IF ret[t] = "manage" THEN "barrier" ELSE "broken"
<1>1. pid[t] \in Positions BY DEF CloseRow, ControlOK
<1>2. closeAttempt[pid[t]] \in 0..MaxAttempt BY <1>1, BoundsAssumption DEF StoreTypeOK
<1>3. reason \in Reasons BY DEF Reasons
<1>4. cur' = [cur EXCEPT ![t] = CloseId(pid[t], reason, closeAttempt[pid[t]])] BY DEF CloseRow
<1> QED BY <1>1, <1>2, <1>3, <1>4, OrderShape

-----------------------------------------------------------------------------
(* What a step can change.                                                 *)

\* Who writes to the SQLite rows: every other step leaves them alone.
LEMMA StoreFrame ==
  ASSUME [Next]_vars
  PROVE  \/ UNCHANGED storeVars
         \/ \E o \in todo : VoidUnconfirmed(o) \/ Poll(o)
         \/ FillRow \/ FillPosition \/ FeedLearners
         \/ DeadRow \/ FailEntry \/ BumpAttempt \/ Reopen
         \/ CancelRow \/ Rung \/ Enforce
         \/ \E t \in Threads : CloseRow(t) \/ Record(t) \/ Ack(t) \/ Nack(t) \/ EnterRow(t)
<1>1. CASE UNCHANGED vars BY <1>1 DEF vars, storeVars
<1>2. CASE \/ StartTick \/ StartSweep \/ EndSweep
           \/ Rest \/ Expire \/ Concede \/ Cancel \/ CancelFails
  BY <1>2 DEF StartTick, StartSweep, EndSweep, Rest, Expire, Concede, Cancel, CancelFails
<1>3. CASE ReadBroker \/ EnforceFails \/ StartManage \/ SkipManage \/ EndManage \/ Crash
  BY <1>3 DEF ReadBroker, EnforceFails, StartManage, SkipManage, EndManage, Crash
<1>4. ASSUME NEW t \in Threads,
             \/ Send(t) \/ SendFails(t) \/ Drop(t) \/ Approve(t)
             \/ \E p : Hold(t, p) \/ Exit(t, p) \/ News(t, p)
      PROVE  UNCHANGED storeVars
  BY <1>4 DEF Send, SendFails, Drop, Approve, Hold, Exit, News
<1>5. ASSUME NEW o, PollFails(o) \/ SweepOne(o) \/ Fill(o) \/ PartialFill(o) \/ Die(o)
      PROVE  UNCHANGED storeVars
  BY <1>5 DEF PollFails, SweepOne, Fill, PartialFill, Die
<1> QED BY <1>1, <1>2, <1>3, <1>4, <1>5, ThreadsAssumption
   DEF Next, MainLoop, Sync, Voiding, Handle, Manage, Story, Walk, Submit, Broker

\* Who moves the broker: a submission, a cancel and the broker itself.
LEMMA BrokerFrame ==
  ASSUME [Next]_vars
  PROVE  \/ UNCHANGED brokerVars
         \/ Cancel \/ CancelFails
         \/ \E t \in Threads : Send(t)
         \/ \E o \in OrderId : Fill(o) \/ PartialFill(o) \/ Die(o)
<1>1. CASE UNCHANGED vars BY <1>1 DEF vars, brokerVars
<1>2. CASE StartTick \/ StartSweep \/ EndSweep \/ Rest \/ Expire \/ Concede \/ CancelRow \/ Rung
  BY <1>2 DEF StartTick, StartSweep, EndSweep, Rest, Expire, Concede, CancelRow, Rung
<1>3. CASE \/ FillRow \/ FillPosition \/ FeedLearners
           \/ DeadRow \/ FailEntry \/ BumpAttempt \/ Reopen
  BY <1>3 DEF FillRow, FillPosition, FeedLearners, DeadRow, FailEntry, BumpAttempt, Reopen
<1>4. CASE \/ ReadBroker \/ Enforce \/ EnforceFails
           \/ StartManage \/ SkipManage \/ EndManage \/ Crash
  BY <1>4 DEF ReadBroker, Enforce, EnforceFails, StartManage, SkipManage, EndManage, Crash
<1>5. ASSUME NEW t \in Threads,
             \/ CloseRow(t) \/ Record(t) \/ SendFails(t) \/ Ack(t) \/ Nack(t)
             \/ Drop(t) \/ Approve(t) \/ EnterRow(t)
             \/ \E p : Hold(t, p) \/ Exit(t, p) \/ News(t, p)
      PROVE  UNCHANGED brokerVars
  BY <1>5 DEF CloseRow, Record, SendFails, Ack, Nack, Drop, Approve, EnterRow, Hold, Exit, News
<1>6. ASSUME NEW o, Poll(o) \/ PollFails(o) \/ VoidUnconfirmed(o) \/ SweepOne(o)
      PROVE  UNCHANGED brokerVars
  BY <1>6 DEF Poll, PollFails, VoidUnconfirmed, SweepOne
<1> QED BY <1>1, <1>2, <1>3, <1>4, <1>5, <1>6, ThreadsAssumption
   DEF Next, MainLoop, Sync, Voiding, Handle, Manage, Story, Walk, Submit, Broker

\* Who moves a thread's local variables.
LEMMA LoopFrame ==
  ASSUME [Next]_vars
  PROVE  \/ UNCHANGED loopVars /\ UNCHANGED crashes
         \/ StartTick \/ StartSweep \/ ReadBroker \/ Enforce \/ StartManage \/ Crash
         \/ \E o \in todo : Poll(o) \/ PollFails(o) \/ VoidUnconfirmed(o)
         \/ \E r \in orphans : SweepOne(r)
         \/ \E t \in Threads :
              \/ Nack(t) \/ Drop(t) \/ EnterRow(t)
              \/ \E p \in walk[t] : Hold(t, p) \/ Exit(t, p)
              \/ \E p \in Positions \cup {None} : News(t, p)
<1>1. CASE UNCHANGED vars BY <1>1 DEF vars, loopVars
<1>2. CASE EndSweep \/ Rest \/ Expire \/ Concede \/ Cancel \/ CancelFails \/ CancelRow \/ Rung
  BY <1>2 DEF EndSweep, Rest, Expire, Concede, Cancel, CancelFails, CancelRow, Rung
<1>3. CASE \/ FillRow \/ FillPosition \/ FeedLearners
           \/ DeadRow \/ FailEntry \/ BumpAttempt \/ Reopen
  BY <1>3 DEF FillRow, FillPosition, FeedLearners, DeadRow, FailEntry, BumpAttempt, Reopen
<1>4. CASE EnforceFails \/ SkipManage \/ EndManage
  BY <1>4 DEF EnforceFails, SkipManage, EndManage
<1>5. ASSUME NEW t \in Threads,
             CloseRow(t) \/ Record(t) \/ Send(t) \/ SendFails(t) \/ Ack(t) \/ Approve(t)
      PROVE  UNCHANGED loopVars /\ UNCHANGED crashes
  BY <1>5 DEF CloseRow, Record, Send, SendFails, Ack, Approve
<1>6. ASSUME NEW o, Fill(o) \/ PartialFill(o) \/ Die(o)
      PROVE  UNCHANGED loopVars /\ UNCHANGED crashes
  BY <1>6 DEF Fill, PartialFill, Die
<1> QED BY <1>1, <1>2, <1>3, <1>4, <1>5, <1>6, ThreadsAssumption
   DEF Next, MainLoop, Sync, Voiding, Handle, Manage, Story, Walk, Submit, Broker

-----------------------------------------------------------------------------
(* Typing.                                                                 *)

\* The program starts well typed.
LEMMA TypeInit == Init => TypeOK
<1> SUFFICES ASSUME Init PROVE TypeOK OBVIOUS
<1>1. StoreTypeOK
  <2>1. latest \in [Positions -> [{"open", "close"} -> OrderId \cup {None}]] BY DEF Init
  <2>2. /\ rows \in [OrderId -> RowStatus]
        /\ position \in [Positions -> PositionStatus]
    BY DEF Init, RowStatus, PositionStatus
  <2>3. /\ entryAttempt \in [Positions -> 0..EntrySteps]
        /\ closeAttempt \in [Positions -> Nat]
        /\ halted \in BOOLEAN
        /\ fed \in [Positions -> Nat]
    <3>1. /\ entryAttempt = [p \in Positions |-> 0]
          /\ closeAttempt = [p \in Positions |-> 0]
          /\ halted = FALSE
          /\ fed = [p \in Positions |-> 0]
      BY DEF Init
    <3>2. 0 \in 0..EntrySteps /\ 0 \in Nat BY BoundsAssumption
    <3> QED BY <3>1, <3>2
  <2> QED BY <2>1, <2>2, <2>3 DEF StoreTypeOK
<1>2. BrokerTypeOK BY BoundsAssumption DEF Init, BrokerTypeOK, BrokerStatus
<1>3. ThreadTypeOK BY DEF Init, ThreadTypeOK, AnyPC
<1>4. LoopTypeOK BY BoundsAssumption DEF Init, LoopTypeOK
<1> QED BY <1>1, <1>2, <1>3, <1>4 DEF TypeOK

\* The rows keep their types, whatever handler writes them.
LEMMA StoreStep ==
  ASSUME TypeOK, ControlOK, [Next]_vars
  PROVE  StoreTypeOK'
<1>0. StoreTypeOK BY DEF TypeOK
<1>c. pc["main"] \in HandlingPC => cur["main"].pos \in Positions /\ cur["main"] \in OrderId
  BY ThreadsAssumption, OrderShape DEF ControlOK
<1>d. \A t \in Threads : pc[t] \in {"record", "ack", "nack"} => cur[t] \in OrderId
  BY DEF ControlOK
<1>1. CASE UNCHANGED storeVars BY <1>0, <1>1 DEF StoreTypeOK, storeVars
<1>2. ASSUME NEW o \in todo, VoidUnconfirmed(o) \/ Poll(o) PROVE StoreTypeOK'
  BY <1>0, <1>2 DEF StoreTypeOK, VoidUnconfirmed, Poll, RowStatus
<1>3. CASE FillRow \/ DeadRow \/ CancelRow
  BY <1>0, <1>3 DEF StoreTypeOK, FillRow, DeadRow, CancelRow, ResolveRow, RowStatus
<1>4. CASE FillPosition \/ FailEntry \/ Reopen
  BY <1>0, <1>4 DEF StoreTypeOK, FillPosition, FailEntry, Reopen, SetPosition, PositionStatus
<1>5. CASE FeedLearners \/ BumpAttempt
  BY <1>0, <1>c, <1>5 DEF StoreTypeOK, FeedLearners, BumpAttempt, HandlingPC
<1>6. ASSUME Rung PROVE StoreTypeOK'
  <2> DEFINE p == cur["main"].pos
  <2>1. p \in Positions BY <1>c, <1>6 DEF Rung, HandlingPC
  <2>2. CASE cur["main"].intent = "open"
    <3>1. entryAttempt[p] + 1 \in 0..EntrySteps
      BY <1>0, <1>6, <2>1, <2>2, BoundsAssumption
         DEF Rung, ControlOK, ConcedingPC, StoreTypeOK
    <3> QED BY <1>0, <1>6, <2>2, <3>1 DEF Rung, StoreTypeOK
  <2>3. CASE cur["main"].intent # "open"
    <3>1. AttemptFromOne(p) + 1 \in Nat BY <1>0, <2>1 DEF AttemptFromOne, StoreTypeOK
    <3> QED BY <1>0, <1>6, <2>3, <3>1 DEF Rung, StoreTypeOK
  <2> QED BY <2>2, <2>3
<1>7. CASE Enforce BY <1>0, <1>7 DEF StoreTypeOK, Enforce
<1>8. ASSUME NEW t \in Threads, CloseRow(t) \/ EnterRow(t) PROVE StoreTypeOK'
  BY <1>0, <1>8 DEF StoreTypeOK, CloseRow, EnterRow, SetPosition, PositionStatus
<1>9. ASSUME NEW t \in Threads, Ack(t) \/ Nack(t) PROVE StoreTypeOK'
  BY <1>0, <1>9 DEF StoreTypeOK, Ack, Nack, RowStatus
<1>10. ASSUME NEW t \in Threads, Record(t) PROVE StoreTypeOK'
  <2>1. cur[t] \in OrderId BY <1>d, <1>10 DEF Record
  <2>2. rows' \in [OrderId -> RowStatus] BY <1>0, <1>10, <2>1 DEF StoreTypeOK, Record, RowStatus
  <2>3. latest' \in [Positions -> [{"open", "close"} -> OrderId \cup {None}]]
    <3>1. latest \in [Positions -> [{"open", "close"} -> OrderId \cup {None}]]
      BY <1>0 DEF StoreTypeOK
    <3> QED BY <1>10, <2>1, <3>1, OrderShape DEF Record
  <2> QED BY <1>0, <1>10, <2>2, <2>3 DEF StoreTypeOK, Record
<1> QED BY <1>1, <1>2, <1>3, <1>4, <1>5, <1>6, <1>7, <1>8, <1>9, <1>10, StoreFrame

\* The broker's orders and holdings keep their types.
LEMMA BrokerStep ==
  ASSUME TypeOK, ControlOK, [Next]_vars
  PROVE  BrokerTypeOK'
<1>0. BrokerTypeOK BY DEF TypeOK
<1>1. CASE UNCHANGED brokerVars BY <1>0, <1>1 DEF BrokerTypeOK, brokerVars
<1>2. CASE Cancel \/ CancelFails
  BY <1>0, <1>2 DEF BrokerTypeOK, Cancel, CancelFails, AfterCancel, BrokerStatus
<1>3. ASSUME NEW t \in Threads, Send(t) PROVE BrokerTypeOK'
  BY <1>0, <1>3 DEF BrokerTypeOK, Send, BrokerStatus
<1>4. ASSUME NEW o \in OrderId, Fill(o) \/ PartialFill(o) \/ Die(o) PROVE BrokerTypeOK'
  <2>1. o.pos \in Positions BY OrderShape
  <2>2. broker' \in [OrderId -> BrokerStatus]
    BY <1>0, <1>4 DEF BrokerTypeOK, Fill, PartialFill, Die, BrokerStatus
  <2>3. done' \in [OrderId -> 0..Qty]
    BY <1>0, <1>4, BoundsAssumption DEF BrokerTypeOK, Fill, PartialFill, Die
  <2>4. held' \in [Positions -> Int]
    BY <1>0, <1>4, <2>1, BoundsAssumption DEF BrokerTypeOK, Fill, PartialFill, Die, Signed
  <2> QED BY <2>2, <2>3, <2>4 DEF BrokerTypeOK
<1> QED BY <1>1, <1>2, <1>3, <1>4, BrokerFrame

\* Program counters, orders in hand and return points keep their types.
LEMMA ThreadStep ==
  ASSUME TypeOK, ControlOK, [Next]_vars
  PROVE  ThreadTypeOK'
<1> USE ThreadsAssumption
<1> USE DEF TypeOK, ThreadTypeOK, ControlOK, HandlingPC, ConcedingPC, MainPC, AnyPC
<1>1. CASE StartTick BY <1>1 DEF StartTick, Goto
<1>2. CASE StartSweep BY <1>2 DEF StartSweep, Goto
<1>3. CASE EndSweep BY <1>3 DEF EndSweep, Goto
<1>4. CASE FillRow BY <1>4 DEF FillRow, Goto
<1>5. CASE FillPosition BY <1>5 DEF FillPosition, Goto, Resume, Leave
<1>6. CASE FeedLearners BY <1>6 DEF FeedLearners, Resume, Leave
<1>7. CASE DeadRow BY <1>7 DEF DeadRow, DeadBranch, Goto, Resume, Leave
<1>8. CASE FailEntry BY <1>8 DEF FailEntry, Resume, Leave
<1>9. CASE BumpAttempt BY <1>9 DEF BumpAttempt, Goto
<1>10. CASE Reopen BY <1>10 DEF Reopen, Resume, Leave
<1>11. CASE Rest BY <1>11 DEF Rest, Resume, Leave
<1>12. CASE Expire BY <1>12 DEF Expire, Goto
<1>13. CASE Concede BY <1>13 DEF Concede, MayConcede, Goto
<1>14. CASE Cancel BY <1>14 DEF Cancel, Goto
<1>15. CASE CancelFails BY <1>15 DEF CancelFails, Resume, Leave
<1>16. CASE CancelRow BY <1>16 DEF CancelRow, Goto, Resume, Leave
<1>17. ASSUME Rung PROVE ThreadTypeOK'
  <2>1. PICK o \in OrderId : Call("main", "record", o, "sync") BY <1>17, RungOrder DEF Rung
  <2> QED BY <2>1 DEF Call
<1>18. CASE ReadBroker BY <1>18 DEF ReadBroker, Goto
<1>19. CASE Enforce BY <1>19 DEF Enforce, Goto
<1>20. CASE EnforceFails BY <1>20 DEF EnforceFails, Goto
<1>21. CASE StartManage BY <1>21 DEF StartManage, Goto
<1>22. CASE SkipManage BY <1>22 DEF SkipManage, Goto
<1>23. CASE EndManage BY <1>23 DEF EndManage, Goto
<1>24. CASE Crash BY <1>24 DEF Crash
<1>25. ASSUME NEW o \in todo, Poll(o) PROVE ThreadTypeOK' BY <1>25 DEF Poll, Goto, Call, HandlerOf, LoopTypeOK
<1>26. ASSUME NEW o \in todo, PollFails(o) PROVE ThreadTypeOK' BY <1>26 DEF PollFails
<1>27. ASSUME NEW o \in todo, VoidUnconfirmed(o) PROVE ThreadTypeOK' BY <1>27 DEF VoidUnconfirmed
<1>28. ASSUME NEW o \in OrderId, Fill(o) PROVE ThreadTypeOK' BY <1>28 DEF Fill
<1>29. ASSUME NEW o \in OrderId, PartialFill(o) PROVE ThreadTypeOK' BY <1>29 DEF PartialFill
<1>30. ASSUME NEW o \in OrderId, Die(o) PROVE ThreadTypeOK' BY <1>30 DEF Die
<1>31. ASSUME NEW r \in orphans, SweepOne(r) PROVE ThreadTypeOK'
  <2>1. latest[r[1]][r[2]] \in OrderId \cup {None} BY DEF LoopTypeOK, StoreTypeOK
  <2> QED BY <1>31, <2>1 DEF SweepOne, Call, HandlerOf
<1>32. ASSUME NEW t \in Threads, CloseRow(t) PROVE ThreadTypeOK'
  <2>1. CASE closeAttempt[pid[t]] <= MaxAttempt
    <3>1. PICK o \in OrderId : cur' = [cur EXCEPT ![t] = o] BY <1>32, <2>1, CloseRowOrder
    <3> QED BY <1>32, <2>1, <3>1 DEF CloseRow
  <2>2. CASE ~(closeAttempt[pid[t]] <= MaxAttempt) BY <1>32, <2>2 DEF CloseRow, Resume, Leave
  <2> QED BY <2>1, <2>2
<1>33. ASSUME NEW t \in Threads, Record(t) PROVE ThreadTypeOK'
  BY <1>33 DEF Record, Goto, Resume, Leave
<1>34. ASSUME NEW t \in Threads, Send(t) PROVE ThreadTypeOK'
  BY <1>34 DEF Send, Goto
<1>35. ASSUME NEW t \in Threads, SendFails(t) PROVE ThreadTypeOK'
  BY <1>35 DEF SendFails, Goto
<1>36. ASSUME NEW t \in Threads, Ack(t) PROVE ThreadTypeOK'
  BY <1>36 DEF Ack, Resume, Leave
<1>37. ASSUME NEW t \in Threads, Nack(t) PROVE ThreadTypeOK'
  BY <1>37 DEF Nack, Leave
<1>38. ASSUME NEW t \in Threads, Drop(t) PROVE ThreadTypeOK'
  BY <1>38 DEF Drop, Goto
<1>39. ASSUME NEW t \in Threads, Approve(t) PROVE ThreadTypeOK'
  BY <1>39 DEF Approve, Goto
<1>40. ASSUME NEW t \in Threads, EnterRow(t) PROVE ThreadTypeOK'
  BY <1>40, OrderShape, BoundsAssumption DEF EnterRow, Call
<1>41. ASSUME NEW t \in Threads, NEW p \in walk[t], Hold(t, p) PROVE ThreadTypeOK' BY <1>41 DEF Hold
<1>42. ASSUME NEW t \in Threads, NEW p \in walk[t], Exit(t, p) PROVE ThreadTypeOK' BY <1>42 DEF Exit, LoopTypeOK
<1>43. ASSUME NEW t \in Threads, NEW p \in Positions \cup {None}, News(t, p) PROVE ThreadTypeOK'
  BY <1>43 DEF News, Goto
<1>44. CASE UNCHANGED vars BY <1>44 DEF vars
<1> QED BY <1>1, <1>2, <1>3, <1>4, <1>5, <1>6, <1>7, <1>8, <1>9, <1>10, <1>11, <1>12, <1>13, <1>14, <1>15, <1>16, <1>17, <1>18, <1>19, <1>20, <1>21, <1>22, <1>23, <1>24, <1>25, <1>26, <1>27, <1>28, <1>29, <1>30, <1>31, <1>32, <1>33, <1>34, <1>35, <1>36, <1>37, <1>38, <1>39, <1>40, <1>41, <1>42, <1>43, <1>44, ThreadsAssumption
  DEF Next, MainLoop, Sync, Voiding, Handle, Manage, Story, Walk, Submit, Broker

\* The loops' sets of rows still to visit keep their types.
LEMMA LoopStep ==
  ASSUME TypeOK, ControlOK, [Next]_vars
  PROVE  LoopTypeOK'
<1>0. LoopTypeOK /\ held \in [Positions -> Int] BY DEF TypeOK, BrokerTypeOK
<1>1. CASE UNCHANGED loopVars /\ UNCHANGED crashes
  BY <1>0, <1>1 DEF LoopTypeOK, loopVars
<1>2. CASE StartTick \/ StartSweep
  BY <1>0, <1>2 DEF LoopTypeOK, StartTick, StartSweep, InFlight, Orphans
<1>3. ASSUME NEW o \in todo, Poll(o) \/ PollFails(o) \/ VoidUnconfirmed(o) PROVE LoopTypeOK'
  BY <1>0, <1>3 DEF LoopTypeOK, Poll, PollFails, VoidUnconfirmed
<1>4. ASSUME NEW r \in orphans, SweepOne(r) PROVE LoopTypeOK'
  BY <1>0, <1>4 DEF LoopTypeOK, SweepOne
<1>5. CASE ReadBroker \/ Enforce BY <1>0, <1>5 DEF LoopTypeOK, ReadBroker, Enforce
<1>6. CASE StartManage BY <1>0, <1>6 DEF LoopTypeOK, StartManage, OpenRows
<1>7. ASSUME NEW t \in Threads, NEW p \in walk[t], Hold(t, p) \/ Exit(t, p) PROVE LoopTypeOK'
  BY <1>0, <1>7 DEF LoopTypeOK, Hold, Exit
<1>8. ASSUME NEW t \in Threads, NEW p \in Positions \cup {None}, News(t, p) PROVE LoopTypeOK'
  BY <1>0, <1>8 DEF LoopTypeOK, News, OpenRows
<1>9. ASSUME NEW t \in Threads, Nack(t) \/ Drop(t) \/ EnterRow(t) PROVE LoopTypeOK'
  BY <1>0, <1>9 DEF LoopTypeOK, Nack, Drop, EnterRow
<1>10. CASE Crash BY <1>0, <1>10, BoundsAssumption DEF LoopTypeOK, Crash
<1> QED BY <1>1, <1>2, <1>3, <1>4, <1>5, <1>6, <1>7, <1>8, <1>9, <1>10, LoopFrame

-----------------------------------------------------------------------------
(* Control.                                                                *)

\* No handler is running when the program starts.
LEMMA ControlInit == Init => ControlOK
BY ThreadsAssumption DEF Init, ControlOK, MainPC, HandlingPC, ConcedingPC

\* A thread in a handler holds the order or the position the handler is for,
\* and a rung that was decided on is still within the ladder when it is made.
LEMMA ControlStep ==
  ASSUME TypeOK, ControlOK, [Next]_vars
  PROVE  ControlOK'
<1> USE ThreadsAssumption
<1> USE DEF TypeOK, ThreadTypeOK, ControlOK, HandlingPC, ConcedingPC, MainPC
<1>1. CASE StartTick BY <1>1 DEF StartTick, Goto, storeVars, AttemptFromOne
<1>2. CASE StartSweep BY <1>2 DEF StartSweep, Goto, storeVars, AttemptFromOne
<1>3. CASE EndSweep BY <1>3 DEF EndSweep, Goto, storeVars, loopVars, AttemptFromOne
<1>4. CASE FillRow BY <1>4 DEF FillRow, Goto, loopVars, AttemptFromOne
<1>5. CASE FillPosition BY <1>5 DEF FillPosition, Goto, Resume, Leave, loopVars, AttemptFromOne
<1>6. CASE FeedLearners BY <1>6 DEF FeedLearners, Resume, Leave, loopVars, AttemptFromOne
<1>7. CASE DeadRow BY <1>7 DEF DeadRow, DeadBranch, Goto, Resume, Leave, loopVars, AttemptFromOne
<1>8. CASE FailEntry BY <1>8 DEF FailEntry, Resume, Leave, loopVars, AttemptFromOne
<1>9. CASE BumpAttempt BY <1>9 DEF BumpAttempt, Goto, loopVars, AttemptFromOne
<1>10. CASE Reopen BY <1>10 DEF Reopen, Resume, Leave, loopVars, AttemptFromOne
<1>11. CASE Rest BY <1>11 DEF Rest, Resume, Leave, storeVars, loopVars, AttemptFromOne
<1>12. CASE Expire BY <1>12 DEF Expire, Goto, storeVars, loopVars, AttemptFromOne
<1>13. CASE Concede BY <1>13 DEF Concede, MayConcede, Goto, storeVars, loopVars, AttemptFromOne
<1>14. CASE Cancel BY <1>14 DEF Cancel, Goto, storeVars, loopVars, AttemptFromOne
<1>15. CASE CancelFails BY <1>15 DEF CancelFails, Resume, Leave, storeVars, loopVars, AttemptFromOne
<1>16. CASE CancelRow BY <1>16 DEF CancelRow, Goto, Resume, Leave, loopVars, AttemptFromOne
<1>17. ASSUME Rung PROVE ControlOK'
  <2>1. PICK o \in OrderId : Call("main", "record", o, "sync") BY <1>17, RungOrder
  <2> QED BY <1>17, <2>1 DEF Rung, Call, loopVars
<1>18. CASE ReadBroker BY <1>18 DEF ReadBroker, Goto, storeVars, AttemptFromOne
<1>19. CASE Enforce BY <1>19 DEF Enforce, Goto, AttemptFromOne
<1>20. CASE EnforceFails BY <1>20 DEF EnforceFails, Goto, storeVars, loopVars, AttemptFromOne
<1>21. CASE StartManage BY <1>21 DEF StartManage, Goto, storeVars, AttemptFromOne
<1>22. CASE SkipManage BY <1>22 DEF SkipManage, Goto, storeVars, loopVars, AttemptFromOne
<1>23. CASE EndManage BY <1>23 DEF EndManage, Goto, storeVars, loopVars, AttemptFromOne
<1>24. CASE Crash BY <1>24 DEF Crash, storeVars, AttemptFromOne
<1>25. ASSUME NEW o \in todo, Poll(o) PROVE ControlOK'
  BY <1>25 DEF Poll, Goto, Call, HandlerOf, LoopTypeOK, AttemptFromOne
<1>26. ASSUME NEW o \in todo, PollFails(o) PROVE ControlOK'
  BY <1>26 DEF PollFails, storeVars, AttemptFromOne
<1>27. ASSUME NEW o \in todo, VoidUnconfirmed(o) PROVE ControlOK'
  BY <1>27 DEF VoidUnconfirmed, AttemptFromOne
<1>28. ASSUME NEW o \in OrderId, Fill(o) PROVE ControlOK'
  BY <1>28 DEF Fill, storeVars, loopVars, AttemptFromOne
<1>29. ASSUME NEW o \in OrderId, PartialFill(o) PROVE ControlOK'
  BY <1>29 DEF PartialFill, storeVars, loopVars, AttemptFromOne
<1>30. ASSUME NEW o \in OrderId, Die(o) PROVE ControlOK'
  BY <1>30 DEF Die, storeVars, loopVars, AttemptFromOne
<1>31. ASSUME NEW r \in orphans, SweepOne(r) PROVE ControlOK'
  BY <1>31 DEF SweepOne, Call, HandlerOf, storeVars, LoopTypeOK, StoreTypeOK, AttemptFromOne
<1>32. ASSUME NEW t \in Threads, CloseRow(t) PROVE ControlOK'
  <2>1. CASE closeAttempt[pid[t]] <= MaxAttempt
    <3>1. PICK o \in OrderId : cur' = [cur EXCEPT ![t] = o] BY <1>32, <2>1, CloseRowOrder
    <3> QED BY <1>32, <2>1, <3>1 DEF CloseRow, loopVars, AttemptFromOne
  <2>2. CASE ~(closeAttempt[pid[t]] <= MaxAttempt)
    BY <1>32, <2>2 DEF CloseRow, Resume, Leave, loopVars, AttemptFromOne
  <2> QED BY <2>1, <2>2
<1>33. ASSUME NEW t \in Threads, Record(t) PROVE ControlOK'
  BY <1>33 DEF Record, Goto, Resume, Leave, loopVars, AttemptFromOne
<1>34. ASSUME NEW t \in Threads, Send(t) PROVE ControlOK'
  BY <1>34 DEF Send, Goto, storeVars, loopVars, AttemptFromOne
<1>35. ASSUME NEW t \in Threads, SendFails(t) PROVE ControlOK'
  BY <1>35 DEF SendFails, Goto, storeVars, loopVars, AttemptFromOne
<1>36. ASSUME NEW t \in Threads, Ack(t) PROVE ControlOK'
  BY <1>36 DEF Ack, Resume, Leave, loopVars, AttemptFromOne
<1>37. ASSUME NEW t \in Threads, Nack(t) PROVE ControlOK'
  BY <1>37 DEF Nack, Leave, AttemptFromOne
<1>38. ASSUME NEW t \in Threads, Drop(t) PROVE ControlOK'
  BY <1>38 DEF Drop, Goto, storeVars, AttemptFromOne
<1>39. ASSUME NEW t \in Threads, Approve(t) PROVE ControlOK'
  BY <1>39 DEF Approve, Goto, LoopTypeOK, storeVars, loopVars, AttemptFromOne
<1>40. ASSUME NEW t \in Threads, EnterRow(t) PROVE ControlOK'
  <2>1. EntryId(story[t], 0) \in OrderId BY <1>40, OrderShape, BoundsAssumption DEF EnterRow
  <2> QED BY <1>40, <2>1 DEF EnterRow, Call, AttemptFromOne
<1>41. ASSUME NEW t \in Threads, NEW p \in walk[t], Hold(t, p) PROVE ControlOK'
  BY <1>41 DEF Hold, storeVars, AttemptFromOne
<1>42. ASSUME NEW t \in Threads, NEW p \in walk[t], Exit(t, p) PROVE ControlOK'
  BY <1>42 DEF Exit, LoopTypeOK, storeVars, AttemptFromOne
<1>43. ASSUME NEW t \in Threads, NEW p \in Positions \cup {None}, News(t, p) PROVE ControlOK'
  BY <1>43 DEF News, Goto, storeVars, AttemptFromOne
<1>44. CASE UNCHANGED vars BY <1>44 DEF vars, storeVars, loopVars, AttemptFromOne
<1> QED BY <1>1, <1>2, <1>3, <1>4, <1>5, <1>6, <1>7, <1>8, <1>9, <1>10, <1>11, <1>12, <1>13, <1>14, <1>15, <1>16, <1>17, <1>18, <1>19, <1>20, <1>21, <1>22, <1>23, <1>24, <1>25, <1>26, <1>27, <1>28, <1>29, <1>30, <1>31, <1>32, <1>33, <1>34, <1>35, <1>36, <1>37, <1>38, <1>39, <1>40, <1>41, <1>42, <1>43, <1>44, ThreadsAssumption
  DEF Next, MainLoop, Sync, Voiding, Handle, Manage, Story, Walk, Submit, Broker

-----------------------------------------------------------------------------
(* Backing.                                                                *)

\* A fill is never taken back.
LEMMA FilledStable ==
  ASSUME TypeOK, ControlOK, [Next]_vars
  PROVE  /\ \A o \in OrderId : broker[o] = "filled" => broker'[o] = "filled"
         /\ Entered \subseteq Entered' /\ Exited \subseteq Exited'
<1>0. broker \in [OrderId -> BrokerStatus] BY DEF TypeOK, BrokerTypeOK
<1> SUFFICES \A o \in OrderId : broker[o] = "filled" => broker'[o] = "filled"
  BY DEF Entered, Exited, FilledFor
<1>1. CASE UNCHANGED brokerVars BY <1>1 DEF brokerVars
<1>2. CASE Cancel BY <1>0, <1>2 DEF Cancel
<1>3. CASE CancelFails BY <1>0, <1>3 DEF CancelFails
<1>4. ASSUME NEW t \in Threads, Send(t)
      PROVE  \A o \in OrderId : broker[o] = "filled" => broker'[o] = "filled"
  BY <1>0, <1>4 DEF Send
<1>5. ASSUME NEW q \in OrderId, Fill(q) \/ PartialFill(q) \/ Die(q)
      PROVE  \A o \in OrderId : broker[o] = "filled" => broker'[o] = "filled"
  BY <1>0, <1>5 DEF Fill, PartialFill, Die
<1> QED BY <1>1, <1>2, <1>3, <1>4, <1>5, BrokerFrame

\* What a thread is about to write is backed: a fill is booked for an order
\* that filled, and only a position that was entered is closed.
LEMMA HandsStep ==
  ASSUME BackingInv, [Next]_vars
  PROVE  HandsBacked'
<1>f. /\ \A o \in OrderId : broker[o] = "filled" => broker'[o] = "filled"
      /\ Entered \subseteq Entered'
  BY FilledStable DEF BackingInv
<1>g. pc["main"] \in {"onfill", "fillpos"} => broker'[cur["main"]] = "filled"
  BY <1>f, ThreadsAssumption DEF BackingInv, ControlOK, HandlingPC, HandsBacked
<1>h. ASSUME NEW t \in Threads, CloseRow(t), closeAttempt[pid[t]] <= MaxAttempt
      PROVE  \E o \in OrderId :
               cur' = [cur EXCEPT ![t] = o] /\ o.pos = pid[t] /\ o.intent = "close"
  BY <1>h, CloseRowOrder DEF BackingInv, TypeOK
<1> USE <1>f, <1>g, ThreadsAssumption, NoneAssumption
<1> USE DEF BackingInv, TypeOK, ThreadTypeOK, HandsBacked
<1>1. CASE StartTick BY <1>1 DEF StartTick, Goto
<1>2. CASE StartSweep BY <1>2 DEF StartSweep, Goto
<1>3. CASE EndSweep BY <1>3 DEF EndSweep, Goto, loopVars
<1>4. CASE FillRow BY <1>4 DEF FillRow, Goto, loopVars
<1>5. CASE FillPosition
  <2>1. cur["main"].intent \in {"open", "close"}
    BY <1>5, OrderShape DEF FillPosition, ControlOK, HandlingPC
  <2> QED BY <1>5, <2>1 DEF FillPosition, Goto, Resume, Leave, loopVars
<1>6. CASE FeedLearners BY <1>6 DEF FeedLearners, Resume, Leave, loopVars
<1>7. CASE DeadRow BY <1>7 DEF DeadRow, DeadBranch, Goto, Resume, Leave, loopVars
<1>8. CASE FailEntry BY <1>8 DEF FailEntry, Resume, Leave, loopVars
<1>9. CASE BumpAttempt BY <1>9 DEF BumpAttempt, Goto, loopVars
<1>10. CASE Reopen BY <1>10 DEF Reopen, Resume, Leave, loopVars
<1>11. CASE Rest BY <1>11 DEF Rest, Resume, Leave, loopVars
<1>12. CASE Expire BY <1>12 DEF Expire, Goto, loopVars
<1>13. CASE Concede BY <1>13 DEF Concede, Goto, loopVars
<1>14. CASE Cancel BY <1>14 DEF Cancel, Goto, loopVars
<1>15. CASE CancelFails BY <1>15 DEF CancelFails, Resume, Leave, loopVars
<1>16. CASE CancelRow BY <1>16 DEF CancelRow, Goto, Resume, Leave, loopVars
<1>17. ASSUME Rung PROVE HandsBacked'
  <2>1. PICK o \in OrderId :
          /\ Call("main", "record", o, "sync")
          /\ o.pos = cur["main"].pos /\ o.intent = cur["main"].intent
    BY <1>17, RungOrder
  <2> QED BY <1>17, <2>1 DEF Rung, Call, loopVars, ControlOK, HandlingPC
<1>18. CASE ReadBroker BY <1>18 DEF ReadBroker, Goto
<1>19. CASE Enforce BY <1>19 DEF Enforce, Goto
<1>20. CASE EnforceFails BY <1>20 DEF EnforceFails, Goto, loopVars
<1>21. CASE StartManage BY <1>21 DEF StartManage, Goto, OpenRows, BookIsBacked
<1>22. CASE SkipManage BY <1>22 DEF SkipManage, Goto, loopVars
<1>23. CASE EndManage BY <1>23 DEF EndManage, Goto, loopVars
<1>24. CASE Crash BY <1>24 DEF Crash
<1>25. ASSUME NEW o \in todo, Poll(o) PROVE HandsBacked'
  BY <1>25 DEF Poll, Goto, Call, HandlerOf, LoopTypeOK, RecordsBacked, Closing
<1>26. ASSUME NEW o \in todo, PollFails(o) PROVE HandsBacked'
  BY <1>26 DEF PollFails
<1>27. ASSUME NEW o \in todo, VoidUnconfirmed(o) PROVE HandsBacked'
  BY <1>27 DEF VoidUnconfirmed
<1>28. ASSUME NEW o \in OrderId, Fill(o) PROVE HandsBacked'
  BY <1>28 DEF Fill, loopVars
<1>29. ASSUME NEW o \in OrderId, PartialFill(o) PROVE HandsBacked'
  BY <1>29 DEF PartialFill, loopVars
<1>30. ASSUME NEW o \in OrderId, Die(o) PROVE HandsBacked'
  BY <1>30 DEF Die, loopVars
<1>31. ASSUME NEW r \in orphans, SweepOne(r) PROVE HandsBacked'
  <2>1. latest[r[1]][r[2]] \in OrderId \cup {None} BY DEF LoopTypeOK, StoreTypeOK
  <2> QED BY <1>31, <2>1 DEF SweepOne, Call, HandlerOf, RecordsBacked, Closing
<1>32. ASSUME NEW t \in Threads, CloseRow(t) PROVE HandsBacked'
  <2>1. CASE closeAttempt[pid[t]] <= MaxAttempt
    <3>1. PICK o \in OrderId :
            cur' = [cur EXCEPT ![t] = o] /\ o.pos = pid[t] /\ o.intent = "close"
      BY <1>32, <2>1, <1>h
    <3> QED BY <1>32, <2>1, <3>1 DEF CloseRow, loopVars
  <2>2. CASE ~(closeAttempt[pid[t]] <= MaxAttempt)
    BY <1>32, <2>2 DEF CloseRow, Resume, Leave, loopVars
  <2> QED BY <2>1, <2>2
<1>33. ASSUME NEW t \in Threads, Record(t) PROVE HandsBacked'
  BY <1>33 DEF Record, Goto, Resume, Leave, loopVars
<1>34. ASSUME NEW t \in Threads, Send(t) PROVE HandsBacked'
  BY <1>34 DEF Send, Goto, loopVars
<1>35. ASSUME NEW t \in Threads, SendFails(t) PROVE HandsBacked'
  BY <1>35 DEF SendFails, Goto, loopVars
<1>36. ASSUME NEW t \in Threads, Ack(t) PROVE HandsBacked'
  BY <1>36 DEF Ack, Resume, Leave, loopVars
<1>37. ASSUME NEW t \in Threads, Nack(t) PROVE HandsBacked'
  BY <1>37 DEF Nack, Leave
<1>38. ASSUME NEW t \in Threads, Drop(t) PROVE HandsBacked'
  BY <1>38 DEF Drop, Goto
<1>39. ASSUME NEW t \in Threads, Approve(t) PROVE HandsBacked'
  BY <1>39 DEF Approve, Goto, loopVars
<1>40. ASSUME NEW t \in Threads, EnterRow(t) PROVE HandsBacked'
  <2>1. EntryId(story[t], 0).intent = "open"
    BY <1>40, OrderShape, BoundsAssumption DEF EnterRow, ControlOK
  <2> QED BY <1>40, <2>1 DEF EnterRow, Call
<1>41. ASSUME NEW t \in Threads, NEW p \in walk[t], Hold(t, p) PROVE HandsBacked'
  BY <1>41 DEF Hold, LoopTypeOK
<1>42. ASSUME NEW t \in Threads, NEW p \in walk[t], Exit(t, p) PROVE HandsBacked'
  BY <1>42 DEF Exit, LoopTypeOK
<1>43. ASSUME NEW t \in Threads, NEW p \in Positions \cup {None}, News(t, p) PROVE HandsBacked'
  BY <1>43 DEF News, Goto, OpenRows, BookIsBacked, LoopTypeOK
<1>44. CASE UNCHANGED vars BY <1>44 DEF vars, loopVars
<1> QED BY <1>1, <1>2, <1>3, <1>4, <1>5, <1>6, <1>7, <1>8, <1>9, <1>10, <1>11, <1>12, <1>13, <1>14, <1>15, <1>16, <1>17, <1>18, <1>19, <1>20, <1>21, <1>22, <1>23, <1>24, <1>25, <1>26, <1>27, <1>28, <1>29, <1>30, <1>31, <1>32, <1>33, <1>34, <1>35, <1>36, <1>37, <1>38, <1>39, <1>40, <1>41, <1>42, <1>43, <1>44, ThreadsAssumption
  DEF Next, MainLoop, Sync, Voiding, Handle, Manage, Story, Walk, Submit, Broker

\* A row that reads filled is of an order that filled, and a close is recorded
\* or sent only for a position that was entered.
LEMMA RecordsStep ==
  ASSUME BackingInv, [Next]_vars
  PROVE  RecordsBacked'
<1>t. /\ rows \in [OrderId -> RowStatus] /\ broker \in [OrderId -> BrokerStatus]
      /\ todo \subseteq OrderId /\ RecordsBacked
  BY DEF BackingInv, TypeOK, StoreTypeOK, BrokerTypeOK, LoopTypeOK
<1>f. /\ \A o \in OrderId : broker[o] = "filled" => broker'[o] = "filled"
      /\ Entered \subseteq Entered'
  BY FilledStable DEF BackingInv
<1>c. \A t \in Threads :
        cur[t] \in OrderId /\ cur[t].intent = "close" => cur[t].pos \in Entered
  BY DEF BackingInv, HandsBacked
<1>h. /\ pc["main"] \in HandlingPC => cur["main"] \in OrderId
      /\ \A t \in Threads : pc[t] \in {"record", "send", "ack", "nack"} => cur[t] \in OrderId
  BY ThreadsAssumption DEF BackingInv, ControlOK
<1> DEFINE Change(o) == rows'[o] # rows[o] =>
                          /\ rows'[o] # "none"
                          /\ rows'[o] = "filled" => broker[o] = "filled"
                          /\ rows[o] = "none" => \E t \in Threads : o = cur[t]
\* A row changes in the hands of a thread, or is being polled.
<1>1. \A o \in OrderId : Change(o)
  <2>1. CASE UNCHANGED storeVars BY <2>1 DEF storeVars
  <2>2. ASSUME NEW o \in todo, VoidUnconfirmed(o) \/ Poll(o) PROVE \A q \in OrderId : Change(q)
    BY <1>t, <2>2 DEF VoidUnconfirmed, Poll, RecordsBacked
  <2>3. CASE FillRow
    BY <1>t, <1>h, <2>3, ThreadsAssumption
       DEF FillRow, ResolveRow, HandlingPC, BackingInv, HandsBacked
  <2>4. CASE DeadRow \/ CancelRow
    BY <1>t, <1>h, <2>4, ThreadsAssumption DEF DeadRow, CancelRow, ResolveRow, HandlingPC
  <2>5. CASE \/ FillPosition \/ FeedLearners \/ FailEntry \/ BumpAttempt \/ Reopen
             \/ Rung \/ Enforce
    BY <2>5 DEF FillPosition, FeedLearners, FailEntry, BumpAttempt, Reopen, Rung, Enforce
  <2>6. ASSUME NEW t \in Threads, CloseRow(t) \/ EnterRow(t) PROVE \A q \in OrderId : Change(q)
    BY <2>6 DEF CloseRow, EnterRow
  <2>7. ASSUME NEW t \in Threads, Record(t) \/ Ack(t) \/ Nack(t)
        PROVE  \A q \in OrderId : Change(q)
    BY <1>t, <1>h, <2>7 DEF Record, Ack, Nack
  <2> QED BY <2>1, <2>2, <2>3, <2>4, <2>5, <2>6, <2>7, StoreFrame
\* An order reaches the broker from the hands of a thread.
<1>2. \A o \in OrderId :
        broker[o] = "absent" /\ broker'[o] # "absent" => \E t \in Threads : o = cur[t]
  <2>1. CASE UNCHANGED brokerVars BY <2>1 DEF brokerVars
  <2>2. CASE Cancel \/ CancelFails
    BY <1>t, <2>2, ThreadsAssumption DEF Cancel, CancelFails
  <2>3. ASSUME NEW t \in Threads, Send(t)
        PROVE  \A o \in OrderId :
                 broker[o] = "absent" /\ broker'[o] # "absent" => \E u \in Threads : o = cur[u]
    BY <1>t, <2>3 DEF Send
  <2>4. ASSUME NEW q \in OrderId, Fill(q) \/ PartialFill(q) \/ Die(q)
        PROVE  \A o \in OrderId : broker[o] = "absent" => broker'[o] = "absent"
    BY <1>t, <2>4 DEF Fill, PartialFill, Die
  <2> QED BY <2>1, <2>2, <2>3, <2>4, BrokerFrame
<1>3. \A o \in OrderId : rows'[o] = "filled" => broker'[o] = "filled"
  BY <1>t, <1>f, <1>1 DEF RecordsBacked
<1>4. ASSUME NEW o \in OrderId, Closing(o)' PROVE o.pos \in Entered'
  <2>1. o.intent = "close" /\ (rows'[o] # "none" \/ broker'[o] # "absent") BY <1>4 DEF Closing
  <2>2. CASE Closing(o) BY <1>t, <1>f, <2>2 DEF RecordsBacked
  <2>3. CASE ~Closing(o)
    <3>1. rows[o] = "none" /\ broker[o] = "absent" BY <2>1, <2>3 DEF Closing
    <3>2. PICK t \in Threads : o = cur[t] BY <1>1, <1>2, <2>1, <3>1
    <3> QED BY <1>c, <1>f, <2>1, <3>2
  <2> QED BY <2>2, <2>3
<1>5. ASSUME NEW o \in todo' PROVE o \in OrderId => rows'[o] # "none"
  <2>1. CASE o \in todo BY <1>t, <1>1, <2>1 DEF RecordsBacked
  <2>2. CASE o \notin todo
    <3>1. StartTick
      <4>1. ~(UNCHANGED loopVars) BY <1>5, <2>2 DEF loopVars
      <4>2. ASSUME StartSweep \/ ReadBroker \/ Enforce \/ StartManage \/ Crash PROVE FALSE
        BY <1>5, <2>2, <4>2 DEF StartSweep, ReadBroker, Enforce, StartManage, Crash
      <4>3. ASSUME NEW q \in todo, Poll(q) \/ PollFails(q) \/ VoidUnconfirmed(q) PROVE FALSE
        BY <1>5, <2>2, <4>3 DEF Poll, PollFails, VoidUnconfirmed
      <4>4. ASSUME NEW r \in orphans, SweepOne(r) PROVE FALSE
        BY <1>5, <2>2, <4>4 DEF SweepOne
      <4>5. ASSUME NEW t \in Threads, Nack(t) \/ Drop(t) \/ EnterRow(t) PROVE FALSE
        BY <1>5, <2>2, <4>5 DEF Nack, Drop, EnterRow
      <4>6. ASSUME NEW t \in Threads, NEW p,
                   Hold(t, p) \/ Exit(t, p) \/ News(t, p)
            PROVE  FALSE
        BY <1>5, <2>2, <4>6 DEF Hold, Exit, News
      <4> QED BY <4>1, <4>2, <4>3, <4>4, <4>5, <4>6, LoopFrame
    <3> QED BY <1>5, <3>1 DEF StartTick, InFlight, storeVars
  <2> QED BY <2>1, <2>2
<1> QED BY <1>3, <1>4, <1>5 DEF RecordsBacked

\* No step makes the book claim a fill the broker did not report.
LEMMA BookStep ==
  ASSUME BackingInv, [Next]_vars
  PROVE  BookIsBacked'
<1>t. position \in [Positions -> PositionStatus] BY DEF BackingInv, TypeOK, StoreTypeOK
<1>b. BookIsBacked BY DEF BackingInv
<1>f. Entered \subseteq Entered' /\ Exited \subseteq Exited' BY FilledStable DEF BackingInv
<1>h. pc["main"] \in HandlingPC =>
        /\ cur["main"] \in OrderId
        /\ cur["main"].intent \in {"open", "close"}
        /\ cur["main"].intent = "close" => cur["main"].pos \in Entered
  BY ThreadsAssumption, OrderShape DEF BackingInv, ControlOK, HandsBacked
<1>1. ASSUME UNCHANGED position PROVE BookIsBacked'
  BY <1>b, <1>f, <1>1 DEF BookIsBacked
<1>2. CASE FillPosition
  <2>1. broker[cur["main"]] = "filled" BY <1>2 DEF FillPosition, BackingInv, HandsBacked
  <2>2. CASE cur["main"].intent = "open"
    <3>1. cur["main"].pos \in Entered
      BY <1>2, <1>h, <2>1, <2>2 DEF FillPosition, HandlingPC, Entered, FilledFor
    <3> QED BY <1>2, <1>t, <1>b, <1>f, <2>2, <3>1 DEF FillPosition, SetPosition, BookIsBacked
  <2>3. CASE cur["main"].intent = "close"
    <3>1. cur["main"].pos \in Entered /\ cur["main"].pos \in Exited
      BY <1>2, <1>h, <2>1, <2>3 DEF FillPosition, HandlingPC, Exited, FilledFor
    <3> QED BY <1>2, <1>t, <1>b, <1>f, <2>3, <3>1 DEF FillPosition, SetPosition, BookIsBacked
  <2> QED BY <1>2, <1>h, <2>2, <2>3 DEF FillPosition, HandlingPC
<1>3. CASE FailEntry BY <1>3, <1>t, <1>b, <1>f DEF FailEntry, SetPosition, BookIsBacked
<1>4. CASE Reopen
  <2>1. cur["main"].pos \in Entered
    BY <1>4, <1>h DEF Reopen, HandlingPC, BackingInv, HandsBacked
  <2> QED BY <1>4, <1>t, <1>b, <1>f, <2>1 DEF Reopen, SetPosition, BookIsBacked
<1>5. ASSUME NEW t \in Threads, CloseRow(t) PROVE BookIsBacked'
  <2>1. pid[t] \in Entered BY <1>5 DEF CloseRow, BackingInv, HandsBacked
  <2> QED BY <1>5, <1>t, <1>b, <1>f, <2>1 DEF CloseRow, SetPosition, BookIsBacked
<1>6. ASSUME NEW t \in Threads, EnterRow(t) PROVE BookIsBacked'
  BY <1>6, <1>t, <1>b, <1>f DEF EnterRow, SetPosition, BookIsBacked
<1>7. ASSUME \/ UNCHANGED storeVars
             \/ \E o \in todo : VoidUnconfirmed(o) \/ Poll(o)
             \/ FillRow \/ FeedLearners \/ DeadRow \/ BumpAttempt \/ CancelRow \/ Rung \/ Enforce
             \/ \E t \in Threads : Record(t) \/ Ack(t) \/ Nack(t)
      PROVE  UNCHANGED position
  BY <1>7 DEF storeVars, VoidUnconfirmed, Poll, FillRow, FeedLearners, DeadRow, BumpAttempt,
              CancelRow, Rung, Enforce, Record, Ack, Nack
<1> QED BY <1>1, <1>2, <1>3, <1>4, <1>5, <1>6, <1>7, StoreFrame

-----------------------------------------------------------------------------
(* The theorems.                                                           *)

\* The empty book is backed.
LEMMA BackingInit == Init => BackingInv
<1> SUFFICES ASSUME Init PROVE BackingInv OBVIOUS
<1>1. RecordsBacked BY DEF Init, RecordsBacked, Closing
<1>2. HandsBacked BY NoneAssumption, ThreadsAssumption DEF Init, HandsBacked
<1>3. BookIsBacked BY DEF Init, BookIsBacked
<1> QED BY <1>1, <1>2, <1>3, TypeInit, ControlInit DEF BackingInv

\* BackingInv is inductive.
LEMMA BackingStep == BackingInv /\ [Next]_vars => BackingInv'
<1> SUFFICES ASSUME BackingInv, [Next]_vars PROVE BackingInv' OBVIOUS
<1>1. TypeOK /\ ControlOK BY DEF BackingInv
<1>2. TypeOK' BY <1>1, StoreStep, BrokerStep, ThreadStep, LoopStep DEF TypeOK
<1>3. ControlOK' BY <1>1, ControlStep
<1> QED BY <1>2, <1>3, RecordsStep, HandsStep, BookStep DEF BackingInv

\* The strengthened invariant holds of every behaviour of the two threads, the
\* broker and the faults, with any number of positions and attempts.
THEOREM BackingHolds == Spec => []BackingInv
<1> QED BY BackingInit, BackingStep, PTL DEF Spec

\* The variables keep their types.
THEOREM TypeCorrect == Spec => []TypeOK
<1>1. BackingInv => TypeOK BY DEF BackingInv
<1> QED BY <1>1, BackingHolds, PTL

\* The book never claims a fill the broker did not report: what the trader
\* shows as open, closing or closed was really opened, and what it shows as
\* closed was really closed, through crashes, lost answers, late cancels,
\* partial fills and both threads.
THEOREM BookAlwaysBacked == Spec => []BookIsBacked
<1>1. BackingInv => BookIsBacked BY DEF BackingInv
<1> QED BY <1>1, BackingHolds, PTL

-----------------------------------------------------------------------------
(* One thread.                                                             *)

OneThread == Threads = {"main"}

\* Nothing but the death of the process goes wrong.
OnlyCrashes == Faults \subseteq {"crash"}

-----------------------------------------------------------------------------
(* The invariant of the rows, and of the thread that writes them.          *)

Hand == cur["main"]
Transition(i) == IF i = "open" THEN "opening" ELSE "closing"
Attempt(o) == IF o.intent = "open" THEN entryAttempt[o.pos] ELSE closeAttempt[o.pos]
InTransit(o) == position[o.pos] = Transition(o.intent)
Latest(o) == o = latest[o.pos][o.intent]

\* What was recorded of an order of a position.  Only the latest of an intent
\* may be more than dead; an order in flight is of the transition the position
\* is in; a close is of a position that was open, and one that filled of a
\* position that is about to be closed or is; the attempt numbers count.
RowOK(o) ==
  /\ ~Latest(o) => rows[o] \in {"none", "dead"}
  /\ o \in InFlight => InTransit(o)
  /\ rows[o] # "none" =>
       /\ position[o.pos] # "none"
       /\ o.attempt <= Attempt(o)
  /\ rows[o] # "none" /\ o.intent = "close" =>
       /\ position[o.pos] \in {"open", "closing", "closed"}
       /\ position[o.pos] = "open" => o.attempt < Attempt(o)
  /\ rows[o] = "filled" /\ o.intent = "close" => position[o.pos] \in {"closing", "closed"}
RowsInv == \A o \in OrderId : RowOK(o)
LatestInv ==
  \A p \in Positions, i \in {"open", "close"} :
    latest[p][i] # None => latest[p][i].pos = p /\ latest[p][i].intent = i

\* An order that the store may still send is new, and the first in flight.
Fresh(o) ==
  /\ rows[o] = "none" /\ o.attempt <= Attempt(o)
  /\ \A q \in OrderId : q.pos = o.pos /\ q.intent = o.intent => rows[q] \in {"none", "dead"}

\* The order in hand is the latest of its position, and the position is where
\* the handler expects it.
ResolvingPC == {"onfill", "fillpos", "ondead", "fail", "bump", "reopen"}
WorkingPC == {"live", "expire", "concede", "expired", "conceded", "rung"}
SendingPC == {"send", "ack", "nack"}
HandInv ==
  /\ pc["main"] \in ResolvingPC \cup WorkingPC \cup SendingPC =>
       rows[Hand] # "none" /\ InTransit(Hand) /\ Latest(Hand) /\ Hand \notin todo
  /\ pc["main"] = "fillpos" => rows[Hand] = "filled"
  /\ pc["main"] \in {"fail", "bump", "reopen", "rung"} => rows[Hand] = "dead"
  /\ pc["main"] = "fail" => Hand.intent = "open"
  /\ pc["main"] \in SendingPC => rows[Hand] = "pending"
  /\ pc["main"] = "record" => InTransit(Hand) /\ Fresh(Hand)
  /\ pc["main"] = "reopen" =>
       \A q \in OrderId : q.pos = Hand.pos /\ q.intent = "close" /\ rows[q] # "none" =>
         q.attempt < Attempt(q)
  /\ pc["main"] = "feed" => position[Hand.pos] = "closed" /\ fed[Hand.pos] = 0

\* What a loop has read still holds when it comes to it.
SweepingPC == ResolvingPC \cup {"feed"}
ReadInv ==
  /\ todo \subseteq InFlight
  /\ \A r \in orphans : position[r[1]] = Transition(r[2])
  /\ orphans # {} =>
       pc["main"] = "sweep" \/ (pc["main"] \in SweepingPC /\ ret["main"] = "sweep")
  /\ pc["main"] \in SweepingPC => \A r \in orphans : r[1] # Hand.pos
  /\ \A p \in walk["main"] : position[p] = "open"
  /\ pc["main"] = "close" => position[pid["main"]] = "open" /\ pid["main"] \notin walk["main"]
  /\ story["main"] # None => position[story["main"]] = "none"

FedInv == \A p \in Positions : fed[p] = 0 \/ (fed[p] = 1 /\ position[p] = "closed")

\* What is on its way to the broker was decided under no halt.
HaltInv ==
  /\ pc["main"] = "enter" => ~halted
  /\ pc["main"] \in {"concede", "conceded", "rung", "record"} /\ Hand.intent = "open" => ~halted

BookInv == BackingInv /\ RowsInv /\ LatestInv /\ HandInv /\ ReadInv /\ FedInv /\ HaltInv

-----------------------------------------------------------------------------
(* The invariant of the broker.                                            *)

\* The broker is as far as the rows say: never further, and what a row says of
\* an order that is over is so.
MatchOK(o) ==
  /\ broker[o] # "canceling"
  /\ done[o] = IF broker[o] = "filled" THEN Qty ELSE 0
  /\ rows[o] = "none" => broker[o] = "absent"
  /\ rows[o] = "dead" => broker[o] \in {"absent", "dead"}
HeldOK(p) == held[p] = IF p \in Entered /\ p \notin Exited THEN Qty ELSE 0
SentInv ==
  /\ pc["main"] \in {"ondead", "expired", "conceded"} => broker[Hand] \in {"absent", "dead"}
  /\ pc["main"] \in {"send", "nack"} => broker[Hand] = "absent"
MatchInv ==
  /\ \A o \in OrderId : MatchOK(o)
  /\ \A p \in Positions : HeldOK(p)
  /\ SentInv

BrokerInv == BookInv /\ MatchInv

-----------------------------------------------------------------------------
(* Facts the steps share.                                                  *)

\* The fields of an order, and the attempt of one that is made.
LEMMA OrderFields ==
  /\ \A o \in OrderId :
       o.pos \in Positions /\ o.intent \in {"open", "close"} /\ o.attempt \in Int
  /\ \A p \in Positions, n \in 0..EntrySteps :
       /\ EntryId(p, n) \in OrderId
       /\ EntryId(p, n).pos = p /\ EntryId(p, n).intent = "open" /\ EntryId(p, n).attempt = n
  /\ \A p \in Positions, r \in Reasons, n \in 0..MaxAttempt :
       /\ CloseId(p, r, n) \in OrderId
       /\ CloseId(p, r, n).pos = p /\ CloseId(p, r, n).intent = "close"
       /\ CloseId(p, r, n).attempt = n
<1> USE BoundsAssumption
<1>1. \A o \in OrderId :
        o.pos \in Positions /\ o.intent \in {"open", "close"} /\ o.attempt \in Int
  BY DEF OrderId
<1>2. \A p \in Positions, n \in 0..EntrySteps :
        EntryId(p, n) \in OrderId /\ EntryId(p, n).attempt = n
  BY DEF OrderId, EntryId
<1>3. \A p \in Positions, r \in Reasons, n \in 0..MaxAttempt :
        CloseId(p, r, n) \in OrderId /\ CloseId(p, r, n).attempt = n
  BY DEF OrderId, CloseId
<1> QED BY <1>1, <1>2, <1>3, OrderShape

\* The types of the rows and of the one thread.
LEMMA Types ==
  ASSUME BackingInv, OneThread
  PROVE  /\ rows \in [OrderId -> RowStatus]
         /\ latest \in [Positions -> [{"open", "close"} -> OrderId \cup {None}]]
         /\ position \in [Positions -> PositionStatus]
         /\ entryAttempt \in [Positions -> Int] /\ closeAttempt \in [Positions -> Nat]
         /\ fed \in [Positions -> Nat]
         /\ "main" \in Threads /\ \A t \in Threads : t = "main"
         /\ pc \in [Threads -> MainPC \cup AnyPC] /\ cur \in [Threads -> OrderId \cup {None}]
         /\ pid \in [Threads -> Positions \cup {None}]
         /\ ret \in [Threads -> {"idle", "sync", "sweep", "manage", "story"}]
         /\ walk \in [Threads -> SUBSET Positions] /\ story \in [Threads -> Positions \cup {None}]
         /\ todo \subseteq OrderId /\ orphans \subseteq Positions \X {"open", "close"}
<1>1. entryAttempt \in [Positions -> 0..EntrySteps] BY DEF BackingInv, TypeOK, StoreTypeOK
<1>2. entryAttempt \in [Positions -> Int] BY <1>1, BoundsAssumption
<1> QED BY <1>2 DEF BackingInv, OneThread, TypeOK, StoreTypeOK, ThreadTypeOK, LoopTypeOK

\* The order in hand is one, wherever the code handles or submits it.
LEMMA HandIsOrder ==
  ASSUME BackingInv, OneThread,
         pc["main"] \in ResolvingPC \cup WorkingPC \cup SendingPC \cup {"feed", "record"}
  PROVE  /\ Hand \in OrderId /\ Hand.pos \in Positions /\ Hand.intent \in {"open", "close"}
         /\ pc["main"] \in {"feed", "bump", "reopen"} => Hand.intent = "close"
<1>1. Hand \in OrderId
  BY Types DEF BackingInv, ControlOK, ResolvingPC, WorkingPC, SendingPC, HandlingPC, Hand
<1>2. pc["main"] \in {"feed", "bump", "reopen"} => Hand.intent = "close"
  BY DEF BackingInv, HandsBacked, Hand
<1> QED BY <1>1, <1>2, OrderFields

\* A rung is a new order for the position and intent of the one it replaces.
LEMMA RungIsNew ==
  ASSUME BookInv, OneThread, Rung
  PROVE  \E o \in OrderId :
           /\ Call("main", "record", o, "sync")
           /\ o.pos = Hand.pos /\ o.intent = Hand.intent
           /\ rows[o] = "none" /\ o.attempt = Attempt(o)'
           /\ \A q \in OrderId : Attempt(q) <= Attempt(q)'
<1> USE DEF BookInv
<1>1. pc["main"] = "rung" BY DEF Rung
<1>2. /\ Hand \in OrderId /\ Hand.pos \in Positions
      /\ Hand.intent \in {"open", "close"}
  BY <1>1, HandIsOrder DEF WorkingPC
<1> DEFINE p == Hand.pos
<1>3. \A q \in OrderId :
        q.pos \in Positions /\ (rows[q] # "none" => q.attempt <= Attempt(q))
  BY OrderFields DEF RowsInv, RowOK
<1>4. CASE Hand.intent = "open"
  <2>1. entryAttempt[p] + 1 \in 0..EntrySteps
    BY <1>1, <1>2, <1>4, Types, BoundsAssumption
       DEF ControlOK, ConcedingPC, BackingInv, Hand, TypeOK, StoreTypeOK
  <2>2. PICK o \in OrderId :
          /\ o = EntryId(p, entryAttempt[p] + 1) /\ o.pos = p /\ o.intent = "open"
          /\ o.attempt = entryAttempt[p] + 1
    BY <1>2, <2>1, OrderFields
  <2>3. /\ Call("main", "record", o, "sync")
        /\ entryAttempt' = [entryAttempt EXCEPT ![p] = @ + 1] /\ UNCHANGED closeAttempt
    BY <1>4, <2>2 DEF Rung, Hand
  <2>4. \A q \in OrderId : Attempt(q) <= Attempt(q)'
    BY <1>2, <1>3, <2>3, Types DEF Attempt
  <2>5. o.attempt = Attempt(o)' /\ ~(o.attempt <= Attempt(o))
    BY <1>2, <2>2, <2>3, Types DEF Attempt
  <2> QED BY <1>3, <1>4, <2>2, <2>3, <2>4, <2>5
<1>5. CASE Hand.intent = "close"
  <2>1. AttemptFromOne(p) \in Nat /\ closeAttempt[p] <= AttemptFromOne(p)
    BY <1>2, Types DEF AttemptFromOne
  <2>2. AttemptFromOne(p) < CloseLimit
    BY <1>1, <1>5, Types DEF ControlOK, ConcedingPC, BackingInv, Hand
  <2>3. AttemptFromOne(p) + 1 \in 0..MaxAttempt BY <2>1, <2>2, BoundsAssumption
  <2>4. PICK o \in OrderId :
          /\ o = CloseId(p, "escalated", AttemptFromOne(p) + 1) /\ o.pos = p
          /\ o.intent = "close" /\ o.attempt = AttemptFromOne(p) + 1
    BY <1>2, <2>3, OrderFields DEF Reasons
  <2>5. /\ Call("main", "record", o, "sync")
        /\ closeAttempt' = [closeAttempt EXCEPT ![p] = AttemptFromOne(p) + 1]
        /\ UNCHANGED entryAttempt
    BY <1>5, <2>4 DEF Rung, Hand
  <2>6. \A q \in OrderId : Attempt(q) <= Attempt(q)'
    BY <1>2, <1>3, <2>1, <2>5, Types DEF Attempt
  <2>7. o.attempt = Attempt(o)' /\ ~(o.attempt <= Attempt(o))
    BY <1>2, <2>1, <2>4, <2>5, Types DEF Attempt
  <2> QED BY <1>3, <1>5, <2>4, <2>5, <2>6, <2>7
<1> QED BY <1>2, <1>4, <1>5

\* A close is new too: the row was open, so the last one was counted past.
LEMMA CloseIsNew ==
  ASSUME BookInv, OneThread, CloseRow("main"), closeAttempt[pid["main"]] <= MaxAttempt
  PROVE  \E o \in OrderId :
           /\ cur' = [cur EXCEPT !["main"] = o]
           /\ o.pos = pid["main"] /\ o.intent = "close"
           /\ rows[o] = "none" /\ o.attempt = Attempt(o)
<1> DEFINE p == pid["main"]
           reason == IF ret["main"] = "manage" THEN "barrier" ELSE "broken"
           o == CloseId(p, reason, closeAttempt[p])
<1> USE DEF BookInv
<1>1. p \in Positions /\ position[p] = "open"
  BY Types DEF CloseRow, BackingInv, ControlOK, ReadInv
<1>2. closeAttempt[p] \in 0..MaxAttempt BY <1>1, Types, BoundsAssumption
<1>3. /\ o \in OrderId /\ o.pos = p /\ o.intent = "close" /\ o.attempt = closeAttempt[p]
  BY <1>1, <1>2, OrderFields DEF Reasons
<1>4. cur' = [cur EXCEPT !["main"] = o] BY DEF CloseRow
<1>5. rows[o] = "none"
  <2>1. rows[o] # "none" => o.attempt < Attempt(o) BY <1>1, <1>3 DEF RowsInv, RowOK
  <2> QED BY <1>1, <1>3, <2>1, Types DEF Attempt
<1> QED BY <1>3, <1>4, <1>5 DEF Attempt

-----------------------------------------------------------------------------
(* The rows.                                                               *)

\* What is recorded, counted and resolved keeps to the position's transition.
LEMMA RowsStep ==
  ASSUME BookInv, OneThread, [Next]_vars
  PROVE  RowsInv'
<1> USE DEF BookInv
<1>t. /\ rows \in [OrderId -> RowStatus]
      /\ latest \in [Positions -> [{"open", "close"} -> OrderId \cup {None}]]
      /\ position \in [Positions -> PositionStatus]
      /\ entryAttempt \in [Positions -> Int] /\ closeAttempt \in [Positions -> Nat]
      /\ "main" \in Threads /\ todo \subseteq OrderId
  BY Types
<1>m. \A t \in Threads : t = "main" BY Types
<1>o. \A o \in OrderId :
        o.pos \in Positions /\ o.intent \in {"open", "close"} /\ o.attempt \in Int
  BY OrderFields
<1>i. \A o \in OrderId : RowOK(o) BY DEF RowsInv
<1>h. ASSUME pc["main"] \in ResolvingPC \cup WorkingPC \cup SendingPC
      PROVE  /\ Hand \in OrderId /\ Hand.pos \in Positions /\ Hand.intent \in {"open", "close"}
             /\ rows[Hand] # "none" /\ InTransit(Hand) /\ Latest(Hand)
  BY <1>h, HandIsOrder DEF HandInv
<1> SUFFICES ASSUME NEW o \in OrderId PROVE RowOK(o)'
  BY DEF RowsInv
<1>1. CASE UNCHANGED storeVars
  BY <1>i, <1>1 DEF storeVars, RowOK, Latest, InFlight, InTransit, Attempt
<1>2. ASSUME NEW q \in todo, VoidUnconfirmed(q) PROVE RowOK(o)'
  BY <1>t, <1>o, <1>i, <1>2
     DEF VoidUnconfirmed, ReadInv, RowOK, Latest, InFlight, InTransit, Attempt
<1>3. ASSUME NEW q \in todo, Poll(q) PROVE RowOK(o)'
  BY <1>t, <1>o, <1>i, <1>3
     DEF Poll, ReadInv, RowOK, Latest, InFlight, InTransit, Attempt
<1>4. CASE FillRow
  BY <1>t, <1>o, <1>i, <1>h, <1>4
     DEF FillRow, ResolveRow, ResolvingPC, Hand, Transition,
         RowOK, Latest, InFlight, InTransit, Attempt
<1>5. CASE FillPosition
  <2>1. rows[Hand] = "filled" BY <1>5 DEF FillPosition, HandInv
  <2> QED BY <1>t, <1>o, <1>i, <1>h, <1>5, <2>1
     DEF FillPosition, SetPosition, ResolvingPC, Hand, Transition,
         RowOK, Latest, InFlight, InTransit, Attempt
<1>6. CASE FeedLearners
  BY <1>i, <1>6 DEF FeedLearners, RowOK, Latest, InFlight, InTransit, Attempt
<1>7. CASE DeadRow
  BY <1>t, <1>o, <1>i, <1>h, <1>7
     DEF DeadRow, ResolveRow, ResolvingPC, Hand, Transition,
         RowOK, Latest, InFlight, InTransit, Attempt
<1>8. CASE FailEntry
  <2>1. rows[Hand] = "dead" /\ Hand.intent = "open" BY <1>8 DEF FailEntry, HandInv
  <2> QED BY <1>t, <1>o, <1>i, <1>h, <1>8, <2>1
     DEF FailEntry, SetPosition, ResolvingPC, Hand, Transition,
         RowOK, Latest, InFlight, InTransit, Attempt
<1>9. CASE BumpAttempt
  <2>1. Hand.intent = "close" BY <1>9, HandIsOrder DEF BumpAttempt, ResolvingPC
  <2> QED BY <1>t, <1>o, <1>i, <1>h, <1>9, <2>1
     DEF BumpAttempt, ResolvingPC, Hand, Transition,
         RowOK, Latest, InFlight, InTransit, Attempt
<1>10. CASE Reopen
  <2>1. rows[Hand] = "dead" BY <1>10 DEF Reopen, HandInv
  <2>2. Hand.intent = "close" BY <1>10, HandIsOrder DEF Reopen, ResolvingPC
  <2>3. \A q \in OrderId : q.pos = Hand.pos /\ q.intent = "close" /\ rows[q] # "none" =>
          q.attempt < Attempt(q)
    BY <1>10 DEF Reopen, HandInv
  <2> QED BY <1>t, <1>o, <1>i, <1>h, <1>10, <2>1, <2>2, <2>3
     DEF Reopen, SetPosition, ResolvingPC, Hand, Transition,
         RowOK, Latest, InFlight, InTransit, Attempt
<1>11. CASE CancelRow
  BY <1>t, <1>o, <1>i, <1>h, <1>11
     DEF CancelRow, ResolveRow, WorkingPC, Hand, Transition,
         RowOK, Latest, InFlight, InTransit, Attempt
<1>12. ASSUME Rung PROVE RowOK(o)'
  <2>1. \A q \in OrderId : Attempt(q) <= Attempt(q)' BY <1>12, RungIsNew
  <2>2. \A q \in OrderId : Attempt(q) \in Int /\ Attempt(q)' \in Int
    BY <1>t, <1>o, <1>12 DEF Attempt, Rung, AttemptFromOne
  <2>3. UNCHANGED <<rows, latest, position>> BY <1>12 DEF Rung
  <2> QED BY <1>t, <1>o, <1>i, <2>1, <2>2, <2>3 DEF RowOK, Latest, InFlight, InTransit
<1>13. CASE Enforce
  BY <1>i, <1>13 DEF Enforce, RowOK, Latest, InFlight, InTransit, Attempt
<1>14. ASSUME CloseRow("main") PROVE RowOK(o)'
  <2>1. position[pid["main"]] = "open" BY <1>14 DEF CloseRow, ReadInv
  <2>2. UNCHANGED <<rows, latest, entryAttempt, closeAttempt>> BY <1>14 DEF CloseRow
  <2>3. position' = [position EXCEPT ![pid["main"]] = "closing"] \/ position' = position
    BY <1>14 DEF CloseRow, SetPosition
  <2> QED BY <1>t, <1>o, <1>i, <2>1, <2>2, <2>3
     DEF Transition, RowOK, Latest, InFlight, InTransit, Attempt
<1>15. ASSUME Record("main") PROVE RowOK(o)'
  <2>1. Hand \in OrderId BY <1>15, HandIsOrder DEF Record
  <2>2. InTransit(Hand) /\ Fresh(Hand) BY <1>15 DEF Record, HandInv
  <2>3. rows' = [rows EXCEPT ![Hand] = "pending"] BY <1>15, <2>2 DEF Record, Hand, Fresh
  <2>4. latest' = [latest EXCEPT ![Hand.pos][Hand.intent] = Hand]
    BY <1>15, <2>2 DEF Record, Hand, Fresh
  <2>5. UNCHANGED <<position, entryAttempt, closeAttempt>> BY <1>15 DEF Record
  <2>6. CASE o = Hand
    BY <1>t, <1>o, <1>i, <2>1, <2>2, <2>3, <2>4, <2>5, <2>6
       DEF Transition, Fresh, RowOK, Latest, InFlight, InTransit, Attempt
  <2>7. CASE o # Hand
    BY <1>t, <1>o, <1>i, <2>1, <2>2, <2>3, <2>4, <2>5, <2>7
       DEF Transition, Fresh, RowOK, Latest, InFlight, InTransit, Attempt
  <2> QED BY <2>6, <2>7
<1>16. CASE Ack("main") \/ Nack("main")
  BY <1>t, <1>o, <1>i, <1>h, <1>16
     DEF Ack, Nack, SendingPC, Hand, RowOK, Latest, InFlight, InTransit, Attempt
<1>17. ASSUME EnterRow("main") PROVE RowOK(o)'
  <2>1. position[story["main"]] = "none"
    BY <1>17, Types, NoneAssumption DEF EnterRow, ReadInv, BackingInv, ControlOK
  <2>2. UNCHANGED <<rows, latest, entryAttempt, closeAttempt>>
        /\ position' = [position EXCEPT ![story["main"]] = "opening"]
    BY <1>17 DEF EnterRow, SetPosition
  <2> QED BY <1>t, <1>o, <1>i, <2>1, <2>2
     DEF Transition, RowOK, Latest, InFlight, InTransit, Attempt
<1> QED BY <1>m, <1>1, <1>2, <1>3, <1>4, <1>5, <1>6, <1>7, <1>8, <1>9, <1>10, <1>11, <1>12,
           <1>13, <1>14, <1>15, <1>16, <1>17, StoreFrame

\* The latest order of a position and an intent is one of them.
LEMMA LatestStep ==
  ASSUME BookInv, OneThread, [Next]_vars
  PROVE  LatestInv'
<1> USE DEF BookInv
<1>m. \A t \in Threads : t = "main" BY Types
<1>1. CASE Record("main")
  <2>1. Hand \in OrderId /\ Hand.pos \in Positions /\ Hand.intent \in {"open", "close"}
    BY <1>1, HandIsOrder DEF Record
  <2>2. latest' = latest \/ latest' = [latest EXCEPT ![Hand.pos][Hand.intent] = Hand]
    BY <1>1 DEF Record, Hand
  <2> QED BY <2>1, <2>2, Types DEF LatestInv
<1>2. CASE UNCHANGED latest BY <1>2 DEF LatestInv
<1>3. ASSUME \/ UNCHANGED storeVars
             \/ \E o \in todo : VoidUnconfirmed(o) \/ Poll(o)
             \/ FillRow \/ FillPosition \/ FeedLearners
             \/ DeadRow \/ FailEntry \/ BumpAttempt \/ Reopen
             \/ CancelRow \/ Rung \/ Enforce
             \/ \E t \in Threads : CloseRow(t) \/ Ack(t) \/ Nack(t) \/ EnterRow(t)
      PROVE  UNCHANGED latest
  BY <1>3
     DEF storeVars, VoidUnconfirmed, Poll, FillRow, FillPosition, FeedLearners, DeadRow, FailEntry,
         BumpAttempt, Reopen, CancelRow, Rung, Enforce, CloseRow, Ack, Nack, EnterRow
<1> QED BY <1>m, <1>1, <1>2, <1>3, StoreFrame

-----------------------------------------------------------------------------
(* The order in hand.                                                      *)

\* The steps that change none of what is recorded, counted or fed.
LEMMA QuietStep ==
  ASSUME BookInv, OneThread,
         UNCHANGED <<rows, latest, position, entryAttempt, closeAttempt, fed, todo>>,
         \/ UNCHANGED <<pc, cur>>
         \/ pc'["main"] \notin ResolvingPC \cup WorkingPC \cup SendingPC \cup {"feed", "record"}
         \/ /\ Hand' = Hand
            /\ \/ pc["main"] \in {"live", "expire", "concede"}
                  /\ pc'["main"] \in {"expire", "concede", "expired", "conceded"}
               \/ pc["main"] = "send" /\ pc'["main"] \in {"ack", "nack"}
  PROVE  HandInv'
<1> USE DEF BookInv
<1>1. CASE UNCHANGED <<pc, cur>>
  BY <1>1 DEF HandInv, Hand, InTransit, Latest, Fresh, Attempt
<1>2. CASE pc'["main"] \notin ResolvingPC \cup WorkingPC \cup SendingPC \cup {"feed", "record"}
  BY <1>2 DEF HandInv, ResolvingPC, WorkingPC, SendingPC
<1>3. CASE Hand' = Hand /\ pc["main"] \in {"live", "expire", "concede"}
           /\ pc'["main"] \in {"expire", "concede", "expired", "conceded"}
  BY <1>3 DEF HandInv, ResolvingPC, WorkingPC, SendingPC, InTransit, Latest
<1>4. CASE Hand' = Hand /\ pc["main"] = "send" /\ pc'["main"] \in {"ack", "nack"}
  BY <1>4 DEF HandInv, ResolvingPC, WorkingPC, SendingPC, InTransit, Latest
<1> QED BY <1>1, <1>2, <1>3, <1>4

\* The order in hand stays the latest of its position, where it is expected.
LEMMA HandStep ==
  ASSUME BookInv, OneThread, [Next]_vars
  PROVE  HandInv'
<1> USE DEF BookInv
<1>t. /\ rows \in [OrderId -> RowStatus]
      /\ latest \in [Positions -> [{"open", "close"} -> OrderId \cup {None}]]
      /\ position \in [Positions -> PositionStatus]
      /\ entryAttempt \in [Positions -> Int] /\ closeAttempt \in [Positions -> Nat]
      /\ fed \in [Positions -> Nat]
      /\ "main" \in Threads /\ todo \subseteq OrderId
      /\ pc \in [Threads -> MainPC \cup AnyPC] /\ cur \in [Threads -> OrderId \cup {None}]
      /\ ret \in [Threads -> {"idle", "sync", "sweep", "manage", "story"}]
  BY Types
<1>m. \A t \in Threads : t = "main" BY Types
<1>o. \A o \in OrderId :
        o.pos \in Positions /\ o.intent \in {"open", "close"} /\ o.attempt \in Int
  BY OrderFields
<1>i. \A o \in OrderId : RowOK(o) BY DEF RowsInv
<1>h. ASSUME pc["main"] \in ResolvingPC \cup WorkingPC \cup SendingPC
      PROVE  /\ Hand \in OrderId /\ Hand.pos \in Positions /\ Hand.intent \in {"open", "close"}
             /\ rows[Hand] # "none" /\ InTransit(Hand) /\ Latest(Hand) /\ Hand \notin todo
  BY <1>h, HandIsOrder DEF HandInv
<1>1. CASE \/ StartTick \/ StartSweep \/ EndSweep \/ ReadBroker \/ Enforce \/ EnforceFails
           \/ StartManage \/ SkipManage \/ EndManage \/ Crash
  BY <1>t, <1>1
     DEF StartTick, StartSweep, EndSweep, ReadBroker, Enforce, EnforceFails, StartManage,
         SkipManage, EndManage, Crash, Goto, HandInv, ResolvingPC, WorkingPC, SendingPC
<1>2. CASE Rest \/ CancelFails
  BY <1>t, <1>2, QuietStep
     DEF Rest, CancelFails, Resume, Leave, storeVars, loopVars, ResolvingPC, WorkingPC, SendingPC
<1>3. CASE Expire \/ Concede \/ Cancel
  BY <1>t, <1>3, QuietStep
     DEF Expire, Concede, Cancel, Goto, storeVars, loopVars, Hand
<1>4. CASE SendFails("main") \/ Send("main")
  BY <1>t, <1>4, QuietStep DEF SendFails, Send, Goto, storeVars, loopVars, Hand
<1>5. ASSUME NEW o, PollFails(o) \/ Fill(o) \/ PartialFill(o) \/ Die(o) PROVE HandInv'
  <2>1. CASE PollFails(o)
    BY <1>t, <2>1
       DEF PollFails, storeVars, HandInv, ResolvingPC, WorkingPC, SendingPC
  <2>2. CASE Fill(o) \/ PartialFill(o) \/ Die(o)
    BY <2>2, QuietStep DEF Fill, PartialFill, Die, storeVars, loopVars
  <2> QED BY <1>5, <2>1, <2>2
<1>6. ASSUME NEW p, Hold("main", p) \/ Exit("main", p) \/ News("main", p) PROVE HandInv'
  BY <1>t, <1>6
     DEF Hold, Exit, News, Goto, HandInv, ResolvingPC, WorkingPC, SendingPC
<1>7. CASE Drop("main") \/ Approve("main")
  BY <1>t, <1>7 DEF Drop, Approve, Goto, HandInv, ResolvingPC, WorkingPC, SendingPC
<1>8. ASSUME NEW o \in todo, VoidUnconfirmed(o) PROVE HandInv'
  BY <1>t, <1>8
     DEF VoidUnconfirmed, HandInv, ResolvingPC, WorkingPC, SendingPC
<1>9. ASSUME NEW o \in todo, Poll(o) PROVE HandInv'
  <2>1. /\ o \in OrderId /\ rows[o] \in {"pending", "submitted"} /\ InTransit(o) /\ Latest(o)
        /\ pc["main"] = "sync"
    BY <1>i, <1>9 DEF Poll, ReadInv, InFlight, RowOK
  <2>2. rows' = [rows EXCEPT ![o] = "submitted"] BY <1>t, <1>9, <2>1 DEF Poll
  <2>3. UNCHANGED <<latest, position>> BY <1>9 DEF Poll
  <2>4. CASE HandlerOf(broker[o]) = "sync"
    BY <1>t, <1>9, <2>4 DEF Poll, Goto, HandInv, ResolvingPC, WorkingPC, SendingPC
  <2>5. CASE HandlerOf(broker[o]) # "sync"
    <3>1. Call("main", HandlerOf(broker[o]), o, "sync") BY <1>9, <2>5 DEF Poll
    <3>2. pc'["main"] \in {"onfill", "ondead", "live"} /\ Hand' = o
      BY <1>t, <2>5, <3>1 DEF Call, HandlerOf, Hand
    <3>3. todo' = todo \ {o} BY <1>9 DEF Poll
    <3> QED BY <1>t, <1>o, <2>1, <2>2, <2>3, <3>2, <3>3
       DEF HandInv, ResolvingPC, WorkingPC, SendingPC, InTransit, Latest
  <2> QED BY <2>4, <2>5
<1>10. ASSUME NEW r \in orphans, SweepOne(r) PROVE HandInv'
  <2> DEFINE o == latest[r[1]][r[2]]
  <2>1. /\ r[1] \in Positions /\ r[2] \in {"open", "close"}
        /\ position[r[1]] = Transition(r[2]) /\ pc["main"] = "sweep"
    BY <1>10, Types DEF SweepOne, ReadInv
  <2>2. UNCHANGED <<storeVars, todo>> BY <1>10 DEF SweepOne
  <2>3. CASE UNCHANGED <<pc, cur>> BY <2>2, <2>3, QuietStep DEF storeVars
  <2>4. CASE ~(UNCHANGED <<pc, cur>>)
    <3>1. /\ o # None /\ rows[o] \in {"filled", "dead"}
          /\ Call("main", HandlerOf(rows[o]), o, "sweep")
      BY <1>10, <2>4 DEF SweepOne
    <3>2. o \in OrderId BY <1>t, <2>1, <3>1
    <3>3. o.pos = r[1] /\ o.intent = r[2]
      BY <2>1, <3>1 DEF LatestInv
    <3>4. pc'["main"] \in {"onfill", "ondead"} /\ Hand' = o
      BY <1>t, <3>1 DEF Call, HandlerOf, Hand
    <3>5. o \notin todo BY <3>1 DEF ReadInv, InFlight
    <3> QED BY <2>1, <2>2, <3>1, <3>2, <3>3, <3>4, <3>5
       DEF storeVars, HandInv, ResolvingPC, WorkingPC, SendingPC, InTransit, Latest
  <2> QED BY <2>3, <2>4
<1>11. CASE FillRow \/ DeadRow
  <2>1. UNCHANGED <<latest, position, entryAttempt, closeAttempt, fed, todo>>
    BY <1>11 DEF FillRow, DeadRow, loopVars
  <2>2. CASE FillRow
    <3>1. rows' = [rows EXCEPT ![Hand] = "filled"] /\ Hand' = Hand /\ pc'["main"] = "fillpos"
      BY <1>t, <2>2 DEF FillRow, ResolveRow, Goto, Hand
    <3> QED BY <1>t, <1>h, <2>1, <2>2, <3>1
       DEF FillRow, HandInv, ResolvingPC, WorkingPC, SendingPC, InTransit, Latest
  <2>3. CASE DeadRow
    <3>1. rows' = [rows EXCEPT ![Hand] = "dead"] BY <2>3 DEF DeadRow, ResolveRow, Hand
    <3>2. CASE DeadBranch(Hand) = "none"
      BY <1>t, <2>3, <3>2
         DEF DeadRow, Hand, Resume, Leave, HandInv, ResolvingPC, WorkingPC, SendingPC
    <3>3. CASE DeadBranch(Hand) # "none"
      <4>1. Hand' = Hand /\ pc'["main"] = DeadBranch(Hand)
        BY <1>t, <2>3, <3>3 DEF DeadRow, Goto, Hand
      <4>2. DeadBranch(Hand) = IF Hand.intent = "open" THEN "fail" ELSE "bump"
        BY <1>h, <2>3, <3>3 DEF DeadRow, DeadBranch, ResolvingPC
      <4> QED BY <1>t, <1>h, <2>1, <2>3, <3>1, <4>1, <4>2
         DEF DeadRow, HandInv, ResolvingPC, WorkingPC, SendingPC, InTransit, Latest
    <3> QED BY <3>2, <3>3
  <2> QED BY <1>11, <2>2, <2>3
<1>12. CASE FillPosition
  <2>1. /\ Hand \in OrderId /\ Hand.pos \in Positions /\ Hand.intent \in {"open", "close"}
        /\ InTransit(Hand)
    BY <1>12, <1>h DEF FillPosition, ResolvingPC
  <2>2. CASE Hand.intent = "open"
    BY <1>t, <1>12, <2>2
       DEF FillPosition, Hand, Resume, Leave, HandInv, ResolvingPC, WorkingPC, SendingPC
  <2>3. CASE Hand.intent = "close"
    <3>1. /\ Hand' = Hand /\ pc'["main"] = "feed" /\ UNCHANGED fed
          /\ position' = [position EXCEPT ![Hand.pos] = "closed"]
      BY <1>t, <1>12, <2>3 DEF FillPosition, SetPosition, Goto, Hand
    <3>2. fed[Hand.pos] = 0 BY <2>1, <2>3 DEF FedInv, InTransit, Transition
    <3> QED BY <1>t, <2>1, <3>1, <3>2 DEF HandInv, ResolvingPC, WorkingPC, SendingPC
  <2> QED BY <2>1, <2>2, <2>3
<1>13. CASE FeedLearners \/ FailEntry \/ Reopen
  BY <1>t, <1>13
     DEF FeedLearners, FailEntry, Reopen, Resume, Leave, HandInv, ResolvingPC, WorkingPC, SendingPC
<1>14. CASE BumpAttempt
  <2>1. /\ Hand \in OrderId /\ Hand.pos \in Positions /\ Hand.intent = "close"
        /\ rows[Hand] = "dead" /\ InTransit(Hand) /\ Latest(Hand) /\ Hand \notin todo
    BY <1>14, <1>h, HandIsOrder DEF BumpAttempt, HandInv, ResolvingPC
  <2>2. /\ Hand' = Hand /\ pc'["main"] = "reopen"
        /\ closeAttempt' = [closeAttempt EXCEPT ![Hand.pos] = @ + 1]
        /\ UNCHANGED <<rows, latest, position, todo>>
    BY <1>t, <1>14 DEF BumpAttempt, Goto, Hand, loopVars
  <2>3. ASSUME NEW q \in OrderId, q.pos = Hand.pos, q.intent = "close", rows[q] # "none"
        PROVE  q.attempt < closeAttempt'[q.pos]
    <3>1. q.attempt <= closeAttempt[q.pos] BY <1>i, <2>3 DEF RowOK, Attempt
    <3> QED BY <1>t, <1>o, <2>1, <2>2, <2>3, <3>1
  <2> QED BY <2>1, <2>2, <2>3
     DEF HandInv, ResolvingPC, WorkingPC, SendingPC, InTransit, Latest, Attempt
<1>15. CASE CancelRow
  <2>1. rows' = [rows EXCEPT ![Hand] = "dead"] /\ UNCHANGED <<latest, position, todo>>
    BY <1>15 DEF CancelRow, ResolveRow, Hand, loopVars
  <2>2. CASE pc["main"] = "expired"
    BY <1>t, <1>15, <2>2
       DEF CancelRow, Resume, Leave, HandInv, ResolvingPC, WorkingPC, SendingPC
  <2>3. CASE pc["main"] # "expired"
    <3>1. pc["main"] = "conceded" /\ Hand' = Hand /\ pc'["main"] = "rung"
      BY <1>t, <1>15, <2>3 DEF CancelRow, Goto, Hand
    <3> QED BY <1>t, <1>h, <2>1, <3>1
       DEF HandInv, ResolvingPC, WorkingPC, SendingPC, InTransit, Latest
  <2> QED BY <2>2, <2>3
<1>16. CASE Rung
  <2>1. PICK o \in OrderId :
          /\ Call("main", "record", o, "sync")
          /\ o.pos = Hand.pos /\ o.intent = Hand.intent
          /\ rows[o] = "none" /\ o.attempt = Attempt(o)'
    BY <1>16, RungIsNew
  <2>2. Hand' = o /\ pc'["main"] = "record" BY <1>t, <2>1 DEF Call, Hand
  <2>3. /\ Hand \in OrderId /\ rows[Hand] = "dead" /\ InTransit(Hand) /\ Latest(Hand)
    BY <1>16, <1>h DEF Rung, HandInv, WorkingPC
  <2>4. \A q \in OrderId : q.pos = o.pos /\ q.intent = o.intent => rows[q] \in {"none", "dead"}
    BY <1>i, <2>1, <2>3 DEF RowOK, Latest
  <2>5. UNCHANGED <<rows, position>> BY <1>16 DEF Rung
  <2>6. Fresh(o)'
    <3>1. Attempt(o)' \in Int BY <1>o, <2>1
    <3> QED BY <2>1, <2>4, <2>5, <3>1 DEF Fresh
  <2>7. InTransit(o)' BY <2>1, <2>3, <2>5 DEF InTransit
  <2> QED BY <2>2, <2>6, <2>7
     DEF HandInv, ResolvingPC, WorkingPC, SendingPC, Fresh, InTransit, Attempt
<1>17. CASE CloseRow("main")
  <2>1. CASE closeAttempt[pid["main"]] <= MaxAttempt
    <3>1. PICK o \in OrderId :
            /\ cur' = [cur EXCEPT !["main"] = o]
            /\ o.pos = pid["main"] /\ o.intent = "close"
            /\ rows[o] = "none" /\ o.attempt = Attempt(o)
      BY <1>17, <2>1, CloseIsNew
    <3>2. /\ pc'["main"] = "record" /\ Hand' = o
          /\ position' = [position EXCEPT ![o.pos] = "closing"]
          /\ UNCHANGED <<rows, entryAttempt, closeAttempt>>
      BY <1>t, <1>17, <2>1, <3>1 DEF CloseRow, SetPosition, Hand
    <3>3. position[o.pos] = "open" BY <1>17, <3>1 DEF CloseRow, ReadInv
    <3>4. \A q \in OrderId : q.pos = o.pos /\ q.intent = "close" => rows[q] \in {"none", "dead"}
      BY <1>t, <1>i, <3>3 DEF RowOK, RowStatus, InFlight, InTransit, Transition
    <3>5. Fresh(o)'
      <4>1. Attempt(o) \in Int BY <1>o, <3>1
      <4> QED BY <3>1, <3>2, <3>4, <4>1 DEF Fresh, Attempt
    <3>6. InTransit(o)' BY <1>t, <1>o, <3>1, <3>2 DEF InTransit, Transition
    <3> QED BY <3>2, <3>5, <3>6
       DEF HandInv, ResolvingPC, WorkingPC, SendingPC, Fresh, InTransit, Attempt
  <2>2. CASE ~(closeAttempt[pid["main"]] <= MaxAttempt)
    BY <1>t, <1>17, <2>2
       DEF CloseRow, Resume, Leave, HandInv, ResolvingPC, WorkingPC, SendingPC
  <2> QED BY <2>1, <2>2
<1>18. CASE Record("main")
  <2>1. Hand \in OrderId /\ Hand.pos \in Positions /\ Hand.intent \in {"open", "close"}
    BY <1>18, HandIsOrder DEF Record
  <2>2. InTransit(Hand) /\ Fresh(Hand) BY <1>18 DEF Record, HandInv
  <2>3. /\ rows' = [rows EXCEPT ![Hand] = "pending"]
        /\ latest' = [latest EXCEPT ![Hand.pos][Hand.intent] = Hand]
        /\ pc'["main"] = "send" /\ Hand' = Hand /\ UNCHANGED <<position, todo>>
    BY <1>t, <1>18, <2>2 DEF Record, Goto, Hand, Fresh, loopVars
  <2>4. Hand \notin todo BY <2>2 DEF Fresh, ReadInv, InFlight
  <2> QED BY <1>t, <2>1, <2>2, <2>3, <2>4
     DEF HandInv, ResolvingPC, WorkingPC, SendingPC, InTransit, Latest
<1>19. CASE Ack("main") \/ Nack("main")
  BY <1>t, <1>19
     DEF Ack, Nack, Resume, Leave, HandInv, ResolvingPC, WorkingPC, SendingPC
<1>20. CASE EnterRow("main")
  <2> DEFINE p == story["main"]
  <2>1. p \in Positions /\ position[p] = "none"
    BY <1>20, Types, NoneAssumption DEF EnterRow, ReadInv, BackingInv, ControlOK
  <2>2. PICK o \in OrderId : o = EntryId(p, 0) /\ o.pos = p /\ o.intent = "open" /\ o.attempt = 0
    BY <2>1, OrderFields, BoundsAssumption
  <2>3. /\ pc'["main"] = "record" /\ Hand' = o
        /\ position' = [position EXCEPT ![o.pos] = "opening"]
        /\ UNCHANGED <<rows, entryAttempt, closeAttempt>>
    BY <1>t, <1>20, <2>2 DEF EnterRow, Call, SetPosition, Hand
  <2>4. \A q \in OrderId : q.pos = o.pos => rows[q] = "none"
    BY <1>i, <2>1, <2>2 DEF RowOK
  <2>5. entryAttempt[p] >= 0
    BY <2>1 DEF BackingInv, TypeOK, StoreTypeOK
  <2>6. Fresh(o)'
    <3>1. entryAttempt[p] \in Int BY <1>t, <2>1
    <3> QED BY <2>2, <2>3, <2>4, <2>5, <3>1 DEF Fresh, Attempt
  <2>7. InTransit(o)' BY <1>t, <2>1, <2>2, <2>3 DEF InTransit, Transition
  <2> QED BY <2>3, <2>6, <2>7
     DEF HandInv, ResolvingPC, WorkingPC, SendingPC, Fresh, InTransit, Attempt
<1>21. CASE UNCHANGED vars BY <1>21, QuietStep DEF vars, storeVars, loopVars
<1> QED BY <1>m, <1>1, <1>2, <1>3, <1>4, <1>5, <1>6, <1>7, <1>8, <1>9, <1>10, <1>11, <1>12,
           <1>13, <1>14, <1>15, <1>16, <1>17, <1>18, <1>19, <1>20, <1>21
   DEF Next, MainLoop, Sync, Voiding, Handle, Manage, Story, Walk, Submit, Broker

-----------------------------------------------------------------------------
(* What a loop has read.                                                   *)

\* Where a position may be moved to, by whom, and from where.
LEMMA PositionMoves ==
  ASSUME BookInv, OneThread, [Next]_vars
  PROVE  \/ UNCHANGED position
         \/ /\ FillPosition \/ FailEntry \/ Reopen
            /\ InTransit(Hand) /\ Hand \in OrderId
            /\ \E s \in {"open", "closed", "failed"} :
                 position' = [position EXCEPT ![Hand.pos] = s]
         \/ /\ CloseRow("main") /\ pid["main"] \in Positions /\ position[pid["main"]] = "open"
            /\ position' = [position EXCEPT ![pid["main"]] = "closing"]
            /\ pc'["main"] = "record"
         \/ /\ EnterRow("main") /\ story["main"] \in Positions /\ position[story["main"]] = "none"
            /\ position' = [position EXCEPT ![story["main"]] = "opening"]
<1> USE DEF BookInv
<1>m. "main" \in Threads /\ \A t \in Threads : t = "main" BY Types
<1>1. CASE FillPosition \/ FailEntry \/ Reopen
  <2>1. InTransit(Hand) /\ Hand \in OrderId
    BY <1>1, HandIsOrder DEF FillPosition, FailEntry, Reopen, HandInv, ResolvingPC
  <2> QED BY <1>1, <2>1 DEF FillPosition, FailEntry, Reopen, SetPosition, Hand
<1>2. CASE CloseRow("main")
  <2>1. pid["main"] \in Positions /\ position[pid["main"]] = "open"
    BY <1>2, <1>m DEF CloseRow, BackingInv, ControlOK, ReadInv
  <2> QED BY <1>2, <1>m, <2>1, Types DEF CloseRow, SetPosition
<1>3. CASE EnterRow("main")
  <2>1. story["main"] \in Positions /\ position[story["main"]] = "none"
    BY <1>3, <1>m, NoneAssumption DEF EnterRow, ReadInv, BackingInv, ControlOK
  <2> QED BY <1>3, <2>1 DEF EnterRow, SetPosition
<1>4. ASSUME \/ UNCHANGED storeVars
             \/ \E o \in todo : VoidUnconfirmed(o) \/ Poll(o)
             \/ FillRow \/ FeedLearners \/ DeadRow \/ BumpAttempt \/ CancelRow \/ Rung \/ Enforce
             \/ \E t \in Threads : Record(t) \/ Ack(t) \/ Nack(t)
      PROVE  UNCHANGED position
  BY <1>4 DEF storeVars, VoidUnconfirmed, Poll, FillRow, FeedLearners, DeadRow, BumpAttempt,
              CancelRow, Rung, Enforce, Record, Ack, Nack
<1> QED BY <1>m, <1>1, <1>2, <1>3, <1>4, StoreFrame

\* A row in a sync's hand is in flight until its handler has resolved it.
LEMMA TodoStep ==
  ASSUME BookInv, OneThread, [Next]_vars
  PROVE  todo' \subseteq InFlight'
<1> USE DEF BookInv
<1>t. /\ rows \in [OrderId -> RowStatus] /\ todo \subseteq InFlight /\ todo \subseteq OrderId
      /\ "main" \in Threads
  BY Types DEF ReadInv
<1>m. \A t \in Threads : t = "main" BY Types
<1>h. pc["main"] \in ResolvingPC \cup WorkingPC \cup SendingPC => Hand \in OrderId /\ Hand \notin todo
  BY HandIsOrder DEF HandInv
<1>1. CASE StartTick BY <1>1 DEF StartTick, InFlight, storeVars
<1>2. CASE StartSweep \/ ReadBroker \/ Enforce \/ StartManage \/ Crash
  BY <1>t, <1>2 DEF StartSweep, ReadBroker, Enforce, StartManage, Crash, InFlight, storeVars
<1>3. ASSUME NEW o \in todo, Poll(o) \/ PollFails(o) \/ VoidUnconfirmed(o)
      PROVE  todo' \subseteq InFlight'
  BY <1>t, <1>3 DEF Poll, PollFails, VoidUnconfirmed, InFlight, storeVars
<1>4. ASSUME NEW r \in orphans, SweepOne(r) PROVE todo' \subseteq InFlight'
  BY <1>t, <1>4 DEF SweepOne, InFlight, storeVars
<1>5. CASE Nack("main")
  BY <1>t, <1>h, <1>5 DEF Nack, InFlight, SendingPC, Hand
<1>6. ASSUME NEW p, Hold("main", p) \/ Exit("main", p) \/ News("main", p)
      PROVE  todo' \subseteq InFlight'
  BY <1>t, <1>6 DEF Hold, Exit, News, InFlight, storeVars
<1>7. CASE Drop("main") \/ EnterRow("main")
  BY <1>t, <1>7 DEF Drop, EnterRow, InFlight, storeVars
<1>8. ASSUME UNCHANGED loopVars PROVE todo' \subseteq InFlight'
  <2>1. UNCHANGED todo BY <1>8 DEF loopVars
  <2>2. CASE FillRow \/ DeadRow \/ CancelRow
    BY <1>t, <1>h, <2>1, <2>2
       DEF FillRow, DeadRow, CancelRow, ResolveRow, InFlight, ResolvingPC, WorkingPC, Hand
  <2>3. CASE Record("main") \/ Ack("main")
    BY <1>t, <1>h, <2>1, <2>3
       DEF Record, Ack, HandInv, Fresh, InFlight, SendingPC, Hand
  <2>4. CASE UNCHANGED rows BY <1>t, <2>1, <2>4 DEF InFlight
  <2>5. ASSUME \/ UNCHANGED storeVars
               \/ FillPosition \/ FeedLearners \/ FailEntry \/ BumpAttempt \/ Reopen
               \/ Rung \/ Enforce \/ CloseRow("main") \/ EnterRow("main")
        PROVE  UNCHANGED rows
    BY <2>5 DEF storeVars, FillPosition, FeedLearners, FailEntry, BumpAttempt, Reopen, Rung,
                Enforce, CloseRow, EnterRow
  <2> QED BY <1>m, <1>3, <1>5, <2>2, <2>3, <2>4, <2>5, StoreFrame
<1> QED BY <1>m, <1>1, <1>2, <1>3, <1>4, <1>5, <1>6, <1>7, <1>8, LoopFrame

\* What the sweep has still to resolve is where its snapshot found it.
LEMMA SweepStep ==
  ASSUME BookInv, OneThread, [Next]_vars
  PROVE  /\ \A r \in orphans' : position'[r[1]] = Transition(r[2])
         /\ orphans' # {} =>
              pc'["main"] = "sweep" \/ (pc'["main"] \in SweepingPC /\ ret'["main"] = "sweep")
         /\ pc'["main"] \in SweepingPC => \A r \in orphans' : r[1] # Hand'.pos
<1> USE DEF BookInv
<1> DEFINE Goal == /\ \A r \in orphans' : position'[r[1]] = Transition(r[2])
                   /\ orphans' # {} =>
                        \/ pc'["main"] = "sweep"
                        \/ pc'["main"] \in SweepingPC /\ ret'["main"] = "sweep"
                   /\ pc'["main"] \in SweepingPC => \A r \in orphans' : r[1] # Hand'.pos
<1>t. /\ position \in [Positions -> PositionStatus] /\ "main" \in Threads
      /\ pc \in [Threads -> MainPC \cup AnyPC] /\ cur \in [Threads -> OrderId \cup {None}]
      /\ ret \in [Threads -> {"idle", "sync", "sweep", "manage", "story"}]
      /\ orphans \subseteq Positions \X {"open", "close"}
  BY Types
<1>m. \A t \in Threads : t = "main" BY Types
<1>i. /\ \A r \in orphans : position[r[1]] = Transition(r[2])
      /\ orphans # {} =>
           pc["main"] = "sweep" \/ (pc["main"] \in SweepingPC /\ ret["main"] = "sweep")
      /\ pc["main"] \in SweepingPC => \A r \in orphans : r[1] # Hand.pos
  BY DEF ReadInv
<1>1. CASE orphans' = {} BY <1>1
<1>2. CASE StartSweep
  <2>1. \A r \in orphans' : position'[r[1]] = Transition(r[2])
    BY <1>2 DEF StartSweep, Orphans, Transition, storeVars
  <2> QED BY <1>t, <1>2, <2>1
    DEF StartSweep, Goto, SweepingPC, ResolvingPC
<1>3. ASSUME NEW r \in orphans, SweepOne(r) PROVE Goal
  <2> DEFINE o == latest[r[1]][r[2]]
  <2>1. /\ orphans' = orphans \ {r} /\ UNCHANGED position /\ pc["main"] = "sweep"
        /\ r[1] \in Positions /\ r[2] \in {"open", "close"} /\ r = <<r[1], r[2]>>
    BY <1>t, <1>3 DEF SweepOne, storeVars
  <2>2. ASSUME NEW q \in orphans' PROVE q[1] # r[1]
    <3>1. q = <<q[1], q[2]>> /\ q[2] \in {"open", "close"} /\ q # r BY <1>t, <2>1
    <3> QED BY <1>i, <2>1, <3>1 DEF Transition
  <2>3. CASE UNCHANGED <<pc, cur, ret>>
    BY <1>i, <2>1, <2>3 DEF SweepingPC, ResolvingPC
  <2>4. CASE ~(UNCHANGED <<pc, cur, ret>>)
    <3>1. /\ o # None /\ rows[o] \in {"filled", "dead"}
          /\ Call("main", HandlerOf(rows[o]), o, "sweep")
      BY <1>3, <2>4 DEF SweepOne
    <3>2. o.pos = r[1] BY <2>1, <3>1 DEF LatestInv
    <3>3. pc'["main"] \in {"onfill", "ondead"} /\ Hand' = o /\ ret'["main"] = "sweep"
      BY <1>t, <3>1 DEF Call, HandlerOf, Hand
    <3> QED BY <1>i, <2>1, <2>2, <3>2, <3>3 DEF SweepingPC, ResolvingPC
  <2> QED BY <2>3, <2>4
<1>4. ASSUME UNCHANGED orphans, orphans # {} PROVE Goal
  <2>1. pc["main"] = "sweep" \/ (pc["main"] \in SweepingPC /\ ret["main"] = "sweep")
    BY <1>i, <1>4
  <2>2. CASE FillRow \/ FeedLearners \/ DeadRow \/ BumpAttempt
    <3>1. UNCHANGED position
      BY <2>2 DEF FillRow, FeedLearners, DeadRow, BumpAttempt
    <3>2. pc["main"] \in SweepingPC
      BY <2>2 DEF FillRow, FeedLearners, DeadRow, BumpAttempt, SweepingPC, ResolvingPC
    <3>3. \/ pc'["main"] = "sweep"
          \/ /\ pc'["main"] \in SweepingPC /\ ret'["main"] = "sweep"
             /\ Hand' = Hand
      BY <1>t, <2>1, <2>2
         DEF FillRow, FeedLearners, DeadRow, DeadBranch, BumpAttempt, Goto, Resume, Leave,
             SweepingPC, ResolvingPC, Hand
    <3> QED BY <1>i, <1>4, <3>1, <3>2, <3>3 DEF SweepingPC, ResolvingPC
  <2>3. CASE FillPosition \/ FailEntry \/ Reopen
    <3>1. pc["main"] \in SweepingPC
      BY <2>3 DEF FillPosition, FailEntry, Reopen, SweepingPC, ResolvingPC
    <3>2. \E s \in {"open", "closed", "failed"} :
            position' = [position EXCEPT ![Hand.pos] = s]
      BY <2>3 DEF FillPosition, FailEntry, Reopen, SetPosition, Hand
    <3>3. \/ pc'["main"] = "sweep"
          \/ /\ pc'["main"] \in SweepingPC /\ ret'["main"] = "sweep"
             /\ Hand' = Hand
      BY <1>t, <2>1, <2>3
         DEF FillPosition, FailEntry, Reopen, Goto, Resume, Leave, SweepingPC, ResolvingPC, Hand
    <3> QED BY <1>t, <1>i, <1>4, <3>1, <3>2, <3>3 DEF SweepingPC, ResolvingPC
  <2>4. ASSUME NEW o, Fill(o) \/ PartialFill(o) \/ Die(o) PROVE Goal
    BY <1>i, <1>4, <2>4 DEF Fill, PartialFill, Die, storeVars, loopVars, Hand
  <2>5. CASE UNCHANGED vars BY <1>i, <2>5 DEF vars, storeVars, loopVars, Hand
  <2>6. ~ \/ StartTick \/ EndSweep \/ ReadBroker \/ Enforce \/ EnforceFails
          \/ StartManage \/ SkipManage \/ EndManage
          \/ Rest \/ Expire \/ Concede \/ Cancel \/ CancelFails \/ CancelRow \/ Rung
    BY <1>4, <2>1
       DEF StartTick, EndSweep, ReadBroker, Enforce, EnforceFails, StartManage, SkipManage,
           EndManage, Rest, Expire, Concede, Cancel, CancelFails, CancelRow, Rung,
           SweepingPC, ResolvingPC
  <2>7. \A o : ~(Poll(o) \/ PollFails(o) \/ VoidUnconfirmed(o))
    BY <2>1 DEF Poll, PollFails, VoidUnconfirmed, SweepingPC, ResolvingPC
  <2>8. \A t \in Threads :
          ~ \/ CloseRow(t) \/ Record(t) \/ Send(t) \/ SendFails(t) \/ Ack(t) \/ Nack(t)
            \/ Drop(t) \/ Approve(t) \/ EnterRow(t)
            \/ \E p : Hold(t, p) \/ Exit(t, p) \/ News(t, p)
    BY <1>m, <2>1
       DEF CloseRow, Record, Send, SendFails, Ack, Nack, Drop, Approve, EnterRow, Hold, Exit,
           News, SweepingPC, ResolvingPC
  <2> QED BY <1>1, <1>2, <1>3, <2>2, <2>3, <2>4, <2>5, <2>6, <2>7, <2>8, ThreadsAssumption
     DEF Next, MainLoop, Sync, Voiding, Handle, Manage, Story, Walk, Submit, Broker, Crash
<1>5. orphans' = orphans \/ orphans' = {} \/ StartSweep \/ \E r \in orphans : SweepOne(r)
  <2>1. ASSUME NEW o, Poll(o) \/ PollFails(o) \/ VoidUnconfirmed(o) PROVE UNCHANGED orphans
    BY <2>1 DEF Poll, PollFails, VoidUnconfirmed
  <2>2. ASSUME StartTick \/ ReadBroker \/ Enforce \/ StartManage PROVE UNCHANGED orphans
    BY <2>2 DEF StartTick, ReadBroker, Enforce, StartManage
  <2>3. ASSUME NEW t, \/ Nack(t) \/ Drop(t) \/ EnterRow(t)
                      \/ \E p : Hold(t, p) \/ Exit(t, p) \/ News(t, p)
        PROVE  UNCHANGED orphans
    BY <2>3 DEF Nack, Drop, EnterRow, Hold, Exit, News
  <2> QED BY <2>1, <2>2, <2>3, LoopFrame DEF loopVars, Crash
<1>6. CASE UNCHANGED orphans /\ orphans = {} BY <1>1, <1>6
<1> QED BY <1>1, <1>2, <1>3, <1>4, <1>5, <1>6

\* A row that a walk or a story has read is still as it was then.
LEMMA WalkStep ==
  ASSUME BookInv, OneThread, [Next]_vars
  PROVE  /\ \A p \in walk'["main"] : position'[p] = "open"
         /\ pc'["main"] = "close" =>
              position'[pid'["main"]] = "open" /\ pid'["main"] \notin walk'["main"]
         /\ story'["main"] # None => position'[story'["main"]] = "none"
<1> USE DEF BookInv
<1> DEFINE Goal == /\ \A p \in walk'["main"] : position'[p] = "open"
                   /\ pc'["main"] = "close" =>
                        /\ position'[pid'["main"]] = "open"
                        /\ pid'["main"] \notin walk'["main"]
                   /\ story'["main"] # None => position'[story'["main"]] = "none"
<1>t. /\ position \in [Positions -> PositionStatus] /\ "main" \in Threads
      /\ pc \in [Threads -> MainPC \cup AnyPC] /\ pid \in [Threads -> Positions \cup {None}]
      /\ ret \in [Threads -> {"idle", "sync", "sweep", "manage", "story"}]
      /\ walk \in [Threads -> SUBSET Positions] /\ story \in [Threads -> Positions \cup {None}]
  BY Types
<1>m. \A t \in Threads : t = "main" BY Types
<1>i. /\ \A p \in walk["main"] : position[p] = "open"
      /\ pc["main"] = "close" => position[pid["main"]] = "open" /\ pid["main"] \notin walk["main"]
      /\ story["main"] # None => position[story["main"]] = "none"
  BY DEF ReadInv
<1>p. \A p \in Positions : p \in OpenRows => position[p] = "open" BY DEF OpenRows
<1>1. CASE FillPosition \/ FailEntry \/ Reopen
  <2>1. UNCHANGED <<walk, story>> /\ pc'["main"] # "close"
    BY <1>t, <1>1
       DEF FillPosition, FailEntry, Reopen, Goto, Resume, Leave, loopVars
  <2>2. \A p \in Positions : position[p] \in {"none", "open"} => position'[p] = position[p]
    <3>1. Hand.pos \in Positions /\ position[Hand.pos] \in {"opening", "closing"}
      BY <1>1, HandIsOrder
         DEF FillPosition, FailEntry, Reopen, HandInv, ResolvingPC, InTransit, Transition
    <3> QED BY <1>t, <1>1, <3>1 DEF FillPosition, FailEntry, Reopen, SetPosition, Hand
  <2> QED BY <1>t, <1>i, <2>1, <2>2
<1>2. CASE CloseRow("main")
  <2>1. UNCHANGED <<walk, story>> /\ pc'["main"] # "close"
    BY <1>t, <1>2 DEF CloseRow, Resume, Leave, loopVars
  <2>2. \A p \in Positions : p # pid["main"] => position'[p] = position[p]
    BY <1>t, <1>2 DEF CloseRow, SetPosition
  <2>3. story["main"] # pid["main"] \/ story["main"] = None BY <1>i, <1>2 DEF CloseRow
  <2> QED BY <1>t, <1>i, <1>2, <2>1, <2>2, <2>3 DEF CloseRow
<1>3. CASE EnterRow("main")
  <2>1. story'["main"] = None /\ UNCHANGED walk /\ pc'["main"] = "record"
    BY <1>t, <1>3 DEF EnterRow, Call
  <2>2. position[story["main"]] = "none"
    BY <1>3, <1>t, NoneAssumption DEF EnterRow, ReadInv, BackingInv, ControlOK
  <2>3. \A p \in Positions : p # story["main"] => position'[p] = position[p]
    BY <1>t, <1>3 DEF EnterRow, SetPosition
  <2> QED BY <1>t, <1>i, <2>1, <2>2, <2>3
<1>4. ASSUME UNCHANGED position PROVE Goal
  <2>1. CASE StartManage
    BY <1>t, <1>i, <1>p, <1>4, <2>1 DEF StartManage, Goto, OpenRows
  <2>2. ASSUME NEW p \in Positions \cup {None}, News("main", p) PROVE Goal
    BY <1>t, <1>i, <1>p, <1>4, <2>2 DEF News, Goto, OpenRows
  <2>3. ASSUME NEW p \in walk["main"], Hold("main", p) PROVE Goal
    BY <1>t, <1>i, <1>4, <2>3 DEF Hold
  <2>4. ASSUME NEW p \in walk["main"], Exit("main", p) PROVE Goal
    BY <1>t, <1>i, <1>4, <2>4 DEF Exit
  <2>5. CASE Nack("main") BY <1>t, <1>i, <1>4, <2>5 DEF Nack, Leave
  <2>6. CASE Drop("main") BY <1>t, <1>i, <1>4, <2>6 DEF Drop, Goto
  <2>7. CASE Crash BY <1>t, <2>7 DEF Crash
  <2>8. CASE UNCHANGED <<walk, story>> /\ (pc'["main"] # "close" \/ UNCHANGED <<pc, pid>>)
    BY <1>i, <1>4, <2>8
  <2>9. ASSUME \/ StartTick \/ StartSweep \/ EndSweep \/ ReadBroker \/ Enforce \/ EnforceFails
               \/ SkipManage \/ EndManage
        PROVE  UNCHANGED <<walk, story>> /\ pc'["main"] # "close"
    BY <1>t, <2>9
       DEF StartTick, StartSweep, EndSweep, ReadBroker, Enforce, EnforceFails, SkipManage,
           EndManage, Goto, loopVars
  <2>10. ASSUME \/ FillRow \/ FeedLearners \/ DeadRow \/ BumpAttempt
                \/ Rest \/ Expire \/ Concede \/ Cancel \/ CancelFails \/ CancelRow \/ Rung
         PROVE  UNCHANGED <<walk, story>> /\ pc'["main"] # "close"
    BY <1>t, <2>10
       DEF FillRow, FeedLearners, DeadRow, DeadBranch, BumpAttempt, Rest, Expire, Concede,
           Cancel, CancelFails, CancelRow, Rung, Goto, Call, Resume, Leave, loopVars
  <2>11. ASSUME NEW o, \/ Poll(o) \/ PollFails(o) \/ VoidUnconfirmed(o) \/ SweepOne(o)
                       \/ Fill(o) \/ PartialFill(o) \/ Die(o)
         PROVE  UNCHANGED <<walk, story>> /\ (pc'["main"] # "close" \/ UNCHANGED <<pc, pid>>)
    BY <1>t, <2>11
       DEF Poll, PollFails, VoidUnconfirmed, SweepOne, Fill, PartialFill, Die, HandlerOf, Goto,
           Call, loopVars
  <2>12. ASSUME \/ Record("main") \/ Send("main") \/ SendFails("main") \/ Ack("main")
                \/ Approve("main")
         PROVE  UNCHANGED <<walk, story>> /\ pc'["main"] # "close"
    BY <1>t, <2>12 DEF Record, Send, SendFails, Ack, Approve, Goto, Resume, Leave, loopVars
  <2>13. CASE UNCHANGED vars BY <2>8, <2>13 DEF vars, loopVars
  <2> QED BY <1>m, <1>1, <1>2, <1>3, <2>1, <2>2, <2>3, <2>4, <2>5, <2>6, <2>7, <2>8, <2>9, <2>10,
             <2>11, <2>12, <2>13
     DEF Next, MainLoop, Sync, Voiding, Handle, Manage, Story, Walk, Submit, Broker
<1> QED BY <1>1, <1>2, <1>3, <1>4, PositionMoves

\* What a loop has read still holds when it comes to it.
LEMMA ReadStep ==
  ASSUME BookInv, OneThread, [Next]_vars
  PROVE  ReadInv'
BY TodoStep, SweepStep, WalkStep DEF ReadInv

-----------------------------------------------------------------------------
(* The learners, the halt, and the theorems of the book.                   *)

\* A closed position stays closed and is fed once, right after it was closed.
LEMMA FedStep ==
  ASSUME BookInv, OneThread, [Next]_vars
  PROVE  FedInv'
<1> USE DEF BookInv
<1>t. /\ position \in [Positions -> PositionStatus] /\ fed \in [Positions -> Nat]
  BY Types
<1>1. CASE FeedLearners
  <2>1. Hand \in OrderId /\ Hand.pos \in Positions BY <1>1, HandIsOrder DEF FeedLearners
  <2>2. position[Hand.pos] = "closed" /\ fed[Hand.pos] = 0 BY <1>1 DEF FeedLearners, HandInv
  <2>3. fed' = [fed EXCEPT ![Hand.pos] = @ + 1] /\ UNCHANGED position
    BY <1>1 DEF FeedLearners, Hand
  <2> QED BY <1>t, <2>1, <2>2, <2>3 DEF FedInv
<1>2. CASE UNCHANGED fed
  <2>1. \A p \in Positions : position[p] = "closed" => position'[p] = "closed"
    <3>1. CASE UNCHANGED position BY <3>1
    <3>2. ASSUME InTransit(Hand), Hand \in OrderId,
                 NEW s, position' = [position EXCEPT ![Hand.pos] = s]
          PROVE  \A p \in Positions : position[p] = "closed" => position'[p] = "closed"
      BY <1>t, <3>2 DEF InTransit, Transition
    <3>3. ASSUME NEW q \in Positions, position[q] \in {"open", "none"},
                 NEW s, position' = [position EXCEPT ![q] = s]
          PROVE  \A p \in Positions : position[p] = "closed" => position'[p] = "closed"
      BY <1>t, <3>3
    <3> QED BY <3>1, <3>2, <3>3, PositionMoves
  <2> QED BY <1>2, <2>1 DEF FedInv
<1>3. ASSUME \/ UNCHANGED storeVars
             \/ \E o \in todo : VoidUnconfirmed(o) \/ Poll(o)
             \/ FillRow \/ FillPosition
             \/ DeadRow \/ FailEntry \/ BumpAttempt \/ Reopen
             \/ CancelRow \/ Rung \/ Enforce
             \/ \E t \in Threads : CloseRow(t) \/ Record(t) \/ Ack(t) \/ Nack(t) \/ EnterRow(t)
      PROVE  UNCHANGED fed
  BY <1>3
     DEF storeVars, VoidUnconfirmed, Poll, FillRow, FillPosition, DeadRow, FailEntry,
         BumpAttempt, Reopen, CancelRow, Rung, Enforce, CloseRow, Record, Ack, Nack, EnterRow
<1> QED BY <1>1, <1>2, <1>3, StoreFrame

\* No halt falls between the decision to open and the order that opens.
LEMMA HaltStep ==
  ASSUME BookInv, OneThread, [Next]_vars
  PROVE  HaltInv'
<1> USE DEF BookInv
<1> DEFINE Deciding == {"enter", "concede", "conceded", "rung", "record"}
<1>t. /\ "main" \in Threads /\ pc \in [Threads -> MainPC \cup AnyPC]
      /\ cur \in [Threads -> OrderId \cup {None}]
      /\ ret \in [Threads -> {"idle", "sync", "sweep", "manage", "story"}]
  BY Types
<1>m. \A t \in Threads : t = "main" BY Types
<1>1. CASE pc'["main"] \notin Deciding BY <1>1 DEF HaltInv
<1>2. CASE UNCHANGED <<halted, pc, cur>> BY <1>2 DEF HaltInv, Hand
<1>3. CASE Concede
  BY <1>t, <1>3 DEF Concede, MayConcede, Goto, storeVars, HaltInv, Hand
<1>4. CASE Cancel \/ CancelRow
  <2>1. \/ pc'["main"] \notin Deciding
        \/ /\ pc["main"] \in {"concede", "conceded"} /\ Hand' = Hand
           /\ pc'["main"] \in {"conceded", "rung"} /\ UNCHANGED halted
    BY <1>t, <1>4 DEF Cancel, CancelRow, Goto, Resume, Leave, storeVars, Hand
  <2> QED BY <2>1 DEF HaltInv
<1>5. CASE Rung
  <2>1. PICK o \in OrderId :
          Call("main", "record", o, "sync") /\ o.intent = Hand.intent
    BY <1>5, RungIsNew
  <2>2. /\ pc["main"] = "rung" /\ UNCHANGED halted
        /\ pc'["main"] = "record" /\ Hand' = o
    BY <1>t, <1>5, <2>1 DEF Rung, Call, Hand
  <2> QED BY <2>1, <2>2 DEF HaltInv
<1>6. CASE CloseRow("main")
  <2>1. CASE closeAttempt[pid["main"]] <= MaxAttempt
    <3>1. PICK o \in OrderId : cur' = [cur EXCEPT !["main"] = o] /\ o.intent = "close"
      BY <1>6, <2>1, CloseIsNew
    <3>2. Hand' = o /\ pc'["main"] = "record" BY <1>t, <1>6, <2>1, <3>1 DEF CloseRow, Hand
    <3> QED BY <3>1, <3>2 DEF HaltInv
  <2>2. CASE ~(closeAttempt[pid["main"]] <= MaxAttempt)
    BY <1>t, <1>6, <2>2, <1>1 DEF CloseRow, Resume, Leave
  <2> QED BY <2>1, <2>2
<1>7. CASE Approve("main")
  BY <1>t, <1>7 DEF Approve, Goto, storeVars, HaltInv
<1>8. CASE EnterRow("main")
  <2>1. pc["main"] = "enter" /\ UNCHANGED halted /\ pc'["main"] = "record"
    BY <1>t, <1>8 DEF EnterRow, Call
  <2> QED BY <2>1 DEF HaltInv
<1>9. ASSUME NEW o, \/ Poll(o) \/ PollFails(o) \/ VoidUnconfirmed(o) \/ SweepOne(o)
                    \/ Fill(o) \/ PartialFill(o) \/ Die(o)
      PROVE  HaltInv'
  <2>1. pc'["main"] \notin Deciding \/ UNCHANGED <<halted, pc, cur>>
    BY <1>t, <1>9
       DEF Poll, PollFails, VoidUnconfirmed, SweepOne, Fill, PartialFill, Die, HandlerOf, Goto,
           Call, storeVars
  <2> QED BY <1>1, <1>2, <2>1
<1>10. ASSUME NEW p, Hold("main", p) \/ Exit("main", p) \/ News("main", p) PROVE HaltInv'
  <2>1. pc'["main"] \notin Deciding \/ UNCHANGED <<halted, pc, cur>>
    BY <1>t, <1>10 DEF Hold, Exit, News, Goto, storeVars
  <2> QED BY <1>1, <1>2, <2>1
<1>11. ASSUME \/ StartTick \/ StartSweep \/ EndSweep \/ ReadBroker \/ Enforce \/ EnforceFails
              \/ StartManage \/ SkipManage \/ EndManage \/ Crash
       PROVE  pc'["main"] \notin Deciding
  BY <1>t, <1>11
     DEF StartTick, StartSweep, EndSweep, ReadBroker, Enforce, EnforceFails, StartManage,
         SkipManage, EndManage, Crash, Goto
<1>12. ASSUME \/ FillRow \/ FillPosition \/ FeedLearners \/ DeadRow \/ FailEntry \/ BumpAttempt
              \/ Reopen \/ Rest \/ Expire \/ CancelFails
       PROVE  pc'["main"] \notin Deciding
  BY <1>t, <1>12
     DEF FillRow, FillPosition, FeedLearners, DeadRow, DeadBranch, FailEntry, BumpAttempt, Reopen,
         Rest, Expire, CancelFails, Goto, Resume, Leave
<1>13. ASSUME \/ Record("main") \/ Send("main") \/ SendFails("main") \/ Ack("main")
              \/ Nack("main") \/ Drop("main")
       PROVE  pc'["main"] \notin Deciding
  BY <1>t, <1>13 DEF Record, Send, SendFails, Ack, Nack, Drop, Goto, Resume, Leave
<1>14. CASE UNCHANGED vars BY <1>2, <1>14 DEF vars, storeVars
<1> HIDE DEF Deciding
<1> QED BY <1>m, <1>1, <1>3, <1>4, <1>5, <1>6, <1>7, <1>8, <1>9, <1>10, <1>11, <1>12, <1>13, <1>14
   DEF Next, MainLoop, Sync, Voiding, Handle, Manage, Story, Walk, Submit, Broker

\* The empty book has nothing in flight and nothing in hand.
LEMMA BookInvInit ==
  ASSUME OneThread, Init
  PROVE  BookInv
<1> USE ThreadsAssumption DEF Init
<1>1. BackingInv BY BackingInit
<1>2. RowsInv
  BY OrderFields DEF RowsInv, RowOK, InFlight
<1>3. LatestInv BY DEF LatestInv
<1>4. HandInv BY DEF HandInv, ResolvingPC, WorkingPC, SendingPC
<1>5. ReadInv
  BY DEF ReadInv, SweepingPC, ResolvingPC
<1>6. FedInv /\ HaltInv BY DEF FedInv, HaltInv
<1> QED BY <1>1, <1>2, <1>3, <1>4, <1>5, <1>6 DEF BookInv

\* BookInv is inductive.
LEMMA BookInvStep ==
  ASSUME BookInv, OneThread, [Next]_vars
  PROVE  BookInv'
<1>1. BackingInv' BY BackingStep DEF BookInv
<1> QED BY <1>1, RowsStep, LatestStep, HandStep, ReadStep, FedStep, HaltStep DEF BookInv

\* With the news socket off, the book's invariant holds under every fault.
THEOREM BookHolds ==
  ASSUME OneThread
  PROVE  Spec => []BookInv
<1>1. Init => BookInv BY BookInvInit
<1>2. BookInv /\ [Next]_vars => BookInv' BY BookInvStep
<1> QED BY <1>1, <1>2, PTL DEF Spec

\* The learners hear of a position at most once, through every crash, lost
\* answer, partial fill and sweep (lifecycle._on_fill): the position is closed
\* before they are fed, and nothing handles a closed position's orders again.
THEOREM LearnersFedOnce ==
  ASSUME OneThread
  PROVE  Spec => []FedOnce
<1>1. BookInv => FedOnce BY DEF BookInv, FedInv, FedOnce
<1> QED BY <1>1, BookHolds, PTL

\* The store never shows two orders in flight for a position, under any fault:
\* an order is recorded only when those before it are known to be dead.
THEOREM OrdersOneByOne ==
  ASSUME OneThread
  PROVE  Spec => []OneInFlight
<1>1. ASSUME BookInv PROVE OneInFlight
  <2> SUFFICES ASSUME NEW o \in InFlight, NEW q \in InFlight, o.pos = q.pos PROVE o = q
    BY DEF OneInFlight
  <2>1. /\ o \in OrderId /\ q \in OrderId
        /\ InTransit(o) /\ InTransit(q) /\ Latest(o) /\ Latest(q)
    BY <1>1 DEF BookInv, RowsInv, RowOK, InFlight
  <2>2. o.intent = q.intent BY <2>1, OrderFields DEF InTransit, Transition
  <2> QED BY <2>1, <2>2 DEF Latest
<1>2. BookInv => OneInFlight BY <1>1
<1> QED BY <1>2, BookHolds, PTL

\* No opening order is recorded while a halt stands: the gate's read and the
\* ladder's are the last before the order, and nothing halts in between.
THEOREM HaltStopsEntries ==
  ASSUME OneThread
  PROVE  Spec => NoEntryUnderHalt
<1> DEFINE Obeys == \A o \in OrderId :
                      halted /\ o.intent = "open" /\ rows[o] = "none" => rows'[o] = "none"
<1>1. ASSUME BookInv, [Next]_vars PROVE Obeys
  <2> USE DEF BookInv
  <2>t. rows \in [OrderId -> RowStatus] /\ todo \subseteq InFlight
    BY <1>1, Types DEF ReadInv
  <2>m. \A t \in Threads : t = "main" BY <1>1, Types
  <2>h. pc["main"] \in ResolvingPC \cup WorkingPC \cup SendingPC =>
          Hand \in OrderId /\ rows[Hand] # "none"
    BY <1>1, HandIsOrder DEF HandInv
  <2>1. CASE Record("main")
    <3>1. Hand.intent = "open" => ~halted BY <1>1, <2>1 DEF Record, HaltInv
    <3>2. rows' = rows \/ rows' = [rows EXCEPT ![Hand] = "pending"] BY <2>1 DEF Record, Hand
    <3> QED BY <2>t, <3>1, <3>2
  <2>2. ASSUME NEW o \in todo, VoidUnconfirmed(o) \/ Poll(o) PROVE Obeys
    BY <2>t, <2>2 DEF VoidUnconfirmed, Poll, InFlight
  <2>3. CASE FillRow \/ DeadRow \/ CancelRow \/ Ack("main") \/ Nack("main")
    <3>1. \E s : rows' = [rows EXCEPT ![Hand] = s]
      BY <2>3 DEF FillRow, DeadRow, CancelRow, Ack, Nack, ResolveRow, Hand
    <3>2. pc["main"] \in ResolvingPC \cup WorkingPC \cup SendingPC
      BY <2>3 DEF FillRow, DeadRow, CancelRow, Ack, Nack, ResolvingPC, WorkingPC, SendingPC
    <3> QED BY <2>t, <2>h, <3>1, <3>2
  <2>4. ASSUME \/ UNCHANGED storeVars
               \/ FillPosition \/ FeedLearners \/ FailEntry \/ BumpAttempt \/ Reopen
               \/ Rung \/ Enforce \/ CloseRow("main") \/ EnterRow("main")
        PROVE  UNCHANGED rows
    BY <2>4 DEF storeVars, FillPosition, FeedLearners, FailEntry, BumpAttempt, Reopen, Rung,
                Enforce, CloseRow, EnterRow
  <2> QED BY <1>1, <2>m, <2>1, <2>2, <2>3, <2>4, StoreFrame
<1>2. BookInv /\ [Next]_vars => [Obeys]_vars BY <1>1
<1> QED BY <1>2, BookHolds, PTL DEF Spec, NoEntryUnderHalt

-----------------------------------------------------------------------------
(* The broker, when nothing but the process fails.                         *)

\* An order that works at the broker is the one in flight of its position,
\* and those before it are over.
LEMMA WorkingAlone ==
  ASSUME BrokerInv, OneThread, NEW o \in OrderId, broker[o] = "live"
  PROVE  /\ o \in InFlight /\ InTransit(o) /\ Latest(o)
         /\ \A q \in OrderId :
              q # o /\ q.pos = o.pos /\ q.intent = o.intent => broker[q] \in {"absent", "dead"}
<1> USE DEF BrokerInv, BookInv
<1>1. /\ \A q \in OrderId : MatchOK(q) /\ RowOK(q)
      /\ rows[o] \in RowStatus /\ (rows[o] = "filled" => broker[o] = "filled")
  BY Types DEF MatchInv, RowsInv, BackingInv, RecordsBacked
<1>2. o \in InFlight BY <1>1 DEF MatchOK, RowStatus, InFlight
<1>3. InTransit(o) /\ Latest(o) BY <1>1, <1>2 DEF RowOK, InFlight
<1>4. ASSUME NEW q \in OrderId, q # o, q.pos = o.pos, q.intent = o.intent
      PROVE  broker[q] \in {"absent", "dead"}
  <2>1. ~Latest(q) BY <1>3, <1>4 DEF Latest
  <2> QED BY <1>1, <2>1 DEF RowOK, MatchOK
<1> QED BY <1>2, <1>3, <1>4

\* What a step may do at the broker.
LEMMA BrokerMoves ==
  ASSUME BrokerInv, OneThread, OnlyCrashes, [Next]_vars
  PROVE  \/ UNCHANGED brokerVars
         \/ \E o \in OrderId :
              /\ UNCHANGED <<rows, position, fed>>
              /\ \/ /\ Send("main") /\ o = Hand
                    /\ broker[o] = "absent" /\ broker' = [broker EXCEPT ![o] = "live"]
                    /\ UNCHANGED <<done, held>>
                 \/ /\ broker[o] = "live" /\ broker' = [broker EXCEPT ![o] = "dead"]
                    /\ UNCHANGED <<done, held>>
                 \/ Fill(o) /\ broker[o] = "live"
<1> USE DEF BrokerInv, BookInv
<1>m. \A t \in Threads : t = "main" BY Types
<1>h. pc["main"] \in WorkingPC \cup SendingPC => Hand \in OrderId BY HandIsOrder
<1>1. CASE Cancel
  BY <1>1, <1>h DEF Cancel, AfterCancel, OnlyCrashes, Hand, WorkingPC, storeVars
<1>2. CASE CancelFails BY <1>2 DEF CancelFails, OnlyCrashes, brokerVars
<1>3. CASE Send("main") BY <1>3, <1>h DEF Send, Hand, SendingPC, storeVars
<1>4. ASSUME NEW o \in OrderId, Fill(o)
      PROVE  broker[o] = "live" /\ UNCHANGED <<rows, position, fed>>
  BY <1>4 DEF Fill, MatchInv, MatchOK, storeVars
<1>5. ASSUME NEW o \in OrderId, Die(o)
      PROVE  /\ broker[o] = "live" /\ broker' = [broker EXCEPT ![o] = "dead"]
             /\ UNCHANGED <<done, held, rows, position, fed>>
  BY <1>5 DEF Die, MatchInv, MatchOK, storeVars
<1>6. \A o : ~PartialFill(o) BY DEF PartialFill, OnlyCrashes
<1> QED BY <1>m, <1>1, <1>2, <1>3, <1>4, <1>5, <1>6, BrokerFrame

\* A row is written off only when the broker has nothing of the order.
LEMMA RowsMoves ==
  ASSUME BrokerInv, OneThread, OnlyCrashes, [Next]_vars
  PROVE  \A o \in OrderId :
           /\ rows'[o] = "none" => rows[o] = "none"
           /\ rows'[o] = "dead" => rows[o] = "dead" \/ broker[o] \in {"absent", "dead"}
<1> USE DEF BrokerInv, BookInv
<1> DEFINE Goal == \A o \in OrderId :
                     /\ rows'[o] = "none" => rows[o] = "none"
                     /\ rows'[o] = "dead" => rows[o] = "dead" \/ broker[o] \in {"absent", "dead"}
<1>t. rows \in [OrderId -> RowStatus] BY Types
<1>m. \A t \in Threads : t = "main" BY Types
<1>1. ASSUME NEW q \in todo, VoidUnconfirmed(q) PROVE Goal
  BY <1>t, <1>1 DEF VoidUnconfirmed, CanFailPoll, OnlyCrashes
<1>2. ASSUME NEW q \in todo, Poll(q) PROVE Goal BY <1>t, <1>2 DEF Poll
<1>3. CASE FillRow BY <1>t, <1>3 DEF FillRow, ResolveRow
<1>4. CASE DeadRow \/ CancelRow
  BY <1>t, <1>4 DEF DeadRow, CancelRow, ResolveRow, MatchInv, SentInv, Hand
<1>5. CASE Record("main") \/ Ack("main") BY <1>t, <1>5 DEF Record, Ack
<1>6. CASE Nack("main") BY <1>t, <1>6 DEF Nack, MatchInv, SentInv, Hand
<1>7. ASSUME \/ UNCHANGED storeVars
             \/ FillPosition \/ FeedLearners \/ FailEntry \/ BumpAttempt \/ Reopen
             \/ Rung \/ Enforce \/ CloseRow("main") \/ EnterRow("main")
      PROVE  UNCHANGED rows
  BY <1>7 DEF storeVars, FillPosition, FeedLearners, FailEntry, BumpAttempt, Reopen, Rung,
              Enforce, CloseRow, EnterRow
<1> QED BY <1>m, <1>1, <1>2, <1>3, <1>4, <1>5, <1>6, <1>7, StoreFrame

\* The rows and the broker agree after every step.
LEMMA MatchStep ==
  ASSUME BrokerInv, OneThread, OnlyCrashes, [Next]_vars
  PROVE  \A o \in OrderId : MatchOK(o)'
<1> SUFFICES ASSUME NEW o \in OrderId PROVE MatchOK(o)'
  OBVIOUS
<1> USE DEF BrokerInv, BookInv
<1>t. /\ broker \in [OrderId -> BrokerStatus] /\ done \in [OrderId -> 0..Qty]
      /\ rows \in [OrderId -> RowStatus]
  BY Types DEF BackingInv, TypeOK, BrokerTypeOK
<1>i. MatchOK(o) BY DEF MatchInv
<1>r. /\ rows'[o] = "none" => rows[o] = "none"
      /\ rows'[o] = "dead" => rows[o] = "dead" \/ broker[o] \in {"absent", "dead"}
  BY RowsMoves
<1>1. CASE UNCHANGED brokerVars BY <1>i, <1>r, <1>1 DEF brokerVars, MatchOK
<1>2. ASSUME NEW q \in OrderId, UNCHANGED rows, Send("main"), q = Hand, broker[q] = "absent",
             broker' = [broker EXCEPT ![q] = "live"], UNCHANGED done
      PROVE  MatchOK(o)'
  <2>1. rows[q] = "pending" BY <1>2 DEF Send, HandInv, SendingPC
  <2> QED BY <1>t, <1>i, <1>2, <2>1 DEF MatchOK
<1>3. ASSUME NEW q \in OrderId, UNCHANGED rows, broker[q] = "live",
             broker' = [broker EXCEPT ![q] = "dead"], UNCHANGED done
      PROVE  MatchOK(o)'
  BY <1>t, <1>i, <1>3 DEF MatchOK
<1>4. ASSUME NEW q \in OrderId, UNCHANGED rows, Fill(q), broker[q] = "live" PROVE MatchOK(o)'
  BY <1>t, <1>i, <1>4 DEF MatchOK, Fill
<1> QED BY <1>1, <1>2, <1>3, <1>4, BrokerMoves

\* What is held was bought once and sold at most once.
LEMMA HeldStep ==
  ASSUME BrokerInv, OneThread, OnlyCrashes, [Next]_vars
  PROVE  \A p \in Positions : HeldOK(p)'
<1> SUFFICES ASSUME NEW p \in Positions PROVE HeldOK(p)'
  OBVIOUS
<1> USE DEF BrokerInv, BookInv
<1>t. /\ broker \in [OrderId -> BrokerStatus] /\ done \in [OrderId -> 0..Qty]
      /\ held \in [Positions -> Int]
  BY DEF BackingInv, TypeOK, BrokerTypeOK
<1>o. \A o \in OrderId : o.pos \in Positions /\ o.intent \in {"open", "close"} BY OrderFields
<1>i. HeldOK(p) /\ \A o \in OrderId : MatchOK(o) BY DEF MatchInv
<1>1. ASSUME \A o \in OrderId : broker'[o] = "filled" <=> broker[o] = "filled", UNCHANGED held
      PROVE  HeldOK(p)'
  <2>1. Entered' = Entered /\ Exited' = Exited BY <1>1 DEF Entered, Exited, FilledFor
  <2> QED BY <1>i, <1>1, <2>1 DEF HeldOK
<1>2. CASE UNCHANGED brokerVars BY <1>1, <1>2 DEF brokerVars
<1>3. ASSUME NEW o \in OrderId, UNCHANGED held,
             \/ broker[o] = "absent" /\ broker' = [broker EXCEPT ![o] = "live"]
             \/ broker[o] = "live" /\ broker' = [broker EXCEPT ![o] = "dead"]
      PROVE  HeldOK(p)'
  BY <1>t, <1>1, <1>3
<1>4. ASSUME NEW o \in OrderId, Fill(o), broker[o] = "live" PROVE HeldOK(p)'
  <2>1. /\ InTransit(o)
        /\ \A q \in OrderId :
             q.pos = o.pos /\ q.intent = o.intent => broker[q] # "filled"
    BY <1>4, WorkingAlone
  <2>2. /\ broker' = [broker EXCEPT ![o] = "filled"] /\ done[o] = 0
        /\ held' = [held EXCEPT ![o.pos] = @ + Signed(o, Qty)]
    <3>1. done[o] = 0 BY <1>i, <1>4 DEF MatchOK
    <3>2. Qty - done[o] = Qty BY <3>1, BoundsAssumption
    <3> QED BY <1>4, <3>1, <3>2 DEF Fill
  <2>3. CASE p # o.pos
    <3>1. held'[p] = held[p] BY <1>t, <1>o, <2>2, <2>3
    <3>2. (p \in Entered' <=> p \in Entered) /\ (p \in Exited' <=> p \in Exited)
      BY <1>t, <2>2, <2>3 DEF Entered, Exited, FilledFor
    <3> QED BY <1>i, <3>1, <3>2 DEF HeldOK
  <2>4. CASE p = o.pos /\ o.intent = "open"
    <3>1. p \notin Entered BY <2>1, <2>4 DEF Entered, FilledFor
    <3>2. p \notin Exited
      <4>1. ASSUME NEW q \in OrderId, q.intent = "close", broker[q] = "filled" PROVE q.pos # p
        BY <3>1, <4>1 DEF BackingInv, RecordsBacked, Closing
      <4> QED BY <4>1 DEF Exited, FilledFor
    <3>3. p \in Entered' BY <1>t, <2>2, <2>4 DEF Entered, FilledFor
    <3>4. p \notin Exited' BY <1>t, <2>2, <2>4, <3>2 DEF Exited, FilledFor
    <3>5. held'[p] = Qty
      BY <1>t, <1>i, <2>2, <2>4, <3>1, BoundsAssumption DEF HeldOK, Signed
    <3> QED BY <3>3, <3>4, <3>5 DEF HeldOK
  <2>5. CASE p = o.pos /\ o.intent = "close"
    <3>1. p \in Entered BY <1>4, <2>5 DEF BackingInv, RecordsBacked, Closing
    <3>2. p \notin Exited BY <2>1, <2>5 DEF Exited, FilledFor
    <3>3. p \in Exited' BY <1>t, <2>2, <2>5 DEF Exited, FilledFor
    <3>4. held'[p] = 0
      BY <1>t, <1>i, <2>2, <2>5, <3>1, <3>2, BoundsAssumption DEF HeldOK, Signed
    <3> QED BY <3>3, <3>4 DEF HeldOK
  <2> QED BY <1>o, <2>3, <2>4, <2>5
<1> QED BY <1>2, <1>3, <1>4, BrokerMoves

\* Whoever is about to write an order off knows that it is over.
LEMMA SentStep ==
  ASSUME BrokerInv, OneThread, OnlyCrashes, [Next]_vars
  PROVE  SentInv'
<1> USE DEF BrokerInv, BookInv
<1> DEFINE Settling == {"ondead", "expired", "conceded", "send", "nack"}
<1>t. /\ "main" \in Threads /\ pc \in [Threads -> MainPC \cup AnyPC]
      /\ cur \in [Threads -> OrderId \cup {None}]
      /\ ret \in [Threads -> {"idle", "sync", "sweep", "manage", "story"}]
      /\ broker \in [OrderId -> BrokerStatus] /\ rows \in [OrderId -> RowStatus]
  BY Types DEF BackingInv, TypeOK, BrokerTypeOK
<1>m. \A t \in Threads : t = "main" BY Types
<1>i. SentInv /\ \A o \in OrderId : MatchOK(o) BY DEF MatchInv
<1>h. pc["main"] \in ResolvingPC \cup WorkingPC \cup SendingPC \cup {"record"} => Hand \in OrderId
  BY HandIsOrder
<1>1. CASE pc'["main"] \notin Settling BY <1>1 DEF SentInv
<1>2. CASE UNCHANGED <<broker, pc, cur>> BY <1>i, <1>2 DEF SentInv, Hand
<1>3. ASSUME NEW o \in OrderId, Fill(o) \/ PartialFill(o) \/ Die(o) PROVE SentInv'
  <2>1. broker[o] \in {"live", "canceling"} /\ UNCHANGED <<pc, cur>>
        /\ (UNCHANGED broker \/ \E s : broker' = [broker EXCEPT ![o] = s])
    BY <1>3 DEF Fill, PartialFill, Die
  <2>2. pc["main"] \in Settling => o # Hand /\ Hand \in OrderId
    BY <1>i, <1>h, <2>1 DEF SentInv, ResolvingPC, WorkingPC, SendingPC
  <2> QED BY <1>t, <1>i, <2>1, <2>2 DEF SentInv, Hand
<1>4. ASSUME NEW o \in todo, Poll(o) PROVE SentInv'
  <2>1. CASE HandlerOf(broker[o]) = "sync"
    <3>1. pc'["main"] = "sync" BY <1>t, <1>4, <2>1 DEF Poll, Goto
    <3> QED BY <1>1, <3>1
  <2>2. CASE HandlerOf(broker[o]) # "sync"
    <3>1. Call("main", HandlerOf(broker[o]), o, "sync") /\ UNCHANGED broker
      BY <1>4, <2>2 DEF Poll, brokerVars
    <3>2. pc'["main"] = HandlerOf(broker[o]) /\ Hand' = o BY <1>t, <3>1 DEF Call, Hand
    <3> QED BY <3>1, <3>2 DEF SentInv, HandlerOf
  <2> QED BY <2>1, <2>2
<1>5. ASSUME NEW r \in orphans, SweepOne(r) PROVE SentInv'
  <2>1. CASE UNCHANGED <<pc, cur>> BY <1>2, <1>5, <2>1 DEF SweepOne, brokerVars
  <2>2. CASE ~(UNCHANGED <<pc, cur>>)
    <3>1. PICK o : /\ o = latest[r[1]][r[2]] /\ o # None /\ rows[o] \in {"filled", "dead"}
                   /\ Call("main", HandlerOf(rows[o]), o, "sweep")
      BY <1>5, <2>2 DEF SweepOne
    <3>2. r[1] \in Positions /\ r[2] \in {"open", "close"} /\ o \in OrderId
      BY <1>5, <3>1, Types DEF SweepOne
    <3>3. pc'["main"] = HandlerOf(rows[o]) /\ Hand' = o BY <1>t, <3>1 DEF Call, Hand
    <3>4. UNCHANGED broker BY <1>5 DEF SweepOne, brokerVars
    <3> QED BY <1>i, <3>1, <3>2, <3>3, <3>4 DEF SentInv, HandlerOf, MatchOK
  <2> QED BY <2>1, <2>2
<1>6. CASE Cancel
  <2>1. Hand \in OrderId /\ broker' = [broker EXCEPT ![Hand] = "dead"]
    BY <1>h, <1>6 DEF Cancel, AfterCancel, OnlyCrashes, WorkingPC, Hand
  <2>2. pc'["main"] \in {"expired", "conceded"} /\ Hand' = Hand
    BY <1>t, <1>6 DEF Cancel, Goto, Hand
  <2> QED BY <1>t, <2>1, <2>2 DEF SentInv
<1>7. CASE Record("main")
  <2>1. rows[Hand] = "none" /\ Hand \in OrderId BY <1>h, <1>7 DEF Record, HandInv, Fresh
  <2>2. pc'["main"] = "send" /\ Hand' = Hand /\ UNCHANGED broker
    BY <1>t, <1>7, <2>1 DEF Record, Goto, Hand, brokerVars
  <2> QED BY <1>i, <2>1, <2>2 DEF SentInv, MatchOK
<1>8. CASE Send("main")
  <2>1. pc'["main"] = "ack" BY <1>t, <1>8 DEF Send, Goto, OnlyCrashes
  <2> QED BY <1>1, <2>1
<1>9. CASE SendFails("main")
  <2>1. pc["main"] = "send" /\ pc'["main"] = "nack" /\ Hand' = Hand /\ UNCHANGED broker
    BY <1>t, <1>9 DEF SendFails, Goto, Hand, brokerVars
  <2> QED BY <1>i, <2>1 DEF SentInv
<1>10. ASSUME NEW o, PollFails(o) \/ VoidUnconfirmed(o) PROVE UNCHANGED <<broker, pc, cur>>
  BY <1>10 DEF PollFails, VoidUnconfirmed, brokerVars
<1>11. ASSUME NEW p, Hold("main", p) \/ Exit("main", p) \/ News("main", p)
       PROVE  pc'["main"] \notin Settling
  BY <1>t, <1>11 DEF Hold, Exit, News, Goto
<1>12. ASSUME \/ StartTick \/ StartSweep \/ EndSweep \/ ReadBroker \/ Enforce \/ EnforceFails
              \/ StartManage \/ SkipManage \/ EndManage \/ Crash
       PROVE  pc'["main"] \notin Settling
  BY <1>t, <1>12
     DEF StartTick, StartSweep, EndSweep, ReadBroker, Enforce, EnforceFails, StartManage,
         SkipManage, EndManage, Crash, Goto
<1>13. ASSUME \/ FillRow \/ FillPosition \/ FeedLearners \/ DeadRow \/ FailEntry \/ BumpAttempt
              \/ Reopen \/ Rest \/ Expire \/ Concede \/ CancelFails \/ CancelRow \/ Rung
       PROVE  pc'["main"] \notin Settling
  BY <1>t, <1>13
     DEF FillRow, FillPosition, FeedLearners, DeadRow, DeadBranch, FailEntry, BumpAttempt, Reopen,
         Rest, Expire, Concede, CancelFails, CancelRow, Rung, Goto, Call, Resume, Leave
<1>14. ASSUME \/ CloseRow("main") \/ Ack("main") \/ Nack("main") \/ Drop("main")
              \/ Approve("main") \/ EnterRow("main")
       PROVE  pc'["main"] \notin Settling
  BY <1>t, <1>14 DEF CloseRow, Ack, Nack, Drop, Approve, EnterRow, Goto, Call, Resume, Leave
<1>15. CASE UNCHANGED vars BY <1>2, <1>15 DEF vars, brokerVars
<1> HIDE DEF Settling
<1> QED BY <1>m, <1>1, <1>2, <1>3, <1>4, <1>5, <1>6, <1>7, <1>8, <1>9, <1>10, <1>11, <1>12, <1>13,
           <1>14, <1>15
   DEF Next, MainLoop, Sync, Voiding, Handle, Manage, Story, Walk, Submit, Broker

-----------------------------------------------------------------------------
(* The theorems of the broker.                                             *)

\* Nothing was ever sent, nothing is held.
LEMMA BrokerInvInit ==
  ASSUME OneThread, Init
  PROVE  BrokerInv
<1>1. BookInv BY BookInvInit
<1>2. \A o \in OrderId : MatchOK(o) BY DEF Init, MatchOK
<1>3. \A p \in Positions : HeldOK(p) BY DEF Init, HeldOK, Entered, FilledFor
<1>4. SentInv BY ThreadsAssumption DEF Init, SentInv
<1> QED BY <1>1, <1>2, <1>3, <1>4 DEF BrokerInv, MatchInv

\* When nothing but the process fails, the rows and the broker agree for ever.
THEOREM BrokerHolds ==
  ASSUME OneThread, OnlyCrashes
  PROVE  Spec => []BrokerInv
<1>1. Init => BrokerInv BY BrokerInvInit
<1>2. ASSUME BrokerInv, [Next]_vars PROVE BrokerInv'
  <2>1. BookInv' BY <1>2, BookInvStep DEF BrokerInv
  <2> QED BY <1>2, <2>1, MatchStep, HeldStep, SentStep DEF BrokerInv, MatchInv
<1>3. BrokerInv /\ [Next]_vars => BrokerInv' BY <1>2
<1> QED BY <1>1, <1>3, PTL DEF Spec

\* No fill is doubled and none is undone twice: the broker never holds more of
\* a position than was ordered once, nor is short of it, through every rung,
\* void, sweep and restart.
THEOREM NothingDoubled ==
  ASSUME OneThread, OnlyCrashes
  PROVE  Spec => []ExposureBounded
<1>1. BrokerInv => ExposureBounded
  BY BoundsAssumption DEF BrokerInv, MatchInv, HeldOK, ExposureBounded
<1> QED BY <1>1, BrokerHolds, PTL

\* How the broker's side of a trip reads off the orders that filled.
LEMMA MarketReads ==
  BrokerInv =>
    \A p \in Positions :
      Market(p) = IF p \notin Entered THEN "flat"
                  ELSE IF p \notin Exited THEN "bought" ELSE "sold"
<1> SUFFICES ASSUME BrokerInv, NEW p \in Positions
             PROVE  Market(p) = IF p \notin Entered THEN "flat"
                                ELSE IF p \notin Exited THEN "bought" ELSE "sold"
  OBVIOUS
<1>1. HeldOK(p) BY DEF BrokerInv, MatchInv
<1>2. p \in Exited => p \in Entered
  BY DEF Exited, FilledFor, BrokerInv, BookInv, BackingInv, RecordsBacked, Closing
<1> QED BY <1>1, <1>2, BoundsAssumption DEF HeldOK, Market

\* The same of the state that a step ends in.
LEMMA MarketReadsNext ==
  BrokerInv' =>
    \A p \in Positions :
      Market(p)' = IF p \notin Entered' THEN "flat"
                   ELSE IF p \notin Exited' THEN "bought" ELSE "sold"
<1> SUFFICES ASSUME BrokerInv', NEW p \in Positions
             PROVE  Market(p)' = IF p \notin Entered' THEN "flat"
                                 ELSE IF p \notin Exited' THEN "bought" ELSE "sold"
  OBVIOUS
<1>1. HeldOK(p)' BY DEF BrokerInv, MatchInv
<1>2. p \in Exited' => p \in Entered'
  BY DEF Exited, FilledFor, BrokerInv, BookInv, BackingInv, RecordsBacked, Closing
<1> QED BY <1>1, <1>2, BoundsAssumption DEF HeldOK, Market

\* A fill is the market's side of a trip: it sells us a position that we trade
\* and do not hold yet, or buys back one that we hold.
LEMMA FillIsTrade ==
  ASSUME BrokerInv, BrokerInv', NEW o \in OrderId, Fill(o), broker[o] = "live", OneThread
  PROVE  Trip!Buy(o.pos) \/ Trip!Sell(o.pos)
<1> USE DEF BrokerInv, BookInv
<1>t. broker \in [OrderId -> BrokerStatus] BY DEF BackingInv, TypeOK, BrokerTypeOK
<1>o. o.pos \in Positions /\ o.intent \in {"open", "close"} BY OrderFields
<1>1. /\ InTransit(o)
      /\ \A q \in OrderId : q.pos = o.pos /\ q.intent = o.intent => broker[q] # "filled"
  BY WorkingAlone
<1>2. broker' = [broker EXCEPT ![o] = "filled"] /\ UNCHANGED <<position, fed>>
  BY DEF Fill, storeVars
<1>3. /\ o.intent = "close" => o.pos \in Entered
      /\ \A q \in OrderId : q.intent = "close" /\ broker[q] = "filled" => q.pos \in Entered
  BY DEF BackingInv, RecordsBacked, Closing
<1>4. \A p \in Positions :
        /\ Market(p) = IF p \notin Entered THEN "flat"
                       ELSE IF p \notin Exited THEN "bought" ELSE "sold"
        /\ Market(p)' = IF p \notin Entered' THEN "flat"
                        ELSE IF p \notin Exited' THEN "bought" ELSE "sold"
  BY MarketReads, MarketReadsNext
<1>5. \A p \in Positions :
        /\ p \in Entered' <=> p \in Entered \/ (p = o.pos /\ o.intent = "open")
        /\ p \in Exited' <=> p \in Exited \/ (p = o.pos /\ o.intent = "close")
  BY <1>t, <1>2 DEF Entered, Exited, FilledFor
<1>6. \A p \in Positions : Book(p)' = Book(p) BY <1>2 DEF Book
<1>7. CASE o.intent = "open"
  <2>1. o.pos \notin Entered /\ o.pos \notin Exited
    BY <1>1, <1>3, <1>7 DEF Entered, Exited, FilledFor
  <2>2. Market(o.pos) = "flat" /\ Market(o.pos)' = "bought" /\ Book(o.pos) = "trading"
    BY <1>o, <1>1, <1>4, <1>5, <1>7, <2>1 DEF Book, InTransit, Transition
  <2>3. \A p \in Positions : p # o.pos => Market(p)' = Market(p) BY <1>4, <1>5
  <2> QED BY <1>o, <1>2, <1>6, <2>2, <2>3 DEF Trip!Buy
<1>8. CASE o.intent = "close"
  <2>1. o.pos \in Entered /\ o.pos \notin Exited
    BY <1>1, <1>3, <1>8 DEF Exited, FilledFor
  <2>2. Market(o.pos) = "bought" /\ Market(o.pos)' = "sold" /\ Book(o.pos) = "trading"
    BY <1>o, <1>1, <1>4, <1>5, <1>8, <2>1 DEF Book, InTransit, Transition
  <2>3. \A p \in Positions : p # o.pos => Market(p)' = Market(p) BY <1>4, <1>5
  <2> QED BY <1>o, <1>2, <1>6, <2>2, <2>3 DEF Trip!Sell
<1> QED BY <1>o, <1>7, <1>8

\* Every step of the lifecycle is a step of a trip, or none that it can see.
LEMMA TripStep ==
  ASSUME BrokerInv, BrokerInv', OneThread, OnlyCrashes, [Next]_vars
  PROVE  [Trip!Next]_(Trip!vars)
<1> USE DEF BrokerInv, BookInv
<1>t. /\ position \in [Positions -> PositionStatus] /\ fed \in [Positions -> Nat]
      /\ broker \in [OrderId -> BrokerStatus]
  BY Types DEF BackingInv, TypeOK, BrokerTypeOK
<1>m. \A t \in Threads : t = "main" BY Types
<1>h. pc["main"] \in {"fillpos", "fail", "reopen", "feed"} =>
        Hand \in OrderId /\ Hand.pos \in Positions /\ Hand.intent \in {"open", "close"}
  BY HandIsOrder DEF ResolvingPC
<1>k. \A p \in Positions :
        Market(p) = IF p \notin Entered THEN "flat"
                    ELSE IF p \notin Exited THEN "bought" ELSE "sold"
  BY MarketReads
<1>1. ASSUME UNCHANGED brokerVars PROVE \A p \in Positions : Market(p)' = Market(p)
  BY <1>1 DEF brokerVars, Market, Exited, FilledFor
<1>2. ASSUME UNCHANGED <<position, fed>>, \A p \in Positions : Market(p)' = Market(p)
      PROVE  UNCHANGED Trip!vars
  BY <1>2 DEF Trip!vars, Book
<1>3. CASE ~(UNCHANGED brokerVars)
  <2>1. PICK o \in OrderId :
          /\ UNCHANGED <<rows, position, fed>>
          /\ \/ /\ broker[o] = "absent" /\ broker' = [broker EXCEPT ![o] = "live"]
                /\ UNCHANGED held
             \/ /\ broker[o] = "live" /\ broker' = [broker EXCEPT ![o] = "dead"]
                /\ UNCHANGED held
             \/ Fill(o) /\ broker[o] = "live"
    BY <1>3, BrokerMoves
  <2>2. CASE UNCHANGED held /\ ~Fill(o)
    <3>1. Exited' = Exited BY <1>t, <2>1, <2>2 DEF Exited, FilledFor
    <3> QED BY <1>2, <2>1, <2>2, <3>1 DEF Market
  <2>3. CASE Fill(o) /\ broker[o] = "live"
    <3>1. o.pos \in Positions BY OrderFields
    <3> QED BY <2>3, <3>1, FillIsTrade DEF Trip!Next
  <2> QED BY <2>1, <2>2, <2>3 DEF Fill
<1>4. CASE FillPosition
  <2>1. /\ pc["main"] = "fillpos" /\ rows[Hand] = "filled" /\ InTransit(Hand)
        /\ UNCHANGED <<brokerVars, fed>>
    BY <1>4 DEF FillPosition, HandInv, ResolvingPC
  <2>2. CASE Hand.intent = "open"
    <3>1. position' = [position EXCEPT ![Hand.pos] = "open"]
      BY <1>4, <2>2 DEF FillPosition, SetPosition, Hand
    <3>2. \A p \in Positions : Book(p)' = Book(p)
      BY <1>t, <1>h, <2>1, <2>2, <3>1 DEF Book, InTransit, Transition
    <3> QED BY <1>1, <2>1, <3>2 DEF Trip!vars
  <2>3. CASE Hand.intent = "close"
    <3>1. position' = [position EXCEPT ![Hand.pos] = "closed"]
      BY <1>4, <2>3 DEF FillPosition, SetPosition, Hand
    <3>2. Hand.pos \in Exited /\ Hand.pos \in Entered
      BY <1>h, <2>1, <2>3
         DEF BackingInv, RecordsBacked, Closing, Exited, FilledFor
    <3>3. Market(Hand.pos) = "sold" BY <1>h, <1>k, <2>1, <3>2
    <3>4. Book(Hand.pos) = "trading" BY <2>1, <2>3 DEF Book, InTransit, Transition
    <3>5. \A p \in Positions : Book(p)' = IF p = Hand.pos THEN "closed" ELSE Book(p)
      BY <1>t, <1>h, <2>1, <3>1 DEF Book
    <3>6. Trip!Close(Hand.pos)
      BY <1>h, <1>1, <2>1, <3>3, <3>4, <3>5 DEF Trip!Close
    <3> QED BY <1>h, <2>1, <3>6 DEF Trip!Next
  <2> QED BY <1>h, <2>1, <2>2, <2>3
<1>5. CASE FailEntry
  <2>1. /\ pc["main"] = "fail" /\ rows[Hand] = "dead" /\ InTransit(Hand) /\ Latest(Hand)
        /\ Hand.intent = "open" /\ UNCHANGED <<brokerVars, fed>>
        /\ position' = [position EXCEPT ![Hand.pos] = "failed"]
    BY <1>5 DEF FailEntry, HandInv, ResolvingPC, SetPosition, Hand
  <2>2. ASSUME NEW q \in OrderId, q.pos = Hand.pos, q.intent = "open" PROVE broker[q] # "filled"
    <3>1. rows[q] \in {"none", "dead"} BY <2>1, <2>2 DEF RowsInv, RowOK, Latest
    <3> QED BY <3>1 DEF MatchInv, MatchOK
  <2>3. Market(Hand.pos) = "flat" /\ Book(Hand.pos) = "trading"
    BY <1>h, <1>k, <2>1, <2>2 DEF Entered, FilledFor, Book, InTransit, Transition
  <2>4. \A p \in Positions : Book(p)' = IF p = Hand.pos THEN "failed" ELSE Book(p)
    BY <1>t, <1>h, <2>1 DEF Book
  <2>5. Trip!Fail(Hand.pos) BY <1>h, <1>1, <2>1, <2>3, <2>4 DEF Trip!Fail
  <2> QED BY <1>h, <2>1, <2>5 DEF Trip!Next
<1>6. CASE Reopen
  <2>1. /\ pc["main"] = "reopen" /\ InTransit(Hand) /\ Hand.intent = "close"
        /\ UNCHANGED <<brokerVars, fed>>
        /\ position' = [position EXCEPT ![Hand.pos] = "open"]
    BY <1>6, HandIsOrder DEF Reopen, HandInv, ResolvingPC, SetPosition, Hand
  <2>2. \A p \in Positions : Book(p)' = Book(p)
    BY <1>t, <1>h, <2>1 DEF Book, InTransit, Transition
  <2> QED BY <1>1, <2>1, <2>2 DEF Trip!vars
<1>7. CASE CloseRow("main") /\ ~(UNCHANGED position)
  <2>1. /\ pid["main"] \in Positions /\ position[pid["main"]] = "open"
        /\ position' = [position EXCEPT ![pid["main"]] = "closing"]
        /\ UNCHANGED <<brokerVars, fed>>
    <3>1. pid["main"] \in Positions /\ position[pid["main"]] = "open"
      BY <1>7, Types DEF CloseRow, BackingInv, ControlOK, ReadInv
    <3> QED BY <1>7, <3>1 DEF CloseRow, SetPosition
  <2>2. \A p \in Positions : Book(p)' = Book(p) BY <1>t, <2>1 DEF Book
  <2> QED BY <1>1, <2>1, <2>2 DEF Trip!vars
<1>8. CASE EnterRow("main")
  <2>1. /\ story["main"] \in Positions /\ position[story["main"]] = "none"
        /\ position' = [position EXCEPT ![story["main"]] = "opening"]
        /\ UNCHANGED <<brokerVars, fed>>
    <3>1. story["main"] \in Positions /\ position[story["main"]] = "none"
      BY <1>8, Types, NoneAssumption DEF EnterRow, ReadInv, BackingInv, ControlOK
    <3> QED BY <1>8, <3>1 DEF EnterRow, SetPosition
  <2>2. Book(story["main"]) = "none" BY <2>1 DEF Book
  <2>3. \A p \in Positions : Book(p)' = IF p = story["main"] THEN "trading" ELSE Book(p)
    BY <1>t, <2>1 DEF Book
  <2>4. Trip!Begin(story["main"]) BY <1>1, <2>1, <2>2, <2>3 DEF Trip!Begin
  <2> QED BY <2>1, <2>4 DEF Trip!Next
<1>9. CASE FeedLearners
  <2>1. /\ pc["main"] = "feed" /\ position[Hand.pos] = "closed" /\ fed[Hand.pos] = 0
        /\ fed' = [fed EXCEPT ![Hand.pos] = @ + 1] /\ UNCHANGED <<brokerVars, position>>
    BY <1>9 DEF FeedLearners, HandInv, Hand
  <2>2. Trip!Learn(Hand.pos) BY <1>t, <1>h, <1>1, <2>1 DEF Trip!Learn, Book
  <2> QED BY <1>h, <2>1, <2>2 DEF Trip!Next
<1>10. ASSUME UNCHANGED brokerVars,
              \/ UNCHANGED storeVars
              \/ \E o \in todo : VoidUnconfirmed(o) \/ Poll(o)
              \/ FillRow \/ DeadRow \/ BumpAttempt \/ CancelRow \/ Rung \/ Enforce
              \/ Record("main") \/ Ack("main") \/ Nack("main")
              \/ CloseRow("main") /\ UNCHANGED position
       PROVE  UNCHANGED Trip!vars
  <2>1. UNCHANGED <<position, fed>>
    BY <1>10 DEF storeVars, VoidUnconfirmed, Poll, FillRow, DeadRow, BumpAttempt, CancelRow, Rung,
                 Enforce, Record, Ack, Nack, CloseRow
  <2> QED BY <1>1, <1>2, <1>10, <2>1
<1> QED BY <1>m, <1>3, <1>4, <1>5, <1>6, <1>7, <1>8, <1>9, <1>10, StoreFrame

\* With the news socket off and nothing failing but the process, the orders,
\* rows, ladders, sweeps and restarts of any number of positions make exactly
\* one trip of each: bought once, sold once, closed when sold, failed when
\* never bought, learned from once.
THEOREM ImplementsRoundTrip ==
  ASSUME OneThread, OnlyCrashes
  PROVE  Spec => MakesRoundTrips
<1>1. Init => Trip!Init
  BY BoundsAssumption DEF Init, Trip!Init, Market, Book, Exited, FilledFor
<1>2. BrokerInv /\ BrokerInv' /\ [Next]_vars => [Trip!Next]_(Trip!vars) BY TripStep
<1> QED BY <1>1, <1>2, BrokerHolds, PTL DEF Spec, MakesRoundTrips, Trip!Spec
=============================================================================
