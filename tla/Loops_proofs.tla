---------------------------- MODULE Loops_proofs ----------------------------
(***************************************************************************)
(* The processes that go round by the clock.                               *)
(*                                                                         *)
(* The supervisor, in an outage.  For every number of threads and every    *)
(* setting of the breaker, the loop and the timeout: the types of Outage,  *)
(* and that a heartbeat goes stale only when it was withheld, as long as a *)
(* tick fits between the poll and the timeout.  The strengthening bounds   *)
(* the heartbeat's age by the time the tick has taken, or by that and the  *)
(* time rested since.  And that the breaker stops a storm: how far a burst *)
(* of failures is over the threshold is bounded by where the threads are   *)
(* in their calls, by whether the breaker was stamped since it tripped,    *)
(* and by its state.                                                       *)
(*                                                                         *)
(* The scheduler.  For every set of predictions, batch and number of       *)
(* crashes: the types of Jobs, and that a job starts once a day and once   *)
(* more for every crash before its mark.  The strengthening says which     *)
(* jobs of the tick's day may still start.                                 *)
(***************************************************************************)
EXTENDS Outage, Jobs, FiniteSetTheorems, SequenceTheorems, TLAPS

-----------------------------------------------------------------------------
(* The supervisor in an outage.                                            *)

\* How old a heartbeat can be that nobody withheld.
AgeInv ==
  ~silenced => IF loop = "resting" THEN age <= MaxSpent + Poll - rest ELSE age <= spent

IInv == TypeOK /\ AgeInv

\* The cap keeps a count in its range and below what it counted to.
LEMMA AtMostType ==
  ASSUME NEW n \in Nat, NEW bound \in Nat
  PROVE  AtMost(n, bound) \in 0 .. bound /\ AtMost(n, bound) <= n
BY DEF AtMost

\* The start.
LEMMA InitIInv == Init => IInv
<1> SUFFICES ASSUME Init PROVE IInv OBVIOUS
<1> USE BreakerAssumption, LoopAssumption
<1>1. age <= MaxSpent + Poll - rest /\ loop = "resting" BY DEF Init
<1>2. AgeInv BY <1>1 DEF AgeInv
<1>3. /\ openFor \in 0 .. Cooldown /\ rest \in 0 .. Poll /\ spent \in 0 .. MaxSpent
      /\ missed \in 0 .. MaxFailures /\ age \in 0 .. Timeout + 1 /\ quiet \in 0 .. Cooldown
      /\ failures \in Nat /\ burst \in Nat
  BY DEF Init
<1>4. TypeOK BY <1>3 DEF Init, TypeOK
<1> QED BY <1>2, <1>4 DEF IInv

\* The breaker touches neither the loop nor the heartbeat.
LEMMA BreakerIInv ==
  ASSUME IInv, NEW t \in Threads, Send(t) \/ Succeed(t) \/ Fail(t) \/ StampOpened(t)
  PROVE  IInv'
<1> USE DEF IInv
<1>1. UNCHANGED <<loopVars, age, halted, looked, silenced>>
  BY DEF Send, Succeed, Fail, StampOpened
<1>2. AgeInv' BY <1>1 DEF AgeInv, loopVars
<1>3. TypeOK'
  <2>1. CASE Send(t) BY <2>1 DEF Send, State, TypeOK, loopVars
  <2>2. CASE Succeed(t) BY <2>2 DEF Succeed, TypeOK, loopVars
  <2>3. CASE Fail(t)
    <3>1. failures' \in Nat
      BY <2>3, AtMostType, BreakerAssumption DEF Fail, TypeOK
    <3>2. state' \in {"closed", "open", "half_open"}
          /\ call' \in [Threads -> {"none", "sent", "opening"}]
      BY <2>3 DEF Fail, TypeOK
    <3>3. burst' \in Nat /\ quiet' \in 0 .. Cooldown
      BY <2>3, BreakerAssumption DEF Fail, TypeOK
    <3> QED BY <1>1, <2>3, <3>1, <3>2, <3>3 DEF Fail, TypeOK, loopVars
  <2>4. CASE StampOpened(t) BY <2>4, BreakerAssumption DEF StampOpened, TypeOK, loopVars
  <2> QED BY <2>1, <2>2, <2>3, <2>4
<1> QED BY <1>2, <1>3

\* Between two beats of the loop the bound follows the tick's own time.
LEMMA LoopIInv == IInv /\ Loop => IInv'
<1> SUFFICES ASSUME IInv, Loop PROVE IInv' OBVIOUS
<1> USE LoopAssumption DEF IInv
<1>1. CASE Beat
  <2>1. age' \in 0 .. Timeout + 1 /\ spent' = 0 /\ 0 \in 0 .. MaxSpent
    BY <1>1 DEF Beat, TypeOK
  <2>2. silenced' \in BOOLEAN /\ loop' = "sync"
        /\ UNCHANGED <<breakerVars, rest, missed, halted, looked, burst, quiet>>
    BY <1>1 DEF Beat, Beats
  <2>3. ~silenced' => age' = 0 BY <1>1 DEF Beat, Beats
  <2>4. AgeInv' BY <2>1, <2>2, <2>3 DEF AgeInv
  <2>5. TypeOK' BY <2>1, <2>2 DEF TypeOK, breakerVars
  <2> QED BY <2>4, <2>5
<1>2. CASE Synced BY <1>2 DEF Synced, TypeOK, AgeInv, breakerVars
<1>3. CASE TickFails
  <2>1. missed' \in 0 .. MaxFailures BY <1>3, AtMostType DEF TickFails, TypeOK
  <2>2. AgeInv' BY <1>3 DEF TickFails, Rest, TypeOK, AgeInv
  <2> QED BY <1>3, <2>1, <2>2 DEF TickFails, Rest, TypeOK, breakerVars
<1>4. CASE Managed BY <1>4 DEF Managed, TypeOK, AgeInv, breakerVars
<1>5. CASE NewsDone
  <2>1. AgeInv' BY <1>5 DEF NewsDone, Rest, TypeOK, AgeInv
  <2> QED BY <1>5, <2>1 DEF NewsDone, Rest, TypeOK, breakerVars
<1> QED BY <1>1, <1>2, <1>3, <1>4, <1>5 DEF Loop

\* A unit of time ages the heartbeat and the tick, or the rest, alike.
LEMMA PassIInv == IInv /\ Pass => IInv'
<1> SUFFICES ASSUME IInv, Pass PROVE IInv' OBVIOUS
<1> USE LoopAssumption, BreakerAssumption DEF IInv
<1>1. age + 1 \in Nat /\ openFor + 1 \in Nat /\ quiet + 1 \in Nat /\ Timeout + 1 \in Nat
  BY DEF TypeOK
<1>2. /\ age' \in 0 .. Timeout + 1 /\ age' <= age + 1
      /\ openFor' \in 0 .. Cooldown /\ quiet' \in 0 .. Cooldown
  BY <1>1, AtMostType DEF Pass
<1>3. TypeOK'
  <2>1. rest' \in 0 .. Poll /\ spent' \in 0 .. MaxSpent BY DEF Pass, TypeOK
  <2>2. UNCHANGED <<state, failures, call, loop, missed, halted, burst, silenced>>
        /\ looked' \in BOOLEAN
    BY DEF Pass
  <2> QED BY <1>2, <2>1, <2>2 DEF TypeOK
<1>4. AgeInv'
  <2>1. CASE loop = "resting" /\ rest > 0 /\ rest' = rest - 1
    BY <1>1, <1>2, <2>1 DEF Pass, TypeOK, AgeInv
  <2>2. CASE loop # "resting" /\ spent' = spent + 1
    BY <1>1, <1>2, <2>2 DEF Pass, TypeOK, AgeInv
  <2> QED BY <2>1, <2>2 DEF Pass
<1> QED BY <1>3, <1>4

\* Every step keeps the strengthened invariant.
LEMMA NextIInv == IInv /\ [Next]_vars => IInv'
<1> SUFFICES ASSUME IInv, [Next]_vars PROVE IInv' OBVIOUS
<1>1. CASE Breaker BY <1>1, BreakerIInv DEF Breaker
<1>2. CASE Loop BY <1>2, LoopIInv
<1>3. CASE SupervisorFails
  BY <1>3 DEF SupervisorFails, IInv, TypeOK, AgeInv, breakerVars, loopVars
<1>4. CASE SupervisorLooks
  BY <1>4 DEF SupervisorLooks, Stale, IInv, TypeOK, AgeInv, breakerVars, loopVars
<1>5. CASE Reset BY <1>5 DEF Reset, IInv, TypeOK, AgeInv, breakerVars, loopVars
<1>6. CASE Pass BY <1>6, PassIInv
<1>7. CASE UNCHANGED vars BY <1>7 DEF vars, IInv, TypeOK, AgeInv, breakerVars, loopVars
<1> QED BY <1>1, <1>2, <1>3, <1>4, <1>5, <1>6, <1>7 DEF Next

-----------------------------------------------------------------------------
(* The storm.                                                              *)

Sent == {t \in Threads : call[t] = "sent"}
Opening == {t \in Threads : call[t] = "opening"}
N == Cardinality(Threads)
Most == Threshold + 2 * (N - 1)

\* No time passes between a failure that trips and its stamp; once tripped and
\* stamped, the breaker is open for as long as nothing has failed.  Someone
\* let it be half open, and is on the way.
TripInv ==
  /\ Opening # {} => quiet = 0
  /\ IF state = "closed" THEN failures < Threshold /\ (quiet < Cooldown => burst <= failures)
     ELSE /\ failures = Threshold
          /\ Opening = {} => openFor = quiet
          /\ state = "half_open" => Sent # {}

\* How far a burst is over the threshold.  Before the stamp, every failure too
\* many has a thread that is still to stamp; after it, half open, any thread
\* may call once more; open again, only those on the way can fail.
BurstInv ==
  /\ burst <= Most
  /\ state # "closed" /\ quiet < Cooldown =>
       IF CooledDown THEN burst <= Threshold + Cardinality(Opening) - 1
       ELSE IF state = "half_open" THEN burst <= Threshold + N - 2
       ELSE burst + Cardinality(Sent) <= Most

StormInv == TypeOK /\ TripInv /\ BurstInv

\* The threads can be counted, those on the way and those about to stamp too.
LEMMA Counts ==
  /\ N \in Nat \ {0}
  /\ Cardinality(Sent) \in 0 .. N /\ Cardinality(Opening) \in 0 .. N
  /\ IsFiniteSet(Sent) /\ IsFiniteSet(Opening)
  /\ Opening = {} <=> Cardinality(Opening) = 0
<1>1. N \in Nat /\ N # 0
  BY ThreadsAssumption, FS_CardinalityType, FS_EmptySet DEF N
<1>2. Sent \in SUBSET Threads /\ Opening \in SUBSET Threads BY DEF Sent, Opening
<1>3. /\ IsFiniteSet(Sent) /\ Cardinality(Sent) <= N
      /\ IsFiniteSet(Opening) /\ Cardinality(Opening) <= N
  BY <1>2, ThreadsAssumption, FS_Subset DEF N
<1> QED BY <1>1, <1>3, FS_CardinalityType, FS_EmptySet

\* One thread goes from one place to another.
LEMMA Moves ==
  ASSUME NEW t \in Threads, call'[t] # call[t], \A u \in Threads \ {t} : call'[u] = call[u]
  PROVE  /\ Cardinality(Sent') = Cardinality(Sent)
              + (IF call'[t] = "sent" THEN 1 ELSE 0) - IF call[t] = "sent" THEN 1 ELSE 0
         /\ Cardinality(Opening') = Cardinality(Opening)
              + (IF call'[t] = "opening" THEN 1 ELSE 0) - IF call[t] = "opening" THEN 1 ELSE 0
         /\ Opening' = {} <=> Cardinality(Opening') = 0
<1>1. /\ Sent' = IF call'[t] = "sent" THEN Sent \cup {t} ELSE Sent \ {t}
      /\ t \in Sent <=> call[t] = "sent"
  BY DEF Sent
<1>2. /\ Opening' = IF call'[t] = "opening" THEN Opening \cup {t} ELSE Opening \ {t}
      /\ t \in Opening <=> call[t] = "opening"
  BY DEF Opening
<1>3. /\ Cardinality(Sent \cup {t}) = IF t \in Sent THEN Cardinality(Sent) ELSE Cardinality(Sent) + 1
      /\ Cardinality(Sent \ {t}) = IF t \in Sent THEN Cardinality(Sent) - 1 ELSE Cardinality(Sent)
  BY Counts, FS_AddElement, FS_RemoveElement
<1>4. /\ Cardinality(Opening \cup {t}) = IF t \in Opening THEN Cardinality(Opening) ELSE Cardinality(Opening) + 1
      /\ Cardinality(Opening \ {t}) = IF t \in Opening THEN Cardinality(Opening) - 1 ELSE Cardinality(Opening)
  BY Counts, FS_AddElement, FS_RemoveElement
<1>5. IsFiniteSet(Opening') BY <1>2, Counts, FS_AddElement, FS_RemoveElement
<1>6. Opening' = {} <=> Cardinality(Opening') = 0 BY <1>5, FS_EmptySet
<1>7. Cardinality(Sent') = Cardinality(Sent)
        + (IF call'[t] = "sent" THEN 1 ELSE 0) - IF call[t] = "sent" THEN 1 ELSE 0
  BY <1>1, <1>3, Counts
<1>8. Cardinality(Opening') = Cardinality(Opening)
        + (IF call'[t] = "opening" THEN 1 ELSE 0) - IF call[t] = "opening" THEN 1 ELSE 0
  BY <1>2, <1>4, Counts
<1> QED BY <1>6, <1>7, <1>8

\* Fewer than all are about to stamp while one is on the way, and the other
\* way round.
LEMMA OneLess ==
  ASSUME NEW t \in Threads
  PROVE  /\ call[t] # "opening" => Cardinality(Opening) <= N - 1
         /\ call[t] # "sent" => Cardinality(Sent) <= N - 1
<1>1. IsFiniteSet(Threads \ {t}) /\ Cardinality(Threads \ {t}) = N - 1
  BY ThreadsAssumption, FS_RemoveElement DEF N
<1>2. call[t] # "opening" => Opening \in SUBSET (Threads \ {t}) BY DEF Opening
<1>3. call[t] # "sent" => Sent \in SUBSET (Threads \ {t}) BY DEF Sent
<1> QED BY <1>1, <1>2, <1>3, FS_Subset

\* The start.
LEMMA InitStorm == Init => StormInv
<1> SUFFICES ASSUME Init PROVE StormInv OBVIOUS
<1>1. TypeOK BY InitIInv DEF IInv
<1>2. Opening = {} BY DEF Init, Opening
<1> QED BY <1>1, <1>2, Counts, BreakerAssumption DEF Init, StormInv, TripInv, BurstInv, Most

\* A call is let through: the breaker is closed, half open, or has cooled down.
LEMMA SendStorm ==
  ASSUME StormInv, TypeOK', NEW t \in Threads, Send(t)
  PROVE  StormInv'
<1>1. /\ call[t] = "none" /\ UNCHANGED <<failures, openFor, burst, quiet>>
      /\ call' = [call EXCEPT ![t] = "sent"]
      /\ \/ state' = state /\ state \in {"closed", "half_open"}
         \/ state = "open" /\ CooledDown /\ state' = "half_open"
  BY DEF Send, MayCall, State, StormInv, TypeOK
<1>2. /\ t \in Sent' /\ Cardinality(Opening') = Cardinality(Opening)
      /\ Opening' = {} <=> Cardinality(Opening') = 0
  <2>1. call'[t] = "sent" /\ \A u \in Threads \ {t} : call'[u] = call[u]
    BY <1>1 DEF StormInv, TypeOK
  <2>2. t \in Sent' BY <2>1 DEF Sent
  <2> QED BY <1>1, <2>1, <2>2, Moves, Counts
<1>3. Opening' = {} <=> Opening = {} BY <1>2, Counts
<1>4. TripInv' BY <1>1, <1>2, <1>3 DEF StormInv, TripInv
<1>5. BurstInv' BY <1>1, <1>2 DEF StormInv, BurstInv, CooledDown, Most, N
<1> QED BY <1>4, <1>5 DEF StormInv

\* A call succeeds, and all is forgotten.
LEMMA SucceedStorm ==
  ASSUME StormInv, TypeOK', NEW t \in Threads, Succeed(t)
  PROVE  StormInv'
<1>1. /\ call[t] = "sent" /\ UNCHANGED <<openFor, quiet>> /\ failures' = 0 /\ burst' = 0
      /\ call' = [call EXCEPT ![t] = "none"] /\ state' = "closed"
  BY DEF Succeed
<1>2. /\ Cardinality(Opening') = Cardinality(Opening)
      /\ Opening' = {} <=> Cardinality(Opening') = 0
  <2>1. call'[t] = "none" /\ \A u \in Threads \ {t} : call'[u] = call[u]
    BY <1>1 DEF StormInv, TypeOK
  <2> QED BY <1>1, <2>1, Moves, Counts
<1>3. Opening' = {} <=> Opening = {} BY <1>2, Counts
<1>4. TripInv' BY <1>1, <1>3, BreakerAssumption DEF StormInv, TripInv
<1>5. BurstInv' BY <1>1, Counts, BreakerAssumption DEF BurstInv, Most, N
<1> QED BY <1>4, <1>5 DEF StormInv

\* A call fails.  Only the failure that trips can be one too many, and who
\* tripped is about to stamp.
LEMMA FailStorm ==
  ASSUME StormInv, TypeOK', NEW t \in Threads, Fail(t)
  PROVE  StormInv'
<1> DEFINE b == IF quiet >= Cooldown THEN 0 ELSE burst
           o == Cardinality(Opening)
           s == Cardinality(Sent)
<1>1. /\ call[t] = "sent" /\ UNCHANGED openFor /\ failures' = AtMost(failures + 1, Threshold)
      /\ burst' = b + 1 /\ quiet' = 0
  BY DEF Fail
<1>2. /\ N \in Nat \ {0} /\ o \in 0 .. N - 1 /\ s \in 1 .. N /\ N' = N
      /\ Threshold \in Nat \ {0} /\ Cooldown \in Nat \ {0}
      /\ burst \in Nat /\ failures \in Nat /\ quiet \in 0 .. Cooldown /\ openFor \in 0 .. Cooldown
  <2>1. o <= N - 1 BY <1>1, OneLess
  <2>2. t \in Sent BY <1>1 DEF Sent
  <2>3. s # 0 BY <2>2, Counts, FS_EmptySet
  <2> QED BY <2>1, <2>3, Counts, BreakerAssumption DEF StormInv, TypeOK, N
<1>3. CASE ~Trips
  <2>1. UNCHANGED state /\ call' = [call EXCEPT ![t] = "none"] BY <1>3 DEF Fail
  <2>2. state = "closed" /\ failures + 1 < Threshold
    BY <1>2, <1>3 DEF Trips, StormInv, TripInv, TypeOK
  <2>3. failures' = failures + 1 BY <1>1, <1>2, <2>2 DEF AtMost
  <2>4. b <= failures BY <1>2, <2>2 DEF StormInv, TripInv
  <2>5. TripInv' BY <1>1, <1>2, <2>1, <2>2, <2>3, <2>4 DEF TripInv
  <2>6. BurstInv' BY <1>1, <1>2, <2>1, <2>2, <2>4 DEF BurstInv, Most
  <2> QED BY <2>5, <2>6 DEF StormInv
<1>4. CASE Trips
  <2>1. state' = "open" /\ call' = [call EXCEPT ![t] = "opening"] BY <1>4 DEF Fail
  <2>2. /\ Cardinality(Opening') = o + 1 /\ Cardinality(Sent') = s - 1
        /\ Opening' = {} <=> Cardinality(Opening') = 0
    <3>1. call'[t] = "opening" /\ \A u \in Threads \ {t} : call'[u] = call[u]
      BY <2>1 DEF StormInv, TypeOK
    <3> QED BY <1>1, <1>2, <3>1, Moves
  <2>3. Opening' # {} BY <1>2, <2>2
  <2>4. failures + 1 >= Threshold BY <1>2, <1>4 DEF Trips, StormInv, TripInv
  <2>5. failures' = Threshold
    <3>1. state = "closed" => failures < Threshold BY DEF StormInv, TripInv
    <3>2. state # "closed" => failures = Threshold BY DEF StormInv, TripInv
    <3> QED BY <1>1, <1>2, <2>4, <3>1, <3>2 DEF AtMost
  <2>6. TripInv' BY <1>1, <2>1, <2>3, <2>5 DEF TripInv
  <2>7. /\ CooledDown => b <= Threshold + o - 1
        /\ ~CooledDown => b + s <= Most
    <3>1. CASE quiet >= Cooldown BY <1>2, <3>1 DEF Most
    <3>2. CASE quiet < Cooldown /\ state = "closed"
      BY <1>2, <3>2 DEF StormInv, TripInv, Most
    <3>3. CASE quiet < Cooldown /\ state = "half_open"
      BY <1>2, <3>3 DEF StormInv, BurstInv, Most
    <3>4. CASE quiet < Cooldown /\ state = "open"
      BY <1>2, <3>4 DEF StormInv, BurstInv, Most
    <3> QED BY <1>2, <3>1, <3>2, <3>3, <3>4 DEF StormInv, TypeOK
  <2>8. CooledDown' <=> CooledDown BY <1>1 DEF CooledDown
  <2>9. burst' <= Most BY <1>1, <1>2, <2>7 DEF Most
  <2>10. IF CooledDown' THEN burst' <= Threshold + Cardinality(Opening') - 1
         ELSE burst' + Cardinality(Sent') <= Most
    <3> HIDE DEF b, o, s
    <3>1. b \in Nat BY <1>2 DEF b
    <3> QED BY <1>1, <1>2, <2>2, <2>7, <2>8, <3>1 DEF Most
  <2>11. Most' = Most BY <1>2 DEF Most
  <2>12. BurstInv' BY <2>1, <2>9, <2>10, <2>11 DEF BurstInv
  <2> QED BY <2>6, <2>12 DEF StormInv
<1> QED BY <1>3, <1>4

\* The stamp: the breaker has not cooled down any more.
LEMMA StampStorm ==
  ASSUME StormInv, TypeOK', NEW t \in Threads, StampOpened(t)
  PROVE  StormInv'
<1> DEFINE o == Cardinality(Opening)
           s == Cardinality(Sent)
<1>1. /\ call[t] = "opening" /\ openFor' = 0 /\ call' = [call EXCEPT ![t] = "none"]
      /\ UNCHANGED <<state, failures, burst, quiet>>
  BY DEF StampOpened
<1>2. /\ N \in Nat \ {0} /\ o \in 1 .. N /\ s \in 0 .. N - 1 /\ N' = N
      /\ Threshold \in Nat \ {0} /\ Cooldown \in Nat \ {0} /\ burst \in Nat
      /\ t \in Opening
  <2>1. s <= N - 1 BY <1>1, OneLess
  <2>2. t \in Opening BY <1>1 DEF Opening
  <2> QED BY <2>1, <2>2, Counts, BreakerAssumption DEF StormInv, TypeOK, N
<1>3. quiet = 0 BY <1>2 DEF StormInv, TripInv
<1>4. Sent' = Sent BY <1>1 DEF Sent, StormInv, TypeOK
<1>5. Cardinality(Sent') = s BY <1>4
<1>6. TripInv' BY <1>1, <1>3, <1>4 DEF StormInv, TripInv
<1>7. state = "half_open" => o <= N - 1
  <2>1. state = "half_open" => \E u \in Threads : call[u] = "sent" BY DEF StormInv, TripInv, Sent
  <2> QED BY <2>1, OneLess
<1>8. state # "closed" =>
        IF state = "half_open" THEN burst <= Threshold + N - 2 ELSE burst + s <= Most
  <2>1. CASE CooledDown BY <1>2, <1>3, <1>7, <2>1 DEF StormInv, BurstInv, Most
  <2>2. CASE ~CooledDown BY <1>2, <1>3, <2>2 DEF StormInv, BurstInv
  <2> QED BY <2>1, <2>2
<1>9. ~CooledDown' BY <1>1, <1>2 DEF CooledDown
<1> QED BY <1>1, <1>2, <1>5, <1>6, <1>8, <1>9 DEF StormInv, BurstInv, Most

\* Time passes: a breaker that has cooled down has had nothing fail for as long.
LEMMA PassStorm ==
  ASSUME StormInv, TypeOK', Pass
  PROVE  StormInv'
<1>1. /\ Opening = {} /\ UNCHANGED <<state, failures, call, burst>>
      /\ openFor' = AtMost(openFor + 1, Cooldown) /\ quiet' = AtMost(quiet + 1, Cooldown)
  BY DEF Pass, Opening
<1>2. Opening' = Opening /\ Sent' = Sent BY <1>1 DEF Opening, Sent
<1>3. openFor \in 0 .. Cooldown /\ quiet \in 0 .. Cooldown /\ Cooldown \in Nat \ {0}
  BY BreakerAssumption DEF StormInv, TypeOK
<1>4. quiet' < Cooldown => quiet < Cooldown BY <1>1, <1>3 DEF AtMost
<1>5. TripInv' BY <1>1, <1>2, <1>4 DEF StormInv, TripInv
<1>6. state # "closed" => openFor = quiet BY <1>1 DEF StormInv, TripInv
<1>7. state # "closed" /\ quiet' < Cooldown => ~CooledDown /\ ~CooledDown'
  BY <1>1, <1>3, <1>4, <1>6 DEF CooledDown, AtMost
<1> QED BY <1>1, <1>2, <1>4, <1>5, <1>7 DEF StormInv, BurstInv, Most, N

\* Every step keeps it; the loop, the supervisor and the person who resets
\* touch neither the breaker nor the count.
LEMMA StormStep == StormInv /\ TypeOK' /\ [Next]_vars => StormInv'
<1> SUFFICES ASSUME StormInv, TypeOK', [Next]_vars PROVE StormInv' OBVIOUS
<1>1. CASE Breaker BY <1>1, SendStorm, SucceedStorm, FailStorm, StampStorm DEF Breaker
<1>2. CASE Pass BY <1>2, PassStorm
<1>3. CASE Loop \/ SupervisorFails \/ SupervisorLooks \/ Reset \/ UNCHANGED vars
  <2>1. UNCHANGED <<state, failures, openFor, call, burst, quiet>>
    BY <1>3 DEF Loop, Beat, Synced, TickFails, Managed, NewsDone, Rest, SupervisorFails,
                SupervisorLooks, Reset, vars, breakerVars
  <2> QED BY <2>1 DEF StormInv, TripInv, BurstInv, Sent, Opening, CooledDown, Most, N
<1> QED BY <1>1, <1>2, <1>3 DEF Next

-----------------------------------------------------------------------------
\* The age of a heartbeat nobody withheld is bounded by the tick's time and
\* the rest since, for every setting.
THEOREM HeartbeatInvariant == Spec => []IInv
<1> QED BY InitIInv, NextIInv, PTL DEF Spec

\* Every variable keeps its type.
THEOREM TypeCorrect == Spec => []TypeOK
<1>1. IInv => TypeOK BY DEF IInv
<1> QED BY <1>1, HeartbeatInvariant, PTL

\* Where a tick fits between the poll and the timeout, a stale heartbeat is
\* one that was withheld: the supervisor does not flatten a loop that works.
THEOREM NoFalseAlarm == Spec => []StaleMeansSilenced
<1>1. IInv => StaleMeansSilenced
  BY LoopAssumption DEF IInv, TypeOK, AgeInv, StaleMeansSilenced, Stale
<1> QED BY <1>1, HeartbeatInvariant, PTL

\* Without a lock the breaker lets through no more failures than the threshold
\* and two for every other thread, until a call succeeds or nothing has failed
\* for the cooldown.
THEOREM StormStops == Spec => []NoStorm
<1>1. TypeOK /\ TypeOK' /\ StormInv /\ [Next]_vars => StormInv' BY StormStep
<1>2. StormInv => NoStorm BY DEF StormInv, BurstInv, Most, N, NoStorm
<1> QED BY <1>1, <1>2, InitStorm, TypeCorrect, PTL DEF Spec

-----------------------------------------------------------------------------
(* The scheduler.                                                          *)

\* The job was not started for the tick's day, or a crash came for every start.
Unstarted(j) == starts[j] <= crashes.inside[j]
AtHand(j) == step \in {"run", "rows", "mark"} /\ j = Job

\* A job of the tick's day is marked, or is at hand, or may still start; and
\* what the tick has still to run may.
OnceInv ==
  /\ step = "idle" <=> due = {}
  /\ step # "idle" => tickDay # None
  /\ tickDay # None => \A j \in JobNames : lastRun[j] = tickDay \/ Unstarted(j) \/ AtHand(j)
  /\ \A j \in due : Unstarted(j) \/ AtHand(j)
  /\ OncePerDay

JobsInv == JobsTypeOK /\ OnceInv

\* The place of a job in the list.
LEMMA Places ==
  /\ Place("resolve_predictions") = 1
  /\ Place("nightly_report") = 2
  /\ Place("model_refit") = 3
<1>1. DOMAIN JOBS = 1 .. 3 /\ JOBS[1] = "resolve_predictions" /\ JOBS[2] = "nightly_report"
      /\ JOBS[3] = "model_refit"
  BY DEF JOBS
<1> QED BY <1>1 DEF Place

\* A tick with jobs to run has a first.
LEMMA JobIsDue ==
  ASSUME due \subseteq JobNames, due # {}
  PROVE  Job \in due
<1>1. \E j \in due : \A k \in due : Place(j) <= Place(k)
  <2>1. CASE "resolve_predictions" \in due BY <2>1, Places DEF JobNames
  <2>2. CASE "resolve_predictions" \notin due /\ "nightly_report" \in due
    BY <2>2, Places DEF JobNames
  <2>3. CASE "resolve_predictions" \notin due /\ "nightly_report" \notin due
    <3>1. "model_refit" \in due BY <2>3 DEF JobNames
    <3> QED BY <2>3, <3>1, Places DEF JobNames
  <2> QED BY <2>1, <2>2, <2>3
<1> QED BY <1>1 DEF Job

\* Tomorrow is another day.
LEMMA Tomorrow ==
  ASSUME NEW d \in Days
  PROVE  (d + 1) % DayCount \in Days /\ (d + 1) % DayCount # d
<1>1. d \in Int /\ 0 <= d /\ d < DayCount /\ DayCount \in Nat /\ DayCount > 2
  BY DaysAssumption DEF Days
<1>2. CASE d + 1 < DayCount
  <2>1. (d + 1) % DayCount = d + 1 BY <1>1, <1>2
  <2> QED BY <1>1, <1>2, <2>1 DEF Days
<1>3. CASE d + 1 = DayCount
  <2>1. (d + 1) % DayCount = 0 BY <1>1, <1>3
  <2> QED BY <1>1, <1>3, <2>1 DEF Days
<1> QED BY <1>1, <1>2, <1>3

\* A row is taken out of the unscored ones.
LEMMA RemoveAtType ==
  ASSUME NEW S, NEW s \in Seq(S), NEW k \in DOMAIN s
  PROVE  RemoveAt(s, k) \in Seq(S)
<1>1. Len(s) \in Nat /\ k \in 1 .. Len(s) BY LenProperties
<1>2. SubSeq(s, 1, k - 1) \in Seq(S)
  <2>1. \A i \in 1 .. k - 1 : s[i] \in S BY <1>1, ElementOfSeq
  <2> QED BY <1>1, <2>1, SubSeqProperties
<1>3. SubSeq(s, k + 1, Len(s)) \in Seq(S)
  <2>1. \A i \in k + 1 .. Len(s) : s[i] \in S BY <1>1, ElementOfSeq
  <2> QED BY <1>1, <2>1, SubSeqProperties
<1> QED BY <1>2, <1>3, ConcatProperties DEF RemoveAt

\* The oldest rows are rows.
LEMMA PrefixType ==
  ASSUME NEW S, NEW s \in Seq(S), NEW n \in Nat, n <= Len(s)
  PROVE  SubSeq(s, 1, n) \in Seq(S)
<1>1. \A i \in 1 .. n : s[i] \in S
  <2>1. Len(s) \in Nat BY LenProperties
  <2> QED BY <2>1, ElementOfSeq
<1> QED BY <1>1, SubSeqProperties

LEMMA JobsInitInv == JobsInit => JobsInv
<1> SUFFICES ASSUME JobsInit PROVE JobsInv OBVIOUS
<1> USE DaysAssumption
<1>1. /\ day \in Days /\ slot \in 0 .. LastSlot /\ crashes.total \in 0 .. MaxCrashes
      /\ tickDay \in Days \cup {None}
  BY DEF JobsInit, Days, LastSlot, JOBS
<1>2. elapsed \in Seq(Predictions) /\ rows \in Seq(Predictions) BY EmptySeq DEF JobsInit
<1>3. JobsTypeOK BY <1>1, <1>2 DEF JobsInit, JobsTypeOK
<1>4. OnceInv BY DEF JobsInit, OnceInv, OncePerDay, Unstarted
<1> QED BY <1>3, <1>4 DEF JobsInv

-----------------------------------------------------------------------------
(* The types, one action after the other.                                  *)

LEMMA JobsTypeStep ==
  ASSUME JobsTypeOK, OnceInv, [JobsNext]_jobsVars
  PROVE  JobsTypeOK'
<1> USE DEF JobsTypeOK, storeVars, schedulerVars
<1>1. CASE UNCHANGED jobsVars BY <1>1 DEF jobsVars
<1>2. ASSUME NEW p \in Predictions, Elapse(p) PROVE JobsTypeOK'
  <2>1. elapsed' \in Seq(Predictions) BY <1>2, AppendProperties DEF Elapse
  <2> QED BY <1>2, <2>1 DEF Elapse
<1>3. CASE Later
  <2>1. slot' \in 0 .. LastSlot BY <1>3 DEF Later, LastSlot, JOBS
  <2> QED BY <1>3, <2>1 DEF Later
<1>4. CASE Midnight
  <2>1. day' \in Days BY <1>4, Tomorrow DEF Midnight
  <2>2. slot' \in 0 .. LastSlot BY <1>4 DEF Midnight, LastSlot, JOBS
  <2>3. lastRun' \in [JobNames -> Days \cup {None}] /\ tickDay' \in Days \cup {None}
    BY <1>4 DEF Midnight
  <2> QED BY <1>4, <2>1, <2>2, <2>3 DEF Midnight
<1>5. CASE Tick
  <2>1. starts' \in [JobNames -> Nat] BY <1>5 DEF Tick
  <2>2. crashes' \in [total : 0 .. MaxCrashes, inside : [JobNames -> Nat]] BY <1>5 DEF Tick
  <2> QED BY <1>5, <2>1, <2>2 DEF Tick
<1>6. CASE Start
  <2>1. Job \in JobNames BY <1>6, JobIsDue DEF Start, OnceInv
  <2>2. starts' \in [JobNames -> Nat] BY <1>6, <2>1 DEF Start
  <2>3. rows' \in Seq(Predictions)
    <3>1. CASE Job = "resolve_predictions"
      <4> DEFINE n == IF Len(elapsed) < Limit THEN Len(elapsed) ELSE Limit
      <4>1. n \in Nat /\ n <= Len(elapsed) BY LimitAssumption, LenProperties
      <4>2. rows' = SubSeq(elapsed, 1, n) BY <1>6, <3>1 DEF Start
      <4> HIDE DEF n
      <4> QED BY <4>1, <4>2, PrefixType
    <3>2. CASE Job # "resolve_predictions" BY <1>6, <3>2, EmptySeq DEF Start
    <3> QED BY <3>1, <3>2
  <2>4. step' \in {"run", "rows"} BY <1>6 DEF Start
  <2> QED BY <1>6, <2>2, <2>3, <2>4 DEF Start
<1>7. CASE Run BY <1>7 DEF Run
<1>8. CASE Mark
  <2>1. Job \in JobNames /\ tickDay \in Days
    BY <1>8, JobIsDue DEF Mark, OnceInv
  <2>2. lastRun' \in [JobNames -> Days \cup {None}] BY <1>8, <2>1 DEF Mark
  <2> QED BY <1>8, <2>2 DEF Mark
<1>9. ASSUME NEW p \in Predictions, Score(p) PROVE JobsTypeOK'
  <2>1. elapsed' \in Seq(Predictions) BY <1>9, RemoveAtType DEF Score
  <2>2. rows' \in Seq(Predictions) BY <1>9, HeadTailProperties DEF Score
  <2> QED BY <1>9, <2>1, <2>2 DEF Score
<1>10. ASSUME NEW p \in Predictions, Skip(p) PROVE JobsTypeOK'
  <2>1. rows' \in Seq(Predictions) BY <1>10, HeadTailProperties DEF Skip
  <2> QED BY <1>10, <2>1 DEF Skip
<1>11. CASE Crash
  <2>1. crashes.total + 1 \in 0 .. MaxCrashes BY <1>11, DaysAssumption DEF Crash
  <2>2. crashes'.inside \in [JobNames -> Nat]
    <3>1. Job \in JobNames BY <1>11, JobIsDue DEF Crash, OnceInv
    <3> QED BY <1>11, <3>1 DEF Crash
  <2>3. crashes' \in [total : 0 .. MaxCrashes, inside : [JobNames -> Nat]]
    BY <1>11, <2>1, <2>2 DEF Crash
  <2>4. rows' \in Seq(Predictions) BY <1>11, EmptySeq DEF Crash
  <2> QED BY <1>11, <2>3, <2>4 DEF Crash
<1> QED
  BY <1>1, <1>2, <1>3, <1>4, <1>5, <1>6, <1>7, <1>8, <1>9, <1>10, <1>11
  DEF JobsNext, Trader, Clock, Scheduler

-----------------------------------------------------------------------------
(* Once a day.                                                             *)

\* What the starts are counted by stays, and the tick goes on with its job.
LEMMA JobStays ==
  ASSUME OnceInv, UNCHANGED <<due, tickDay, lastRun, starts, crashes>>,
         step' = "idle" <=> step = "idle",
         step \in {"run", "rows", "mark"} => step' \in {"run", "rows", "mark"}
  PROVE  OnceInv'
<1>1. Job' = Job BY DEF Job
<1>2. \A j \in JobNames \cup due :
        (Unstarted(j) => Unstarted(j)') /\ (AtHand(j) => AtHand(j)')
  BY <1>1 DEF Unstarted, AtHand
<1>3. OncePerDay' BY DEF OnceInv, OncePerDay
<1> QED BY <1>2, <1>3 DEF OnceInv

LEMMA OnceTick == ASSUME JobsTypeOK, OnceInv, Tick PROVE OnceInv'
<1>1. tickDay' # None
  BY NoneIsNoDay, DaysAssumption DEF Tick, JobsTypeOK, Days
<1>2. \A j : ~AtHand(j) BY DEF Tick, AtHand
<1>3. CASE tickDay # day
  <2>1. \A j \in JobNames : starts'[j] = 0 /\ crashes'.inside[j] = 0
    BY <1>3 DEF Tick, JobsTypeOK
  <2>2. \A j \in JobNames : Unstarted(j)' BY <2>1 DEF Unstarted
  <2>3. OncePerDay' BY <2>1 DEF OncePerDay
  <2>4. due' \subseteq JobNames /\ due' # {} /\ step' = "start" BY DEF Tick
  <2> QED BY <1>1, <2>2, <2>3, <2>4 DEF OnceInv
<1>4. CASE tickDay = day
  <2>1. UNCHANGED <<tickDay, lastRun, starts, crashes>> BY <1>4 DEF Tick, storeVars
  <2>2. \A j \in JobNames : lastRun[j] = tickDay \/ Unstarted(j)
    BY <1>1, <1>2, <2>1 DEF OnceInv
  <2>3. \A j : Unstarted(j)' <=> Unstarted(j) BY <2>1 DEF Unstarted
  <2>4. \A j \in due' : j \in JobNames /\ lastRun[j] # tickDay BY <1>4 DEF Tick, IsDue
  <2>5. OncePerDay' BY <2>1 DEF OnceInv, OncePerDay
  <2>6. due' # {} /\ step' = "start" BY DEF Tick
  <2> QED BY <1>1, <2>1, <2>2, <2>3, <2>4, <2>5, <2>6 DEF OnceInv
<1> QED BY <1>3, <1>4

LEMMA OnceStart == ASSUME JobsTypeOK, OnceInv, Start PROVE OnceInv'
<1>1. Job \in due /\ Job \in JobNames BY JobIsDue DEF Start, OnceInv, JobsTypeOK
<1>2. Unstarted(Job) BY <1>1 DEF OnceInv, AtHand, Start
<1>3. \A j : j = Job => AtHand(j)' BY DEF AtHand, Start, Job
<1>5. \A j \in JobNames : j # Job => (Unstarted(j)' <=> Unstarted(j)) /\ ~AtHand(j)
  BY DEF Unstarted, AtHand, Start, JobsTypeOK
<1>6. OncePerDay'
  <2>1. \A j \in JobNames : starts'[j] = IF j = Job THEN starts[j] + 1 ELSE starts[j]
    BY <1>1 DEF Start, JobsTypeOK
  <2>2. \A j \in JobNames : starts[j] \in Nat /\ crashes.inside[j] \in Nat BY DEF JobsTypeOK
  <2>3. crashes' = crashes BY DEF Start
  <2> QED BY <1>1, <1>2, <2>1, <2>2, <2>3 DEF OnceInv, OncePerDay, Unstarted
<1>7. UNCHANGED <<due, tickDay, lastRun>> /\ step = "start" /\ step' \in {"run", "rows"}
  BY DEF Start, storeVars
<1>8. due \subseteq JobNames BY DEF JobsTypeOK
<1>9. \A j \in JobNames : lastRun[j] = tickDay \/ Unstarted(j) =>
                            lastRun'[j] = tickDay' \/ Unstarted(j)' \/ AtHand(j)'
  BY <1>3, <1>5, <1>7
<1>10. \A j \in due' : Unstarted(j)' \/ AtHand(j)'
  <2>1. \A j \in due : j # Job => Unstarted(j) BY <1>5, <1>8 DEF OnceInv
  <2> QED BY <1>3, <1>5, <1>7, <1>8, <2>1
<1>11. tickDay' # None /\ (step' = "idle" <=> due' = {}) BY <1>1, <1>7 DEF OnceInv
<1>12. \A j \in JobNames : lastRun[j] = tickDay \/ Unstarted(j) \/ j = Job
  BY <1>5, <1>7 DEF OnceInv
<1> QED BY <1>3, <1>6, <1>9, <1>10, <1>11, <1>12 DEF OnceInv

LEMMA OnceMark == ASSUME JobsTypeOK, OnceInv, Mark PROVE OnceInv'
<1>1. Job \in due /\ Job \in JobNames BY JobIsDue DEF Mark, OnceInv, JobsTypeOK
<1>2. lastRun'[Job] = tickDay BY <1>1 DEF Mark, JobsTypeOK
<1>3. \A j \in JobNames : j # Job => lastRun'[j] = lastRun[j] /\ ~AtHand(j)
  BY DEF Mark, JobsTypeOK, AtHand
<1>4. \A j : Unstarted(j)' <=> Unstarted(j) BY DEF Mark, Unstarted
<1>5. OncePerDay' BY DEF Mark, OnceInv, OncePerDay
<1>6. UNCHANGED tickDay /\ due' = due \ {Job} /\ step = "mark"
      /\ step' = IF due = {Job} THEN "idle" ELSE "start"
  BY DEF Mark
<1>7. step' = "idle" <=> due' = {} BY <1>1, <1>6
<1>8. due \subseteq JobNames BY DEF JobsTypeOK
<1>9. \A j \in due' : Unstarted(j)' BY <1>3, <1>4, <1>6, <1>8 DEF OnceInv
<1>10. \A j \in JobNames : tickDay' # None => lastRun'[j] = tickDay' \/ Unstarted(j)'
  BY <1>2, <1>3, <1>4, <1>6 DEF OnceInv
<1>11. tickDay' # None BY <1>6 DEF OnceInv
<1> QED BY <1>5, <1>7, <1>9, <1>10, <1>11 DEF OnceInv

LEMMA OnceCrash == ASSUME JobsTypeOK, OnceInv, Crash PROVE OnceInv'
<1>1. due' = {} /\ step' = "idle" /\ UNCHANGED <<tickDay, lastRun, starts>> BY DEF Crash, storeVars
<1>2. Job \in JobNames BY JobIsDue DEF Crash, OnceInv, JobsTypeOK
<1>3. \A j \in JobNames : starts[j] \in Nat /\ crashes.inside[j] \in Nat BY DEF JobsTypeOK
<1>4. \A j \in JobNames :
        crashes'.inside[j] = IF step # "start" /\ j = Job THEN crashes.inside[j] + 1
                                                         ELSE crashes.inside[j]
  BY <1>2 DEF Crash, JobsTypeOK
<1>5. \A j \in JobNames : Unstarted(j) \/ AtHand(j) => Unstarted(j)'
  <2> SUFFICES ASSUME NEW j \in JobNames, Unstarted(j) \/ AtHand(j) PROVE Unstarted(j)' OBVIOUS
  <2>1. CASE Unstarted(j) BY <1>1, <1>3, <1>4, <2>1 DEF Unstarted
  <2>2. CASE AtHand(j)
    <3>1. step # "start" /\ j = Job BY <2>2 DEF AtHand
    <3> QED BY <1>1, <1>3, <1>4, <3>1 DEF Unstarted, OnceInv, OncePerDay
  <2> QED BY <2>1, <2>2
<1>6. OncePerDay' BY <1>1, <1>3, <1>4 DEF OnceInv, OncePerDay
<1> QED BY <1>1, <1>5, <1>6 DEF OnceInv

LEMMA OnceMidnight == ASSUME JobsTypeOK, OnceInv, Midnight PROVE OnceInv'
<1>1. UNCHANGED <<due, step, starts, crashes>> BY DEF Midnight
<1>2. OncePerDay' BY <1>1 DEF OnceInv, OncePerDay
<1>3. \A j : (Unstarted(j)' <=> Unstarted(j)) /\ (AtHand(j)' <=> AtHand(j))
  BY <1>1 DEF Unstarted, AtHand, Job
<1>4. CASE step = "idle"
  <2>1. tickDay' = None BY <1>4 DEF Midnight
  <2> QED BY <1>1, <1>2, <1>4, <2>1 DEF OnceInv
<1>5. CASE step # "idle"
  <2>1. tickDay = day /\ tickDay' = tickDay BY <1>5 DEF Midnight
  <2>2. day' # day BY Tomorrow DEF Midnight, JobsTypeOK
  <2>3. \A j \in JobNames : lastRun[j] = tickDay => lastRun'[j] = tickDay
    BY <2>1, <2>2 DEF Midnight, JobsTypeOK
  <2> QED BY <1>1, <1>2, <1>3, <1>5, <2>1, <2>3 DEF OnceInv
<1> QED BY <1>4, <1>5

LEMMA OnceStep ==
  ASSUME JobsTypeOK, OnceInv, [JobsNext]_jobsVars
  PROVE  OnceInv'
<1> USE DEF storeVars, schedulerVars
<1>1. CASE UNCHANGED jobsVars BY <1>1, JobStays DEF jobsVars
<1>2. ASSUME NEW p \in Predictions, Elapse(p) PROVE OnceInv' BY <1>2, JobStays DEF Elapse
<1>3. CASE Later BY <1>3, JobStays DEF Later
<1>4. CASE Run BY <1>4, JobStays DEF Run
<1>5. ASSUME NEW p \in Predictions, Score(p) PROVE OnceInv' BY <1>5, JobStays DEF Score
<1>6. ASSUME NEW p \in Predictions, Skip(p) PROVE OnceInv' BY <1>6, JobStays DEF Skip
<1> QED
  BY <1>1, <1>2, <1>3, <1>4, <1>5, <1>6, OnceMidnight, OnceTick, OnceStart, OnceMark, OnceCrash
  DEF JobsNext, Trader, Clock, Scheduler

LEMMA JobsInvHolds == JobsSpec => []JobsInv
<1>1. JobsInv /\ [JobsNext]_jobsVars => JobsInv' BY JobsTypeStep, OnceStep DEF JobsInv
<1> QED BY JobsInitInv, <1>1, PTL DEF JobsSpec

THEOREM JobsTyped == JobsSpec => []JobsTypeOK
BY JobsInvHolds, PTL DEF JobsInv

THEOREM JobsRunOnce == JobsSpec => []OncePerDay
<1>1. JobsInv => OncePerDay BY DEF JobsInv, OnceInv
<1> QED BY JobsInvHolds, <1>1, PTL
=============================================================================
