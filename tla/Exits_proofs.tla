------------------------------ MODULE Exits_proofs ------------------------------
(***************************************************************************)
(* What the manager lets ride, for every premium, wing, cap, quote,        *)
(* horizon and number of positions: the invariant Riding says that no      *)
(* barrier struck a position that is held after it was judged, at the mark *)
(* it was judged at and with the best it ever was as its peak; the         *)
(* properties are read off the barriers it did not strike.                 *)
(***************************************************************************)
EXTENDS Exits, TLAPS

\* The peak in the store is the best mark since the entry.
PeakIsBest == \A p \in Positions : peak[p] = best[p]

\* Only what was entered is walked or judged.
EnteredFirst ==
  /\ \A p \in todo : status[p] # "none"
  /\ \A p \in Positions : walked[p] => status[p] # "none"

\* The bell of the day of t.
Bell(t) == 48 * (t \div 48) + 32

\* A thesis of the session ends on a day that was or that is.
EndsToday == \A p \in Positions : intraday[p] => ends[p] <= Bell(Now)

\* The barriers that did not strike when the position was last judged.
Unstruck(p, corporate) ==
  \A b \in Barriers \ {"thesis_complete", "thesis_broken", "none"} :
    ~Strikes(b, kind[p], ends[p], mark[p], peak[p], FALSE, corporate)
Riding == \A p \in Positions : Holds(p) => \E corporate \in BOOLEAN : Unstruck(p, corporate)

ExitInv == TypeOK /\ PeakIsBest /\ EnteredFirst /\ EndsToday /\ Riding

-----------------------------------------------------------------------------
(* The calendar and the arithmetic.                                        *)

\* The slots: their days, their bells, and the bell an entry is decided before.
LEMMA SlotTimes ==
  ASSUME clock \in DOMAIN Slots
  PROVE  /\ clock \in 1..7 /\ Now \in {22, 32, 67, 73, 80, 211, 224}
         /\ DecidedAt \in Nat /\ DecidedAt % 48 < 32
         /\ DecidedAt + (32 - (DecidedAt % 48)) = Bell(Now)
         /\ AtBell(Now) => Bell(Now) = Now
<1>1. clock \in 1..7 BY DEF Slots
<1>2. /\ clock = 1 => Now = 22
      /\ clock = 2 => Now = 32
      /\ clock = 3 => Now = 67
      /\ clock = 4 => Now = 73
      /\ clock = 5 => Now = 80
      /\ clock = 6 => Now = 211
      /\ clock = 7 => Now = 224
  BY DEF Now, Slots
<1>3. Now \in {22, 32, 67, 73, 80, 211, 224} BY <1>1, <1>2
<1>4. /\ DecidedAt \in Nat /\ DecidedAt % 48 < 32
      /\ DecidedAt + (32 - (DecidedAt % 48)) = Bell(Now)
  BY <1>3 DEF DecidedAt, AtBell, Bell
<1>5. AtBell(Now) => Bell(Now) = Now BY <1>3 DEF AtBell, Bell
<1> QED BY <1>1, <1>3, <1>4, <1>5

\* effective_horizon is a number of half hours, and that of an intraday thesis
\* fits into its session.
LEMMA HorizonFits ==
  ASSUME NEW h \in Nat, NEW t \in Nat, t % 48 < 32
  PROVE  /\ EffectiveHorizon(h, t) \in Nat
         /\ h <= IntradayHorizon => EffectiveHorizon(h, t) <= 32 - (t % 48)
<1>1. t % 48 \in Nat OBVIOUS
<1> DEFINE left == 32 - (t % 48)
<1>2. left \in Nat /\ 0 < left BY <1>1
<1>3. EffectiveHorizon(h, t) = IF h <= IntradayHorizon /\ 0 < left /\ left < h THEN left ELSE h
  BY DEF EffectiveHorizon
<1> HIDE DEF left
<1>4. EffectiveHorizon(h, t) \in Nat BY <1>2, <1>3
<1>5. h <= IntradayHorizon => EffectiveHorizon(h, t) <= left BY <1>2, <1>3 DEF IntradayHorizon
<1> QED BY <1>4, <1>5 DEF left

\* The stop is a loss, and never more than the wing.
LEMMA StopIsBounded ==
  ASSUME NEW k
  PROVE  Stop(k) \in Int /\ Stop(k) <= 0 /\ Stop(k) >= -Wing
<1> DEFINE loss == (Premium * (IF k = "credit" THEN CreditStopPct ELSE DebitStopPct)) \div 100
<1>1. Premium \in Nat /\ Wing \in Nat BY MoneyAssumption
<1>2. loss \in Nat BY <1>1 DEF CreditStopPct, DebitStopPct
<1>3. Stop(k) = IF loss < Wing THEN -loss ELSE -Wing BY DEF Stop
<1> HIDE DEF loss
<1> QED BY <1>1, <1>2, <1>3

\* Of the barriers that strike one comes first.
LEMMA FirstBarrier ==
  ASSUME NEW S \in SUBSET (1..11), 11 \in S
  PROVE  \E i \in 1..11 : i \in S /\ \A j \in 1 .. i - 1 : j \notin S
<1> DEFINE First(i) == i \in S /\ \A j \in 1 .. i - 1 : j \notin S
<1>1. CASE 1 \in S BY <1>1
<1>2. CASE 1 \notin S /\ 2 \in S
  <2>1. First(2) BY <1>2
  <2> QED BY <2>1
<1>3. CASE {1, 2} \cap S = {} /\ 3 \in S
  <2>1. First(3) BY <1>3
  <2> QED BY <2>1
<1>4. CASE {1, 2, 3} \cap S = {} /\ 4 \in S
  <2>1. First(4) BY <1>4
  <2> QED BY <2>1
<1>5. CASE {1, 2, 3, 4} \cap S = {} /\ 5 \in S
  <2>1. First(5) BY <1>5
  <2> QED BY <2>1
<1>6. CASE {1, 2, 3, 4, 5} \cap S = {} /\ 6 \in S
  <2>1. First(6) BY <1>6
  <2> QED BY <2>1
<1>7. CASE {1, 2, 3, 4, 5, 6} \cap S = {} /\ 7 \in S
  <2>1. First(7) BY <1>7
  <2> QED BY <2>1
<1>8. CASE {1, 2, 3, 4, 5, 6, 7} \cap S = {} /\ 8 \in S
  <2>1. First(8) BY <1>8
  <2> QED BY <2>1
<1>9. CASE {1, 2, 3, 4, 5, 6, 7, 8} \cap S = {} /\ 9 \in S
  <2>1. First(9) BY <1>9
  <2> QED BY <2>1
<1>10. CASE {1, 2, 3, 4, 5, 6, 7, 8, 9} \cap S = {} /\ 10 \in S
  <2>1. First(10) BY <1>10
  <2> QED BY <2>1
<1>11. CASE {1, 2, 3, 4, 5, 6, 7, 8, 9, 10} \cap S = {}
  <2>1. First(11) BY <1>11
  <2> QED BY <2>1
<1> HIDE DEF First
<1>12. \E i \in 1..11 : First(i)
  BY <1>1, <1>2, <1>3, <1>4, <1>5, <1>6, <1>7, <1>8, <1>9, <1>10, <1>11 DEF First
<1> QED BY <1>12 DEF First

\* evaluate_position answers a barrier, and nothing only when none strikes.
LEMMA DecisionIsFirst ==
  ASSUME NEW k, NEW e, NEW pnl, NEW top, NEW achieved, NEW corporate
  PROVE  /\ Decision(k, e, pnl, top, achieved, corporate) \in Barriers
         /\ Decision(k, e, pnl, top, achieved, corporate) = "none" =>
              \A b \in Barriers \ {"thesis_broken", "none"} :
                ~Strikes(b, k, e, pnl, top, achieved, corporate)
<1> DEFINE Struck(i) == Strikes(Severity[i], k, e, pnl, top, achieved, corporate)
           S == {i \in 1..11 : Struck(i)}
           First(i) == Struck(i) /\ \A j \in 1 .. i - 1 : ~Struck(j)
           n == CHOOSE i \in DOMAIN Severity : First(i)
<1>1. /\ DOMAIN Severity = 1..11
      /\ Severity[1] = "deadline" /\ Severity[2] = "expiry_risk" /\ Severity[3] = "macro_risk"
      /\ Severity[4] = "thesis_complete" /\ Severity[5] = "stop" /\ Severity[6] = "bell"
      /\ Severity[7] = "trail" /\ Severity[8] = "breakeven" /\ Severity[9] = "profit"
      /\ Severity[10] = "time" /\ Severity[11] = "none"
  BY DEF Severity
<1>2. Decision(k, e, pnl, top, achieved, corporate) = Severity[n] BY DEF Decision
<1>3. Struck(11) BY <1>1 DEF Strikes
<1>4. \E i \in 1..11 : i \in S /\ \A j \in 1 .. i - 1 : j \notin S
  <2>1. S \in SUBSET (1..11) /\ 11 \in S BY <1>3
  <2> HIDE DEF S
  <2> QED BY <2>1, FirstBarrier
<1> HIDE DEF Struck
<1>5. \E i \in DOMAIN Severity : First(i) BY <1>1, <1>4
<1>6. n \in 1..11 /\ First(n)
  <2> HIDE DEF First
  <2> QED BY <1>1, <1>5
<1> HIDE DEF n
<1>7. Severity[n] \in Barriers BY <1>1, <1>6 DEF Barriers
<1>8. ASSUME Severity[n] = "none", NEW b \in Barriers \ {"thesis_broken", "none"}
      PROVE  ~Strikes(b, k, e, pnl, top, achieved, corporate)
  <2>1. n = 11 BY <1>1, <1>6, <1>8
  <2>2. \A j \in 1..10 : ~Struck(j) BY <1>6, <2>1
  <2>3. \E j \in 1..10 : b = Severity[j] BY <1>1, <1>8 DEF Barriers
  <2> QED BY <2>2, <2>3 DEF Struck
<1> QED BY <1>2, <1>7, <1>8

-----------------------------------------------------------------------------
(* The invariant.                                                          *)

\* Nothing is open on Thursday morning.
LEMMA ExitInit == Init => ExitInv
<1> SUFFICES ASSUME Init PROVE ExitInv
  OBVIOUS
<1>1. TypeOK
  BY CalendarAssumption DEF Init, TypeOK, Barriers, Slots
<1>2. clock \in DOMAIN Slots BY <1>1 DEF TypeOK
<1>3. PeakIsBest /\ EnteredFirst /\ EndsToday /\ Riding
  BY DEF Init, PeakIsBest, EnteredFirst, EndsToday, Riding, Holds
<1> QED BY <1>1, <1>3 DEF ExitInv

\* The steps that judge nothing, and let nothing go on riding that was not.
LEMMA RidesOn ==
  ASSUME ExitInv, UNCHANGED <<deadline, clock, kind, ends, peak, mark>>,
         \A p \in Positions : Holds(p)' => Holds(p)
  PROVE  Riding'
<1> USE DEF ExitInv
<1> SUFFICES ASSUME NEW p \in Positions, Holds(p)'
             PROVE  \E corporate \in BOOLEAN : Unstruck(p, corporate)'
  BY DEF Riding
<1>1. PICK corporate \in BOOLEAN : Unstruck(p, corporate) BY DEF Riding
<1>2. Now' = Now BY DEF Now
<1>3. ASSUME NEW b
      PROVE  Strikes(b, kind[p], ends[p], mark[p], peak[p], FALSE, corporate)' <=>
             Strikes(b, kind[p], ends[p], mark[p], peak[p], FALSE, corporate)
  BY <1>2 DEF Strikes, BellContext
<1> QED BY <1>1, <1>3 DEF Unstruck

\* An entry fills: it has not been judged, and ends with its session if it is
\* of one.
LEMMA OpensStep ==
  ASSUME ExitInv, NEW p \in Positions, NEW k \in {"credit", "debit"}, NEW h \in Horizons,
         Opens(p, k, h)
  PROVE  ExitInv'
<1> USE DEF ExitInv
<1>1. Now' = Now BY DEF Opens, Now
<1>2. /\ DecidedAt \in Nat /\ DecidedAt % 48 < 32
      /\ DecidedAt + (32 - (DecidedAt % 48)) = Bell(Now)
      /\ Now \in {22, 32, 67, 73, 80, 211, 224}
  BY SlotTimes DEF TypeOK
<1>3. /\ h \in Nat /\ EffectiveHorizon(h, DecidedAt) \in Nat
      /\ h <= IntradayHorizon => EffectiveHorizon(h, DecidedAt) <= 32 - (DecidedAt % 48)
  BY <1>2, HorizonFits, CalendarAssumption
<1> DEFINE e == DecidedAt + EffectiveHorizon(h, DecidedAt)
<1>4. e \in Nat BY <1>2, <1>3
<1>5. h <= IntradayHorizon => e <= Bell(Now)
  <2>1. DecidedAt % 48 \in Nat BY <1>2
  <2> QED BY <1>2, <1>3, <2>1
<1>6. ends' = [ends EXCEPT ![p] = e] BY DEF Opens
<1> HIDE DEF e
<1>7. TypeOK'
  <2>1. (h <= IntradayHorizon) \in BOOLEAN OBVIOUS
  <2>2. intraday' \in [Positions -> BOOLEAN] BY <2>1 DEF Opens, TypeOK
  <2> QED BY <1>4, <1>6, <2>2 DEF Opens, TypeOK
<1>8. PeakIsBest' /\ EnteredFirst'
  BY DEF Opens, TypeOK, PeakIsBest, EnteredFirst
<1>9. EndsToday'
  <2>1. \A q \in Positions \ {p} : intraday'[q] = intraday[q] /\ ends'[q] = ends[q]
    BY <1>6 DEF Opens, TypeOK
  <2>2. intraday'[p] => ends'[p] <= Bell(Now)
    BY <1>5, <1>6 DEF Opens, TypeOK
  <2> QED BY <1>1, <2>1, <2>2 DEF EndsToday, Bell
<1>10. Riding'
  <2> SUFFICES ASSUME NEW q \in Positions, Holds(q)'
               PROVE  \E corporate \in BOOLEAN : Unstruck(q, corporate)'
    BY DEF Riding
  <2>1. q # p /\ Holds(q) BY DEF Holds, Opens, TypeOK, EnteredFirst
  <2>2. PICK corporate \in BOOLEAN : Unstruck(q, corporate) BY <2>1 DEF Riding
  <2>3. /\ kind'[q] = kind[q] /\ ends'[q] = ends[q]
        /\ UNCHANGED <<deadline, mark, peak>>
    BY <1>6, <2>1 DEF Opens, TypeOK
  <2>4. ASSUME NEW b
        PROVE  Strikes(b, kind[q], ends[q], mark[q], peak[q], FALSE, corporate)' <=>
               Strikes(b, kind[q], ends[q], mark[q], peak[q], FALSE, corporate)
    BY <1>1, <2>3 DEF Strikes, BellContext
  <2> QED BY <2>2, <2>4 DEF Unstruck
<1> QED BY <1>7, <1>8, <1>9, <1>10

\* A position judged and not sent away is one that no barrier struck.
LEMMA WalkStep ==
  ASSUME ExitInv, NEW p \in Positions, NEW pnl \in Marks, NEW achieved \in BOOLEAN,
         NEW corporate \in BOOLEAN, Walk(p, pnl, achieved, corporate)
  PROVE  ExitInv'
<1> USE DEF ExitInv
<1> DEFINE top == RecordPeak(p, pnl)
           b == Decision(kind[p], ends[p], pnl, top, achieved, corporate)
<1>1. pnl \in Int BY MoneyAssumption DEF Marks
<1>2. /\ p \in todo /\ todo' = todo \ {p}
      /\ peak' = [peak EXCEPT ![p] = top]
      /\ b # "none" => status' = [status EXCEPT ![p] = "closing"]
                       /\ barrier' = [barrier EXCEPT ![p] = b]
      /\ b = "none" => UNCHANGED <<status, barrier>>
      /\ walked' = [walked EXCEPT ![p] = TRUE] /\ mark' = [mark EXCEPT ![p] = pnl]
      /\ best' = [best EXCEPT ![p] = IF pnl > @ THEN pnl ELSE @]
      /\ UNCHANGED <<deadline, clock, kind, ends, intraday>>
  BY DEF Walk, Close
<1>3. b \in Barriers
      /\ (b = "none" => \A c \in Barriers \ {"thesis_broken", "none"} :
                          ~Strikes(c, kind[p], ends[p], pnl, top, achieved, corporate))
  BY DecisionIsFirst
<1>4. /\ top = IF pnl > peak[p] THEN pnl ELSE peak[p]
      /\ top \in Nat
  BY <1>1 DEF RecordPeak, TypeOK
<1> HIDE DEF top, b
<1>5. TypeOK' BY <1>1, <1>2, <1>3, <1>4 DEF TypeOK
<1>6. PeakIsBest' BY <1>1, <1>2, <1>4 DEF TypeOK, PeakIsBest
<1>7. EnteredFirst' BY <1>2 DEF TypeOK, EnteredFirst
<1>8. Now' = Now /\ EndsToday' BY <1>2 DEF Now, EndsToday, Bell
<1>9. Riding'
  <2> SUFFICES ASSUME NEW q \in Positions, Holds(q)'
               PROVE  \E c \in BOOLEAN : Unstruck(q, c)'
    BY DEF Riding
  <2>1. CASE q = p
    <3>1. b = "none" BY <1>2, <2>1 DEF Holds, TypeOK
    <3>2. /\ kind'[q] = kind[p] /\ ends'[q] = ends[p] /\ mark'[q] = pnl /\ peak'[q] = top
          /\ deadline' = deadline
      BY <1>2, <2>1 DEF TypeOK
    <3>3. ASSUME NEW c \in Barriers \ {"thesis_complete", "thesis_broken", "none"}
          PROVE  ~Strikes(c, kind[q], ends[q], mark[q], peak[q], FALSE, corporate)'
      <4>1. ~Strikes(c, kind[p], ends[p], pnl, top, achieved, corporate) BY <1>3, <3>1, <3>3
      <4> QED BY <1>8, <3>2, <3>3, <4>1 DEF Strikes, BellContext, Barriers
    <3> QED BY <3>3 DEF Unstruck
  <2>2. CASE q # p
    <3>1. Holds(q) BY <1>2, <2>2 DEF Holds, TypeOK
    <3>2. PICK c \in BOOLEAN : Unstruck(q, c) BY <3>1 DEF Riding
    <3>3. /\ kind'[q] = kind[q] /\ ends'[q] = ends[q] /\ mark'[q] = mark[q]
          /\ peak'[q] = peak[q] /\ deadline' = deadline
      BY <1>2, <2>2 DEF TypeOK
    <3>4. ASSUME NEW d
          PROVE  Strikes(d, kind[q], ends[q], mark[q], peak[q], FALSE, c)' <=>
                 Strikes(d, kind[q], ends[q], mark[q], peak[q], FALSE, c)
      BY <1>8, <3>3 DEF Strikes, BellContext
    <3> QED BY <3>2, <3>4 DEF Unstruck
  <2> QED BY <2>1, <2>2
<1> QED BY <1>5, <1>6, <1>7, <1>8, <1>9

\* ExitInv is inductive.
LEMMA ExitStep == ExitInv /\ [Next]_vars => ExitInv'
<1> SUFFICES ASSUME ExitInv, [Next]_vars PROVE ExitInv'
  OBVIOUS
<1> USE DEF ExitInv
<1>1. CASE Tick
  <2>1. TypeOK' /\ PeakIsBest' /\ EnteredFirst' /\ EndsToday'
    BY <1>1
       DEF Tick, TypeOK, PeakIsBest, EnteredFirst, EndsToday, Now, Bell, rowVars, historyVars
  <2>2. Riding' BY <1>1, RidesOn DEF Tick, rowVars, historyVars, Holds
  <2> QED BY <2>1, <2>2
<1>2. CASE WalkRaises \/ \E p \in Positions : WalkWithoutQuote(p)
  <2>1. todo' \subseteq todo /\ UNCHANGED <<deadline, clock, rowVars, historyVars>>
    BY <1>2 DEF WalkRaises, WalkWithoutQuote
  <2>2. TypeOK' /\ PeakIsBest' /\ EnteredFirst' /\ EndsToday'
    BY <2>1 DEF TypeOK, PeakIsBest, EnteredFirst, EndsToday, Now, Bell, rowVars, historyVars
  <2>3. Riding' BY <2>1, RidesOn DEF rowVars, historyVars, Holds
  <2> QED BY <2>2, <2>3
<1>3. CASE Later
  <2>1. TypeOK' BY <1>3 DEF Later, TypeOK, rowVars, Slots
  <2>2. PeakIsBest' /\ EnteredFirst' BY <1>3 DEF Later, PeakIsBest, EnteredFirst, TypeOK, rowVars
  <2>3. Riding' BY <1>3 DEF Later, Riding, Holds
  <2>4. EndsToday'
    <3>1. clock \in 1..6 /\ clock' = clock + 1 /\ UNCHANGED <<ends, intraday>>
      BY <1>3 DEF Later, TypeOK, Slots, rowVars
    <3>2. Bell(Now) <= Bell(Now') /\ Bell(Now) \in Int /\ Bell(Now') \in Int
      <4>1. <<Now, Now'>> \in {<<22, 32>>, <<32, 67>>, <<67, 73>>, <<73, 80>>, <<80, 211>>, <<211, 224>>}
        BY <3>1 DEF Now, Slots
      <4> QED BY <4>1 DEF Bell
    <3>3. Bell(Now)' = Bell(Now') BY DEF Bell
    <3> QED BY <3>1, <3>2, <3>3 DEF EndsToday, TypeOK
  <2> QED BY <2>1, <2>2, <2>3, <2>4
<1>4. ASSUME NEW p \in Positions, Contradicted(p) \/ CloseFills(p) \/ CloseDies(p)
      PROVE  ExitInv'
  <2>1. /\ UNCHANGED <<deadline, clock, kind, ends, peak, todo, intraday, mark, best>>
        /\ \/ status' = [status EXCEPT ![p] = "closing"] /\ UNCHANGED walked
              /\ barrier' = [barrier EXCEPT ![p] = "thesis_broken"]
           \/ status' = [status EXCEPT ![p] = "closed"] /\ UNCHANGED <<walked, barrier>>
           \/ status' = [status EXCEPT ![p] = "open"] /\ walked' = [walked EXCEPT ![p] = FALSE]
              /\ UNCHANGED barrier
    BY <1>4 DEF Contradicted, CloseFills, CloseDies, Close, historyVars
  <2>2. TypeOK' BY <2>1 DEF TypeOK, Barriers
  <2>3. PeakIsBest' /\ EnteredFirst' /\ EndsToday'
    BY <2>1 DEF TypeOK, PeakIsBest, EnteredFirst, EndsToday, Now, Bell
  <2>4. \A q \in Positions : Holds(q)' => Holds(q) BY <2>1 DEF Holds, TypeOK
  <2> QED BY <2>1, <2>2, <2>3, <2>4, RidesOn
<1>5. CASE UNCHANGED vars
  <2>1. TypeOK' /\ PeakIsBest' /\ EnteredFirst' /\ EndsToday'
    BY <1>5
       DEF vars, rowVars, historyVars, TypeOK, PeakIsBest, EnteredFirst, EndsToday, Now, Bell
  <2>2. Riding' BY <1>5, RidesOn DEF vars, rowVars, historyVars, Holds
  <2> QED BY <2>1, <2>2
<1> QED BY <1>1, <1>2, <1>3, <1>4, <1>5, OpensStep, WalkStep DEF Next

\* What is held after it was judged, no barrier struck.
THEOREM ExitHolds == Spec => []ExitInv
<1> QED BY ExitInit, ExitStep, PTL DEF Spec

\* The variables keep their types.
THEOREM TypeCorrect == Spec => []TypeOK
<1>1. ExitInv => TypeOK BY DEF ExitInv
<1> QED BY <1>1, ExitHolds, PTL

-----------------------------------------------------------------------------
(* The theorems.                                                           *)

\* A position that is held was not struck by any barrier but its thesis'.
LEMMA NotStruck ==
  ASSUME ExitInv, NEW p \in Positions, Holds(p)
  PROVE  /\ kind[p] \in {"credit", "debit"} /\ mark[p] \in Int /\ best[p] \in Int
         /\ ends[p] \in Nat /\ clock \in DOMAIN Slots /\ best[p] = peak[p]
         /\ ~(deadline # None /\ Now >= deadline)
         /\ ~(Expiry - Now < 2 * MinHoursToExpiry)
         /\ ~(Blackout(Now) /\ kind[p] = "credit")
         /\ ~(mark[p] <= Stop(kind[p]))
         /\ AtBell(Now) =>
              /\ Weekday(Now) # 4
              /\ ~(ReleaseBeforeNextOpen(Now) /\ kind[p] = "credit")
              /\ mark[p] < 0 =>
                   /\ ~(Stop(kind[p]) < 0 /\ 2 * mark[p] <= Stop(kind[p]))
                   /\ ~(Wing + Stop(kind[p]) > GapCap)
         /\ ~(TrailArmed(kind[p], peak[p]) /\ 100 * mark[p] <= peak[p] * TrailKeepPct)
         /\ ~(BreakevenArmed(kind[p], peak[p]) /\ mark[p] <= 0)
         /\ ~(Now >= ends[p] /\ mark[p] > 0)
<1> USE DEF ExitInv
<1>1. PICK corporate \in BOOLEAN : Unstruck(p, corporate) BY DEF Riding
<1>2. ASSUME NEW b \in {"deadline", "expiry_risk", "macro_risk", "stop", "bell", "trail",
                        "breakeven", "time"}
      PROVE  ~Strikes(b, kind[p], ends[p], mark[p], peak[p], FALSE, corporate)
  BY <1>1, <1>2 DEF Unstruck, Barriers
<1>3. /\ ~(deadline # None /\ Now >= deadline)
      /\ ~(Expiry - Now < 2 * MinHoursToExpiry)
      /\ ~(Blackout(Now) /\ kind[p] = "credit")
      /\ ~(mark[p] <= Stop(kind[p]))
  BY <1>2 DEF Strikes
<1>4. AtBell(Now) => ~MustNotCarry(kind[p], mark[p], BellContext(corporate))
  BY <1>2 DEF Strikes
<1>5. /\ ~(TrailArmed(kind[p], peak[p]) /\ 100 * mark[p] <= peak[p] * TrailKeepPct)
      /\ ~(BreakevenArmed(kind[p], peak[p]) /\ mark[p] <= 0)
      /\ ~(Now >= ends[p] /\ mark[p] > 0)
  BY <1>2 DEF Strikes
<1> QED BY <1>3, <1>4, <1>5 DEF TypeOK, PeakIsBest, MustNotCarry, BellContext

\* No position is held over the weekend, and no thesis of the session is held
\* overnight at a profit (manage.py, _bell_reason; trader.py, effective_horizon).
THEOREM NoOverstay == Spec => []NothingOverstays
<1>1. ASSUME ExitInv PROVE NothingOverstays
  <2> SUFFICES ASSUME AtBell(Now), NEW p \in Positions, Holds(p)
               PROVE  Weekday(Now) # 4 /\ (intraday[p] => mark[p] <= 0)
    BY DEF NothingOverstays
  <2>1. /\ Weekday(Now) # 4 /\ ~(Now >= ends[p] /\ mark[p] > 0)
        /\ mark[p] \in Int /\ ends[p] \in Nat
    BY <1>1, NotStruck
  <2>2. Bell(Now) = Now /\ Now \in Nat BY <1>1, SlotTimes DEF ExitInv, TypeOK
  <2>3. intraday[p] => ends[p] <= Now BY <1>1, <2>2 DEF ExitInv, EndsToday
  <2> QED BY <2>1, <2>2, <2>3
<1>2. ExitInv => NothingOverstays BY <1>1
<1> QED BY <1>2, ExitHolds, PTL

\* A winner that is held keeps half of the best it ever was, and does not go
\* from half its target to a loss, across closes that died and restarts
\* (store.py, record_peak_pnl; manage.py).
THEOREM WinnersStayWinners == Spec => []WinnersKept
<1>1. ASSUME ExitInv PROVE WinnersKept
  <2> SUFFICES ASSUME NEW p \in Positions, Holds(p)
               PROVE  /\ TrailArmed(kind[p], best[p]) => 2 * mark[p] > best[p]
                      /\ BreakevenArmed(kind[p], best[p]) => mark[p] > 0
    BY DEF WinnersKept
  <2>1. /\ ~(TrailArmed(kind[p], peak[p]) /\ 100 * mark[p] <= peak[p] * TrailKeepPct)
        /\ ~(BreakevenArmed(kind[p], peak[p]) /\ mark[p] <= 0)
        /\ mark[p] \in Int /\ best[p] \in Int /\ best[p] = peak[p]
    BY <1>1, NotStruck
  <2> QED BY <2>1 DEF TrailKeepPct
<1>2. ExitInv => WinnersKept BY <1>1
<1> QED BY <1>2, ExitHolds, PTL

\* The loss that is held is never the maximum, and overnight it is less than
\* half way to the stop with the gap's share capped (manage.py, _bell_reason),
\* for every premium and wing.
THEOREM LossStaysBounded == Spec => []LossBounded
<1>1. ASSUME ExitInv PROVE LossBounded
  <2> SUFFICES ASSUME NEW p \in Positions, Holds(p), mark[p] < 0
               PROVE  /\ mark[p] > -Wing
                      /\ AtBell(Now) =>
                           2 * mark[p] > Stop(kind[p]) /\ Wing + Stop(kind[p]) <= GapCap
    BY DEF LossBounded
  <2>1. /\ ~(mark[p] <= Stop(kind[p])) /\ mark[p] \in Int
        /\ AtBell(Now) => /\ ~(Stop(kind[p]) < 0 /\ 2 * mark[p] <= Stop(kind[p]))
                          /\ ~(Wing + Stop(kind[p]) > GapCap)
    BY <1>1, NotStruck
  <2>2. Stop(kind[p]) \in Int /\ Stop(kind[p]) <= 0 /\ Stop(kind[p]) >= -Wing BY StopIsBounded
  <2>3. Wing \in Nat /\ GapCap \in Nat BY MoneyAssumption
  <2> QED BY <2>1, <2>2, <2>3
<1>2. ExitInv => LossBounded BY <1>1
<1> QED BY <1>2, ExitHolds, PTL

\* Ticks are a minute apart in the code and hours apart here: a release in the
\* session is seen by a slot within its blackout.
TicksSeeReleases ==
  \A at \in Releases, c \in 1..6 :
    Slots[c] < at /\ at <= Slots[c + 1] /\ ~AtBell(Slots[c]) => at - BlackoutBefore <= Slots[c]

\* What the manager lets ride is flat of its obligations when the clock moves
\* on: no credit rides into a release, the one before the next open included,
\* nothing into its expiry and nothing past a deadline (manage.py, macro.py).
THEOREM ObligationsAreMet ==
  ASSUME TicksSeeReleases
  PROVE  Spec => ObligationsMet
<1> DEFINE Met == clock' # clock =>
                    \A p \in Positions : Holds(p) =>
                      /\ kind[p] = "credit" =>
                           \A at \in Releases : ~(Now < at /\ at <= Slots[clock'])
                      /\ Slots[clock'] < Expiry
                      /\ deadline # None => Now < deadline
<1>1. ASSUME ExitInv, [Next]_vars PROVE Met
  <2> SUFFICES ASSUME clock' # clock, NEW p \in Positions, Holds(p)
               PROVE  /\ kind[p] = "credit" =>
                           \A at \in Releases : ~(Now < at /\ at <= Slots[clock'])
                      /\ Slots[clock'] < Expiry
                      /\ deadline # None => Now < deadline
    OBVIOUS
  <2>1. Later
    BY <1>1
       DEF Next, vars, Tick, WalkRaises, Opens, Walk, WalkWithoutQuote, Contradicted, CloseFills,
           CloseDies
  <2>2. clock \in 1..6 /\ clock' = clock + 1 BY <1>1, <2>1 DEF Later, ExitInv, TypeOK, Slots
  <2>3. /\ clock = 1 => Now = 22 /\ Slots[clock'] = 32
        /\ clock = 2 => Now = 32 /\ Slots[clock'] = 67
        /\ clock = 3 => Now = 67 /\ Slots[clock'] = 73
        /\ clock = 4 => Now = 73 /\ Slots[clock'] = 80
        /\ clock = 5 => Now = 80 /\ Slots[clock'] = 211
        /\ clock = 6 => Now = 211 /\ Slots[clock'] = 224
    BY <2>2 DEF Now, Slots
  <2>4. /\ ~(deadline # None /\ Now >= deadline)
        /\ ~(Expiry - Now < 2 * MinHoursToExpiry)
        /\ ~(Blackout(Now) /\ kind[p] = "credit")
        /\ AtBell(Now) => /\ Weekday(Now) # 4
                          /\ ~(ReleaseBeforeNextOpen(Now) /\ kind[p] = "credit")
    BY <1>1, NotStruck
  <2>5. clock # 6 BY <2>3, <2>4 DEF Expiry, MinHoursToExpiry
  <2>6. clock # 5 BY <2>3, <2>4 DEF AtBell, Weekday
  <2>7. clock \in 1..4 BY <2>2, <2>5, <2>6
  <2>8. Slots[clock'] < Expiry BY <2>3, <2>7 DEF Expiry
  <2>9. deadline # None => Now < deadline
    BY <1>1, <2>3, <2>4, <2>7, CalendarAssumption DEF ExitInv, TypeOK
  <2>10. ASSUME kind[p] = "credit", NEW at \in Releases, Now < at, at <= Slots[clock']
         PROVE  FALSE
    <3>1. at \in Nat BY CalendarAssumption
    <3>2. CASE clock = 2
      <4>1. AtBell(Now) /\ NextOpen(Now) = 67
        BY <2>3, <3>2 DEF AtBell, NextOpen, Weekday
      <4>2. ReleaseBeforeNextOpen(Now)
        BY <2>3, <2>10, <3>1, <3>2, <4>1 DEF ReleaseBeforeNextOpen, BlackoutAfter
      <4> QED BY <2>4, <2>10, <4>1, <4>2
    <3>3. CASE clock # 2
      <4>1. clock \in {1, 3, 4} /\ ~AtBell(Now) BY <2>3, <2>7, <3>3 DEF AtBell
      <4>2. Now = Slots[clock] /\ Slots[clock'] = Slots[clock + 1] BY <2>2 DEF Now
      <4>3. at - BlackoutBefore <= Now BY <2>2, <2>10, <4>1, <4>2 DEF TicksSeeReleases
      <4>4. Now <= at + BlackoutAfter BY <2>3, <2>7, <2>10, <3>1 DEF BlackoutAfter
      <4>5. Blackout(Now) BY <4>3, <4>4 DEF Blackout
      <4> QED BY <2>4, <2>10, <4>5
    <3> QED BY <3>2, <3>3
  <2> QED BY <2>8, <2>9, <2>10
<1>2. ExitInv /\ [Next]_vars => [Met]_vars BY <1>1
<1> QED BY <1>2, ExitHolds, PTL DEF Spec, ObligationsMet
=============================================================================
