-------------------------------- MODULE Exits --------------------------------
(***************************************************************************)
(* What decides that an open position is closed: the manager's barriers,   *)
(* walked once a tick over the rows that were open when the tick read      *)
(* them, with the peak of each position kept in the store.                 *)
(*                                                                         *)
(* Time goes in half hours from Thursday midnight, and stops only where a  *)
(* tick may find the market open: mid-session and at the bell.  How a      *)
(* close order reaches the broker is OrderLifecycle's; here it fills or    *)
(* dies.  P&L is in dollars, marked anew by every walk.                    *)
(***************************************************************************)
EXTENDS Integers, Sequences, FiniteSets

CONSTANTS
  Positions,
  Gains,        \* the P&L a quote may show, up
  Losses,       \* and down
  Premium,      \* entry premium, dollars
  Wing,         \* the structure's maximum loss, dollars
  GapCap,       \* bell_max_unprotected_pct_equity, in dollars
  Releases,     \* when the macro calendar has one
  Horizons,     \* of the theses, in half hours
  Deadlines,    \* flatten_all_at, as it may be configured: a slot or None
  Faults,       \* "noquote", "raise": how a walk may fail
  None

ASSUME MoneyAssumption ==
  Gains \cup Losses \subseteq Nat /\ {Premium, Wing, GapCap} \subseteq Nat
ASSUME FaultsAssumption == Faults \subseteq {"noquote", "raise"}
ASSUME CalendarAssumption ==
  Releases \cup Horizons \subseteq Nat /\ Deadlines \subseteq Nat \cup {None}

Marks == Gains \cup {-l : l \in Losses}

\* config/default.yaml, manage and macro: percentages, hours and half hours.
CreditTakePct == 50
CreditStopPct == 150
DebitTakePct == 100
DebitStopPct == 40
BreakevenTriggerPct == 50
TrailArmPct == 60
TrailKeepPct == 50
MinHoursToExpiry == 24
BlackoutBefore == 4
BlackoutAfter == 1
IntradayHorizon == 16

\* Thursday's eleven o'clock and bell, Friday's open, half past twelve and
\* bell, Monday's open and bell, when the legs expire.
Slots == <<22, 32, 67, 73, 80, 211, 224>>
Expiry == 224
Weekday(t) == (3 + t \div 48) % 7
AtBell(t) == t % 48 = 32

VARIABLES
  deadline, \* manage.flatten_all_at
  clock,    \* the slot of Slots it is
  status,   \* positions.status
  kind,     \* a credit or a debit structure
  ends,     \* opened_at + horizon_hours
  peak,     \* positions.peak_pnl
  barrier,  \* close_barrier: what the last close was sent for
  todo,     \* the open rows of this tick that are still to be walked
  \* history
  intraday, \* the thesis was of this session
  walked,   \* the manager judged the position in this slot, on a quote
  mark,     \* the P&L of that judgement
  best      \* the best mark since the position opened

rowVars == <<status, kind, ends, peak, barrier>>
historyVars == <<intraday, walked, mark, best>>
vars == <<deadline, clock, rowVars, todo, historyVars>>

Now == Slots[clock]

Barriers ==
  {"deadline", "expiry_risk", "macro_risk", "thesis_complete", "thesis_broken", "stop",
   "bell", "trail", "breakeven", "profit", "time", "none"}

TypeOK ==
  /\ clock \in DOMAIN Slots /\ deadline \in Deadlines
  /\ status \in [Positions -> {"none", "open", "closing", "closed"}]
  /\ kind \in [Positions -> {"credit", "debit"}]
  /\ ends \in [Positions -> Nat]
  /\ peak \in [Positions -> Nat] /\ best \in [Positions -> Int] /\ mark \in [Positions -> Int]
  /\ barrier \in [Positions -> Barriers]
  /\ todo \subseteq Positions
  /\ walked \in [Positions -> BOOLEAN] /\ intraday \in [Positions -> BOOLEAN]

Init ==
  /\ clock = 1 /\ deadline \in Deadlines
  /\ status = [p \in Positions |-> "none"]
  /\ kind = [p \in Positions |-> "debit"]
  /\ ends = [p \in Positions |-> 0]
  /\ peak = [p \in Positions |-> 0]
  /\ barrier = [p \in Positions |-> "none"]
  /\ todo = {}
  /\ walked = [p \in Positions |-> FALSE] /\ intraday = [p \in Positions |-> FALSE]
  /\ mark = [p \in Positions |-> 0]
  /\ best = [p \in Positions |-> 0]

-----------------------------------------------------------------------------
(* The calendar.                                                           *)

\* current_window: a release is near, or was a moment ago.
Blackout(t) == \E at \in Releases : at - BlackoutBefore <= t /\ t <= at + BlackoutAfter

\* next_session_open: half past nine on the next weekday.
NextOpen(t) ==
  LET day == t \div 48
      ahead == IF Weekday(t) = 4 THEN 3 ELSE IF Weekday(t) = 5 THEN 2 ELSE 1
  IN  (day + ahead) * 48 + 19

MutantReleaseBeforeNextOpen(t) == Blackout(t)

\* release_before_next_open: one that no tick will see coming.
ReleaseBeforeNextOpen(t) ==
  \E at \in Releases : t < at /\ at <= NextOpen(t) + BlackoutAfter

-----------------------------------------------------------------------------
(* evaluate_position: the barriers, the first that applies.                *)

Target(k) == (Premium * (IF k = "credit" THEN CreditTakePct ELSE DebitTakePct)) \div 100

\* Never wider than the wing.
Stop(k) ==
  LET loss == (Premium * (IF k = "credit" THEN CreditStopPct ELSE DebitStopPct)) \div 100
  IN  IF loss < Wing THEN -loss ELSE -Wing

\* _bell_context: what is known at the last tick; a feed or a calendar that
\* does not answer knows of nothing.
BellContext(corporate) ==
  [friday |-> Weekday(Now) = 4, release |-> ReleaseBeforeNextOpen(Now), corporate |-> corporate]

MutantMustNotCarryLoser(k, pnl, bell) ==
  bell.friday \/ (pnl < 0 /\ Wing + Stop(k) > GapCap)

\* _bell_reason: no weekend for anybody, no release for a credit, no
\* corporate action; after that a winner carries and a loser must be small.
MustNotCarry(k, pnl, bell) ==
  \/ bell.friday
  \/ bell.release /\ k = "credit"
  \/ bell.corporate
  \/ pnl < 0 /\ \/ Stop(k) < 0 /\ 2 * pnl <= Stop(k)
                \/ Wing + Stop(k) > GapCap

TrailArmed(k, top) == 100 * top >= Target(k) * TrailArmPct
BreakevenArmed(k, top) == 100 * top >= Target(k) * BreakevenTriggerPct

MutantStrikes(b, k, e, pnl, top, achieved, corporate) ==
  CASE b = "stop" -> pnl <= Stop(k)
    [] b = "bell" -> AtBell(Now) /\ MustNotCarry(k, pnl, BellContext(corporate))
    [] b = "time" -> Now >= e /\ pnl > 0
    [] OTHER      -> b = "none"

\* What each barrier asks of a position of kind k that ends at e, marked at
\* pnl with its peak at top.  "achieved": the underlying has travelled.
Strikes(b, k, e, pnl, top, achieved, corporate) ==
  CASE b = "deadline"        -> deadline # None /\ Now >= deadline
    [] b = "expiry_risk"     -> Expiry - Now < 2 * MinHoursToExpiry
    [] b = "macro_risk"      -> Blackout(Now) /\ k = "credit"
    [] b = "thesis_complete" -> achieved
    [] b = "stop"            -> pnl <= Stop(k)
    [] b = "bell"            -> AtBell(Now) /\ MustNotCarry(k, pnl, BellContext(corporate))
    [] b = "trail"           -> TrailArmed(k, top) /\ 100 * pnl <= top * TrailKeepPct
    [] b = "breakeven"       -> BreakevenArmed(k, top) /\ pnl <= 0
    [] b = "profit"          -> pnl >= Target(k)
    [] b = "time"            -> Now >= e /\ pnl > 0
    [] OTHER                 -> TRUE

\* In order of severity.
Severity ==
  <<"deadline", "expiry_risk", "macro_risk", "thesis_complete", "stop", "bell",
    "trail", "breakeven", "profit", "time", "none">>

Decision(k, e, pnl, top, achieved, corporate) ==
  LET Struck(i) == Strikes(Severity[i], k, e, pnl, top, achieved, corporate)
  IN  Severity[CHOOSE i \in DOMAIN Severity : Struck(i) /\ \A j \in 1 .. i - 1 : ~Struck(j)]

-----------------------------------------------------------------------------
(* The trader.                                                             *)

\* When the entry that fills now was decided: not in the last minutes.
DecidedAt == IF AtBell(Now) THEN Now - 1 ELSE Now

MutantEffectiveHorizon(h, t) == h

\* effective_horizon: an intraday thesis is over by the last tick of its day.
EffectiveHorizon(h, t) ==
  LET left == 32 - (t % 48)
  IN  IF h <= IntradayHorizon /\ 0 < left /\ left < h THEN left ELSE h

\* An entry fills, at any time of day.
Opens(p, k, h) ==
  /\ status[p] = "none"
  /\ status' = [status EXCEPT ![p] = "open"]
  /\ kind' = [kind EXCEPT ![p] = k]
  /\ ends' = [ends EXCEPT ![p] = DecidedAt + EffectiveHorizon(h, DecidedAt)]
  /\ intraday' = [intraday EXCEPT ![p] = h <= IntradayHorizon]
  /\ UNCHANGED <<deadline, clock, peak, barrier, todo, walked, mark, best>>

\* manage_positions reads the rows once.
Tick ==
  /\ todo = {} /\ \E p \in Positions : status[p] = "open"
  /\ todo' = {p \in Positions : status[p] = "open"}
  /\ UNCHANGED <<deadline, clock, rowVars, historyVars>>

MutantRecordPeak(p, pnl) == IF pnl > 0 THEN pnl ELSE 0

MutantRecordMark(p, pnl) == pnl

\* record_peak_pnl: ratchets up only.
RecordPeak(p, pnl) == IF pnl > peak[p] THEN pnl ELSE peak[p]

\* _close: the row says so before the order is sent.
Close(p, b) ==
  /\ status' = [status EXCEPT ![p] = "closing"]
  /\ barrier' = [barrier EXCEPT ![p] = b]

\* The underlying can complete a credit's thesis only if it had a direction.
Walk(p, pnl, achieved, corporate) ==
  LET top == RecordPeak(p, pnl)
      b == Decision(kind[p], ends[p], pnl, top, achieved, corporate)
  IN  /\ p \in todo
      /\ todo' = todo \ {p}
      /\ peak' = [peak EXCEPT ![p] = top]
      /\ IF b # "none" THEN Close(p, b) ELSE UNCHANGED <<status, barrier>>
      /\ walked' = [walked EXCEPT ![p] = TRUE]
      /\ mark' = [mark EXCEPT ![p] = pnl]
      /\ best' = [best EXCEPT ![p] = IF pnl > @ THEN pnl ELSE @]
      /\ UNCHANGED <<deadline, clock, kind, ends, intraday>>

\* No quote for a leg: manage_error, and the next position.
WalkWithoutQuote(p) ==
  /\ "noquote" \in Faults
  /\ p \in todo /\ todo' = todo \ {p}
  /\ UNCHANGED <<deadline, clock, rowVars, historyVars>>

\* Any other error of the data's ends the tick, and so does a restart.
WalkRaises ==
  /\ "raise" \in Faults
  /\ todo # {} /\ todo' = {}
  /\ UNCHANGED <<deadline, clock, rowVars, historyVars>>

\* check_contradiction: a story reverses the thesis; the tick may be walking.
Contradicted(p) ==
  /\ status[p] = "open"
  /\ Close(p, "thesis_broken")
  /\ UNCHANGED <<deadline, clock, kind, ends, peak, todo, historyVars>>

CloseFills(p) ==
  /\ status[p] = "closing"
  /\ status' = [status EXCEPT ![p] = "closed"]
  /\ UNCHANGED <<deadline, clock, kind, ends, peak, barrier, todo, historyVars>>

\* Rejected, cancelled or over at the end of its day: the manager's again.
CloseDies(p) ==
  /\ status[p] = "closing"
  /\ status' = [status EXCEPT ![p] = "open"]
  /\ walked' = [walked EXCEPT ![p] = FALSE]
  /\ UNCHANGED <<deadline, clock, kind, ends, peak, barrier, todo, intraday, mark, best>>

Later ==
  /\ clock < Len(Slots) /\ todo = {}
  /\ clock' = clock + 1
  /\ walked' = [p \in Positions |-> FALSE]
  /\ UNCHANGED <<deadline, rowVars, todo, intraday, mark, best>>

Next ==
  \/ Tick \/ WalkRaises \/ Later
  \/ \E p \in Positions :
       \/ \E k \in {"credit", "debit"}, h \in Horizons : Opens(p, k, h)
       \/ \E pnl \in Marks, achieved, corporate \in BOOLEAN : Walk(p, pnl, achieved, corporate)
       \/ WalkWithoutQuote(p) \/ Contradicted(p) \/ CloseFills(p) \/ CloseDies(p)

Spec == Init /\ [][Next]_vars

\* Ticks follow one another, quotes come back, a close that is sent again
\* and again fills, and time goes on.
Fairness ==
  /\ WF_vars(Tick) /\ SF_vars(Later)
  /\ \A p \in Positions :
       /\ SF_vars(\E pnl \in Marks, achieved, corporate \in BOOLEAN :
                    Walk(p, pnl, achieved, corporate))
       /\ SF_vars(CloseFills(p))

FairSpec == Spec /\ Fairness

-----------------------------------------------------------------------------
(* Properties.                                                             *)

Holds(p) == status[p] = "open" /\ walked[p]

\* "No position carries a weekend", and no thesis of the session is carried
\* overnight at a profit: what the manager has judged at the bell and not sent
\* away is not there when the clock moves on.
NothingOverstays ==
  AtBell(Now) => \A p \in Positions : Holds(p) =>
    Weekday(Now) # 4 /\ (intraday[p] => mark[p] <= 0)

\* What the manager lets ride meets no obligation to be flat: no short
\* premium is held through a release, the one before the next open included
\* that no tick sees coming, nothing into its expiry, nothing past a deadline.
ObligationsMet ==
  [][clock' # clock =>
       \A p \in Positions : Holds(p) =>
         /\ kind[p] = "credit" => \A at \in Releases : ~(Now < at /\ at <= Slots[clock'])
         /\ Slots[clock'] < Expiry
         /\ deadline # None => Now < deadline]_vars

\* A position the manager lets ride keeps half of the best it ever was once
\* that was most of its target, and never goes from half its target to a
\* loss: whatever closed, died and was retried since, and across restarts.
WinnersKept ==
  \A p \in Positions : Holds(p) =>
    /\ TrailArmed(kind[p], best[p]) => 2 * mark[p] > best[p]
    /\ BreakevenArmed(kind[p], best[p]) => mark[p] > 0

\* The loss a position rides with is bounded: it is never the structure's
\* maximum, overnight it is less than half way to the stop, and what a gap
\* could add is in proportion.
LossBounded ==
  \A p \in Positions : Holds(p) /\ mark[p] < 0 =>
    /\ mark[p] > -Wing
    /\ AtBell(Now) => 2 * mark[p] > Stop(kind[p]) /\ Wing + Stop(kind[p]) <= GapCap

\* Every position is closed in the end.
EveryPositionExits == \A p \in Positions : status[p] = "open" ~> status[p] = "closed"
=============================================================================
