----------------------------- MODULE Structures -----------------------------
(***************************************************************************)
(* How a view becomes legs and a price, and what happens to that price:    *)
(* the strikes picked from a chain, the maximum loss booked on them, the   *)
(* rungs an entry concedes, the fill that corrects the booking, and the    *)
(* limit a close starts at and escalates to.                               *)
(*                                                                         *)
(* Money is in cents a share, which is dollars a spread; strikes too.      *)
(* A price is positive when it is paid.  Which order is at the broker, and *)
(* what becomes of a lost or late answer, is OrderLifecycle's.             *)
(***************************************************************************)
EXTENDS Integers, FiniteSets, FiniteSetsExt

CONSTANTS
  Chains,     \* the chains the market may show, sets of quotes
  Spot,       \* where the underlying is
  Moves,      \* the forecasts, in tenths of a percent
  SpreadPcts  \* quoted spreads the gate lets through, percent of the mid

\* config/default.yaml, gate, signal and execution.
MinOpenInterest == 200
MaxSpreadPct == 8
WingWidthPct == 1
MinMove == 5
ToleranceWidths == 2
LadderSteps == 2
LadderTick == 1
MaxConcessionPct == 15
CloseMaxAttempts == 4
CloseEscalationPct == 12

Rights == {"call", "put"}
CreditKinds == {"bull_put_spread", "bear_call_spread", "iron_condor"}
DebitKinds == {"call_debit_spread", "put_debit_spread", "long_strangle"}
Kinds == CreditKinds \cup DebitKinds

Abs(n) == IF n < 0 THEN -n ELSE n
Away(right) == IF right = "call" THEN 1 ELSE -1

\* Python's round: to the even neighbour when it is exactly between two.
HalfEven(a, b) ==
  LET q == a \div b  r == 2 * (a % b)
  IN q + (IF r > b \/ (r = b /\ q % 2 = 1) THEN 1 ELSE 0)
\* The same of binary fractions of a dollar, which lie on either side of a tie.
Rounded(a, b) ==
  {n \in {a \div b, a \div b + 1} : 2 * Abs(a - n * b) <= b}

ASSUME StructuresAssumption ==
  /\ Spot \in Nat \ {0} /\ Moves \subseteq Nat /\ SpreadPcts \subseteq 0..MaxSpreadPct
  /\ \A chain \in Chains :
       /\ IsFiniteSet(chain)
       /\ \A c \in chain : /\ c.right \in Rights /\ {c.strike, c.bid, c.ask, c.oi} \subseteq Nat
       /\ \A c, d \in chain : c.right = d.right /\ c.strike = d.strike => c = d

----------------------------------------------------------------------------
(* The chain. *)

TwiceMid(c) == c.bid + c.ask
Tradable(c) == c.bid > 0 /\ c.ask > c.bid
Side(chain, right) == {c \in chain : c.right = right /\ Tradable(c)}

\* The lower strike of two as near: the side is sorted by strike.
Nearest(side, target) ==
  CHOOSE c \in side : \A d \in side \ {c} :
    \/ Abs(c.strike - target) < Abs(d.strike - target)
    \/ Abs(c.strike - target) = Abs(d.strike - target) /\ c.strike < d.strike

\* At least two strikes, or there is no spread.
WingWidth(side) ==
  LET strikes == {c.strike : c \in side}
      increment == Min({Abs(p[1] - p[2]) : p \in {q \in strikes \X strikes : q[1] # q[2]}})
      steps == HalfEven(Spot * WingWidthPct, 100 * increment)
  IN increment * Max({1, steps})
HasWings(side) == Cardinality({c.strike : c \in side}) >= 2

Liquid(side) ==
  LET passing == {c \in side : /\ c.oi >= MinOpenInterest
                               /\ 200 * (c.ask - c.bid) <= MaxSpreadPct * TwiceMid(c)}
  IN IF passing = {} THEN side ELSE passing

MutantPick(liquid, full, target, tolerance) ==
  IF full = {} THEN {} ELSE {Nearest(IF liquid # {} THEN liquid ELSE full, target)}
\* One contract, or none when there is nothing to pick from.
Pick(liquid, full, target, tolerance) ==
  IF full = {} THEN {}
  ELSE LET geometric == Nearest(full, target)
           best == Nearest(liquid, target)
       IN {IF liquid # {} /\ Abs(best.strike - geometric.strike) <= tolerance
           THEN best ELSE geometric}
\* Away from the spot, up for calls and down for puts.
From(side, right, strike) == {c \in side : Away(right) * (c.strike - strike) >= 0}
Past(side, right, strike) == {c \in side : Away(right) * (c.strike - strike) > 0}
Legs(shorts, longs) == [short |-> shorts, long |-> longs]
Floored(move) == IF move > MinMove THEN move ELSE MinMove
Reach(right, move) == Spot + Away(right) * ((Spot * Floored(move)) \div 1000)

\* The credit spreads of one right: one, or none.
Credit(chain, right, move) ==
  LET full == Side(chain, right)
      width == WingWidth(full)
      target == Reach(right, move)
      shorts == Pick(From(Liquid(full), right, target), From(full, right, target),
                     target, ToleranceWidths * width)
      wings(s) == Pick(Past(Liquid(full), right, s.strike), Past(full, right, s.strike),
                       s.strike + Away(right) * width, width)
  IN IF HasWings(full)
     THEN UNION {{Legs({s}, {l}) : l \in wings(s)} : s \in shorts} ELSE {}

Debit(chain, right, move) ==
  LET full == Side(chain, right)
      width == WingWidth(full)
      longs == Pick(Liquid(full), full, Spot, ToleranceWidths * width)
      wings(l) == Pick(Past(Liquid(full), right, l.strike), Past(full, right, l.strike),
                       Reach(right, move), width)
  IN IF HasWings(full)
     THEN UNION {{Legs({s}, {l}) : s \in wings(l)} : l \in longs} ELSE {}

Condor(chain, move) ==
  {Legs(p.short \cup c.short, p.long \cup c.long) :
     p \in Credit(chain, "put", move), c \in Credit(chain, "call", move)}

Strangle(chain, move) ==
  LET width == WingWidth(Side(chain, "call"))
      otm(right) == LET full == Side(chain, right)
                    IN Pick(Past(Liquid(full), right, Spot), Past(full, right, Spot),
                            Reach(right, move), width)
  IN IF HasWings(Side(chain, "call"))
     THEN {Legs({}, {c, p}) : c \in otm("call"), p \in otm("put")} ELSE {}

\* NoSuitableStrikesError is the empty set.
BuildStructure(kind, chain, move) ==
  CASE kind = "bull_put_spread"   -> Credit(chain, "put", move)
    [] kind = "bear_call_spread"  -> Credit(chain, "call", move)
    [] kind = "iron_condor"       -> Condor(chain, move)
    [] kind = "call_debit_spread" -> Debit(chain, "call", move)
    [] kind = "put_debit_spread"  -> Debit(chain, "put", move)
    [] kind = "long_strangle"     -> Strangle(chain, move)

\* The legs at their mids, rounded to a cent.
NetPrice(legs) ==
  Rounded(SumFunction([c \in legs.long |-> TwiceMid(c)])
          - SumFunction([c \in legs.short |-> TwiceMid(c)]), 2)

----------------------------------------------------------------------------
(* What it can lose. *)

OfRight(legs, right) == {c \in legs.long \cup legs.short : c.right = right}

DefinedRisk(legs) ==
  /\ Cardinality(legs.long \cup legs.short) >= 2
  /\ \A right \in Rights : Cardinality(OfRight(legs, right) \cap legs.short)
                             <= Cardinality(OfRight(legs, right) \cap legs.long)

SpreadWidth(legs, right) ==
  LET strikes == {c.strike : c \in OfRight(legs, right)}
  IN IF strikes = {} THEN 0 ELSE Max(strikes) - Min(strikes)
\* A condor can only be breached on one side: the widest wing governs.
Width(legs) == Max({SpreadWidth(legs, right) : right \in Rights})
MutantMaxLoss(kind, legs, price) ==
  {IF kind \in DebitKinds THEN Abs(price) ELSE Width(legs) - Abs(price)}

\* ImplausiblePricingError is the empty set.
MaxLoss(kind, legs, price) ==
  IF kind \in DebitKinds THEN {Abs(price)} \ {0}
  ELSE {Width(legs) - Abs(price)} \cap (1..Width(legs))

\* What the position gives up now: long legs at the bid, short at the ask.
Same(c, d) == c.right = d.right /\ c.strike = d.strike
Now(chain, c) == CHOOSE d \in chain : Same(c, d)
Quoted(chain, legs) == \A c \in legs.long \cup legs.short : \E d \in chain : Same(c, d)
StructurePrice(chain, legs) ==
  SumFunction([c \in legs.long |-> Now(chain, c).bid])
    - SumFunction([c \in legs.short |-> Now(chain, c).ask])

----------------------------------------------------------------------------
(* One position, from the view to the books. *)

VARIABLES
  chain,     \* the market
  status,    \* positions.status
  kind, legs,
  spread,    \* features_json: spread_pct_of_mid
  entry,     \* positions.entry_price: asked, then paid
  maxLoss,   \* positions.max_loss
  limit,     \* orders.limit_price of the working order
  attempt,   \* entry_attempt, then close_attempt
  realized,  \* positions.realized_pnl
  \* history
  move,      \* the forecast the legs were picked for
  mark       \* the price the close was decided on

position == <<kind, legs, spread, move>>
vars == <<chain, status, position, entry, maxLoss, limit, attempt, realized, mark>>

NoLegs == Legs({}, {})
Init ==
  /\ chain \in Chains /\ status = "none"
  /\ kind \in Kinds /\ legs = NoLegs /\ spread = 0 /\ move = 0
  /\ entry = 0 /\ maxLoss = 0 /\ limit = 0 /\ attempt = 0 /\ realized = 0 /\ mark = 0

\* Trader.process_news from the view on: no legs, or no loss that can be
\* booked on them, is a dropped story.
Enter ==
  /\ status = "none"
  /\ \E k \in Kinds, m \in Moves, s \in SpreadPcts :
       \E l \in BuildStructure(k, chain, m) : \E price \in NetPrice(l) :
         /\ DefinedRisk(l)
         /\ maxLoss' \in MaxLoss(k, l, price)
         /\ kind' = k /\ legs' = l /\ spread' = s /\ move' = m
         /\ entry' = price /\ limit' = price
  /\ status' = "opening" /\ attempt' = 0
  /\ UNCHANGED <<chain, realized, mark>>

MutantStep(conceded) ==
  LET wish == HalfEven(Abs(entry) * spread, 400)
  IN {IF wish > LadderTick THEN wish ELSE LadderTick}
\* The larger of a tick and a quarter of the quoted spread, within the cap.
Step(conceded) ==
  LET wish == HalfEven(Abs(entry) * spread, 400)
      step == IF wish > LadderTick THEN wish ELSE LadderTick
      cap == Abs(entry) * MaxConcessionPct
  IN IF 100 * (conceded + step) <= cap THEN {step}
     ELSE {s \in Rounded(cap - 100 * conceded, 100) : s >= LadderTick}
EntryRung ==
  /\ status = "opening" /\ attempt < LadderSteps
  /\ \E s \in Step(limit - entry) : limit + s # 0 /\ limit' = limit + s
  /\ attempt' = attempt + 1
  /\ UNCHANGED <<chain, status, position, entry, maxLoss, realized, mark>>

\* A limit order fills at its limit or a cent better.
Fills == {limit, limit - 1}

\* An implausible fill keeps the estimate the entry was booked with.
Rebooked(price) ==
  LET risk == MaxLoss(kind, legs, price) IN IF risk = {} THEN {maxLoss} ELSE risk
EntryFill ==
  /\ status = "opening"
  /\ \E fill \in Fills : entry' = fill /\ maxLoss' \in Rebooked(fill)
  /\ status' = "open"
  /\ UNCHANGED <<chain, position, limit, attempt, realized, mark>>

EntryExpires ==
  /\ status = "opening" /\ status' = "failed"
  /\ UNCHANGED <<chain, position, entry, maxLoss, limit, attempt, realized, mark>>

Market ==
  /\ status = "open" /\ chain' \in Chains \ {chain}
  /\ UNCHANGED <<status, position, entry, maxLoss, limit, attempt, realized, mark>>

\* A close is priced order-side: the negation of what the position is worth.
\* With a leg that nobody quotes there is no price, and no close.
CloseLimit(price) == -price
Close ==
  /\ status = "open" /\ Quoted(chain, legs)
  /\ \E price \in {StructurePrice(chain, legs)} :
       mark' = price /\ limit' = CloseLimit(price)
  /\ status' = "closing" /\ attempt' = 1
  /\ UNCHANGED <<chain, position, entry, maxLoss, realized>>

MutantConceded(price) == HalfEven(price * (100 + CloseEscalationPct), 100)
Conceded(price) ==
  IF price > 0 THEN HalfEven(price * (100 + CloseEscalationPct), 100)
  ELSE HalfEven(price * 100, 100 + CloseEscalationPct)
CloseRung ==
  /\ status = "closing" /\ attempt < CloseMaxAttempts
  /\ limit' = Conceded(limit) /\ attempt' = attempt + 1
  /\ UNCHANGED <<chain, status, position, entry, maxLoss, realized, mark>>

MutantRealized(fill) == fill - entry
Realized(fill) == -fill - entry
CloseFill ==
  /\ status = "closing"
  /\ \E fill \in Fills : realized' = Realized(fill)
  /\ status' = "closed"
  /\ UNCHANGED <<chain, position, entry, maxLoss, limit, attempt, mark>>

Next == \/ Enter \/ EntryRung \/ EntryFill \/ EntryExpires
        \/ Market \/ Close \/ CloseRung \/ CloseFill
Spec == Init /\ [][Next]_vars

----------------------------------------------------------------------------
(* Properties *)

Quotes == UNION Chains
TypeOK ==
  /\ chain \in Chains
  /\ status \in {"none", "opening", "failed", "open", "closing", "closed"}
  /\ kind \in Kinds /\ legs \in [short : SUBSET Quotes, long : SUBSET Quotes]
  /\ spread \in SpreadPcts \cup {0} /\ move \in Moves \cup {0}
  /\ {entry, maxLoss, limit, realized, mark} \subseteq Int /\ maxLoss >= 0
  /\ attempt \in 0..CloseMaxAttempts

Holds == status \in {"opening", "open", "closing", "closed"}

(* What the legs pay at expiry, and the worst it can be: a reference for   *)
(* the loss the code books, over the kinks of a piecewise linear payoff.   *)
Intrinsic(c, price) ==
  LET gain == Away(c.right) * (price - c.strike) IN IF gain > 0 THEN gain ELSE 0
Payoff(price) ==
  SumFunction([c \in legs.long |-> Intrinsic(c, price)])
    - SumFunction([c \in legs.short |-> Intrinsic(c, price)])
WorstLoss(paid) ==
  paid - Min({Payoff(p) : p \in {0, 2 * Spot} \cup {c.strike : c \in legs.long \cup legs.short}})

\* The sign a structure of this kind should have: crossed quotes can turn it.
Sane(paid) == IF kind \in CreditKinds THEN paid < 0 ELSE paid > 0

(* The loss booked on a position is the worst its legs can do at expiry,   *)
(* and while the entry climbs its ladder it is short of that by no more    *)
(* than the concession the configuration allows, which never turns a       *)
(* credit into a debit.                                                    *)
BookedLossIsWorst ==
  (Holds /\ Sane(entry) /\ WorstLoss(entry) > 0) =>
    /\ maxLoss = WorstLoss(entry)
    /\ status = "opening" =>
         /\ Sane(limit)
         /\ 100 * (WorstLoss(limit) - maxLoss) <= MaxConcessionPct * Abs(entry) + 50

(* Liquidity may move a leg one notch; it may not redesign the spread: a   *)
(* credit's short legs are sold at or beyond where the forecast expects    *)
(* the price to reach, whatever trades there.  Their wings are further out *)
(* by the width and at most a notch, if a strike at the width trades; and, *)
(* if any trades within the width, by less than three widths.              *)
LiquidityKeepsTheShape ==
  [][Enter => \A s \in legs'.short : kind' \in CreditKinds =>
       LET full == Side(chain, s.right)
           width == WingWidth(full)
           outer == Past(full, s.right, s.strike)
           wings == {l \in legs'.long : l.right = s.right}
           distance(c) == Abs(c.strike - s.strike)
       IN /\ Away(s.right) * (s.strike - Reach(s.right, move')) >= 0
          /\ wings # {} /\ wings \subseteq outer
          /\ (\E c \in outer : distance(c) = width)
               => \A l \in wings : distance(l) <= 2 * width
          /\ (\E c \in outer : distance(c) <= width)
               => \A l \in wings : distance(l) < 3 * width]_vars

(* Each escalation of a close gives up at least a cent, once rounded, if   *)
(* there are five to give up a part of; none takes a concession back.      *)
EscalationConcedes ==
  [][CloseRung => limit' >= limit /\ (Abs(limit) >= 5 => limit' > limit)]_vars

(* What a close realizes is what the position was marked at when it was    *)
(* decided, less no more than the three escalations of twelve percent and  *)
(* their rounding: the obligation to be flat costs a bounded amount.       *)
CloseCostIsBounded ==
  status = "closed" =>
    /\ 100 * (mark - entry - realized) <= 41 * Abs(mark) + 200
    /\ realized - (mark - entry) <= 1
=============================================================================
