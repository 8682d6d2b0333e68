------------------------------ MODULE EntryRules ------------------------------
(***************************************************************************)
(* The rules a story's trade goes through: the edge test, the sizing, the  *)
(* fit to the delta band and the gate.  They keep no state: everything is  *)
(* handed in.                                                              *)
(*                                                                         *)
(* Moves are in tenths of a percent, money in dollars (budgets in cents),  *)
(* multipliers in ten-thousandths, times in minutes.                       *)
(***************************************************************************)
EXTENDS Integers, FiniteSets, FiniteSetsExt

CONSTANTS
  Equity,             \* the account's
  HeatPct,            \* risk.portfolio_heat_pct
  MaxPerMinute,       \* gate.max_orders_per_minute
  MaxPerDay,          \* gate.max_new_positions_per_day
  MaxPerName,         \* gate.max_positions_per_underlying
  MaxCorrelated,      \* gate.max_correlated_positions
  Correlations,       \* the pairs of names at or above correlation_threshold
  None

ASSUME LimitsAssumption ==
  {Equity, HeatPct, MaxPerMinute, MaxPerDay, MaxPerName, MaxCorrelated} \subseteq Nat

\* config/default.yaml.
One == 10000
RiskBudget == (Equity * 15) \div 1000
PositionCap == (Equity * 15) \div 1000
NameCap == (Equity * 3) \div 100
HeatCap == (Equity * HeatPct) \div 100
DeltaBand == (Equity * 40) \div 100
TargetVol == 200
SkipFirst == 15
SkipLast == 20
IntradayHours == 8

Lesser(a, b) == IF a < b THEN a ELSE b
Greater(a, b) == IF a > b THEN a ELSE b
Magnitude(x) == IF x < 0 THEN -x ELSE x

-----------------------------------------------------------------------------
(* The regime.  Factors are percentiles of today's reading, in hundredths: *)
(* calm is 0, stress 100.                                                  *)

\* The mean of the factors there are; without any it is unknown.
RegimeScore(factors) ==
  IF DOMAIN factors = {} THEN None
  ELSE MapThenSumSet(LAMBDA f : factors[f], DOMAIN factors) \div Cardinality(DOMAIN factors)

\* An unknown regime neither shrinks a trade nor moves a bound.
SizeMultiplier(score) == IF score = None THEN One ELSE One - 60 * score
VrpShift(score) == IF score = None THEN 0 ELSE (15 * (2 * score - 100)) \div 100

-----------------------------------------------------------------------------
(* evaluate_edge.                                                          *)

RemainingMove(expected, realized) ==
  IF realized = None THEN expected ELSE Greater(0, expected - realized)

\* The volatility premium must agree: buying below 1.35 times the forecast,
\* selling above 0.72; stress moves both towards selling.
VrpPermits(side, implied, forecast, shift) ==
  \/ forecast = None
  \/ side = "long" /\ 100 * implied <= (135 - Greater(shift, 0)) * forecast
  \/ side = "short" /\ 100 * implied >= (72 - shift) * forecast

\* The side of the premium a move is worth, "fair" inside the band, or "no"
\* for what the floor must not take up either.
EdgeVerdict(view, quote, relaxed) ==
  LET left == RemainingMove(view.expected, quote.realized)
      debitBar == IF relaxed THEN 100 ELSE 130
      creditBar == IF relaxed THEN 100 ELSE 70
      side == IF 100 * left >= debitBar * quote.implied /\ left > quote.implied THEN "long"
              ELSE IF 100 * left <= creditBar * quote.implied /\ left < quote.implied THEN "short"
              ELSE "fair"
  IN  IF \/ view.confidence < 60
         \/ quote.realized \notin {None, 0} /\ left = 0
         \/ left >= 5 * quote.implied
        THEN "no"
      ELSE IF side # "fair" /\ ~VrpPermits(side, quote.implied, quote.forecast, VrpShift(RegimeScore(quote.factors)))
        THEN "no"
      ELSE side

\* eligible_structures: one for every view, so the bandit has no choice.
Eligible(side, direction) ==
  CASE side = "long" /\ direction = "up"        -> "call_debit_spread"
    [] side = "long" /\ direction = "down"      -> "put_debit_spread"
    [] side = "long" /\ direction = "vol_only"  -> "long_strangle"
    [] side = "short" /\ direction = "up"       -> "bull_put_spread"
    [] side = "short" /\ direction = "down"     -> "bear_call_spread"
    [] side = "short" /\ direction = "vol_only" -> "iron_condor"

IsCredit(kind) == kind \in {"bull_put_spread", "bear_call_spread", "iron_condor"}

-----------------------------------------------------------------------------
(* Sizing.                                                                 *)

\* _taper: from One at start down to floor at the limit.
Taper(used, start, floor) ==
  IF used <= start \/ start >= One THEN One
  ELSE Greater(floor, One - ((One - floor) * (Lesser(used, One) - start)) \div (One - start))

HeatTaper(heat) ==
  IF HeatCap <= 0 THEN One ELSE Taper((heat * One) \div HeatCap, 6000, 3000)

\* daily: in hundredths of a percent; the halt is at two percent.
DrawdownTaper(daily) == IF daily >= 0 THEN One ELSE Taper((-daily * One) \div 200, 5000, 3000)

\* meta_multiplier, and the abstaining labeler's: p in hundredths.
Conviction(p, abstaining) ==
  IF p < 55 THEN 0
  ELSE IF abstaining \/ p >= 85 THEN One
  ELSE 4000 + (6000 * (p - 55)) \div 30

Times(m, n) == (m * n) \div One

\* size_position: what both budgets and the position's cap can carry.
SizePosition(risk, conviction, context, losses, vol) ==
  LET full == Times(Times(100 * RiskBudget, conviction), Greater(0, Lesser(context, One)))
      r == IF losses >= 4 THEN full \div 2 ELSE full
      byVol == IF vol = None THEN r ELSE (r * TargetVol) \div vol
  IN  Lesser(Lesser(r, byVol), 100 * PositionCap) \div (100 * risk)

\* Step 6b: the most, up to qty, that the band has room for.
FitDelta(qty, book, perSpread) ==
  IF perSpread = 0 THEN qty
  ELSE Max({0} \cup {q \in 1 .. qty : Magnitude(book + perSpread * q) <= DeltaBand})

-----------------------------------------------------------------------------
(* The gate.                                                               *)

\* correlated_exposure: the positions in other names that move with this one,
\* by the pairs that were handed in.
CorrelatedExposure(count, name, pairs) ==
  MapThenSumSet(LAMBDA n : IF n # name /\ {n, name} \in pairs THEN count[n] ELSE 0,
                              DOMAIN count)

Opposed(side) == IF side = "long" THEN "short" ELSE "long"

\* blackout: a dividend blocks what can be assigned, a split everything.
Blackout(action, credit) == action = "split" \/ (action = "dividend" /\ credit)

Veto(name, bad) == IF bad THEN {name} ELSE {}

SystemVetoes(x) == Veto("kill_switch", x.kill) \cup Veto("system_halted", x.halted)

\* An intraday thesis needs half of its horizon in this session; nothing is
\* opened that the flatten deadline would close on the next tick.
SessionVetoes(o, m, x) ==
  UNION {
    Veto("market_window", ~m.open \/ m.since < SkipFirst \/ m.toClose < SkipLast),
    Veto("session_room", /\ 0 < o.horizon /\ o.horizon <= IntradayHours
                         /\ 2 * m.toClose < 60 * o.horizon),
    Veto("flatten_deadline", x.past)}

ExposureVetoes(o, f) ==
  LET total == o.risk * o.qty IN
  UNION {
    Veto("position_size", o.qty < 1 \/ total > PositionCap),
    Veto("portfolio_heat", f.heat + total > HeatCap),
    Veto("greeks_bands", Magnitude(f.delta + o.delta * o.qty) > DeltaBand),
    Veto("concentration", f.count[o.name] >= MaxPerName \/ total > NameCap),
    Veto("correlation", CorrelatedExposure(f.count, o.name, f.pairs) >= MaxCorrelated)}

AccountVetoes(m, x) ==
  UNION {
    Veto("liquidity", ~x.liquid),
    Veto("time_to_expiry", x.expiry < 24),
    Veto("daily_loss", x.daily <= -200),
    Veto("max_drawdown", x.drawdown <= -600),
    Veto("rate_limit", m.orders >= MaxPerMinute \/ m.opened >= MaxPerDay)}

EventVetoes(o, x) ==
  Veto("macro_blackout", x.macro /\ IsCredit(o.kind))
    \cup Veto("corporate_action", Blackout(x.action, IsCredit(o.kind)))

\* The same structure, or a contract of it on either side.
BookVetoes(o, f) ==
  Veto("duplicate", <<o.name, o.kind, o.legs>> \in f.structures)
    \cup Veto("leg_conflict",
              \E leg \in o.legs : \E side \in {leg.side, Opposed(leg.side)} :
                [leg EXCEPT !.side = side] \in f.legs[o.name])

\* A target that does not clear the round trip's cost; none is known if 0.
CostVetoes(x) == Veto("cost_to_trade", x.cost > 0 /\ 2 * x.target < 3 * x.cost)

\* Every check but defined_risk, which no structure that was built fails,
\* whatever else failed.  m: the market snapshot, f: the portfolio's, x: the
\* day's conditions.
Vetoes(o, m, f, x) ==
  UNION {SystemVetoes(x), SessionVetoes(o, m, x), ExposureVetoes(o, f), AccountVetoes(m, x),
         EventVetoes(o, x), BookVetoes(o, f), CostVetoes(x)}
=============================================================================
