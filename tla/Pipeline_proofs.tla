---------------------------- MODULE Pipeline_proofs ----------------------------
(***************************************************************************)
(* The pipeline keeps its promises for every news, market, calendar and    *)
(* cap.  The invariant has three parts:                                    *)
(*   - StateInv: what a thread has in hand is whole, heard of and young    *)
(*     enough, and so are the deferred stories and the book's rows;        *)
(*   - HeatInv: the book and what the threads have in hand, together, fit  *)
(*     under the cap, give or take one position when there are two         *)
(*     threads;                                                            *)
(*   - SoloInv: with one thread, what the gate read of the book is still   *)
(*     so when the entry is written.                                       *)
(* The heat is a fold over the book, and what a fold adds up to is proved  *)
(* from the least subset on which it would not be so.                      *)
(***************************************************************************)
EXTENDS Pipeline, FiniteSetTheorems, WellFoundedInduction, TLAPS

Kinds == {"call_debit_spread", "bear_call_spread", "put_debit_spread", "bull_put_spread",
          "iron_condor", "long_strangle"}

\* A thread that has let its story in, and one that still may.
Admitted(t) == job[t].at \in {"remember", "analyst", "judge", "decide", "enter"}
Trading(t) == Admitted(t) \/ (job[t].at = "admit" /\ job[t].given)

\* A job has the parts of one, and an order those the gate has sized.
IsJob(j) ==
  j = [at |-> j.at, story |-> j.story, floor |-> j.floor, given |-> j.given,
       market |-> j.market, order |-> j.order, batch |-> j.batch]

IsOrder(o, s) ==
  /\ o.name = News[s].name /\ o.legs \subseteq Legs
  /\ o.risk \in Nat /\ o.qty \in Nat \ {0} /\ o.risk * o.qty <= PositionCap

\* A story that was heard; only such a story has an age.
Known(s) == s \in Stories /\ heard[s] # None

\* What a thread is doing: the story it has was heard, marked and still young
\* enough when it was let in, and its order has the parts of one.
JobInv(t) ==
  /\ IsJob(job[t])
  /\ job[t].floor \in BOOLEAN /\ job[t].given \in BOOLEAN
  /\ job[t].at = "idle" => ~job[t].floor /\ ~job[t].given
  /\ job[t].at = "ended" => job[t].floor
  /\ job[t].at \in {"new", "account", "remember"} => ~job[t].given
  /\ job[t].floor => t = "main" /\ job[t].given
  /\ job[t].at # "idle" => Known(job[t].story)
  /\ \A s \in job[t].batch : Known(s)
  /\ ~job[t].given /\ job[t].at \notin {"idle", "new"} => job[t].story \in seen
  /\ Trading(t) /\ ~job[t].floor => Age(job[t].story) <= MaxAge
  /\ job[t].at = "decide" => job[t].order.kind \in Kinds /\ job[t].order.score \in Int \cup {None}
  /\ job[t].at = "enter" => IsOrder(job[t].order, job[t].story)

\* A row is one of a signal that never entered, of one that left, or live.
RowInv(g) ==
  \/ rows[g] \in {NoRow, Left}
  \/ /\ rows[g].live = TRUE /\ rows[g].opened = TRUE
     /\ rows[g].risk \in Nat /\ rows[g].qty \in Nat \ {0} /\ rows[g].legs \subseteq Legs
     /\ g[2] = "organic" => rows[g].fresh

StateInv ==
  /\ TypeOK /\ IsFiniteSet(deferred) /\ \A s \in deferred : Known(s)
  /\ candidate # None => Known(candidate.story)
  /\ job = [t \in Threads |-> job[t]] /\ \A t \in Threads : JobInv(t)
  /\ rows = [g \in Signals |-> rows[g]] /\ \A g \in Signals : RowInv(g)

\* What a thread holds in hand is on its way into the book.
InHand(t) == IF job[t].at = "enter" THEN job[t].order.risk * job[t].order.qty ELSE 0

HeatInv ==
  Heat + InHand("main") + InHand("stream")
    <= HeatCap + IF world.socket THEN PositionCap ELSE 0

\* On either side of no contract of the book.
Apart(legs, others) ==
  \A a \in legs, b \in others : a.right = b.right => a.strike # b.strike

\* With one thread nothing moves between its look and its entry: a signal it
\* let in has no row, its order is apart from the book, and only the floor
\* works inside the band, on a day without a trade.
SoloInv ==
  ~world.socket =>
    /\ job["stream"] = Idle
    /\ \A g \in Signals : sent[g] = 0 \/ (sent[g] = 1 /\ rows[g] # NoRow)
    /\ Admitted("main") => rows[Signal("main")] = NoRow
    /\ job["main"].at = "enter" => Apart(job["main"].order.legs, LegsOf(job["main"].order.name))
    /\ LegsDisjoint
    /\ floorMode = job["main"].floor
    /\ job["main"].floor /\ job["main"].at # "ended" => OpenedToday = {}
    /\ job["main"].at \in {"decide", "enter"} /\ job["main"].order.relaxed => job["main"].floor

PipelineInv == StateInv /\ HeatInv /\ SoloInv

-----------------------------------------------------------------------------
(* Adding up.                                                              *)

\* What a function maps the elements of a set to, added up.
Total(f, S) == MapThenSumSet(LAMBDA x : f[x], S)

\* h adds f up over every part of D.
Adds(h, f, D) ==
  h = [s \in SUBSET D |-> IF s = {} THEN 0
                          ELSE f[CHOOSE x \in s : TRUE] + h[s \ {CHOOSE x \in s : TRUE}]]

\* One function adds f up over some set, and agrees there with what adds up
\* another one that is the same on it.
LEMMA SumsAgree ==
  ASSUME NEW f, NEW D, NEW h, Adds(h, f, D), NEW g, NEW E, NEW k, Adds(k, g, E),
         NEW S, IsFiniteSet(S), S \subseteq D, S \subseteq E, \A x \in S : f[x] = g[x]
  PROVE  h[S] = k[S]
<1> DEFINE Bad == {s \in SUBSET S : h[s] # k[s]}
<1>1. SUFFICES ASSUME Bad # {} PROVE FALSE OBVIOUS
<1>2. Bad \subseteq FiniteSubsetsOf(S) BY FS_Subset DEF FiniteSubsetsOf
<1>3. PICK s \in Bad : \A u \in Bad : <<u, s>> \notin StrictSubsetOrdering(S)
  BY <1>1, <1>2, FS_StrictSubsetOrderingWellFounded, WFMin
<1> DEFINE x == CHOOSE x \in s : TRUE
           r == s \ {x}
<1>4. s # {} BY <1>3 DEF Adds
<1>5. x \in s /\ r \in SUBSET S /\ r # s BY <1>4
<1>6. r \notin Bad BY <1>3, <1>5 DEF StrictSubsetOrdering
<1>7. h[r] = k[r] /\ f[x] = g[x] BY <1>5, <1>6
<1>8. s \in SUBSET D /\ s \in SUBSET E OBVIOUS
<1>9. h[s] = f[x] + h[r] /\ k[s] = g[x] + k[r] BY <1>4, <1>8 DEF Adds
<1> QED BY <1>3, <1>7, <1>9

\* Every finite set can be added up.
LEMMA SumsExist ==
  ASSUME NEW f, NEW D, IsFiniteSet(D)
  PROVE  \E h : Adds(h, f, D)
<1> DEFINE Bad == {s \in SUBSET D : ~ \E h : Adds(h, f, s)}
<1>1. SUFFICES ASSUME Bad # {} PROVE FALSE OBVIOUS
<1>2. Bad \subseteq FiniteSubsetsOf(D) BY FS_Subset DEF FiniteSubsetsOf
<1>3. PICK s \in Bad : \A u \in Bad : <<u, s>> \notin StrictSubsetOrdering(D)
  BY <1>1, <1>2, FS_StrictSubsetOrderingWellFounded, WFMin
<1> DEFINE H(u) == CHOOSE h : Adds(h, f, u)
           x(u) == CHOOSE y \in u : TRUE
           h == [u \in SUBSET s |-> IF u = {} THEN 0 ELSE f[x(u)] + H(u \ {x(u)})[u \ {x(u)}]]
<1>4. ASSUME NEW u \in SUBSET s, u # s
      PROVE  Adds(H(u), f, u)
  <2>1. u \notin Bad BY <1>3, <1>4 DEF StrictSubsetOrdering
  <2> QED BY <2>1
<1>5. ASSUME NEW u \in SUBSET s, u # s
      PROVE  h[u] = H(u)[u]
  <2>1. Adds(H(u), f, u) BY <1>4, <1>5
  <2>2. CASE u = {} BY <2>1, <2>2 DEF Adds
  <2>3. CASE u # {}
    <3> DEFINE v == u \ {x(u)}
    <3>1. x(u) \in u /\ v \in SUBSET s /\ v # s /\ v \subseteq u BY <2>3
    <3>2. Adds(H(v), f, v) BY <1>4, <3>1
    <3>3. IsFiniteSet(v) BY <3>1, FS_Subset
    <3>4. H(u)[v] = H(v)[v] BY <2>1, <3>1, <3>2, <3>3, SumsAgree
    <3>5. H(u)[u] = f[x(u)] + H(u)[v] BY <2>1, <2>3 DEF Adds
    <3>6. h[u] = f[x(u)] + H(v)[v] BY <2>3
    <3> QED BY <3>4, <3>5, <3>6
  <2> QED BY <2>2, <2>3
<1>6. Adds(h, f, s)
  <2>1. ASSUME NEW u \in SUBSET s, u # {}
        PROVE  h[u] = f[x(u)] + h[u \ {x(u)}]
    <3>1. x(u) \in u /\ u \ {x(u)} \in SUBSET s /\ u \ {x(u)} # s BY <2>1
    <3>2. h[u \ {x(u)}] = H(u \ {x(u)})[u \ {x(u)}] BY <1>5, <3>1
    <3>3. h[u] = f[x(u)] + H(u \ {x(u)})[u \ {x(u)}] BY <2>1
    <3> QED BY <3>2, <3>3
  <2>2. {} \in SUBSET s => h[{}] = 0 OBVIOUS
  <2>3. h = [u \in SUBSET s |-> h[u]] OBVIOUS
  <2> HIDE DEF h
  <2>4. \A u \in SUBSET s : h[u] = IF u = {} THEN 0 ELSE f[x(u)] + h[u \ {x(u)}] BY <2>1, <2>2
  <2> QED BY <2>3, <2>4 DEF Adds
<1> QED BY <1>3, <1>6

\* The fold of the community modules is such a sum.
LEMMA SumAdds ==
  ASSUME NEW f, NEW S, IsFiniteSet(S)
  PROVE  \E k : Adds(k, f, S) /\ Total(f, S) = k[S]
<1> DEFINE k == CHOOSE k : Adds(k, f, S)
<1>1. Adds(k, f, S) BY SumsExist
<1>2. Total(f, S) = k[S] BY DEF Total, MapThenSumSet, MapThenFoldSet, Adds
<1> QED BY <1>1, <1>2

\* It only matters what the elements of the set are mapped to.
LEMMA SumsEqual ==
  ASSUME NEW f, NEW g, NEW S, IsFiniteSet(S), \A x \in S : f[x] = g[x]
  PROVE  Total(f, S) = Total(g, S)
<1>1. PICK h : Adds(h, f, S) /\ Total(f, S) = h[S] BY SumAdds
<1>2. PICK k : Adds(k, g, S) /\ Total(g, S) = k[S] BY SumAdds
<1> QED BY <1>1, <1>2, SumsAgree

\* Nothing adds up to nothing, and numbers to a number.
LEMMA SumType ==
  ASSUME NEW f, NEW S, IsFiniteSet(S), NEW N \in {Nat, Int}, \A x \in S : f[x] \in N
  PROVE  Total(f, S) \in N /\ (S = {} => Total(f, S) = 0)
<1>1. PICK h : Adds(h, f, S) /\ Total(f, S) = h[S] BY SumAdds
<1>2. S = {} => h[S] = 0 BY <1>1 DEF Adds
<1> DEFINE Bad == {s \in SUBSET S : h[s] \notin N}
<1>3. Bad = {}
  <2>1. SUFFICES ASSUME Bad # {} PROVE FALSE OBVIOUS
  <2>2. Bad \subseteq FiniteSubsetsOf(S) BY FS_Subset DEF FiniteSubsetsOf
  <2>3. PICK s \in Bad : \A u \in Bad : <<u, s>> \notin StrictSubsetOrdering(S)
    BY <2>1, <2>2, FS_StrictSubsetOrderingWellFounded, WFMin
  <2> DEFINE x == CHOOSE x \in s : TRUE
  <2>4. s # {} BY <1>1, <2>3 DEF Adds
  <2>5. x \in s /\ s \ {x} \in SUBSET S /\ s \ {x} # s BY <2>4
  <2>6. h[s \ {x}] \in N /\ f[x] \in N BY <2>3, <2>5 DEF StrictSubsetOrdering
  <2>7. h[s] = f[x] + h[s \ {x}] BY <1>1, <2>3, <2>4 DEF Adds
  <2> HIDE DEF x
  <2> QED BY <2>3, <2>6, <2>7
<1> QED BY <1>1, <1>2, <1>3

\* Any element can be set apart.
LEMMA SumSplits ==
  ASSUME NEW f, NEW S, IsFiniteSet(S), \A x \in S : f[x] \in Int, NEW e \in S
  PROVE  Total(f, S) = f[e] + Total(f, S \ {e})
<1>1. PICK h : Adds(h, f, S) /\ Total(f, S) = h[S] BY SumAdds
<1>2. ASSUME NEW u \in SUBSET S PROVE h[u] = Total(f, u) /\ h[u] \in Int
  <2>1. IsFiniteSet(u) BY FS_Subset
  <2>2. PICK k : Adds(k, f, u) /\ Total(f, u) = k[u] BY <2>1, SumAdds
  <2>3. h[u] = k[u] BY <1>1, <2>1, <2>2, SumsAgree
  <2> QED BY <2>1, <2>2, <2>3, SumType
<1> DEFINE Bad == {s \in SUBSET S : \E x \in s : h[s] # f[x] + h[s \ {x}]}
<1>3. Bad = {}
  <2>1. SUFFICES ASSUME Bad # {} PROVE FALSE OBVIOUS
  <2>2. Bad \subseteq FiniteSubsetsOf(S) BY FS_Subset DEF FiniteSubsetsOf
  <2>3. PICK s \in Bad : \A u \in Bad : <<u, s>> \notin StrictSubsetOrdering(S)
    BY <2>1, <2>2, FS_StrictSubsetOrderingWellFounded, WFMin
  <2>4. PICK x \in s : h[s] # f[x] + h[s \ {x}] BY <2>3
  <2> DEFINE y == CHOOSE y \in s : TRUE
  <2>5. y \in s /\ h[s] = f[y] + h[s \ {y}] BY <1>1, <2>3, <2>4 DEF Adds
  <2>6. x # y BY <2>4, <2>5
  <2> HIDE DEF y
  <2>7. ASSUME NEW a \in s, NEW b \in s, a # b
        PROVE  h[s \ {a}] = f[b] + h[(s \ {a}) \ {b}]
    <3>1. s \ {a} \in SUBSET S /\ s \ {a} # s /\ b \in s \ {a} BY <2>7
    <3>2. s \ {a} \notin Bad BY <2>3, <3>1 DEF StrictSubsetOrdering
    <3> QED BY <3>1, <3>2
  <2>8. (s \ {x}) \ {y} = (s \ {y}) \ {x} OBVIOUS
  <2>9. h[s \ {y}] = f[x] + h[(s \ {y}) \ {x}] /\ h[s \ {x}] = f[y] + h[(s \ {y}) \ {x}]
    BY <2>5, <2>6, <2>7, <2>8
  <2>10. f[x] \in Int /\ f[y] \in Int /\ h[(s \ {y}) \ {x}] \in Int BY <1>2, <2>5
  <2> QED BY <2>4, <2>5, <2>9, <2>10
<1>4. h[S] = f[e] + h[S \ {e}] BY <1>3
<1> QED BY <1>1, <1>2, <1>4

\* A set of numbers up to n that is not empty has a maximum.
LEMMA MaxIsIn ==
  ASSUME NEW n \in Int, NEW S, S \subseteq 0 .. n, S # {}
  PROVE  Max(S) \in S
<1> DEFINE T == {k \in Nat : n - k \in S}
           R == {p \in Nat \X Nat : p[1] < p[2]}
<1>1. PICK s \in S : TRUE OBVIOUS
<1>2. n - s \in T BY <1>1
<1>3. IsWellFoundedOn(R, Nat) BY NatLessThanWellFounded DEF OpToRel
<1>4. PICK k \in T : \A j \in T : <<j, k>> \notin R BY <1>2, <1>3, WFMin
<1>5. ASSUME NEW y \in S PROVE n - k >= y
  <2>1. n - y \in T BY <1>5
  <2>2. ~(n - y < k) BY <1>4, <2>1
  <2> QED BY <1>4, <1>5, <2>2
<1> QED BY <1>4, <1>5 DEF Max

-----------------------------------------------------------------------------
(* What the rules return.                                                  *)

\* The caps are amounts.
LEMMA Caps == RiskBudget \in Nat /\ PositionCap \in Nat /\ HeatCap \in Nat
BY LimitsAssumption DEF RiskBudget, PositionCap, HeatCap

\* The regime is unknown or a number.
LEMMA RegimeType ==
  ASSUME NEW quote \in Quotes
  PROVE  RegimeScore(quote.factors) \in Int \cup {None}
<1> DEFINE F == quote.factors
<1>1. IsFiniteSet(DOMAIN F) /\ \A f \in DOMAIN F : F[f] \in Int BY QuotesAssumption
<1>2. Total(F, DOMAIN F) \in Int BY <1>1, SumType
<1>3. DOMAIN F # {} => Cardinality(DOMAIN F) \in Nat \ {0}
  BY <1>1, FS_CardinalityType, FS_EmptySet
<1>4. RegimeScore(F) = IF DOMAIN F = {} THEN None
                      ELSE Total(F, DOMAIN F) \div Cardinality(DOMAIN F)
  BY DEF RegimeScore, Total, MapThenSumSet, MapThenFoldSet
<1> QED BY <1>2, <1>3, <1>4

\* The verdicts, and what is eligible for one that trades.
LEMMA VerdictType ==
  ASSUME NEW view, NEW quote, NEW relaxed
  PROVE  EdgeVerdict(view, quote, relaxed) \in {"long", "short", "fair", "no"}
BY DEF EdgeVerdict

\* A side that trades has a structure for every direction.
LEMMA EligibleType ==
  ASSUME NEW side \in {"long", "short"}, NEW direction \in {"up", "down", "vol_only"}
  PROVE  Eligible(side, direction) \in Kinds
BY DEF Eligible, Kinds

\* A taper stays a number.
LEMMA TaperType ==
  ASSUME NEW used \in Int, NEW start \in {5000, 6000}
  PROVE  Taper(used, start, 3000) \in Int
<1>1. Lesser(used, One) - start \in Int /\ One - start \in Nat \ {0} BY DEF Lesser, One
<1>2. One - ((One - 3000) * (Lesser(used, One) - start)) \div (One - start) \in Int
  <2>1. (One - 3000) * (Lesser(used, One) - start) \in Int BY <1>1 DEF One
  <2> QED BY <1>1, <2>1 DEF One
<1> QED BY <1>2 DEF Taper, Greater, One

\* So does a product in parts of ten thousand.
LEMMA TimesType ==
  ASSUME NEW m \in Int, NEW n \in Int
  PROVE  Times(m, n) \in Int
<1>1. m * n \in Int OBVIOUS
<1> QED BY <1>1 DEF Times, One

\* Sizing returns a number for every number it is given.
LEMMA SizeType ==
  ASSUME NEW risk \in Nat \ {0}, NEW p \in Nat, NEW abstaining, NEW context \in Int,
         NEW losses, NEW vol \in (Nat \ {0}) \cup {None}
  PROVE  SizePosition(risk, Conviction(p, abstaining), context, losses, vol) \in Int
<1> DEFINE c == Conviction(p, abstaining)
           m == Greater(0, Lesser(context, One))
           full == Times(Times(100 * RiskBudget, c), m)
           r == IF losses >= 4 THEN full \div 2 ELSE full
           v == IF vol = None THEN r ELSE (r * TargetVol) \div vol
<1>1. c \in Int BY DEF Conviction, One
<1>2. m \in Int BY DEF Greater, Lesser, One
<1>3. full \in Int
  <2>1. 100 * RiskBudget \in Int BY Caps
  <2> HIDE DEF c, m
  <2> QED BY <1>1, <1>2, <2>1, TimesType
<1>4. r \in Int
  <2> HIDE DEF full
  <2> QED BY <1>3
<1>5. v \in Int
  <2> HIDE DEF r
  <2>1. r * TargetVol \in Int BY <1>4 DEF TargetVol
  <2> QED BY <1>4, <2>1
<1> DEFINE least == Lesser(Lesser(r, v), 100 * PositionCap)
<1>6. least \in Int
  <2> HIDE DEF r, v
  <2> QED BY <1>4, <1>5, Caps DEF Lesser
<1>7. SizePosition(risk, c, context, losses, vol) = least \div (100 * risk) BY DEF SizePosition
<1>8. ASSUME NEW n \in Int PROVE n \div (100 * risk) \in Int OBVIOUS
<1> HIDE DEF least
<1>9. least \div (100 * risk) \in Int BY <1>6, <1>8
<1> QED BY <1>7, <1>9

\* So does the fit to the band.
LEMMA FitType ==
  ASSUME NEW qty \in Int, NEW book, NEW perSpread
  PROVE  FitDelta(qty, book, perSpread) \in Int
<1> DEFINE S == {0} \cup {q \in 1 .. qty : Magnitude(book + perSpread * q) <= DeltaBand}
           n == IF qty < 0 THEN 0 ELSE qty
<1>1. n \in Int /\ S \subseteq 0 .. n /\ S # {} OBVIOUS
<1>2. Max(S) \in S BY <1>1, MaxIsIn
<1>3. Max(S) \in Int BY <1>1, <1>2
<1> QED BY <1>3 DEF FitDelta

\* An order nothing vetoes fits under the caps, apart from what is held.
LEMMA Cleared ==
  ASSUME NEW o, NEW m, NEW f, NEW x, Vetoes(o, m, f, x) = {}
  PROVE  /\ ~(o.qty < 1 \/ o.risk * o.qty > PositionCap)
         /\ ~(f.heat + o.risk * o.qty > HeatCap)
         /\ \A leg \in o.legs : \A side \in {leg.side, Opposed(leg.side)} :
              [leg EXCEPT !.side = side] \notin f.legs[o.name]
<1>1. ExposureVetoes(o, f) = {} /\ BookVetoes(o, f) = {} BY DEF Vetoes
<1>2. /\ Veto("position_size", o.qty < 1 \/ o.risk * o.qty > PositionCap) = {}
      /\ Veto("portfolio_heat", f.heat + o.risk * o.qty > HeatCap) = {}
  BY <1>1 DEF ExposureVetoes
<1>3. Veto("leg_conflict",
           \E leg \in o.legs : \E side \in {leg.side, Opposed(leg.side)} :
             [leg EXCEPT !.side = side] \in f.legs[o.name]) = {}
  BY <1>1 DEF BookVetoes
<1>4. ~(o.qty < 1 \/ o.risk * o.qty > PositionCap) /\ ~(f.heat + o.risk * o.qty > HeatCap)
  BY <1>2 DEF Veto
<1>5. ~ \E leg \in o.legs : \E side \in {leg.side, Opposed(leg.side)} :
          [leg EXCEPT !.side = side] \in f.legs[o.name]
  BY <1>3 DEF Veto
<1> QED BY <1>4, <1>5

\* The legs of every structure are contracts.
LEMMA LegsType ==
  ASSUME NEW kind \in Kinds, NEW k \in {1, 3}
  PROVE  LegsAt(kind, k) \subseteq Legs
<1>1. ASSUME NEW right \in {"call", "put"}, NEW strike \in 1 .. 4, NEW side \in Sides
      PROVE  [right |-> right, strike |-> strike, side |-> side] \in Legs
  BY DEF Legs
<1>2. k \in 1 .. 4 /\ k + 1 \in 1 .. 4 OBVIOUS
<1> QED BY <1>1, <1>2 DEF LegsAt, Kinds, Sides

-----------------------------------------------------------------------------
(* The book.                                                               *)

\* What a row puts at risk.
Stakes == [g \in Signals |-> rows[g].risk * rows[g].qty]

\* The heat is the stakes of the live rows, and a number.
LEMMA HeatIsStakes ==
  ASSUME StateInv
  PROVE  /\ Heat = Total(Stakes, LiveSignals) /\ Heat \in Nat
         /\ IsFiniteSet(LiveSignals) /\ \A g \in LiveSignals : Stakes[g] \in Nat
<1>1. IsFiniteSet(Signals)
  <2>1. IsFiniteSet({"organic"} \cup {"floor"}) BY FS_Singleton, FS_AddElement
  <2>2. {"organic", "floor"} = {"organic"} \cup {"floor"} OBVIOUS
  <2> QED BY <2>1, <2>2, StoriesAssumption, FS_Product DEF Signals
<1>2. IsFiniteSet(LiveSignals) BY <1>1, FS_Subset DEF LiveSignals
<1>3. \A g \in LiveSignals : Stakes[g] \in Nat
  BY DEF StateInv, RowInv, LiveSignals, Stakes, NoRow, Left
<1>4. Total(Stakes, LiveSignals) \in Nat BY <1>2, <1>3, SumType
<1> DEFINE P(k) == k = [s \in SUBSET LiveSignals |->
                          IF s = {} THEN 0
                          ELSE rows[CHOOSE x \in s : TRUE].risk * rows[CHOOSE x \in s : TRUE].qty
                                 + k[s \ {CHOOSE x \in s : TRUE}]]
           k == CHOOSE k : P(k)
<1>5. \A j : Adds(j, Stakes, LiveSignals) <=> P(j)
  BY DEF Adds, Stakes, LiveSignals
<1>6. P(k) /\ Adds(k, Stakes, LiveSignals)
  <2>1. \E j : Adds(j, Stakes, LiveSignals) BY <1>2, SumsExist
  <2> HIDE DEF P
  <2>2. \E j : P(j) BY <1>5, <2>1
  <2>3. P(k) BY <2>2
  <2> QED BY <1>5, <2>3
<1>7. Heat = k[LiveSignals] BY DEF Heat, MapThenSumSet, MapThenFoldSet
<1>8. PICK j : Adds(j, Stakes, LiveSignals) /\ Total(Stakes, LiveSignals) = j[LiveSignals]
  BY <1>2, SumAdds
<1>9. k[LiveSignals] = j[LiveSignals]
  <2> HIDE DEF k, P
  <2> QED BY <1>2, <1>6, <1>8, SumsAgree
<1> QED BY <1>2, <1>3, <1>4, <1>7, <1>8, <1>9

\* An order the gate let through, as it goes into the book.
LEMMA OrderType ==
  ASSUME StateInv, NEW t \in Threads, job[t].at = "decide",
         NEW k \in {1, 3}, NEW risk \in Risks, NEW x \in Days,
         NEW o, o = Order(t, k, risk, x), o.qty >= 1,
         Vetoes(o, job[t].market, Portfolio, x) = {}
  PROVE  /\ IsOrder(o, job[t].story)
         /\ Heat + o.risk * o.qty <= HeatCap
         /\ Apart(o.legs, LegsOf(o.name))
         /\ o.relaxed = job[t].order.relaxed
<1> DEFINE s == job[t].story
<1>1. /\ s \in Stories /\ job[t].order.kind \in Kinds
      /\ job[t].order.score \in Int \cup {None}
  BY DEF StateInv, JobInv, Known
<1>2. risk \in Nat \ {0} /\ x.daily \in Int /\ x.vol \in (Nat \ {0}) \cup {None}
      /\ News[s].confidence \in Nat /\ News[s].name \in Names
  BY <1>1, RisksAssumption, DaysAssumption, StoriesAssumption
<1>3. /\ SizeMultiplier(job[t].order.score) \in Int /\ HeatTaper(Heat) \in Int
      /\ DrawdownTaper(x.daily) \in Int
  <2>1. SizeMultiplier(job[t].order.score) \in Int BY <1>1 DEF SizeMultiplier, One
  <2>2. HeatTaper(Heat) \in Int
    <3>1. CASE HeatCap <= 0 BY <3>1 DEF HeatTaper, One
    <3>2. CASE ~(HeatCap <= 0)
      <4>1. HeatCap \in Nat \ {0} /\ Heat * One \in Int BY <3>2, Caps, HeatIsStakes DEF One
      <4>2. (Heat * One) \div HeatCap \in Int BY <4>1
      <4>3. HeatTaper(Heat) = Taper((Heat * One) \div HeatCap, 6000, 3000) BY <3>2 DEF HeatTaper
      <4> QED BY <4>2, <4>3, TaperType
    <3> QED BY <3>1, <3>2
  <2>3. DrawdownTaper(x.daily) \in Int
    <3>1. (-x.daily * One) \div 200 \in Int BY <1>2 DEF One
    <3> QED BY <3>1, TaperType DEF DrawdownTaper, One
  <2> QED BY <2>1, <2>2, <2>3
<1> DEFINE context == Times(Times(SizeMultiplier(job[t].order.score), IF x.macro THEN 6000 ELSE One),
                            Times(Times(HeatTaper(Heat), DrawdownTaper(x.daily)),
                                  IF floorMode THEN 5000 ELSE One))
           qty == SizePosition(risk, Conviction(News[s].confidence, x.abstaining), context, x.losses, x.vol)
<1>4. context \in Int
  <2> DEFINE macro == IF x.macro THEN 6000 ELSE One
             relaxed == IF floorMode THEN 5000 ELSE One
  <2>1. macro \in Int /\ relaxed \in Int BY DEF One
  <2> HIDE DEF macro, relaxed
  <2>2. Times(SizeMultiplier(job[t].order.score), macro) \in Int BY <1>3, <2>1, TimesType
  <2>3. Times(Times(HeatTaper(Heat), DrawdownTaper(x.daily)), relaxed) \in Int
    BY <1>3, <2>1, TimesType
  <2> QED BY <2>2, <2>3, TimesType DEF macro, relaxed
<1>5. qty \in Int
  <2> HIDE DEF context
  <2> QED BY <1>2, <1>4, SizeType
<1>6. /\ o.qty = FitDelta(qty, Portfolio.delta, DeltaOf(job[t].order.kind))
      /\ o.name = News[s].name /\ o.legs = LegsAt(job[t].order.kind, k) /\ o.risk = risk
      /\ o.relaxed = job[t].order.relaxed
  BY DEF Order
<1>7. o.qty \in Int
  <2> HIDE DEF qty
  <2> QED BY <1>5, <1>6, FitType
<1> HIDE DEF qty, context
<1>8. o.risk * o.qty \in Nat /\ o.qty \in Nat \ {0} BY <1>2, <1>6, <1>7
<1>9. /\ ~(o.risk * o.qty > PositionCap) /\ ~(Portfolio.heat + o.risk * o.qty > HeatCap)
      /\ \A leg \in o.legs : \A side \in {leg.side, Opposed(leg.side)} :
            [leg EXCEPT !.side = side] \notin Portfolio.legs[o.name]
  BY Cleared
<1>10. Portfolio.heat = Heat /\ Portfolio.legs[o.name] = LegsOf(o.name)
  BY <1>2, <1>6 DEF Portfolio
<1>11. o.legs \subseteq Legs BY <1>1, <1>6, LegsType
<1>12. IsOrder(o, s) BY <1>2, <1>6, <1>8, <1>9, <1>11, Caps DEF IsOrder
<1>13. Heat + o.risk * o.qty <= HeatCap BY <1>8, <1>9, <1>10, Caps, HeatIsStakes
<1>14. Apart(o.legs, LegsOf(o.name))
  <2>1. LegsOf(o.name) \subseteq Legs BY DEF LegsOf, LiveSignals, StateInv, TypeOK
  <2>2. ASSUME NEW a \in o.legs, NEW b \in LegsOf(o.name), a.right = b.right, a.strike = b.strike
        PROVE  FALSE
    <3>1. a \in Legs /\ b \in Legs BY <1>11, <2>1, <2>2
    <3>2. b = [a EXCEPT !.side = b.side] BY <2>2, <3>1 DEF Legs
    <3>3. b.side \in {a.side, Opposed(a.side)} BY <3>1 DEF Legs, Sides, Opposed
    <3> QED BY <1>9, <1>10, <2>2, <3>2, <3>3
  <2> QED BY <2>2 DEF Apart
<1> QED BY <1>6, <1>12, <1>13, <1>14

-----------------------------------------------------------------------------
(* The steps of a thread.                                                  *)

\* The clock and the stories that were heard stand still.
Steady ==
  /\ phase' = phase /\ seen \subseteq seen'
  /\ \A s \in Stories : Known(s) => heard'[s] = heard[s] /\ late'[s] = late[s]

\* A story that is known stays so, and as old as it is.
LEMMA SteadyStory ==
  ASSUME Steady, NEW s, Known(s)
  PROVE  Known(s)' /\ Age(s)' = Age(s)
BY DEF Steady, Known, Age, Minute

\* What the other threads do is left as it is.
LEMMA JobKept ==
  ASSUME Steady, NEW t, JobInv(t), job'[t] = job[t]
  PROVE  JobInv(t)'
<1>1. \A s : Known(s) => Known(s)' /\ Age(s)' = Age(s) BY SteadyStory
<1>2. (Trading(t) <=> Trading(t)') /\ seen \subseteq seen' BY DEF Trading, Admitted, Steady
<1>3. ~job[t].floor /\ Trading(t) => Known(job[t].story) BY DEF JobInv, Trading, Admitted
<1>4. job'[t].at = "enter" => IsOrder(job'[t].order, job'[t].story)
  BY DEF JobInv
<1> QED BY <1>1, <1>2, <1>3, <1>4 DEF JobInv, IsOrder

\* What a thread turns to keeps its story, and all else it has.
LEMMA GoesOn ==
  ASSUME StateInv, NEW t \in Threads, NEW at, Goes(t, at)
  PROVE  /\ job' = [job EXCEPT ![t] = job'[t]] /\ job' = [u \in Threads |-> job'[u]]
         /\ IsJob(job'[t]) /\ job'[t].at = at /\ job'[t].story = job[t].story
         /\ job'[t].floor = job[t].floor /\ job'[t].given = job[t].given
         /\ job'[t].batch = job[t].batch /\ job'[t].order = job[t].order
<1> DEFINE j == job[t]
           k == job'[t]
<1>1. job' = [job EXCEPT ![t] = k] /\ job' = [u \in Threads |-> job'[u]]
      /\ k = [j EXCEPT !.at = at]
  BY DEF Goes, StateInv
<1>2. IsJob(j) BY DEF StateInv, JobInv
<1>3. /\ IsJob(k) /\ k.at = at /\ k.story = j.story /\ k.floor = j.floor /\ k.given = j.given
      /\ k.batch = j.batch /\ k.order = j.order
  <2> HIDE DEF j, k
  <2> QED BY <1>1, <1>2 DEF IsJob
<1> QED BY <1>1, <1>3

\* What it is done with leaves it idle, but for the floor and the rest of a
\* batch.
LEMMA EndsWell ==
  ASSUME StateInv, Steady, NEW t \in Threads, NEW order, Ends(t, order)
  PROVE  /\ job' = [job EXCEPT ![t] = job'[t]] /\ job' = [u \in Threads |-> job'[u]]
         /\ job'[t].floor = job[t].floor
         /\ job'[t].at = IF job[t].floor THEN "ended" ELSE "idle"
         /\ t = "stream" /\ job[t].batch = {} => job'[t] = Idle
         /\ JobInv(t)'
<1> DEFINE j == job[t]
           i == [Idle EXCEPT !.batch = j.batch, !.market = IF j.batch = {} THEN None ELSE j.market]
<1>1. job' = [job EXCEPT ![t] = IF j.floor THEN [j EXCEPT !.at = "ended", !.order = order] ELSE i]
  BY DEF Ends
<1>2. JobInv(t) /\ IsJob(j) /\ j.floor \in BOOLEAN BY DEF StateInv, JobInv
<1>3. /\ job' = [job EXCEPT ![t] = job'[t]] /\ job' = [u \in Threads |-> job'[u]]
      /\ j.floor => job'[t] = [j EXCEPT !.at = "ended", !.order = order]
      /\ ~j.floor => job'[t] = i
  BY <1>1 DEF StateInv
<1>4. \A s : Known(s) => Known(s)' BY SteadyStory
<1>5. CASE j.floor
  <2>1. /\ IsJob(job'[t]) /\ job'[t].at = "ended" /\ job'[t].floor = j.floor
        /\ job'[t].given = j.given /\ job'[t].story = j.story /\ job'[t].batch = j.batch
    <3>1. job'[t] = [j EXCEPT !.at = "ended", !.order = order] BY <1>3, <1>5
    <3> HIDE DEF j
    <3>2. IsJob(j) BY <1>2
    <3> QED BY <3>1, <3>2 DEF IsJob
  <2>2. j.at # "idle" BY <1>2, <1>5 DEF JobInv
  <2>3. JobInv(t)' BY <1>2, <1>4, <1>5, <2>1, <2>2 DEF JobInv, Trading, Admitted
  <2>4. t # "stream" BY <1>2, <1>5 DEF JobInv
  <2> QED BY <1>3, <1>5, <2>1, <2>3, <2>4
<1>6. CASE ~j.floor
  <2>1. /\ IsJob(job'[t]) /\ job'[t].at = "idle" /\ job'[t].floor = FALSE
        /\ job'[t].given = FALSE /\ job'[t].batch = j.batch
        /\ j.batch = {} => job'[t] = Idle
    BY <1>3, <1>6 DEF IsJob, Idle
  <2>2. JobInv(t)' BY <1>2, <1>4, <2>1 DEF JobInv, Trading, Admitted
  <2> QED BY <1>2, <1>3, <1>6, <2>1, <2>2
<1> QED BY <1>2, <1>5, <1>6

\* A step that only a thread's own job could have spoilt.
LEMMA ThreadStep ==
  ASSUME StateInv, Steady, NEW t \in Threads,
         job' = [job EXCEPT ![t] = job'[t]], job' = [u \in Threads |-> job'[u]], JobInv(t)',
         TypeOK', IsFiniteSet(deferred'), \A s \in deferred' \ deferred : Known(s),
         candidate' # None /\ candidate' # candidate => Known(candidate'.story),
         rows' = [g \in Signals |-> rows'[g]], \A g \in Signals : RowInv(g)'
  PROVE  StateInv'
<1>1. \A s : Known(s) => Known(s)' BY SteadyStory
<1>2. \A s \in deferred' : Known(s)' BY <1>1 DEF StateInv
<1>3. (candidate # None => Known(candidate.story))' BY <1>1 DEF StateInv, Known
<1>4. ASSUME NEW u \in Threads PROVE JobInv(u)'
  <2>1. CASE u = t BY <2>1
  <2>2. CASE u # t
    <3>1. job'[u] = job[u] /\ JobInv(u) BY <2>2 DEF StateInv
    <3> QED BY <3>1, JobKept
  <2> QED BY <2>1, <2>2
<1> QED BY <1>2, <1>3, <1>4 DEF StateInv

\* Hearing of a story, which the thread is new to.
LEMMA HearsStep ==
  ASSUME StateInv, NEW t \in Threads, NEW s \in Stories, Hears(t, s)
  PROVE  StateInv'
<1>1. Steady /\ Known(s)'
  <2>1. phase \in DOMAIN Phases /\ phase \in Nat /\ heard' = [heard EXCEPT ![s] = phase]
        /\ s \in DOMAIN heard
    BY PhasesAssumption DEF StateInv, TypeOK, Hears
  <2>2. Known(s)' BY <2>1, PhasesAssumption DEF Known
  <2>3. ASSUME NEW r \in Stories, Known(r) PROVE heard'[r] = heard[r] /\ late'[r] = late[r]
    BY <2>1, <2>3 DEF Hears, Known, StateInv, TypeOK
  <2> QED BY <2>2, <2>3 DEF Steady, Hears, memoryVars
<1>2. /\ job' = [job EXCEPT ![t] = job'[t]] /\ job' = [u \in Threads |-> job'[u]]
      /\ job'[t] = [at |-> "new", story |-> s, floor |-> FALSE, given |-> FALSE,
                    market |-> None, order |-> None, batch |-> {}]
  BY DEF Hears, StateInv, Idle
<1>3. JobInv(t)' BY <1>1, <1>2 DEF JobInv, IsJob, Trading, Admitted
<1>4. TypeOK' BY <1>2 DEF Hears, StateInv, TypeOK, storeVars, memoryVars, LiveSignals
<1>5. UNCHANGED <<deferred, candidate, rows>> /\ \A g \in Signals : RowInv(g)'
  BY DEF Hears, storeVars, memoryVars, StateInv, RowInv
<1> QED BY <1>1, <1>2, <1>3, <1>4, <1>5, ThreadStep DEF StateInv

\* The mark that a story was seen leaves all else as it is.
LEMMA MarkStep ==
  ASSUME StateInv, NEW t \in Threads, MarksSeen(t) \/ Remembers(t)
  PROVE  StateInv'
<1>1. /\ \/ job[t].at = "new" /\ Goes(t, "account") /\ seen' = seen \cup {job[t].story}
            /\ memory' = memory
         \/ job[t].at = "remember" /\ Goes(t, "analyst") /\ seen' = seen
            /\ memory' = memory \cup {job[t].story}
      /\ UNCHANGED <<worldVars, recent, storeVars, deferred, candidate, floorMode, sent>>
  BY DEF MarksSeen, Remembers
<1>2. Steady BY <1>1 DEF Steady, worldVars
<1>3. PICK at \in {"account", "analyst"} :
         /\ job' = [job EXCEPT ![t] = job'[t]] /\ job' = [u \in Threads |-> job'[u]]
         /\ IsJob(job'[t]) /\ job'[t].at = at /\ job'[t].story = job[t].story
         /\ job'[t].floor = job[t].floor /\ job'[t].given = job[t].given
         /\ job'[t].batch = job[t].batch
         /\ at = "analyst" => job[t].at = "remember"
         /\ at = "account" => job[t].at = "new"
  BY <1>1, GoesOn
<1>4. JobInv(t) /\ Known(job[t].story) BY <1>1 DEF StateInv, JobInv
<1>5. \A s : Known(s) => Known(s)' /\ Age(s)' = Age(s) BY <1>2, SteadyStory
<1>6. JobInv(t)'
  <2>1. ~job'[t].given => job'[t].story \in seen' BY <1>1, <1>3, <1>4 DEF JobInv
  <2> QED BY <1>3, <1>4, <1>5, <2>1 DEF JobInv, Trading, Admitted
<1>7. seen' \subseteq Stories /\ memory' \subseteq seen'
  BY <1>1, <1>4 DEF JobInv, Known, StateInv, TypeOK
<1>8. TypeOK' BY <1>1, <1>3, <1>7 DEF StateInv, TypeOK, storeVars, worldVars, LiveSignals
<1>9. UNCHANGED <<deferred, candidate, rows>> /\ \A g \in Signals : RowInv(g)'
  BY <1>1 DEF storeVars, StateInv, RowInv
<1> QED BY <1>2, <1>3, <1>6, <1>8, <1>9, ThreadStep DEF StateInv

\* The account, the filter and the analyst: a story goes on or is dropped.
LEMMA AdmitStep ==
  ASSUME StateInv, NEW t \in Threads,
         ReadsAccount(t) \/ AccountFails(t) \/ Admits(t) \/ AnalystAnswers(t) \/ AnalystFails(t)
  PROVE  StateInv'
<1> DEFINE j == job[t]
           k == job'[t]
<1>1. UNCHANGED <<worldVars, recent, storeVars, memoryVars, sent>>
  BY DEF ReadsAccount, AccountFails, Admits, AnalystAnswers, AnalystFails
<1>2. Steady BY <1>1 DEF Steady, worldVars, memoryVars
<1>3. JobInv(t) /\ IsJob(j) BY DEF StateInv, JobInv
<1>4. \A s : Known(s) => Known(s)' /\ Age(s)' = Age(s) BY <1>2, SteadyStory
<1>5. /\ job' = [job EXCEPT ![t] = k] /\ job' = [u \in Threads |-> job'[u]]
      /\ JobInv(t)' /\ k.at \in {"idle", "ended", "admit", "judge", "remember"}
  <2>1. CASE Drops(t) BY <1>2, <2>1, EndsWell DEF Drops, StateInv, JobInv
  <2>2. CASE ReadsAccount(t)
    <3>1. job' = [job EXCEPT ![t] = k] /\ job' = [u \in Threads |-> job'[u]]
          /\ j.at = "account" /\ k = [j EXCEPT !.at = "admit", !.market = MarketNow]
      BY <2>2 DEF ReadsAccount, StateInv
    <3>2. /\ IsJob(k) /\ k.at = "admit" /\ k.story = j.story /\ k.floor = j.floor
          /\ k.given = j.given /\ k.batch = j.batch
      <4> HIDE DEF j, k
      <4> QED BY <1>3, <3>1 DEF IsJob
    <3>3. ~j.given BY <1>3, <3>1 DEF JobInv
    <3> QED BY <1>1, <1>3, <1>4, <3>1, <3>2, <3>3 DEF JobInv, Trading, Admitted, memoryVars
  <2>3. CASE \/ j.at = "analyst" /\ Goes(t, "judge")
             \/ j.at = "admit" /\ j.given /\ Goes(t, "judge")
             \/ j.at = "admit" /\ ~j.given /\ Passes(j.story) /\ Goes(t, "remember")
    <3>1. PICK at \in {"judge", "remember"} :
             /\ job' = [job EXCEPT ![t] = k] /\ job' = [u \in Threads |-> job'[u]]
             /\ IsJob(k) /\ k.at = at /\ k.story = j.story /\ k.floor = j.floor
             /\ k.given = j.given /\ k.batch = j.batch
             /\ at = "remember" => ~j.given
      BY <2>3, GoesOn
    <3>2. ~j.floor => Age(j.story) <= MaxAge
      BY <1>3, <2>3 DEF JobInv, Trading, Admitted, Passes
    <3>3. j.at \notin {"idle", "new", "ended"} /\ Known(j.story) BY <1>3, <2>3 DEF JobInv
    <3> QED BY <1>1, <1>3, <1>4, <3>1, <3>2, <3>3 DEF JobInv, Trading, Admitted, memoryVars
  <2> QED BY <2>1, <2>2, <2>3 DEF AccountFails, Admits, AnalystAnswers, AnalystFails
<1>6. TypeOK' BY <1>1, <1>5 DEF StateInv, TypeOK, worldVars, storeVars, memoryVars, LiveSignals
<1>7. UNCHANGED <<deferred, candidate, rows>> /\ \A g \in Signals : RowInv(g)'
  BY <1>1 DEF storeVars, memoryVars, StateInv, RowInv
<1> QED BY <1>2, <1>5, <1>6, <1>7, ThreadStep DEF StateInv

\* The edge test, and the candidate it may leave for the floor.
LEMMA JudgeStep ==
  ASSUME StateInv, NEW t \in Threads, NEW quote \in Quotes, Judges(t, quote)
  PROVE  StateInv'
<1> DEFINE j == job[t]
           k == job'[t]
           verdict == EdgeVerdict(News[j.story], quote, floorMode)
           relaxed == EdgeVerdict(News[j.story], quote, FALSE) = "fair"
           order == [kind |-> Eligible(verdict, News[j.story].direction), relaxed |-> relaxed,
                     score |-> RegimeScore(quote.factors)]
<1>1. UNCHANGED <<worldVars, recent, storeVars, seen, memory, deferred, floorMode, sent>>
      /\ j.at = "judge"
  BY DEF Judges
<1>2. Steady BY <1>1 DEF Steady, worldVars
<1>3. JobInv(t) /\ IsJob(j) /\ Known(j.story) BY <1>1 DEF StateInv, JobInv
<1>4. \A s : Known(s) => Known(s)' /\ Age(s)' = Age(s) BY <1>2, SteadyStory
<1>5. /\ job' = [job EXCEPT ![t] = k] /\ job' = [u \in Threads |-> job'[u]]
      /\ JobInv(t)' /\ k.at \in {"idle", "ended", "decide"}
  <2>1. CASE Drops(t) BY <1>2, <2>1, EndsWell DEF Drops, StateInv, JobInv
  <2>2. CASE /\ verdict \notin {"fair", "no"}
             /\ job' = [job EXCEPT ![t].at = "decide", ![t].order = order]
    <3>1. verdict \in {"long", "short"} BY <2>2, VerdictType
    <3>2. order.kind \in Kinds /\ order.score \in Int \cup {None}
      <4>1. News[j.story].direction \in {"up", "down", "vol_only"}
        BY <1>3, StoriesAssumption DEF Known
      <4> HIDE DEF verdict
      <4>2. Eligible(verdict, News[j.story].direction) \in Kinds BY <3>1, <4>1, EligibleType
      <4> QED BY <4>2, RegimeType
    <3> HIDE DEF order
    <3>3. job' = [job EXCEPT ![t] = k] /\ job' = [u \in Threads |-> job'[u]]
          /\ k = [j EXCEPT !.at = "decide", !.order = order]
      BY <2>2 DEF StateInv
    <3>4. /\ IsJob(k) /\ k.at = "decide" /\ k.story = j.story /\ k.floor = j.floor
          /\ k.given = j.given /\ k.batch = j.batch /\ k.order = order
      <4> HIDE DEF j, k
      <4> QED BY <1>3, <3>3 DEF IsJob
    <3> QED BY <1>1, <1>3, <1>4, <3>2, <3>3, <3>4 DEF JobInv, Trading, Admitted
  <2> QED BY <2>1, <2>2 DEF Judges
<1>6. candidate' = candidate \/ candidate'.story = j.story
  BY DEF Judges, Candidate
<1>7. TypeOK'
  BY <1>1, <1>3, <1>5, <1>6 DEF StateInv, TypeOK, Known, worldVars, storeVars, LiveSignals
<1>8. UNCHANGED <<deferred, rows>> /\ \A g \in Signals : RowInv(g)'
  BY <1>1 DEF storeVars, StateInv, RowInv
<1> QED BY <1>2, <1>3, <1>5, <1>6, <1>7, <1>8, ThreadStep DEF StateInv

\* Sizing and the gate: an order that fits, or nothing, and perhaps a retry.
LEMMA DecideStep ==
  ASSUME StateInv, NEW t \in Threads, NEW k \in {1, 3}, NEW risk \in Risks, NEW x \in Days,
         Decides(t, k, risk, x)
  PROVE  /\ StateInv'
         /\ \/ job'[t].at \in {"idle", "ended"}
            \/ /\ job'[t].at = "enter" /\ job'[t].story = job[t].story
               /\ job'[t].floor = job[t].floor
               /\ Heat + job'[t].order.risk * job'[t].order.qty <= HeatCap
               /\ Apart(job'[t].order.legs, LegsOf(job'[t].order.name))
               /\ job'[t].order.relaxed = job[t].order.relaxed
         /\ job' = [job EXCEPT ![t] = job'[t]]
<1> DEFINE j == job[t]
           i == job'[t]
<1>1. UNCHANGED <<worldVars, recent, storeVars, seen, memory, candidate, floorMode, sent>>
      /\ j.at = "decide"
  BY DEF Decides
<1>2. Steady BY <1>1 DEF Steady, worldVars
<1>3. JobInv(t) /\ IsJob(j) /\ Known(j.story) BY <1>1 DEF StateInv, JobInv
<1>4. \A s : Known(s) => Known(s)' /\ Age(s)' = Age(s) BY <1>2, SteadyStory
<1>5. PICK o : /\ o = Order(t, k, risk, x)
               /\ \/ /\ o.qty >= 1 /\ Vetoes(o, j.market, Portfolio, x) = {}
                     /\ job' = [job EXCEPT ![t].at = "enter", ![t].order = o]
                  \/ Drops(t)
               /\ \/ deferred' = deferred
                  \/ deferred' = deferred \cup {j.story} /\ Cardinality(deferred) < MaxDeferred
  BY DEF Decides, Deferrable
<1>6. /\ job' = [job EXCEPT ![t] = i] /\ job' = [u \in Threads |-> job'[u]] /\ JobInv(t)'
      /\ \/ i.at \in {"idle", "ended"}
         \/ /\ i.at = "enter" /\ i.story = j.story /\ i.floor = j.floor
            /\ Heat + i.order.risk * i.order.qty <= HeatCap
            /\ Apart(i.order.legs, LegsOf(i.order.name))
            /\ i.order.relaxed = j.order.relaxed
  <2>1. CASE Drops(t) BY <1>2, <2>1, EndsWell DEF Drops, StateInv, JobInv
  <2>2. CASE /\ o.qty >= 1 /\ Vetoes(o, j.market, Portfolio, x) = {}
             /\ job' = [job EXCEPT ![t].at = "enter", ![t].order = o]
    <3>1. /\ IsOrder(o, j.story) /\ Heat + o.risk * o.qty <= HeatCap
          /\ Apart(o.legs, LegsOf(o.name)) /\ o.relaxed = j.order.relaxed
      BY <1>1, <1>5, <2>2, OrderType
    <3>2. job' = [job EXCEPT ![t] = i] /\ job' = [u \in Threads |-> job'[u]]
          /\ i = [j EXCEPT !.at = "enter", !.order = o]
      BY <2>2 DEF StateInv
    <3>3. /\ IsJob(i) /\ i.at = "enter" /\ i.story = j.story /\ i.floor = j.floor
          /\ i.given = j.given /\ i.batch = j.batch /\ i.order = o
      <4> HIDE DEF j, i
      <4> QED BY <1>3, <3>2 DEF IsJob
    <3>4. JobInv(t)'
      BY <1>1, <1>3, <1>4, <3>1, <3>2, <3>3 DEF JobInv, Trading, Admitted, IsOrder
    <3> QED BY <3>1, <3>2, <3>3, <3>4
  <2> QED BY <1>5, <2>1, <2>2
<1>7. /\ IsFiniteSet(deferred') /\ deferred' \subseteq Stories
      /\ Cardinality(deferred') <= MaxDeferred
  <2>1. IsFiniteSet(deferred) /\ deferred \subseteq Stories /\ Cardinality(deferred) <= MaxDeferred
    BY DEF StateInv, TypeOK
  <2>2. CASE deferred' = deferred BY <2>1, <2>2
  <2>3. CASE deferred' = deferred \cup {j.story} /\ Cardinality(deferred) < MaxDeferred
    <3> HIDE DEF j
    <3>1. Cardinality(deferred) \in Nat BY <2>1, FS_CardinalityType
    <3>2. IsFiniteSet(deferred') /\ Cardinality(deferred') <= Cardinality(deferred) + 1
      BY <2>1, <2>3, <3>1, FS_AddElement
    <3> QED BY <3>2, <1>3, <2>1, <2>3, <3>1, DeferredAssumption, FS_CardinalityType DEF Known
  <2> QED BY <1>5, <2>2, <2>3
<1>8. TypeOK'
  BY <1>1, <1>6, <1>7 DEF StateInv, TypeOK, worldVars, storeVars, LiveSignals
<1>9. UNCHANGED <<candidate, rows>> /\ \A g \in Signals : RowInv(g)'
  BY <1>1 DEF storeVars, StateInv, RowInv
<1>10. StateInv' BY <1>2, <1>3, <1>5, <1>6, <1>7, <1>8, <1>9, ThreadStep DEF StateInv
<1> QED BY <1>6, <1>10

\* What is said of the heat in every state is said of the next one.
LEMMA HeatIsStakesNext ==
  StateInv' => /\ (Heat = Total(Stakes, LiveSignals))' /\ (Heat \in Nat)'
               /\ IsFiniteSet(LiveSignals)' /\ (\A g \in LiveSignals : Stakes[g] \in Nat)'
<1>1. StateInv => /\ Heat = Total(Stakes, LiveSignals) /\ Heat \in Nat
                  /\ IsFiniteSet(LiveSignals) /\ (\A g \in LiveSignals : Stakes[g] \in Nat)
  BY HeatIsStakes
<1> QED BY <1>1, PTL

\* One row is written: the heat grows by no more than its stake.
LEMMA RowWritten ==
  ASSUME StateInv, StateInv', NEW g \in Signals, \A h \in Signals \ {g} : rows'[h] = rows[h]
  PROVE  Heat' <= Heat + IF g \in LiveSignals' THEN Stakes'[g] ELSE 0
<1> DEFINE rest == LiveSignals \ {g}
<1>1. /\ Heat = Total(Stakes, LiveSignals) /\ Heat \in Nat /\ IsFiniteSet(LiveSignals)
      /\ \A h \in LiveSignals : Stakes[h] \in Nat
  BY HeatIsStakes
<1>2. /\ Heat' = Total(Stakes', LiveSignals') /\ IsFiniteSet(LiveSignals')
      /\ \A h \in LiveSignals' : Stakes'[h] \in Nat
  BY HeatIsStakesNext
<1>3. rest = LiveSignals' \ {g} /\ \A h \in rest : Stakes'[h] = Stakes[h]
  BY DEF LiveSignals, Stakes
<1>4. IsFiniteSet(rest) BY <1>1, FS_Subset
<1>5. Total(Stakes', rest) = Total(Stakes, rest) /\ Total(Stakes, rest) \in Nat
  <2> HIDE DEF rest
  <2>1. \A h \in rest : Stakes[h] \in Nat BY <1>1 DEF rest
  <2> QED BY <1>3, <1>4, <2>1, SumsEqual, SumType
<1>6. Total(Stakes, rest) <= Heat
  <2>1. CASE g \in LiveSignals
    <3>1. Heat = Stakes[g] + Total(Stakes, rest) BY <1>1, <2>1, SumSplits
    <3> QED BY <1>1, <1>5, <2>1, <3>1
  <2>2. CASE g \notin LiveSignals
    <3>1. rest = LiveSignals BY <2>2
    <3> QED BY <1>1, <3>1
  <2> QED BY <2>1, <2>2
<1>7. Heat' = Total(Stakes', rest) + IF g \in LiveSignals' THEN Stakes'[g] ELSE 0
  <2>1. CASE g \in LiveSignals'
    <3>1. Heat' = Stakes'[g] + Total(Stakes', LiveSignals' \ {g}) BY <1>2, <2>1, SumSplits
    <3>2. Total(Stakes', LiveSignals' \ {g}) = Total(Stakes', rest) BY <1>3
    <3>3. Stakes'[g] \in Nat /\ Total(Stakes', rest) \in Nat BY <1>2, <1>5, <2>1
    <3> HIDE DEF rest
    <3> QED BY <2>1, <3>1, <3>2, <3>3
  <2>2. CASE g \notin LiveSignals'
    <3>1. rest = LiveSignals' BY <1>3, <2>2
    <3> QED BY <1>2, <1>5, <2>2, <3>1
  <2> QED BY <2>1, <2>2
<1> HIDE DEF rest
<1> QED BY <1>1, <1>2, <1>5, <1>6, <1>7

\* The entry: the row, then the order, which the thread no longer has in hand.
LEMMA EnterStep ==
  ASSUME StateInv, NEW t \in Threads, Enters(t)
  PROVE  /\ StateInv' /\ Heat' <= Heat + InHand(t) /\ job'[t].at \in {"idle", "ended"}
         /\ job' = [job EXCEPT ![t] = job'[t]] /\ job'[t].floor = job[t].floor
         /\ (t = "stream" /\ job[t].batch = {} => job'[t] = Idle)
<1> DEFINE j == job[t]
           o == job[t].order
           g == Signal(t)
<1>1. /\ j.at = "enter" /\ Ends(t, o)
      /\ UNCHANGED <<worldVars, floorDate, floorTried, memoryVars>>
      /\ rows' = [rows EXCEPT ![g] =
                    [live |-> TRUE, opened |-> TRUE, name |-> o.name, kind |-> o.kind,
                     legs |-> o.legs, risk |-> o.risk, qty |-> o.qty, delta |-> o.delta,
                     relaxed |-> o.relaxed, fresh |-> Age(j.story) <= MaxAge]]
  BY DEF Enters
<1>2. Steady BY <1>1 DEF Steady, worldVars, memoryVars
<1>3. JobInv(t) /\ IsOrder(o, j.story) /\ Known(j.story) BY <1>1 DEF StateInv, JobInv
<1>4. g \in Signals /\ (g[2] = "organic" => ~j.floor)
  BY <1>3 DEF Signal, Signals, Known
<1>5. /\ job' = [job EXCEPT ![t] = job'[t]] /\ job' = [u \in Threads |-> job'[u]]
      /\ job'[t].floor = j.floor /\ job'[t].at \in {"idle", "ended"}
      /\ (t = "stream" /\ j.batch = {} => job'[t] = Idle) /\ JobInv(t)'
  BY <1>1, <1>2, <1>3, EndsWell DEF JobInv
<1>6. g[2] = "organic" => Age(j.story) <= MaxAge
  BY <1>1, <1>3, <1>4 DEF JobInv, Trading, Admitted
<1>7. /\ rows' = [h \in Signals |-> rows'[h]] /\ \A h \in Signals \ {g} : rows'[h] = rows[h]
      /\ rows'[g].live = TRUE /\ rows'[g].opened = TRUE /\ rows'[g].legs = o.legs
      /\ rows'[g].risk = o.risk /\ rows'[g].qty = o.qty
      /\ (rows'[g].fresh <=> Age(j.story) <= MaxAge)
  <2> HIDE DEF g, o, j
  <2> QED BY <1>1, <1>4 DEF StateInv
<1> HIDE DEF g, o
<1>8. \A h \in Signals : RowInv(h)'
  BY <1>3, <1>6, <1>7 DEF RowInv, StateInv, IsOrder
<1>9. recent' \in Nat /\ sent' \in [Signals -> Nat]
  BY <1>4, LimitsAssumption DEF Enters, StateInv, TypeOK, Lesser, g
<1>10. TypeOK'
  <2>1. \A h \in LiveSignals' : rows'[h].qty \in Nat \ {0} /\ rows'[h].legs \subseteq Legs
    BY <1>3, <1>7 DEF StateInv, TypeOK, LiveSignals, IsOrder
  <2>2. DOMAIN rows' = Signals BY <1>7
  <2> QED BY <1>1, <1>5, <1>9, <2>1, <2>2 DEF StateInv, TypeOK, worldVars, memoryVars
<1>11. StateInv'
  BY <1>1, <1>2, <1>5, <1>7, <1>8, <1>10, ThreadStep DEF StateInv, memoryVars
<1>12. g \in LiveSignals' /\ Stakes'[g] = o.risk * o.qty
  BY <1>4, <1>7 DEF LiveSignals, Stakes
<1>13. Heat' <= Heat + InHand(t)
  BY <1>1, <1>4, <1>7, <1>11, <1>12, RowWritten DEF InHand, o
<1> QED BY <1>5, <1>11, <1>13

\* A position leaves.
LEMMA LeaveStep ==
  ASSUME StateInv, NEW g \in Signals, PositionLeaves(g)
  PROVE  StateInv' /\ Heat' <= Heat
<1>1. /\ rows' = [h \in Signals |-> rows'[h]] /\ \A h \in Signals \ {g} : rows'[h] = rows[h]
      /\ rows'[g] = Left
      /\ UNCHANGED <<worldVars, recent, floorDate, floorTried, memoryVars, job, sent>>
  BY DEF PositionLeaves, StateInv
<1>2. Steady BY <1>1 DEF Steady, worldVars, memoryVars
<1>3. \A h \in Signals : RowInv(h)' BY <1>1 DEF RowInv, StateInv, NoRow, Left
<1>4. TypeOK'
  <2>1. \A h \in LiveSignals' : rows'[h].qty \in Nat \ {0} /\ rows'[h].legs \subseteq Legs
    BY <1>1 DEF StateInv, TypeOK, LiveSignals, Left
  <2>2. DOMAIN rows' = Signals BY <1>1
  <2> QED BY <1>1, <2>1, <2>2 DEF StateInv, TypeOK, worldVars, memoryVars
<1>5. JobInv("main")' BY <1>1, <1>2, JobKept DEF StateInv, Threads
<1>6. StateInv'
  BY <1>1, <1>2, <1>3, <1>4, <1>5, ThreadStep DEF StateInv, memoryVars, Threads
<1>7. g \notin LiveSignals' BY <1>1 DEF LiveSignals, Left
<1> QED BY <1>1, <1>6, <1>7, RowWritten, HeatIsStakes, HeatIsStakesNext

-----------------------------------------------------------------------------
(* The tick's own steps, and the world's.                                  *)

\* A thread that is idle has nothing that could be wrong.
LEMMA IdleJob ==
  ASSUME NEW t, job'[t] = Idle
  PROVE  JobInv(t)'
<1>1. /\ IsJob(job'[t]) /\ job'[t].at = "idle" /\ job'[t].floor = FALSE
      /\ job'[t].given = FALSE /\ job'[t].batch = {}
  BY DEF Idle, IsJob
<1> QED BY <1>1 DEF JobInv, Trading, Admitted

\* The retry of what was deferred, and the floor.
LEMMA TickStep ==
  ASSUME StateInv,
         StartsRetry \/ (\E s \in Stories : Retries(s)) \/ StartsFloor \/ EndsFloor
  PROVE  /\ StateInv' /\ UNCHANGED <<world, rows, sent>>
         /\ job'["main"].at \in {"idle", "admit"} /\ job'["stream"] = job["stream"]
<1> DEFINE t == "main"
           j == job[t]
           k == job'[t]
<1>1. /\ UNCHANGED <<worldVars, recent, rows, seen, memory, candidate, sent>>
      /\ floorMode' \in BOOLEAN /\ floorTried' \in BOOLEAN /\ floorDate' \in BOOLEAN
  BY DEF StartsRetry, Retries, StartsFloor, EndsFloor, storeVars, memoryVars, StateInv, TypeOK
<1>2. Steady BY <1>1 DEF Steady, worldVars
<1>3. JobInv(t) /\ IsJob(j) /\ t \in Threads BY DEF StateInv, JobInv, Threads
<1>4. \A s : Known(s) => Known(s)' /\ Age(s)' = Age(s) BY <1>2, SteadyStory
<1>5. /\ job' = [job EXCEPT ![t] = k] /\ job' = [u \in Threads |-> job'[u]]
      /\ JobInv(t)' /\ k.at \in {"idle", "admit"}
  <2>1. CASE StartsRetry
    <3>1. /\ job' = [job EXCEPT ![t] = k] /\ job' = [u \in Threads |-> job'[u]]
          /\ k = [j EXCEPT !.batch = deferred, !.market = MarketNow]
      BY <1>3, <2>1 DEF StartsRetry, StateInv
    <3>2. j = Idle BY <2>1 DEF StartsRetry, Free
    <3>3. /\ IsJob(k) /\ k.at = j.at /\ k.floor = j.floor /\ k.given = j.given
          /\ k.batch = deferred
      <4> HIDE DEF j, k
      <4> QED BY <1>3, <3>1 DEF IsJob
    <3>4. k.at = "idle" /\ k.floor = FALSE /\ k.given = FALSE BY <3>2, <3>3 DEF Idle
    <3> QED BY <1>4, <3>1, <3>3, <3>4 DEF JobInv, Trading, Admitted, StateInv
  <2>2. ASSUME NEW s \in Stories, Retries(s)
        PROVE  /\ job' = [job EXCEPT ![t] = k] /\ job' = [u \in Threads |-> job'[u]]
               /\ JobInv(t)' /\ k.at \in {"idle", "admit"}
    <3>1. /\ job' = [job EXCEPT ![t] = k] /\ job' = [u \in Threads |-> job'[u]]
          /\ j.at = "idle" /\ s \in j.batch
          /\ k = IF ~TooOld(s)
                   THEN [j EXCEPT !.at = "admit", !.story = s, !.given = TRUE, !.batch = j.batch \ {s}]
                 ELSE IF j.batch \ {s} = {} THEN Idle
                 ELSE [j EXCEPT !.batch = j.batch \ {s}]
      BY <1>3, <2>2 DEF Retries, StateInv
    <3>2. ~j.floor /\ ~j.given /\ Known(s) /\ \A r \in j.batch : Known(r)
      BY <1>3, <3>1 DEF JobInv
    <3>3. CASE ~TooOld(s)
      <4>1. /\ IsJob(k) /\ k.at = "admit" /\ k.story = s /\ k.given = TRUE /\ k.floor = j.floor
            /\ k.batch = j.batch \ {s}
        <5>1. k = [j EXCEPT !.at = "admit", !.story = s, !.given = TRUE, !.batch = j.batch \ {s}]
          BY <3>1, <3>3
        <5> HIDE DEF j, k
        <5> QED BY <1>3, <5>1 DEF IsJob
      <4>2. Age(s) <= MaxAge
        <5>1. Age(s) \in Int
          <6>1. /\ phase \in 1 .. Len(Phases) /\ heard[s] \in 1 .. Len(Phases)
                /\ \A p \in 1 .. Len(Phases) : Phases[p] \in Nat
            BY <3>2, PhasesAssumption DEF StateInv, TypeOK, Known
          <6> QED BY <6>1 DEF Age, Minute, OldAge
        <5> QED BY <3>3, <5>1 DEF TooOld, MaxAge
      <4> QED BY <1>3, <1>4, <3>1, <3>2, <4>1, <4>2 DEF JobInv, Trading, Admitted
    <3>4. CASE TooOld(s) /\ j.batch \ {s} = {}
      <4>1. k = Idle BY <3>1, <3>4
      <4>2. k.at = "idle" BY <4>1 DEF Idle
      <4> QED BY <3>1, <4>1, <4>2, IdleJob
    <3>5. CASE TooOld(s) /\ j.batch \ {s} # {}
      <4>1. /\ IsJob(k) /\ k.at = "idle" /\ k.given = j.given /\ k.floor = j.floor
            /\ k.batch = j.batch \ {s}
        <5>1. k = [j EXCEPT !.batch = j.batch \ {s}] BY <3>1, <3>5
        <5> HIDE DEF j, k
        <5> QED BY <1>3, <3>1, <5>1 DEF IsJob
      <4> QED BY <1>3, <1>4, <3>1, <3>2, <4>1 DEF JobInv, Trading, Admitted
    <3> QED BY <3>3, <3>4, <3>5
  <2>3. CASE StartsFloor
    <3>1. /\ job' = [job EXCEPT ![t] = k] /\ job' = [u \in Threads |-> job'[u]]
          /\ k = [Idle EXCEPT !.at = "admit", !.story = candidate.story, !.floor = TRUE,
                              !.given = TRUE, !.market = MarketNow]
          /\ candidate # None
      BY <1>3, <2>3 DEF StartsFloor, FloorDue, StateInv
    <3>2. /\ IsJob(k) /\ k.at = "admit" /\ k.floor = TRUE /\ k.given = TRUE
          /\ k.batch = {} /\ k.story = candidate.story
      BY <3>1 DEF IsJob, Idle
    <3>3. Known(j.story)' BY <1>4, <3>1, <3>2 DEF StateInv, Known
    <3> QED BY <3>1, <3>2, <3>3 DEF JobInv, Trading, Admitted
  <2>4. CASE EndsFloor
    <3>1. /\ job' = [job EXCEPT ![t] = k] /\ job' = [u \in Threads |-> job'[u]] /\ k = Idle
      BY <1>3, <2>4 DEF EndsFloor, StateInv
    <3>2. k.at = "idle" BY <3>1 DEF Idle
    <3> QED BY <3>1, <3>2, IdleJob
  <2> QED BY <2>1, <2>2, <2>3, <2>4
<1>6. /\ deferred' \subseteq deferred /\ IsFiniteSet(deferred') /\ deferred' \subseteq Stories
      /\ Cardinality(deferred') <= MaxDeferred
  <2>1. deferred' \subseteq deferred
    BY DEF StartsRetry, Retries, StartsFloor, EndsFloor, memoryVars, Popped
  <2>2. IsFiniteSet(deferred') /\ Cardinality(deferred') <= Cardinality(deferred)
        /\ Cardinality(deferred) \in Nat /\ Cardinality(deferred') \in Nat
    BY <2>1, FS_Subset, FS_CardinalityType DEF StateInv
  <2> QED BY <2>1, <2>2, DeferredAssumption DEF StateInv, TypeOK
<1>7. TypeOK' BY <1>1, <1>5, <1>6 DEF StateInv, TypeOK, worldVars, LiveSignals
<1>8. \A g \in Signals : RowInv(g)' BY <1>1 DEF StateInv, RowInv
<1> HIDE DEF k, j
<1>9. StateInv' BY <1>1, <1>2, <1>3, <1>5, <1>6, <1>7, <1>8, ThreadStep DEF StateInv, k
<1>10. job'["stream"] = job["stream"] BY <1>5 DEF StateInv, Threads
<1> QED BY <1>1, <1>5, <1>9, <1>10 DEF k, worldVars

\* Time passes, with every thread at rest; a restart forgets.
LEMMA WorldStep ==
  ASSUME StateInv, TimePasses \/ NextPhase \/ Restart \/ UNCHANGED vars
  PROVE  StateInv'
<1>1. /\ UNCHANGED <<heard, late, rows, sent, world>> /\ recent' \in Nat
      /\ floorMode' \in BOOLEAN /\ floorTried' \in BOOLEAN /\ floorDate' \in BOOLEAN
  <2>1. recent \in Nat /\ floorMode \in BOOLEAN /\ floorTried \in BOOLEAN /\ floorDate \in BOOLEAN
    BY DEF StateInv, TypeOK
  <2>2. CASE TimePasses BY <2>1, <2>2 DEF TimePasses, worldVars, memoryVars
  <2>3. CASE NextPhase BY <2>1, <2>3 DEF NextPhase, memoryVars
  <2>4. CASE Restart BY <2>1, <2>4 DEF Restart, worldVars, storeVars
  <2>5. CASE UNCHANGED vars BY <2>1, <2>5 DEF vars, worldVars, storeVars, memoryVars
  <2> QED BY <2>2, <2>3, <2>4, <2>5
<1>2. \A s : Known(s)' <=> Known(s) BY <1>1 DEF Known
<1>3. \A g \in Signals : RowInv(g)' BY <1>1 DEF StateInv, RowInv
<1>4. CASE TimePasses \/ UNCHANGED vars
  <2>1. UNCHANGED <<worldVars, memoryVars, job>> BY <1>4 DEF TimePasses, vars
  <2>2. Steady BY <2>1 DEF Steady, worldVars, memoryVars
  <2>3. \A t \in Threads : JobInv(t)' BY <2>1, <2>2, JobKept DEF StateInv
  <2>4. TypeOK' BY <1>1, <2>1 DEF StateInv, TypeOK, worldVars, memoryVars, LiveSignals
  <2> QED BY <1>1, <1>2, <1>3, <2>1, <2>3, <2>4 DEF StateInv, memoryVars
<1>5. CASE NextPhase
  <2>1. UNCHANGED <<memoryVars, job>> /\ \A t \in Threads : job[t] = Idle
    BY <1>5 DEF NextPhase, Free
  <2>2. \A t \in Threads : JobInv(t)' BY <2>1, IdleJob
  <2>3. phase' \in DOMAIN Phases
    BY <1>5, PhasesAssumption DEF NextPhase, StateInv, TypeOK
  <2>4. TypeOK' BY <1>1, <2>1, <2>3 DEF StateInv, TypeOK, memoryVars, LiveSignals
  <2> QED BY <1>1, <1>2, <1>3, <2>1, <2>2, <2>4 DEF StateInv, memoryVars
<1>6. CASE Restart
  <2>1. /\ seen' = {} /\ memory' = {} /\ deferred' = {} /\ candidate' = None
        /\ job' = [t \in Threads |-> Idle] /\ phase' = phase
    BY <1>6 DEF Restart, worldVars
  <2>2. \A t \in Threads : JobInv(t)' BY <2>1, IdleJob
  <2>3. IsFiniteSet(deferred') /\ Cardinality(deferred') <= MaxDeferred
    BY <2>1, FS_EmptySet, DeferredAssumption
  <2>4. TypeOK' BY <1>1, <2>1, <2>3 DEF StateInv, TypeOK, LiveSignals, Idle
  <2> QED BY <1>1, <1>3, <2>1, <2>2, <2>3, <2>4 DEF StateInv
<1> QED BY <1>4, <1>5, <1>6

\* Every step keeps the types, the parts of jobs and rows, and the age of what
\* is traded.
LEMMA StateStep == StateInv /\ [Next]_vars => StateInv'
<1> SUFFICES ASSUME StateInv, [Next]_vars PROVE StateInv'
  OBVIOUS
<1>1. ASSUME NEW t \in Threads, Work(t) PROVE StateInv'
  BY <1>1, MarkStep, AdmitStep, JudgeStep, DecideStep, EnterStep DEF Work
<1> QED BY <1>1, HearsStep, TickStep, WorldStep, LeaveStep DEF Next

\* The start.
LEMMA StateInit == Init => StateInv
<1> SUFFICES ASSUME Init PROVE StateInv
  OBVIOUS
<1>1. /\ rows = [g \in Signals |-> NoRow] /\ job = [t \in Threads |-> Idle] /\ deferred = {}
      /\ candidate = None
  BY DEF Init
<1>2. IsFiniteSet(deferred) /\ Cardinality(deferred) <= MaxDeferred
  BY <1>1, FS_EmptySet, DeferredAssumption
<1>3. 1 \in DOMAIN Phases BY PhasesAssumption
<1>4. LiveSignals = {} BY <1>1 DEF LiveSignals, NoRow
<1>5. TypeOK BY <1>2, <1>3, <1>4 DEF Init, TypeOK, Idle, Threads
<1>6. \A t \in Threads : JobInv(t) BY <1>1 DEF JobInv, IsJob, Idle, Trading, Admitted
<1> QED BY <1>1, <1>2, <1>5, <1>6 DEF StateInv, RowInv

-----------------------------------------------------------------------------
(* One thread, and the heat.                                               *)

\* What a thread does before the gate leaves the book alone; it lets in no
\* signal that has a row, and none inside the band but for the floor.
LEMMA QuietWork ==
  ASSUME StateInv, NEW t \in Threads,
         \/ MarksSeen(t) \/ ReadsAccount(t) \/ AccountFails(t) \/ Admits(t) \/ Remembers(t)
         \/ AnalystAnswers(t) \/ AnalystFails(t) \/ \E quote \in Quotes : Judges(t, quote)
  PROVE  /\ UNCHANGED <<world, rows, sent, floorMode>> /\ job' = [job EXCEPT ![t] = job'[t]]
         /\ job[t].at \notin {"idle", "ended"} /\ job'[t].floor = job[t].floor
         /\ job'[t].at # "enter"
         /\ Admitted(t)' => /\ job'[t].story = job[t].story
                            /\ Admitted(t) \/ rows[Signal(t)] = NoRow
         /\ job'[t].at = "decide" /\ job'[t].order.relaxed => floorMode
<1> DEFINE j == job[t]
           k == job'[t]
<1>1. UNCHANGED <<world, rows, sent, floorMode>> /\ Steady /\ j.at \notin {"idle", "ended"}
  BY DEF MarksSeen, ReadsAccount, AccountFails, Admits, Remembers, AnalystAnswers, AnalystFails,
         Judges, worldVars, storeVars, memoryVars, Steady
<1>2. JobInv(t) /\ IsJob(j) BY DEF StateInv, JobInv
<1>3. CASE Drops(t)
  <2>1. job' = [job EXCEPT ![t] = k] /\ k.floor = j.floor /\ k.at \in {"idle", "ended"}
    BY <1>1, <1>2, <1>3, EndsWell DEF Drops, JobInv
  <2> QED BY <1>1, <2>1 DEF Admitted
<1>4. CASE \E at : /\ Goes(t, at) /\ at \notin {"enter", "decide"}
                   /\ \/ at = "account" \/ Admitted(t) \/ rows[Signal(t)] = NoRow
  <2>1. PICK at : /\ Goes(t, at) /\ at \notin {"enter", "decide"}
                  /\ \/ at = "account" \/ Admitted(t) \/ rows[Signal(t)] = NoRow
    BY <1>4
  <2>2. job' = [job EXCEPT ![t] = k] /\ k.at = at /\ k.floor = j.floor /\ k.story = j.story
    BY <2>1, GoesOn
  <2> QED BY <1>1, <2>1, <2>2 DEF Admitted
<1>5. CASE job' = [job EXCEPT ![t].at = "admit", ![t].market = MarketNow]
  <2>1. job' = [job EXCEPT ![t] = k] /\ k = [j EXCEPT !.at = "admit", !.market = MarketNow]
    BY <1>5 DEF StateInv
  <2>2. k.at = "admit" /\ k.floor = j.floor
    <3> HIDE DEF j, k
    <3> QED BY <1>2, <2>1 DEF IsJob
  <2> QED BY <1>1, <2>1, <2>2 DEF Admitted
<1>6. ASSUME NEW quote \in Quotes, Judges(t, quote), ~Drops(t)
      PROVE  /\ job' = [job EXCEPT ![t] = k] /\ k.at = "decide" /\ k.floor = j.floor
             /\ k.story = j.story /\ j.at = "judge" /\ (k.order.relaxed => floorMode)
  <2> DEFINE verdict == EdgeVerdict(News[j.story], quote, floorMode)
             relaxed == EdgeVerdict(News[j.story], quote, FALSE) = "fair"
             order == [kind |-> Eligible(verdict, News[j.story].direction), relaxed |-> relaxed,
                       score |-> RegimeScore(quote.factors)]
  <2>1. /\ verdict \notin {"fair", "no"} /\ j.at = "judge"
        /\ job' = [job EXCEPT ![t].at = "decide", ![t].order = order]
    BY <1>6 DEF Judges
  <2>2. order.relaxed => floorMode
    <3>1. relaxed /\ floorMode = FALSE => verdict = "fair" OBVIOUS
    <3>2. floorMode \in BOOLEAN BY DEF StateInv, TypeOK
    <3>3. order.relaxed = relaxed OBVIOUS
    <3> HIDE DEF relaxed, verdict, order
    <3> QED BY <2>1, <3>1, <3>2, <3>3
  <2> HIDE DEF order, verdict
  <2>3. job' = [job EXCEPT ![t] = k] /\ k = [j EXCEPT !.at = "decide", !.order = order]
    BY <2>1 DEF StateInv
  <2>4. k.at = "decide" /\ k.floor = j.floor /\ k.story = j.story /\ k.order = order
    <3> HIDE DEF j, k
    <3> QED BY <1>2, <2>3 DEF IsJob
  <2> QED BY <2>1, <2>2, <2>3, <2>4
<1>7. CASE \E quote \in Quotes : Judges(t, quote) /\ ~Drops(t)
  BY <1>1, <1>6, <1>7 DEF Admitted
<1>8. MarksSeen(t) => Goes(t, "account") BY DEF MarksSeen
<1>9. Admits(t) => Drops(t) \/ (rows[Signal(t)] = NoRow /\ (Goes(t, "judge") \/ Goes(t, "remember")))
  BY DEF Admits, PositionExists
<1>10. Remembers(t) => Admitted(t) /\ Goes(t, "analyst") BY DEF Remembers, Admitted
<1>11. AnalystAnswers(t) => Admitted(t) /\ Goes(t, "judge") BY DEF AnalystAnswers, Admitted
<1>12. (AccountFails(t) \/ AnalystFails(t) => Drops(t))
       /\ (ReadsAccount(t) => job' = [job EXCEPT ![t].at = "admit", ![t].market = MarketNow])
  BY DEF AccountFails, AnalystFails, ReadsAccount
<1> QED BY <1>3, <1>4, <1>5, <1>7, <1>8, <1>9, <1>10, <1>11, <1>12

\* The rest of the steps that are not the gate, the entry or a leaving leave
\* the book alone too.
LEMMA QuietTick ==
  ASSUME StateInv,
         \/ \E t \in Threads, s \in Stories : Hears(t, s)
         \/ StartsRetry \/ StartsFloor \/ EndsFloor \/ TimePasses \/ NextPhase \/ Restart
         \/ (\E s \in Stories : Retries(s)) \/ UNCHANGED vars
  PROVE  /\ UNCHANGED <<world, rows, sent>>
         /\ \A t \in Threads : job'[t] = job[t] \/ (~Admitted(t)' /\ job'[t].at # "enter")
         /\ ~world.socket /\ job["stream"] = Idle => job'["stream"] = Idle
<1>1. UNCHANGED <<world, rows, sent>>
  BY DEF Hears, StartsRetry, StartsFloor, EndsFloor, TimePasses, NextPhase, Restart, Retries, vars,
         worldVars, storeVars
<1>2. CASE \E t \in Threads, s \in Stories : Hears(t, s)
  <2>1. PICK t \in Threads, s \in Stories :
           /\ t = "stream" => world.socket
           /\ job' = [job EXCEPT ![t] = [Idle EXCEPT !.at = "new", !.story = s]]
    BY <1>2 DEF Hears
  <2>2. /\ job'[t].at = "new" /\ (\A u \in Threads \ {t} : job'[u] = job[u])
    BY <2>1 DEF StateInv, Idle
  <2> QED BY <1>1, <2>1, <2>2 DEF Admitted, Threads
<1>3. CASE StartsRetry \/ StartsFloor \/ EndsFloor \/ \E s \in Stories : Retries(s)
  <2>1. job'["main"].at \in {"idle", "admit"} /\ job'["stream"] = job["stream"]
    BY <1>3, TickStep
  <2> QED BY <1>1, <2>1 DEF Admitted, Threads
<1>4. CASE TimePasses \/ NextPhase \/ Restart \/ UNCHANGED vars
  <2>1. CASE job' = job BY <1>1, <2>1
  <2>2. CASE job' = [t \in Threads |-> Idle] BY <1>1, <2>2 DEF Admitted, Threads, Idle
  <2> QED BY <1>4, <2>1, <2>2 DEF TimePasses, NextPhase, Restart, vars
<1> QED BY <1>2, <1>3, <1>4

\* What is in hand is worth something, within the cap of one position.
LEMMA HandType ==
  ASSUME StateInv, NEW t \in Threads
  PROVE  InHand(t) \in Nat /\ InHand(t) <= PositionCap
<1>1. job[t].at = "enter" => IsOrder(job[t].order, job[t].story) BY DEF StateInv, JobInv
<1>2. CASE job[t].at = "enter"
  <2> DEFINE o == job[t].order
  <2>1. o.risk \in Nat /\ o.qty \in Nat /\ o.risk * o.qty <= PositionCap
    BY <1>1, <1>2 DEF IsOrder
  <2>2. InHand(t) = o.risk * o.qty BY <1>2 DEF InHand
  <2>3. o.risk * o.qty \in Nat
    <3> HIDE DEF o
    <3> QED BY <2>1
  <2> QED BY <2>1, <2>2, <2>3
<1>3. CASE job[t].at # "enter" BY <1>3, Caps DEF InHand
<1> QED BY <1>2, <1>3

\* With the socket off only one thread works.
Alone == ~world.socket => job["stream"] = Idle

\* The heat, with what the threads have in hand, stays under the cap: the
\* gate looked at the book without what the other thread has, which is one
\* position at most.
LEMMA HeatStep ==
  ASSUME StateInv, StateInv', Alone, HeatInv, [Next]_vars
  PROVE  HeatInv'
<1> DEFINE slack == IF world.socket THEN PositionCap ELSE 0
           Other(t) == IF t = "main" THEN "stream" ELSE "main"
<1>1. /\ Heat \in Nat /\ Heat' \in Nat
      /\ HeatCap \in Nat /\ PositionCap \in Nat
  BY Caps, HeatIsStakes, HeatIsStakesNext
<1>2. \A t \in Threads : InHand(t) \in Nat /\ InHand(t) <= PositionCap BY HandType
<1>3. \A t \in Threads : job'[t].at # "enter" => InHand(t)' = 0 BY DEF InHand
<1>4. \A t \in Threads : job'[t] = job[t] => InHand(t)' = InHand(t) BY DEF InHand
<1>5. UNCHANGED rows => Heat' = Heat
  <2>1. UNCHANGED rows => Stakes' = Stakes /\ LiveSignals' = LiveSignals
    BY DEF Stakes, LiveSignals
  <2> QED BY <2>1, HeatIsStakes, HeatIsStakesNext
<1>6. Heat + InHand("main") + InHand("stream") <= HeatCap + slack BY DEF HeatInv
<1>7. UNCHANGED world =>
        (HeatInv' <=> Heat' + InHand("main")' + InHand("stream")' <= HeatCap + slack)
  BY DEF HeatInv
<1>8. "main" \in Threads /\ "stream" \in Threads BY DEF Threads
<1>9. ASSUME NEW t \in Threads, Enters(t) PROVE HeatInv'
  <2>1. /\ UNCHANGED world /\ Heat' <= Heat + InHand(t)
        /\ job'[t].at # "enter" /\ job' = [job EXCEPT ![t] = job'[t]]
    BY <1>9, EnterStep DEF Enters, worldVars
  <2>2. InHand(t)' = 0 /\ InHand(Other(t))' = InHand(Other(t))
    <3>1. Other(t) \in Threads /\ Other(t) # t BY DEF Threads
    <3>2. job'[Other(t)] = job[Other(t)] BY <2>1, <3>1 DEF StateInv
    <3> QED BY <1>3, <1>4, <2>1, <3>1, <3>2
  <2>3. \/ t = "main" /\ Other(t) = "stream"
        \/ t = "stream" /\ Other(t) = "main"
    BY DEF Threads
  <2>4. slack \in Nat BY <1>1
  <2> HIDE DEF slack, Other
  <2>5. Heat' + InHand("main")' + InHand("stream")' <= HeatCap + slack
    BY <1>1, <1>2, <1>6, <1>8, <2>1, <2>2, <2>3, <2>4
  <2> QED BY <1>7, <2>1, <2>5
<1>10. CASE ~ \E t \in Threads : Enters(t)
  <2>1. ASSUME UNCHANGED world, Heat' <= Heat,
               \A t \in Threads : InHand(t)' \in Nat /\ InHand(t)' <= InHand(t)
        PROVE  HeatInv'
    <3>1. /\ InHand("main")' <= InHand("main") /\ InHand("stream")' <= InHand("stream")
          /\ InHand("main")' \in Nat /\ InHand("stream")' \in Nat
      BY <1>8, <2>1
    <3> HIDE DEF slack
    <3>2. slack \in Nat BY <1>1 DEF slack
    <3> QED BY <1>1, <1>2, <1>6, <1>7, <1>8, <2>1, <3>1, <3>2
  <2>2. CASE \E g \in Signals : PositionLeaves(g)
    <3>1. Heat' <= Heat /\ UNCHANGED <<world, job>>
      BY <2>2, LeaveStep DEF PositionLeaves, worldVars
    <3>2. \A t \in Threads : InHand(t)' = InHand(t) BY <1>4, <3>1
    <3> QED BY <1>2, <2>1, <3>1, <3>2
  <2>3. CASE \/ \E t \in Threads, s \in Stories : Hears(t, s)
             \/ StartsRetry \/ StartsFloor \/ EndsFloor \/ TimePasses \/ NextPhase \/ Restart
             \/ (\E s \in Stories : Retries(s)) \/ UNCHANGED vars
    <3>1. /\ UNCHANGED <<world, rows>>
          /\ \A t \in Threads : job'[t] = job[t] \/ job'[t].at # "enter"
      BY <2>3, QuietTick
    <3>2. \A t \in Threads : InHand(t)' = InHand(t) \/ InHand(t)' = 0 BY <1>3, <1>4, <3>1
    <3> QED BY <1>1, <1>2, <1>5, <2>1, <3>1, <3>2
  <2>4. ASSUME NEW t \in Threads,
               \/ MarksSeen(t) \/ ReadsAccount(t) \/ AccountFails(t) \/ Admits(t) \/ Remembers(t)
               \/ AnalystAnswers(t) \/ AnalystFails(t) \/ \E quote \in Quotes : Judges(t, quote)
        PROVE  HeatInv'
    <3>1. UNCHANGED <<world, rows>> /\ job' = [job EXCEPT ![t] = job'[t]] /\ job'[t].at # "enter"
      BY <2>4, QuietWork
    <3>2. \A u \in Threads \ {t} : job'[u] = job[u] BY <3>1 DEF StateInv
    <3>3. \A u \in Threads : InHand(u)' = InHand(u) \/ InHand(u)' = 0 BY <1>3, <1>4, <3>1, <3>2
    <3> QED BY <1>1, <1>2, <1>5, <2>1, <3>1, <3>3
  <2>5. ASSUME NEW t \in Threads, NEW k \in {1, 3}, NEW risk \in Risks, NEW x \in Days,
               Decides(t, k, risk, x)
        PROVE  HeatInv'
    <3>1. /\ UNCHANGED <<world, rows>> /\ job' = [job EXCEPT ![t] = job'[t]]
          /\ job[t].at = "decide"
          /\ \/ job'[t].at \in {"idle", "ended"}
             \/ /\ job'[t].at = "enter"
                /\ Heat + job'[t].order.risk * job'[t].order.qty <= HeatCap
      <4>1. UNCHANGED <<world, rows>> /\ job[t].at = "decide"
        BY <2>5 DEF Decides, worldVars, storeVars
      <4>2. /\ job' = [job EXCEPT ![t] = job'[t]]
            /\ \/ job'[t].at \in {"idle", "ended"}
               \/ /\ job'[t].at = "enter"
                  /\ Heat + job'[t].order.risk * job'[t].order.qty <= HeatCap
        BY <2>5, DecideStep
      <4> QED BY <4>1, <4>2
    <3>2. \A u \in Threads \ {t} : InHand(u)' = InHand(u) BY <1>4, <3>1 DEF StateInv
    <3>3. CASE job'[t].at # "enter"
      <4>1. \A u \in Threads : InHand(u)' = InHand(u) \/ InHand(u)' = 0 BY <1>3, <3>2, <3>3
      <4> QED BY <1>1, <1>2, <1>5, <2>1, <3>1, <4>1
    <3>4. CASE job'[t].at = "enter"
      <4>1. Heat + InHand(t)' <= HeatCap /\ InHand(t)' \in Nat
        <5>1. InHand(t)' = job'[t].order.risk * job'[t].order.qty BY <3>4 DEF InHand
        <5>2. job'[t].order.risk \in Nat /\ job'[t].order.qty \in Nat
          BY <3>4 DEF StateInv, JobInv, IsOrder
        <5>3. job'[t].order.risk * job'[t].order.qty \in Nat BY <5>2
        <5> QED BY <3>1, <3>4, <5>1, <5>3
      <4>2. InHand(Other(t))' = InHand(Other(t)) /\ InHand(Other(t)) \in Nat
            /\ InHand(Other(t)) <= PositionCap
        BY <1>2, <3>2 DEF Threads
      <4>3. ~world.socket => InHand(Other(t)) = 0
        <5>1. ~world.socket => t = "main" BY <3>1 DEF Alone, Idle, Threads
        <5> QED BY <5>1 DEF Alone, Idle, InHand
      <4>4. InHand(Other(t)) <= slack BY <4>2, <4>3
      <4>5. slack \in Nat BY <1>1
      <4>6. \/ t = "main" /\ Other(t) = "stream"
            \/ t = "stream" /\ Other(t) = "main"
        BY DEF Threads
      <4> HIDE DEF slack, Other
      <4>7. Heat' + InHand("main")' + InHand("stream")' <= HeatCap + slack
        BY <1>1, <1>5, <3>1, <4>1, <4>2, <4>4, <4>5, <4>6
      <4> QED BY <1>7, <3>1, <4>7
    <3> QED BY <3>3, <3>4
  <2> QED BY <1>10, <2>2, <2>3, <2>4, <2>5 DEF Next, Work
<1> QED BY <1>9, <1>10

\* With one thread the book is what the gate saw until the entry is in it.
LEMMA SoloStep ==
  ASSUME StateInv, StateInv', SoloInv, [Next]_vars
  PROVE  SoloInv'
<1> DEFINE m == job["main"]
           n == job'["main"]
           g == Signal("main")
<1>1. /\ "main" \in Threads /\ "stream" \in Threads /\ JobInv("main") /\ JobInv("main")'
      /\ floorMode \in BOOLEAN /\ m.floor \in BOOLEAN
  BY DEF StateInv, TypeOK, JobInv, Threads
<1>2. \A h \in Signals : RowInv(h) BY DEF StateInv
<1>3. UNCHANGED world
  BY DEF Next, Work, MarksSeen, ReadsAccount, AccountFails, Admits, Remembers, AnalystAnswers,
         AnalystFails, Judges, Decides, Enters, PositionLeaves, Hears, StartsRetry, StartsFloor,
         EndsFloor, TimePasses, NextPhase, Restart, Retries, vars, worldVars
<1> SUFFICES ASSUME ~world.socket PROVE SoloInv'
  BY <1>3 DEF SoloInv
<1>4. /\ job["stream"] = Idle
      /\ \A h \in Signals : sent[h] = 0 \/ (sent[h] = 1 /\ rows[h] # NoRow)
      /\ Admitted("main") => rows[g] = NoRow
      /\ m.at = "enter" => Apart(m.order.legs, LegsOf(m.order.name))
      /\ LegsDisjoint
      /\ floorMode = m.floor
      /\ m.floor /\ m.at # "ended" => OpenedToday = {}
      /\ m.at \in {"decide", "enter"} /\ m.order.relaxed => m.floor
  BY DEF SoloInv
<1>5. m.floor => m.at # "idle" BY <1>1 DEF JobInv
  \* a quiet step of the thread
<1>6. ASSUME NEW t \in Threads,
             \/ MarksSeen(t) \/ ReadsAccount(t) \/ AccountFails(t) \/ Admits(t) \/ Remembers(t)
             \/ AnalystAnswers(t) \/ AnalystFails(t) \/ \E quote \in Quotes : Judges(t, quote)
      PROVE  SoloInv'
  <2>1. /\ UNCHANGED <<world, rows, sent, floorMode>> /\ job' = [job EXCEPT ![t] = job'[t]]
        /\ job[t].at \notin {"idle", "ended"} /\ job'[t].floor = job[t].floor
        /\ job'[t].at # "enter"
        /\ Admitted(t)' => /\ job'[t].story = job[t].story
                           /\ Admitted(t) \/ rows[Signal(t)] = NoRow
        /\ job'[t].at = "decide" /\ job'[t].order.relaxed => floorMode
    BY <1>6, QuietWork
  <2>2. t = "main" BY <1>4, <2>1 DEF Threads, Idle
  <2>3. job'["stream"] = Idle BY <1>4, <2>1, <2>2 DEF StateInv, Threads
  <2>4. Admitted("main")' => (rows[Signal("main")] = NoRow)' BY <1>4, <2>1, <2>2 DEF Signal
  <2>5. LegsDisjoint' BY <1>4, <2>1 DEF LegsDisjoint, LiveSignals
  <2>6. OpenedToday' = OpenedToday BY <2>1 DEF OpenedToday
  <2> QED BY <1>4, <2>1, <2>2, <2>3, <2>4, <2>5, <2>6 DEF SoloInv
  \* the gate
<1>7. ASSUME NEW t \in Threads, NEW k \in {1, 3}, NEW risk \in Risks, NEW x \in Days,
             Decides(t, k, risk, x)
      PROVE  SoloInv'
  <2>1. UNCHANGED <<world, rows, sent, floorMode>> /\ job[t].at = "decide"
    BY <1>7 DEF Decides, worldVars, storeVars
  <2>2. /\ job' = [job EXCEPT ![t] = job'[t]]
        /\ \/ job'[t].at \in {"idle", "ended"}
           \/ /\ job'[t].at = "enter" /\ job'[t].story = job[t].story
              /\ job'[t].floor = job[t].floor
              /\ Apart(job'[t].order.legs, LegsOf(job'[t].order.name))
              /\ job'[t].order.relaxed = job[t].order.relaxed
    BY <1>7, DecideStep
  <2>3. t = "main" BY <1>4, <2>1 DEF Threads, Idle
  <2>4. job'["stream"] = Idle BY <1>4, <2>2, <2>3 DEF StateInv, Threads
  <2>5. n.floor = m.floor
    <3>1. Steady BY <1>7 DEF Decides, worldVars, Steady
    <3>2. Drops(t) => n.floor = m.floor BY <2>3, <3>1, EndsWell DEF Drops
    <3>3. Drops(t) \/ n.at = "enter"
      <4>1. Drops(t) \/ \E o : job' = [job EXCEPT ![t].at = "enter", ![t].order = o]
        BY <1>7 DEF Decides
      <4>2. ASSUME NEW o, job' = [job EXCEPT ![t].at = "enter", ![t].order = o]
            PROVE  n.at = "enter"
        <5>1. n = [m EXCEPT !.at = "enter", !.order = o] /\ IsJob(m)
          BY <1>1, <2>3, <4>2 DEF StateInv, JobInv
        <5> HIDE DEF m, n
        <5> QED BY <5>1 DEF IsJob
      <4> QED BY <4>1, <4>2
    <3> QED BY <2>2, <2>3, <3>2, <3>3
  <2>6. Admitted("main")' => (rows[Signal("main")] = NoRow)'
    BY <1>4, <2>1, <2>2, <2>3 DEF Signal, Admitted
  <2>7. LegsDisjoint' /\ OpenedToday' = OpenedToday /\ \A name : LegsOf(name)' = LegsOf(name)
    BY <1>4, <2>1 DEF LegsDisjoint, LiveSignals, OpenedToday, LegsOf
  <2>8. n.at = "enter" => Apart(n.order.legs, LegsOf(n.order.name)) BY <2>2, <2>3
  <2>9. (m.at = "enter" => Apart(m.order.legs, LegsOf(m.order.name)))' BY <2>7, <2>8 DEF Apart
  <2> QED BY <1>4, <2>1, <2>2, <2>3, <2>4, <2>5, <2>6, <2>7, <2>9 DEF SoloInv
  \* the entry
<1>8. ASSUME NEW t \in Threads, Enters(t)
      PROVE  SoloInv'
  <2>1. /\ job[t].at = "enter" /\ UNCHANGED <<world, floorMode>>
    BY <1>8 DEF Enters, worldVars, memoryVars
  <2>2. t = "main" BY <1>4, <2>1 DEF Threads, Idle
  <2>3. /\ job' = [job EXCEPT ![t] = n] /\ n.at \in {"idle", "ended"} /\ n.floor = m.floor
    BY <1>8, <2>2, EnterStep
  <2>4. job'["stream"] = Idle BY <1>4, <2>2, <2>3 DEF StateInv, Threads
  <2>5. rows[g] = NoRow /\ g \in Signals /\ sent[g] = 0
    <3>1. rows[g] = NoRow BY <1>4, <2>1, <2>2 DEF Admitted
    <3>2. g \in Signals BY <1>1, <2>1, <2>2 DEF JobInv, Known, Signal, Signals
    <3> QED BY <1>4, <3>1, <3>2
  <2> DEFINE o == m.order
  <2>6. /\ \A h \in Signals \ {g} : rows'[h] = rows[h] /\ sent'[h] = sent[h]
        /\ rows'[g].live = TRUE /\ rows'[g].opened = TRUE /\ rows'[g].name = o.name
        /\ rows'[g].legs = o.legs /\ sent'[g] \in {0, 1}
    <3>1. /\ rows' = [rows EXCEPT ![g] =
                    [live |-> TRUE, opened |-> TRUE, name |-> o.name, kind |-> o.kind,
                     legs |-> o.legs, risk |-> o.risk, qty |-> o.qty, delta |-> o.delta,
                     relaxed |-> o.relaxed, fresh |-> Age(m.story) <= MaxAge]]
          /\ sent' = [sent EXCEPT ![g] = sent[g] + 1] \/ sent' = sent
      BY <1>8, <2>2, <2>5 DEF Enters, StateInv, TypeOK
    <3> HIDE DEF g, o, m
    <3> QED BY <2>5, <3>1 DEF StateInv, TypeOK
  <2>7. \A h \in Signals : sent'[h] = 0 \/ (sent'[h] = 1 /\ rows'[h] # NoRow)
    BY <1>4, <2>6 DEF NoRow
  <2>8. LegsDisjoint'
    <3>1. Apart(o.legs, LegsOf(o.name)) BY <1>4, <2>1, <2>2
    <3>2. g \notin LiveSignals /\ \A h \in LiveSignals' : h = g \/ h \in LiveSignals
      BY <2>5, <2>6 DEF LiveSignals, NoRow
    <3>3. \A h \in LiveSignals : rows[h].name = o.name => rows[h].legs \subseteq LegsOf(o.name)
      BY DEF LegsOf
    <3> HIDE DEF g, o
    <3>4. \A h \in LiveSignals' : h # g => h \in LiveSignals \ {g} /\ rows'[h] = rows[h]
      BY <2>6, <3>2 DEF LiveSignals
    <3> SUFFICES ASSUME NEW h \in LiveSignals', NEW i \in LiveSignals', h # i,
                        rows'[h].name = rows'[i].name,
                        NEW a \in rows'[h].legs, NEW b \in rows'[i].legs, a.right = b.right
                 PROVE  a.strike # b.strike
      BY DEF LegsDisjoint
    <3>5. CASE h = g
      <4>1. a \in o.legs /\ i \in LiveSignals /\ b \in rows[i].legs /\ rows[i].name = o.name
        BY <2>6, <3>4, <3>5
      <4> QED BY <3>1, <3>3, <4>1 DEF Apart
    <3>6. CASE i = g
      <4>1. b \in o.legs /\ h \in LiveSignals /\ a \in rows[h].legs /\ rows[h].name = o.name
        BY <2>6, <3>4, <3>6
      <4> QED BY <3>1, <3>3, <4>1 DEF Apart
    <3>7. CASE h # g /\ i # g
      BY <1>4, <3>4, <3>7 DEF LegsDisjoint
    <3> QED BY <3>5, <3>6, <3>7
  <2> QED BY <1>1, <1>3, <1>4, <2>1, <2>3, <2>4, <2>7, <2>8 DEF SoloInv, Admitted, JobInv
  \* a position leaves
<1>9. ASSUME NEW h \in Signals, PositionLeaves(h)
      PROVE  SoloInv'
  <2>1. /\ rows[h].live /\ rows'[h] = Left /\ (\A i \in Signals \ {h} : rows'[i] = rows[i])
        /\ UNCHANGED <<world, job, sent, floorMode>>
    BY <1>9 DEF PositionLeaves, StateInv, worldVars, memoryVars
  <2>2. rows[h].opened /\ rows[h] # NoRow BY <1>2, <2>1 DEF RowInv, NoRow, Left
  <2>3. OpenedToday' = OpenedToday BY <2>1, <2>2 DEF OpenedToday, Left
  <2>4. h \notin LiveSignals' /\ \A i \in LiveSignals' : i \in LiveSignals /\ rows'[i] = rows[i]
    BY <2>1 DEF LiveSignals, Left
  <2>5. \A name : LegsOf(name)' \subseteq LegsOf(name) BY <2>4 DEF LegsOf
  <2>6. LegsDisjoint' BY <1>4, <2>4 DEF LegsDisjoint
  <2>7. Admitted("main")' => (rows[Signal("main")] = NoRow)'
    <3>1. Admitted("main") => g \in Signals
      BY <1>1 DEF Admitted, JobInv, Known, Signal, Signals
    <3>2. Admitted("main") => g \in Signals \ {h} BY <1>4, <2>2, <3>1
    <3> QED BY <1>4, <2>1, <3>2 DEF Admitted, Signal
  <2>8. (m.at = "enter" => Apart(m.order.legs, LegsOf(m.order.name)))'
    BY <1>4, <2>1, <2>5 DEF Apart
  <2>9. \A i \in Signals : sent'[i] = 0 \/ (sent'[i] = 1 /\ rows'[i] # NoRow)
    BY <1>4, <2>1 DEF NoRow, Left
  <2> QED BY <1>4, <2>1, <2>3, <2>6, <2>7, <2>8, <2>9 DEF SoloInv
  \* the tick and the world
<1>10. CASE \/ \E t \in Threads, s \in Stories : Hears(t, s)
            \/ StartsRetry \/ StartsFloor \/ EndsFloor \/ TimePasses \/ NextPhase \/ Restart
            \/ (\E s \in Stories : Retries(s)) \/ UNCHANGED vars
  <2>1. /\ UNCHANGED <<world, rows, sent>> /\ job'["stream"] = Idle
        /\ n = m \/ (~Admitted("main")' /\ n.at # "enter")
    BY <1>1, <1>4, <1>10, QuietTick
  <2>2. LegsDisjoint' /\ OpenedToday' = OpenedToday /\ \A name : LegsOf(name)' = LegsOf(name)
    BY <1>4, <2>1 DEF LegsDisjoint, LiveSignals, OpenedToday, LegsOf
  <2>3. Admitted("main")' => (rows[Signal("main")] = NoRow)'
    BY <1>4, <2>1 DEF Admitted, Signal
  <2>4. (m.at = "enter" => Apart(m.order.legs, LegsOf(m.order.name)))'
    BY <1>4, <2>1, <2>2
  <2>5. (m.at \in {"decide", "enter"} /\ m.order.relaxed => m.floor)'
    BY <1>4, <2>1 DEF Admitted
  <2>6. floorMode' = n.floor /\ (n.floor /\ n.at # "ended" => OpenedToday = {})
    <3>1. CASE \E t \in Threads, s \in Stories : Hears(t, s)
      <4>1. PICK t \in Threads, s \in Stories :
               /\ job[t] = Idle /\ UNCHANGED floorMode
               /\ job' = [job EXCEPT ![t] = [Idle EXCEPT !.at = "new", !.story = s]]
        BY <3>1 DEF Hears, Free, memoryVars
      <4>2. CASE t = "main"
        <5>1. m = Idle /\ n = [Idle EXCEPT !.at = "new", !.story = s]
          BY <1>1, <4>1, <4>2 DEF StateInv
        <5>2. m.floor = FALSE /\ n.floor = FALSE BY <5>1 DEF Idle
        <5> QED BY <1>4, <4>1, <5>2
      <4>3. CASE t # "main"
        <5>1. n = m BY <1>1, <4>1, <4>3 DEF StateInv
        <5> QED BY <1>4, <4>1, <5>1
      <4> QED BY <4>2, <4>3
    <3>2. CASE StartsRetry
      <4>1. m = Idle /\ n = [Idle EXCEPT !.batch = deferred, !.market = MarketNow]
            /\ UNCHANGED floorMode
        BY <1>1, <3>2 DEF StartsRetry, Free, StateInv, memoryVars
      <4>2. m.floor = FALSE /\ n.floor = FALSE BY <4>1 DEF Idle
      <4> QED BY <1>4, <4>1, <4>2
    <3>3. CASE StartsFloor
      <4>1. n.floor = TRUE /\ floorMode' = TRUE /\ OpenedToday = {}
        BY <1>1, <3>3 DEF StartsFloor, FloorDue, StateInv, Idle
      <4> QED BY <4>1
    <3>4. CASE EndsFloor BY <1>1, <3>4 DEF EndsFloor, StateInv, Idle
    <3>5. CASE TimePasses \/ NextPhase \/ UNCHANGED vars
      BY <1>4, <3>5 DEF TimePasses, NextPhase, vars, memoryVars
    <3>6. CASE Restart BY <3>6 DEF Restart, Idle, Threads
    <3>7. ASSUME NEW s \in Stories, Retries(s)
          PROVE  UNCHANGED floorMode /\ n.floor = FALSE /\ m.floor = FALSE
      <4>1. /\ m.at = "idle" /\ IsJob(m) /\ m.floor = FALSE /\ UNCHANGED floorMode
            /\ \/ n = [m EXCEPT !.at = "admit", !.story = s, !.given = TRUE, !.batch = m.batch \ {s}]
               \/ n = Idle
               \/ n = [m EXCEPT !.batch = m.batch \ {s}]
        <5>1. m.at = "idle" /\ IsJob(m) /\ m.floor = FALSE
          BY <1>1, <3>7 DEF Retries, JobInv
        <5> QED BY <1>1, <3>7, <5>1 DEF Retries, StateInv, memoryVars
      <4>2. n.floor = FALSE
        <5> HIDE DEF m, n
        <5>1. CASE n = Idle BY <5>1 DEF Idle
        <5>2. CASE n = [m EXCEPT !.at = "admit", !.story = s, !.given = TRUE, !.batch = m.batch \ {s}]
          BY <4>1, <5>2 DEF IsJob
        <5>3. CASE n = [m EXCEPT !.batch = m.batch \ {s}]
          BY <4>1, <5>3 DEF IsJob
        <5> QED BY <4>1, <5>1, <5>2, <5>3
      <4> QED BY <4>1, <4>2
    <3> QED BY <1>4, <1>10, <3>1, <3>2, <3>3, <3>4, <3>5, <3>6, <3>7
  <2> QED BY <1>4, <2>1, <2>2, <2>3, <2>4, <2>5, <2>6 DEF SoloInv
<1> QED BY <1>6, <1>7, <1>8, <1>9, <1>10 DEF Next, Work

\* The start.
LEMMA BookInit == Init => HeatInv /\ SoloInv
<1> SUFFICES ASSUME Init PROVE HeatInv /\ SoloInv
  OBVIOUS
<1>1. /\ \A g \in Signals : rows[g] = NoRow /\ sent[g] = 0
      /\ \A t \in Threads : job[t] = Idle
      /\ floorMode = FALSE
  BY DEF Init
<1>2. LiveSignals = {} /\ OpenedToday = {} BY <1>1 DEF LiveSignals, OpenedToday, NoRow
<1>3. SoloInv
  <2>1. /\ job["stream"] = Idle /\ job["main"] = Idle
        /\ Idle.floor = FALSE /\ Idle.at = "idle"
    BY <1>1 DEF Threads, Idle
  <2>2. ~Admitted("main") BY <2>1 DEF Admitted
  <2>3. LegsDisjoint BY <1>2 DEF LegsDisjoint
  <2> QED BY <1>1, <2>1, <2>2, <2>3 DEF SoloInv
<1>4. HeatInv
  <2>1. Heat = 0
    <3>1. StateInv BY StateInit
    <3>2. Heat = Total(Stakes, LiveSignals) /\ IsFiniteSet(LiveSignals)
          /\ \A g \in LiveSignals : Stakes[g] \in Nat
      BY <3>1, HeatIsStakes
    <3> QED BY <1>2, <3>2, SumType
  <2>2. InHand("main") = 0 /\ InHand("stream") = 0 BY <1>1 DEF InHand, Idle, Threads
  <2> QED BY <2>1, <2>2, Caps DEF HeatInv
<1> QED BY <1>3, <1>4

\* The invariant is inductive.
LEMMA PipelineStep == PipelineInv /\ [Next]_vars => PipelineInv'
<1> SUFFICES ASSUME PipelineInv, [Next]_vars PROVE PipelineInv'
  OBVIOUS
<1>1. StateInv' BY StateStep DEF PipelineInv
<1>2. SoloInv' BY <1>1, SoloStep DEF PipelineInv
<1>3. Alone BY DEF PipelineInv, SoloInv, Alone
<1>4. HeatInv' BY <1>1, <1>3, HeatStep DEF PipelineInv
<1> QED BY <1>1, <1>2, <1>4 DEF PipelineInv

-----------------------------------------------------------------------------
(* The theorems.                                                           *)

\* Jobs and rows keep their parts, the book its caps, and one thread alone
\* acts on the book it saw.
THEOREM PipelineHolds == Spec => []PipelineInv
<1>1. Init => PipelineInv BY StateInit, BookInit DEF PipelineInv
<1> QED BY <1>1, PipelineStep, PTL DEF Spec

\* The variables keep their types.
THEOREM TypeCorrect == Spec => []TypeOK
<1>1. PipelineInv => TypeOK BY DEF PipelineInv, StateInv
<1> QED BY <1>1, PipelineHolds, PTL

\* With the socket off a signal is entered once at most, whatever a restart
\* forgets and however often it is retried (trader.py, process_news; store.py,
\* position_for_signal).
THEOREM SignalsEnterOnce == Spec => []OneEntryPerSignal
<1>1. PipelineInv => OneEntryPerSignal
  <2> SUFFICES ASSUME PipelineInv, ~world.socket, NEW g \in Signals PROVE sent[g] <= 1
    BY DEF OneEntryPerSignal
  <2>1. sent[g] = 0 \/ sent[g] = 1 BY DEF PipelineInv, SoloInv
  <2> QED BY <2>1
<1> QED BY <1>1, PipelineHolds, PTL

\* The book's maximum loss stays under the gate's cap, but for the one entry
\* a second thread may have in hand (gate.py, portfolio_heat).
THEOREM HeatStaysBounded == Spec => []HeatBounded
<1>1. PipelineInv => HeatBounded
  <2> SUFFICES ASSUME PipelineInv PROVE HeatBounded
    OBVIOUS
  <2> DEFINE cap == HeatCap + IF world.socket THEN PositionCap ELSE 0
  <2>1. Heat + InHand("main") + InHand("stream") <= cap BY DEF PipelineInv, HeatInv
  <2>2. /\ Heat \in Nat /\ cap \in Nat /\ InHand("main") \in Nat /\ InHand("stream") \in Nat
    BY Caps, HandType, HeatIsStakes DEF PipelineInv, Threads
  <2>3. Heat <= cap
    <3> HIDE DEF cap
    <3> QED BY <2>1, <2>2
  <2> QED BY <2>3 DEF HeatBounded, Heat
<1> QED BY <1>1, PipelineHolds, PTL

\* With the socket off no contract is in two live positions: the gate's check
\* of the legs is about the book the entry goes into (gate.py, leg_conflict).
THEOREM LegsStayApart == Spec => []LegsDisjoint
<1>1. PipelineInv => LegsDisjoint BY DEF PipelineInv, SoloInv, LegsDisjoint
<1> QED BY <1>1, PipelineHolds, PTL

\* No old news is traded, whichever thread heard it and whether or not it
\* waited for the auction to be over (runner.py; trader.py, retry_deferred).
THEOREM NewsIsFresh == Spec => []EntriesAreFresh
<1>1. PipelineInv => EntriesAreFresh
  BY DEF PipelineInv, StateInv, RowInv, EntriesAreFresh, LiveSignals, NoRow, Left
<1> QED BY <1>1, PipelineHolds, PTL

\* With the socket off nothing but the floor trades inside the band, and the
\* floor only on a day nothing has traded (trader.py, maybe_floor_trade).
THEOREM FloorKeepsItsPlace == Spec => FloorIsTheException
<1> DEFINE Kept == ~world.socket => \A g \in Signals : sent'[g] > sent[g] =>
                     /\ g[2] = "floor" => OpenedToday = {}
                     /\ rows'[g].relaxed => g[2] = "floor"
<1>1. ASSUME PipelineInv, [Next]_vars PROVE Kept
  <2> SUFFICES ASSUME ~world.socket, NEW g \in Signals, sent'[g] > sent[g]
               PROVE  /\ g[2] = "floor" => OpenedToday = {}
                      /\ rows'[g].relaxed => g[2] = "floor"
    OBVIOUS
  <2>1. sent[g] \in Nat BY <1>1 DEF PipelineInv, StateInv, TypeOK
  <2>2. sent' # sent BY <2>1
  <2>3. PICK t \in Threads : Enters(t)
    BY <1>1, <2>2
       DEF Next, Work, MarksSeen, ReadsAccount, AccountFails, Admits, Remembers, AnalystAnswers,
           AnalystFails, Judges, Decides, PositionLeaves, Hears, StartsRetry, StartsFloor, EndsFloor,
           TimePasses, NextPhase, Restart, Retries, vars
  <2> DEFINE m == job["main"]
  <2>4. t = "main" /\ m.at = "enter"
    BY <1>1, <2>3 DEF Enters, PipelineInv, SoloInv, Threads, Idle
  <2>5. /\ m.floor => OpenedToday = {}
        /\ m.order.relaxed => m.floor
    BY <1>1, <2>4 DEF PipelineInv, SoloInv
  <2>6. g = Signal("main")
    <3>1. g # Signal("main") => sent'[g] = sent[g]
      BY <1>1, <2>3, <2>4 DEF Enters, PipelineInv, StateInv, TypeOK
    <3> QED BY <2>1, <3>1
  <2>7. (g[2] = "floor") <=> m.floor BY <2>6 DEF Signal
  <2>8. rows'[g].relaxed = m.order.relaxed
    BY <1>1, <2>3, <2>4, <2>6 DEF Enters, PipelineInv, StateInv
  <2> QED BY <2>5, <2>7, <2>8
<1>2. PipelineInv /\ [Next]_vars => [Kept]_vars BY <1>1
<1> QED BY <1>2, PipelineHolds, PTL DEF Spec, FloorIsTheException
=============================================================================
