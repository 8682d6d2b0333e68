-------------------------- MODULE Structures_proofs --------------------------
(***************************************************************************)
(* Proofs about Structures: which strikes the picks return and how far     *)
(* they may be from where they should, how wide the legs are and what they *)
(* pay, what a rung concedes; and from these, for every chain, spot and    *)
(* forecast, that the loss booked is the worst there is, that liquidity    *)
(* keeps the shape and that a close costs a bounded amount.                *)
(***************************************************************************)
EXTENDS Structures, FiniteSetTheorems, WellFoundedInduction, TLAPS

-----------------------------------------------------------------------------
(* Rounding, distances and extremes.                                       *)

\* The even neighbour is an integer half a unit away at most.
LEMMA HalfEvenType ==
  ASSUME NEW a \in Int, NEW b \in Nat \ {0}
  PROVE  HalfEven(a, b) \in Int
<1>1. a \div b \in Int OBVIOUS
<1> QED BY <1>1 DEF HalfEven

\* Out of a hundred, and out of a hundred and twelve.
LEMMA HalfEvenCents ==
  ASSUME NEW a \in Int
  PROVE  /\ HalfEven(a, 100) \in Int
         /\ 2 * a - 100 <= 200 * HalfEven(a, 100) /\ 200 * HalfEven(a, 100) <= 2 * a + 100
BY DEF HalfEven

\* The same of the twelve percent an escalation adds.
LEMMA HalfEvenRung ==
  ASSUME NEW a \in Int
  PROVE  /\ HalfEven(a, 112) \in Int
         /\ 2 * a - 112 <= 224 * HalfEven(a, 112) /\ 224 * HalfEven(a, 112) <= 2 * a + 112
BY DEF HalfEven

\* A rounding of a fraction of a dollar is half a cent off at most.
LEMMA RoundedCents ==
  ASSUME NEW a \in Int, NEW n \in Rounded(a, 100)
  PROVE  n \in Int /\ 100 * n <= a + 50
BY DEF Rounded, Abs

\* A distance is not negative.
LEMMA AbsType ==
  ASSUME NEW n \in Int
  PROVE  /\ Abs(n) \in Nat /\ n <= Abs(n) /\ -n <= Abs(n)
         /\ (n >= 0 => Abs(n) = n) /\ (n <= 0 => Abs(n) = -n)
BY DEF Abs

\* What is at most, or at least, every number of a set it is in is its minimum,
\* or its maximum.
LEMMA MinIs ==
  ASSUME NEW S, S \subseteq Int, NEW m \in S, \A x \in S : m <= x
  PROVE  Min(S) = m
<1> DEFINE k == Min(S)
<1>1. k \in S /\ \A x \in S : k <= x BY DEF Min
<1> HIDE DEF k
<1>2. k <= m /\ m <= k /\ k \in Int BY <1>1
<1>3. k = m BY <1>2
<1> QED BY <1>3 DEF k

\* And the maximum.
LEMMA MaxIs ==
  ASSUME NEW S, S \subseteq Int, NEW m \in S, \A x \in S : x <= m
  PROVE  Max(S) = m
<1> DEFINE k == Max(S)
<1>1. k \in S /\ \A x \in S : k >= x BY DEF Max
<1> HIDE DEF k
<1>2. k <= m /\ m <= k /\ k \in Int BY <1>1
<1>3. k = m BY <1>2
<1> QED BY <1>3 DEF k

\* Where something is measured in natural numbers, something measures least.
LEMMA Least ==
  ASSUME NEW S, NEW f, \A x \in S : f[x] \in Nat, S # {}
  PROVE  \E x \in S : \A y \in S : f[x] <= f[y]
<1> DEFINE T == {f[x] : x \in S}
           R == {p \in Nat \X Nat : p[1] < p[2]}
<1>1. T \subseteq Nat /\ T # {} OBVIOUS
<1>2. IsWellFoundedOn(R, Nat) BY NatLessThanWellFounded DEF OpToRel
<1>3. PICK k \in T : \A j \in T : <<j, k>> \notin R BY <1>1, <1>2, WFMin
<1>4. ASSUME NEW j \in T PROVE k <= j
  <2>1. ~ (j < k) BY <1>1, <1>3
  <2> QED BY <1>1, <2>1
<1> QED BY <1>3, <1>4

\* So natural numbers have a minimum.
LEMMA MinIsIn ==
  ASSUME NEW S, S \subseteq Nat, S # {}
  PROVE  Min(S) \in S
<1> DEFINE f == [x \in S |-> x]
<1>1. PICK m \in S : \A y \in S : f[m] <= f[y] BY Least
<1>2. \A y \in S : m <= y BY <1>1
<1>3. m \in Int /\ S \subseteq Int OBVIOUS
<1> QED BY <1>2, <1>3, MinIs

-----------------------------------------------------------------------------
(* Adding up.  A structure has at most two legs on each side.              *)

\* h adds f up over every part of D.
Adds(h, f, D) ==
  h = [s \in SUBSET D |-> IF s = {} THEN 0
                          ELSE f[CHOOSE x \in s : TRUE] + h[s \ {CHOOSE x \in s : TRUE}]]

\* A sum that some function gives, and every such function gives the same.
LEMMA SumIs ==
  ASSUME NEW f, NEW g, Adds(g, f, DOMAIN f), NEW n,
         \A h : Adds(h, f, DOMAIN f) => h[DOMAIN f] = n
  PROVE  SumFunction(f) = n
<1> DEFINE k == CHOOSE k : Adds(k, f, DOMAIN f)
<1>1. Adds(k, f, DOMAIN f) OBVIOUS
<1>2. SumFunction(f) = k[DOMAIN f]
  BY DEF SumFunction, SumFunctionOnSet, FoldFunctionOnSet, MapThenFoldSet, Adds
<1> QED BY <1>1, <1>2

\* No legs add up to nothing.
LEMMA SumOfNone ==
  ASSUME NEW f, DOMAIN f = {}
  PROVE  SumFunction(f) = 0
<1> DEFINE g == [s \in SUBSET {} |-> 0]
<1>1. Adds(g, f, {}) BY DEF Adds
<1>2. \A h : Adds(h, f, {}) => h[{}] = 0 BY DEF Adds
<1> QED BY <1>1, <1>2, SumIs

\* What adds up the values of two elements does so whichever comes first.
LEMMA SumOfTwo ==
  ASSUME NEW a, NEW b, NEW f, DOMAIN f = {a, b}, f[a] \in Int, f[b] \in Int
  PROVE  SumFunction(f) = IF a = b THEN f[a] ELSE f[a] + f[b]
<1> DEFINE first(s) == CHOOSE x \in s : TRUE
           rest(s) == s \ {first(s)}
           total(s) == (IF a \in s THEN f[a] ELSE 0) + (IF b \in s /\ b # a THEN f[b] ELSE 0)
           g == [s \in SUBSET {a, b} |-> total(s)]
<1>1. \A s \in SUBSET {a, b} : s # {} => /\ first(s) \in s /\ rest(s) \in SUBSET {a, b}
                                        /\ total(s) = f[first(s)] + total(rest(s))
  <2>1. ASSUME NEW s \in SUBSET {a, b}, NEW x \in s
        PROVE  total(s) = f[x] + total(s \ {x})
    <3>1. CASE x = a BY <2>1, <3>1
    <3>2. CASE x = b /\ x # a
      <4>1. (a \in s \ {x} <=> a \in s) /\ b \in s /\ b \notin s \ {x} BY <2>1, <3>2
      <4>2. total(s) = (IF a \in s THEN f[a] ELSE 0) + f[b] BY <3>2, <4>1
      <4>3. total(s \ {x}) = (IF a \in s THEN f[a] ELSE 0) + 0 BY <3>2, <4>1
      <4> HIDE DEF total
      <4>4. CASE a \in s BY <3>2, <4>2, <4>3, <4>4
      <4>5. CASE a \notin s BY <3>2, <4>2, <4>3, <4>5
      <4> QED BY <4>4, <4>5
    <3> QED BY <2>1, <3>1, <3>2
  <2>2. \A s \in SUBSET {a, b} : s # {} => first(s) \in s /\ rest(s) \in SUBSET {a, b}
    OBVIOUS
  <2> HIDE DEF total, first
  <2> QED BY <2>1, <2>2
<1>2. \A s \in SUBSET {a, b} : s = {} => total(s) = 0 OBVIOUS
<1> HIDE DEF total, first
<1>3. \A s \in SUBSET {a, b} : g[s] = IF s = {} THEN 0 ELSE f[first(s)] + g[rest(s)]
  BY <1>1, <1>2
<1>4. Adds(g, f, {a, b}) BY <1>3 DEF Adds, first
<1>5. ASSUME NEW h, Adds(h, f, {a, b})
      PROVE  h[{a, b}] = total({a, b})
  <2>1. \A s \in SUBSET {a, b} : h[s] = IF s = {} THEN 0 ELSE f[first(s)] + h[rest(s)]
    BY <1>5 DEF Adds, first
  <2>2. h[{}] = total({}) BY <1>2, <2>1
  <2>3. h[{a}] = total({a})
    <3>1. rest({a}) = {} BY <1>1
    <3> QED BY <1>1, <2>1, <2>2, <3>1
  <2>4. h[{b}] = total({b})
    <3>1. rest({b}) = {} BY <1>1
    <3> QED BY <1>1, <2>1, <2>2, <3>1
  <2>5. first({a, b}) \in {a, b} /\ total({a, b}) = f[first({a, b})] + total(rest({a, b}))
    BY <1>1
  <2>6. rest({a, b}) \in {{}, {a}, {b}} BY <2>5
  <2>7. h[rest({a, b})] = total(rest({a, b})) BY <2>2, <2>3, <2>4, <2>6
  <2>8. h[{a, b}] = f[first({a, b})] + h[rest({a, b})] BY <2>1
  <2> QED BY <2>5, <2>7, <2>8
<1>6. SumFunction(f) = total({a, b}) BY <1>4, <1>5, SumIs
<1> QED BY <1>6 DEF total

\* One leg adds up to its value.
LEMMA SumOfOne ==
  ASSUME NEW a, NEW f, DOMAIN f = {a}, f[a] \in Int
  PROVE  SumFunction(f) = f[a]
<1>1. DOMAIN f = {a, a} OBVIOUS
<1> QED BY <1>1, SumOfTwo

-----------------------------------------------------------------------------
(* Strikes.                                                                *)

\* What a chain quotes is a contract with prices in cents.
Quoting == \A c \in Quotes : /\ c.right \in Rights
                             /\ c.strike \in Nat /\ c.bid \in Nat /\ c.ask \in Nat
                             /\ TwiceMid(c) \in Nat

\* The assumption on the chains, for any of their quotes.
LEMMA QuotesAre == Quoting
<1> SUFFICES ASSUME NEW ch \in Chains, NEW c \in ch
             PROVE  /\ c.right \in Rights
                    /\ c.strike \in Nat /\ c.bid \in Nat /\ c.ask \in Nat
                    /\ TwiceMid(c) \in Nat
  BY DEF Quoting, Quotes
<1>1. c.right \in Rights /\ {c.strike, c.bid, c.ask, c.oi} \subseteq Nat
  BY StructuresAssumption DEF StructuresAssumption
<1>2. c.strike \in Nat /\ c.bid \in Nat /\ c.ask \in Nat BY <1>1
<1> QED BY <1>1, <1>2 DEF TwiceMid

\* The contracts of one right that can be traded differ in their strikes.
LEMMA SideIs ==
  ASSUME NEW ch \in Chains, NEW right \in Rights
  PROVE  /\ \A c \in Side(ch, right) : c \in ch /\ c \in Quotes /\ c.right = right /\ c.strike \in Nat
         /\ \A c, d \in Side(ch, right) : c.strike = d.strike => c = d
<1>1. \A c \in Side(ch, right) : c \in ch /\ c \in Quotes /\ c.right = right
  BY DEF Side, Quotes
<1>2. \A c, d \in ch : c.right = d.right /\ c.strike = d.strike => c = d
  BY StructuresAssumption DEF StructuresAssumption
<1> QED BY <1>1, <1>2, QuotesAre DEF Quoting

\* The nearest of the strikes is one of them, and none is nearer.
LEMMA NearestIs ==
  ASSUME NEW ch \in Chains, NEW right \in Rights,
         NEW S \in SUBSET Side(ch, right), S # {}, NEW target \in Int
  PROVE  /\ Nearest(S, target) \in S
         /\ \A d \in S : Abs(Nearest(S, target).strike - target) <= Abs(d.strike - target)
<1> DEFINE f == [c \in S |-> 2 * Abs(c.strike - target) + (IF c.strike > target THEN 1 ELSE 0)]
           P(c) == \A d \in S \ {c} :
                     \/ Abs(c.strike - target) < Abs(d.strike - target)
                     \/ Abs(c.strike - target) = Abs(d.strike - target) /\ c.strike < d.strike
<1>1. \A c \in S : c.strike \in Nat BY SideIs
<1>2. \A c, d \in S : c.strike = d.strike => c = d BY SideIs
<1>3. \A c \in S : f[c] \in Nat BY <1>1 DEF Abs
<1>4. PICK c \in S : \A y \in S : f[c] <= f[y]
  <2> HIDE DEF f
  <2> QED BY <1>3, Least
<1>5. P(c)
  <2> SUFFICES ASSUME NEW d \in S, d # c
               PROVE  \/ Abs(c.strike - target) < Abs(d.strike - target)
                      \/ Abs(c.strike - target) = Abs(d.strike - target) /\ c.strike < d.strike
    OBVIOUS
  <2>1. c.strike \in Nat /\ d.strike \in Nat /\ c.strike # d.strike BY <1>1, <1>2
  <2>2. f[c] <= f[d] BY <1>4
  <2> QED BY <2>1, <2>2 DEF Abs
<1> HIDE DEF f
<1>6. Nearest(S, target) \in S /\ P(Nearest(S, target)) BY <1>5 DEF Nearest
<1> DEFINE n == Nearest(S, target)
<1> HIDE DEF n
<1>7. n \in S /\ P(n) BY <1>6 DEF n
<1>8. ASSUME NEW d \in S PROVE Abs(n.strike - target) <= Abs(d.strike - target)
  <2>1. n.strike \in Nat /\ d.strike \in Nat BY <1>1, <1>7
  <2>2. Abs(n.strike - target) \in Int /\ Abs(d.strike - target) \in Int BY <2>1 DEF Abs
  <2>3. CASE d = n BY <2>2, <2>3
  <2>4. CASE d # n BY <1>7, <2>2, <2>4
  <2> QED BY <2>3, <2>4
<1> QED BY <1>7, <1>8 DEF n

\* Nothing nearer than the tolerance allows is taken instead of the nearest.
LEMMA PickIs ==
  ASSUME NEW ch \in Chains, NEW right \in Rights, NEW full \in SUBSET Side(ch, right),
         NEW liquid \in SUBSET full, NEW target \in Int, NEW tolerance \in Nat,
         NEW c \in Pick(liquid, full, target, tolerance)
  PROVE  /\ c \in full
         /\ \E g \in full : /\ Abs(c.strike - g.strike) <= tolerance
                            /\ \A d \in full : Abs(g.strike - target) <= Abs(d.strike - target)
<1> DEFINE g == Nearest(full, target)
           b == Nearest(liquid, target)
<1>1. full # {} BY DEF Pick
<1>2. g \in full /\ \A d \in full : Abs(g.strike - target) <= Abs(d.strike - target)
  BY <1>1, NearestIs
<1>3. liquid \in SUBSET Side(ch, right) OBVIOUS
<1>4. liquid # {} => b \in full BY <1>3, NearestIs
<1>5. c = IF liquid # {} /\ Abs(b.strike - g.strike) <= tolerance THEN b ELSE g
  BY <1>1 DEF Pick
<1> HIDE DEF g, b
<1>6. g.strike \in Nat BY <1>2, SideIs
<1>7. Abs(g.strike - g.strike) <= tolerance BY <1>6 DEF Abs
<1> QED BY <1>2, <1>4, <1>5, <1>7

\* Of positive numbers.
LEMMA Product ==
  ASSUME NEW a \in Nat \ {0}, NEW b \in Nat \ {0}
  PROVE  a * b \in Nat \ {0}
OBVIOUS

\* A wing is some whole number of increments, one at least, wide.
LEMMA WingWidthIs ==
  ASSUME NEW ch \in Chains, NEW right \in Rights, HasWings(Side(ch, right))
  PROVE  WingWidth(Side(ch, right)) \in Nat \ {0}
<1> DEFINE side == Side(ch, right)
           strikes == {c.strike : c \in side}
           gaps == {Abs(p[1] - p[2]) : p \in {q \in strikes \X strikes : q[1] # q[2]}}
           increment == Min(gaps)
           steps == HalfEven(Spot * WingWidthPct, 100 * increment)
<1>1. strikes \subseteq Nat BY SideIs
<1>2. \E a, b \in strikes : a # b
  <2>1. SUFFICES ASSUME \A a, b \in strikes : a = b PROVE FALSE OBVIOUS
  <2>2. CASE strikes = {} BY <2>2, FS_EmptySet DEF HasWings
  <2>3. CASE strikes # {}
    <3>1. PICK a \in strikes : TRUE BY <2>3
    <3>2. strikes = {a} BY <2>1, <3>1
    <3>3. Cardinality(strikes) = 1 BY <3>2, FS_Singleton
    <3> QED BY <3>3 DEF HasWings
  <2> QED BY <2>2, <2>3
<1>3. gaps \subseteq Nat \ {0}
  <2> SUFFICES ASSUME NEW p \in strikes \X strikes, p[1] # p[2]
               PROVE  Abs(p[1] - p[2]) \in Nat \ {0}
    OBVIOUS
  <2>1. p[1] \in Nat /\ p[2] \in Nat BY <1>1
  <2> QED BY <2>1 DEF Abs
<1>4. gaps # {}
  <2>1. PICK a, b \in strikes : a # b BY <1>2
  <2>2. <<a, b>> \in {q \in strikes \X strikes : q[1] # q[2]} BY <2>1
  <2> QED BY <2>2
<1> HIDE DEF gaps
<1>5. increment \in Nat \ {0} BY <1>3, <1>4, MinIsIn
<1> HIDE DEF increment
<1>6. Spot * WingWidthPct \in Int
  BY StructuresAssumption DEF StructuresAssumption, WingWidthPct
<1>7. 100 * increment \in Nat \ {0} BY <1>5
<1>8. steps \in Int BY <1>6, <1>7, HalfEvenType
<1> HIDE DEF steps
<1>9. Max({1, steps}) \in Nat \ {0}
  <2>1. CASE steps <= 1
    <3>1. \A x \in {1, steps} : x <= 1 BY <1>8, <2>1
    <3>2. {1, steps} \subseteq Int BY <1>8
    <3>3. Max({1, steps}) = 1 BY <3>1, <3>2, MaxIs
    <3> QED BY <3>3
  <2>2. CASE steps > 1
    <3>1. \A x \in {1, steps} : x <= steps BY <1>8, <2>2
    <3>2. {1, steps} \subseteq Int BY <1>8
    <3>3. Max({1, steps}) = steps BY <3>1, <3>2, MaxIs
    <3> QED BY <1>8, <2>2, <3>3
  <2> QED BY <1>8, <2>1, <2>2
<1>10. WingWidth(side) = increment * Max({1, steps})
  BY DEF WingWidth, increment, gaps, steps
<1> QED BY <1>5, <1>9, <1>10, Product

\* What passes the gate was on the side.
LEMMA LiquidIs ==
  ASSUME NEW side
  PROVE  Liquid(side) \subseteq side
BY DEF Liquid

\* The forecast reaches away from the spot.
LEMMA ReachIs ==
  ASSUME NEW right \in Rights, NEW m \in Moves
  PROVE  Reach(right, m) \in Int /\ Away(right) * (Reach(right, m) - Spot) >= 0
<1>1. Spot \in Nat /\ m \in Nat BY StructuresAssumption DEF StructuresAssumption
<1>2. Floored(m) \in Nat BY <1>1 DEF Floored, MinMove
<1>3. Spot * Floored(m) \in Nat BY <1>1, <1>2
<1> DEFINE a == Spot * Floored(m)
<1> HIDE DEF a
<1>4. a \div 1000 \in Nat BY <1>3 DEF a
<1>5. Reach(right, m) = Spot + Away(right) * (a \div 1000) BY DEF Reach, a
<1> QED BY <1>1, <1>4, <1>5 DEF Away

-----------------------------------------------------------------------------
(* Structures.                                                             *)

\* The far leg is out from the near one.
Beyond(right, near, far) ==
  /\ near.right = right /\ far.right = right
  /\ Away(right) * (far.strike - near.strike) > 0

\* Two legs of one right, one near and one far.
Pair(right, near, far) ==
  \E n \in near, f \in far : near = {n} /\ far = {f} /\ Beyond(right, n, f)

\* Where the strikes of each kind lie.
Shaped(k, l) ==
  CASE k = "bull_put_spread"   -> Pair("put", l.short, l.long)
    [] k = "bear_call_spread"  -> Pair("call", l.short, l.long)
    [] k = "iron_condor" -> \E p, c \in l.short : \E q, d \in l.long :
         /\ Beyond("put", p, q) /\ Beyond("call", c, d)
         /\ p.strike <= Spot /\ Spot <= c.strike
         /\ l = Legs({p, c}, {q, d})
    [] k = "call_debit_spread" -> Pair("call", l.long, l.short)
    [] k = "put_debit_spread"  -> Pair("put", l.long, l.short)
    [] k = "long_strangle" -> \E c, p \in l.long :
         /\ c.right = "call" /\ p.right = "put" /\ p.strike < Spot /\ Spot < c.strike
         /\ l = Legs({}, {c, p})

\* A short leg at or past the reach of the forecast, and its wing.
Winged(ch, right, m, s, w) ==
  LET full == Side(ch, right)
      width == WingWidth(full)
      outer == Past(full, right, s.strike)
      distance(c) == Abs(c.strike - s.strike)
  IN /\ s \in full /\ w \in outer
     /\ Away(right) * (s.strike - Reach(right, m)) >= 0
     /\ (\E c \in outer : distance(c) = width) => distance(w) <= 2 * width
     /\ (\E c \in outer : distance(c) <= width) => distance(w) < 3 * width

\* A wing that is within a width of the nearest to its target is within two
\* of the short leg if a strike trades at the target, and within three if one
\* trades nearer: the arithmetic of the tolerance.
LEMMA WingIs ==
  ASSUME NEW s \in Nat, NEW w \in Nat, NEW g \in Nat, NEW width \in Nat \ {0}, NEW right \in Rights,
         Away(right) * (w - s) > 0, Away(right) * (g - s) > 0,
         Abs(w - g) <= width,
         NEW c \in Nat, Away(right) * (c - s) > 0, Abs(c - s) <= width,
         Abs(g - (s + Away(right) * width)) <= Abs(c - (s + Away(right) * width))
  PROVE  /\ Abs(c - s) = width => Abs(w - s) <= 2 * width
         /\ Abs(w - s) < 3 * width
<1>1. CASE right = "call" BY <1>1 DEF Away, Abs
<1>2. CASE right = "put" BY <1>2 DEF Away, Abs
<1> QED BY <1>1, <1>2 DEF Rights

\* The legs of a credit spread are such a pair.
LEMMA CreditIs ==
  ASSUME NEW ch \in Chains, NEW right \in Rights, NEW m \in Moves,
         NEW l \in Credit(ch, right, m)
  PROVE  \E s, w : l = Legs({s}, {w}) /\ Winged(ch, right, m, s, w)
<1> DEFINE full == Side(ch, right)
           width == WingWidth(full)
           target == Reach(right, m)
           shorts == Pick(From(Liquid(full), right, target), From(full, right, target),
                          target, ToleranceWidths * width)
           outer(s) == Past(full, right, s.strike)
           wings(s) == Pick(Past(Liquid(full), right, s.strike), outer(s),
                            s.strike + Away(right) * width, width)
<1>1. HasWings(full) /\ \E s \in shorts : \E w \in wings(s) : l = Legs({s}, {w})
  BY DEF Credit
<1>2. PICK s \in shorts : \E w \in wings(s) : l = Legs({s}, {w}) BY <1>1
<1>3. PICK w \in wings(s) : l = Legs({s}, {w}) BY <1>2
<1>4. width \in Nat \ {0} BY <1>1, WingWidthIs
<1>5. target \in Int BY ReachIs
<1>6. /\ From(full, right, target) \in SUBSET full
      /\ From(Liquid(full), right, target) \in SUBSET From(full, right, target)
  BY LiquidIs DEF From
<1>7. /\ outer(s) \in SUBSET full
      /\ Past(Liquid(full), right, s.strike) \in SUBSET outer(s)
  BY LiquidIs DEF Past
<1>8. ToleranceWidths * width \in Nat BY <1>4 DEF ToleranceWidths
<1> HIDE DEF full, width, target
<1>9. s \in From(full, right, target) BY <1>5, <1>6, <1>8, PickIs DEF full
<1>10. s \in full /\ Away(right) * (s.strike - target) >= 0 BY <1>9 DEF From
<1>11. s.strike \in Nat BY <1>10, SideIs DEF full
<1>12. s.strike + Away(right) * width \in Int BY <1>4, <1>11 DEF Away
<1>13. width \in Nat BY <1>4
<1>14. /\ w \in outer(s)
       /\ \E g \in outer(s) :
            /\ Abs(w.strike - g.strike) <= width
            /\ \A d \in outer(s) : Abs(g.strike - (s.strike + Away(right) * width))
                                     <= Abs(d.strike - (s.strike + Away(right) * width))
  BY <1>7, <1>12, <1>13, PickIs DEF full
<1>15. PICK g \in outer(s) :
            /\ Abs(w.strike - g.strike) <= width
            /\ \A d \in outer(s) : Abs(g.strike - (s.strike + Away(right) * width))
                                     <= Abs(d.strike - (s.strike + Away(right) * width))
  BY <1>14
<1>16. \A c \in outer(s) : c.strike \in Nat /\ Away(right) * (c.strike - s.strike) > 0
  BY SideIs DEF Past, full
<1>17. ASSUME NEW c \in outer(s), Abs(c.strike - s.strike) <= width
       PROVE  /\ Abs(c.strike - s.strike) = width => Abs(w.strike - s.strike) <= 2 * width
              /\ Abs(w.strike - s.strike) < 3 * width
  <2>1. /\ w.strike \in Nat /\ Away(right) * (w.strike - s.strike) > 0
        /\ g.strike \in Nat /\ Away(right) * (g.strike - s.strike) > 0
        /\ c.strike \in Nat /\ Away(right) * (c.strike - s.strike) > 0
    BY <1>14, <1>15, <1>16, <1>17
  <2>2. /\ Abs(w.strike - g.strike) <= width
        /\ Abs(g.strike - (s.strike + Away(right) * width))
             <= Abs(c.strike - (s.strike + Away(right) * width))
    BY <1>15, <1>17
  <2> HIDE DEF outer
  <2> QED BY <1>4, <1>11, <1>17, <2>1, <2>2, WingIs
<1>18. ASSUME NEW c \in outer(s), Abs(c.strike - s.strike) = width
       PROVE  Abs(w.strike - s.strike) <= 2 * width
  <2>1. Abs(c.strike - s.strike) <= width BY <1>13, <1>18
  <2> QED BY <1>17, <1>18, <2>1
<1>19. Winged(ch, right, m, s, w)
  <2> HIDE DEF outer
  <2>1. /\ (\E c \in outer(s) : Abs(c.strike - s.strike) = width)
             => Abs(w.strike - s.strike) <= 2 * width
        /\ (\E c \in outer(s) : Abs(c.strike - s.strike) <= width)
             => Abs(w.strike - s.strike) < 3 * width
    BY <1>17, <1>18
  <2> QED BY <1>10, <1>14, <2>1 DEF Winged, outer, full, width, target
<1> QED BY <1>3, <1>19

\* The far leg is out from the near one, on the chain's side.
Spans(ch, right, n, f) ==
  n \in Side(ch, right) /\ f \in Past(Side(ch, right), right, n.strike)

\* The legs of a debit spread, the long one nearer.
LEMMA DebitIs ==
  ASSUME NEW ch \in Chains, NEW right \in Rights, NEW m \in Moves,
         NEW l \in Debit(ch, right, m)
  PROVE  \E n, f : l = Legs({f}, {n}) /\ Spans(ch, right, n, f)
<1> DEFINE full == Side(ch, right)
           width == WingWidth(full)
           longs == Pick(Liquid(full), full, Spot, ToleranceWidths * width)
           outer(n) == Past(full, right, n.strike)
           wings(n) == Pick(Past(Liquid(full), right, n.strike), outer(n), Reach(right, m), width)
<1>1. HasWings(full) /\ \E n \in longs : \E f \in wings(n) : l = Legs({f}, {n})
  BY DEF Debit
<1>2. PICK n \in longs : \E f \in wings(n) : l = Legs({f}, {n}) BY <1>1
<1>3. PICK f \in wings(n) : l = Legs({f}, {n}) BY <1>2
<1>4. width \in Nat /\ ToleranceWidths * width \in Nat
  BY <1>1, WingWidthIs DEF ToleranceWidths
<1>5. Spot \in Int /\ Reach(right, m) \in Int
  BY ReachIs, StructuresAssumption DEF StructuresAssumption
<1>6. /\ outer(n) \in SUBSET full
      /\ Past(Liquid(full), right, n.strike) \in SUBSET outer(n)
      /\ Liquid(full) \in SUBSET full /\ full \in SUBSET full
  BY LiquidIs DEF Past
<1> HIDE DEF full, width
<1>7. n \in full BY <1>4, <1>5, <1>6, PickIs DEF full
<1>8. f \in outer(n) BY <1>4, <1>5, <1>6, PickIs DEF full
<1>9. Spans(ch, right, n, f) BY <1>7, <1>8 DEF Spans, full
<1> QED BY <1>3, <1>9

\* The legs of a strangle, one on each side of the spot.
LEMMA StrangleIs ==
  ASSUME NEW ch \in Chains, NEW m \in Moves, NEW l \in Strangle(ch, m)
  PROVE  \E c, p : /\ c \in Past(Side(ch, "call"), "call", Spot)
                   /\ p \in Past(Side(ch, "put"), "put", Spot)
                   /\ l = Legs({}, {c, p})
<1> DEFINE width == WingWidth(Side(ch, "call"))
           outer(right) == Past(Side(ch, right), right, Spot)
           otm(right) == Pick(Past(Liquid(Side(ch, right)), right, Spot), outer(right),
                              Reach(right, m), width)
<1>1. HasWings(Side(ch, "call")) BY DEF Strangle
<1>2. l \in {Legs({}, {c, p}) : c \in otm("call"), p \in otm("put")} BY <1>1 DEF Strangle
<1>3. PICK c \in otm("call"), p \in otm("put") : l = Legs({}, {c, p})
  <2> HIDE DEF otm
  <2> QED BY <1>2, SMTT(30)
<1>4. width \in Nat BY <1>1, WingWidthIs DEF Rights
<1> HIDE DEF width
<1>5. ASSUME NEW right \in Rights, NEW q \in otm(right)
      PROVE  q \in outer(right)
  <2>1. /\ outer(right) \in SUBSET Side(ch, right)
        /\ Past(Liquid(Side(ch, right)), right, Spot) \in SUBSET outer(right)
    BY LiquidIs DEF Past
  <2>2. Reach(right, m) \in Int BY ReachIs
  <2> HIDE DEF outer
  <2> QED BY <1>4, <1>5, <2>1, <2>2, PickIs
<1>6. c \in outer("call") /\ p \in outer("put") BY <1>5 DEF Rights
<1> QED BY <1>3, <1>6

\* The far leg of a spread is out from the near one.
LEMMA PairIs ==
  ASSUME NEW ch \in Chains, NEW right \in Rights,
         NEW n, NEW f, Spans(ch, right, n, f)
  PROVE  Pair(right, {n}, {f}) /\ n \in Quotes /\ f \in Quotes
<1>1. f \in Side(ch, right) /\ Away(right) * (f.strike - n.strike) > 0 BY DEF Spans, Past
<1>2. Beyond(right, n, f) /\ n \in Quotes /\ f \in Quotes BY <1>1, SideIs DEF Spans, Beyond
<1> QED BY <1>2 DEF Pair

\* The strikes of a structure lie as its name says.
LEMMA BuildIs ==
  ASSUME NEW ch \in Chains, NEW m \in Moves, NEW k \in Kinds, NEW l \in BuildStructure(k, ch, m)
  PROVE  Shaped(k, l) /\ l \in [short : SUBSET Quotes, long : SUBSET Quotes]
<1>1. ASSUME NEW right \in Rights, NEW x \in Credit(ch, right, m)
      PROVE  \E s, w : /\ x = Legs({s}, {w})
                       /\ Beyond(right, s, w) /\ Away(right) * (s.strike - Spot) >= 0
                       /\ s \in Quotes /\ w \in Quotes
  <2>1. PICK s, w : x = Legs({s}, {w}) /\ Winged(ch, right, m, s, w) BY <1>1, CreditIs
  <2>2. /\ s \in Side(ch, right) /\ w \in Past(Side(ch, right), right, s.strike)
        /\ Away(right) * (s.strike - Reach(right, m)) >= 0
    BY <2>1 DEF Winged
  <2>3. Pair(right, {s}, {w}) /\ s \in Quotes /\ w \in Quotes BY <2>2, PairIs DEF Spans
  <2>4. Beyond(right, s, w) BY <2>3 DEF Pair
  <2>5. s.strike \in Nat /\ Spot \in Nat
    BY <2>2, SideIs, StructuresAssumption DEF StructuresAssumption
  <2>6. Reach(right, m) \in Int /\ Away(right) * (Reach(right, m) - Spot) >= 0 BY ReachIs
  <2>7. Away(right) * (s.strike - Spot) >= 0 BY <2>2, <2>5, <2>6 DEF Away
  <2> QED BY <2>1, <2>3, <2>4, <2>7
<1>2. ASSUME NEW right \in Rights, NEW x \in Credit(ch, right, m)
      PROVE  Pair(right, x.short, x.long) /\ x \in [short : SUBSET Quotes, long : SUBSET Quotes]
  <2>1. PICK s, w : /\ x = Legs({s}, {w})
                    /\ Beyond(right, s, w) /\ s \in Quotes /\ w \in Quotes
    BY <1>1, <1>2
  <2> QED BY <2>1 DEF Legs, Pair
<1>3. ASSUME NEW right \in Rights, NEW x \in Debit(ch, right, m)
      PROVE  Pair(right, x.long, x.short) /\ x \in [short : SUBSET Quotes, long : SUBSET Quotes]
  <2>1. PICK n, f : x = Legs({f}, {n}) /\ Spans(ch, right, n, f)
    BY <1>3, DebitIs
  <2>2. Pair(right, {n}, {f}) /\ n \in Quotes /\ f \in Quotes BY <2>1, PairIs
  <2>3. x.long = {n} /\ x.short = {f} BY <2>1 DEF Legs
  <2>4. Pair(right, x.long, x.short) BY <2>2, <2>3
  <2> QED BY <2>1, <2>2, <2>4 DEF Legs
<1>4. CASE k = "bull_put_spread" BY <1>2, <1>4 DEF BuildStructure, Shaped, Rights
<1>5. CASE k = "bear_call_spread" BY <1>2, <1>5 DEF BuildStructure, Shaped, Rights
<1>6. CASE k = "call_debit_spread" BY <1>3, <1>6 DEF BuildStructure, Shaped, Rights
<1>7. CASE k = "put_debit_spread" BY <1>3, <1>7 DEF BuildStructure, Shaped, Rights
<1>8. CASE k = "iron_condor"
  <2>1. l \in Condor(ch, m) BY <1>8 DEF BuildStructure
  <2>2. PICK x \in Credit(ch, "put", m), y \in Credit(ch, "call", m) :
           l = Legs(x.short \cup y.short, x.long \cup y.long)
    BY <2>1 DEF Condor
  <2>3. PICK p, q : /\ x = Legs({p}, {q})
                    /\ Beyond("put", p, q) /\ Away("put") * (p.strike - Spot) >= 0
                    /\ p \in Quotes /\ q \in Quotes
    BY <1>1, <2>2 DEF Rights
  <2>4. PICK c, d : /\ y = Legs({c}, {d})
                    /\ Beyond("call", c, d) /\ Away("call") * (c.strike - Spot) >= 0
                    /\ c \in Quotes /\ d \in Quotes
    BY <1>1, <2>2 DEF Rights
  <2>5. l = Legs({p, c}, {q, d}) BY <2>2, <2>3, <2>4 DEF Legs
  <2>6. p.strike \in Nat /\ c.strike \in Nat /\ Spot \in Nat
    BY <2>3, <2>4, QuotesAre, StructuresAssumption DEF StructuresAssumption, Quoting
  <2>7. p.strike <= Spot /\ Spot <= c.strike BY <2>3, <2>4, <2>6 DEF Away
  <2>8. l.short = {p, c} /\ l.long = {q, d} BY <2>5 DEF Legs
  <2>9. Shaped(k, l) BY <1>8, <2>3, <2>4, <2>5, <2>7, <2>8 DEF Shaped
  <2> QED BY <2>3, <2>4, <2>5, <2>9 DEF Legs
<1>9. CASE k = "long_strangle"
  <2>1. l \in Strangle(ch, m) BY <1>9 DEF BuildStructure
  <2>2. PICK c, p : /\ c \in Past(Side(ch, "call"), "call", Spot)
                    /\ p \in Past(Side(ch, "put"), "put", Spot)
                    /\ l = Legs({}, {c, p})
    BY <2>1, StrangleIs
  <2>3. /\ c \in Side(ch, "call") /\ Away("call") * (c.strike - Spot) > 0
        /\ p \in Side(ch, "put") /\ Away("put") * (p.strike - Spot) > 0
    BY <2>2 DEF Past
  <2>4. /\ c \in Quotes /\ c.right = "call" /\ c.strike \in Nat
        /\ p \in Quotes /\ p.right = "put" /\ p.strike \in Nat
    BY <2>3, SideIs DEF Rights
  <2>5. Spot \in Nat BY StructuresAssumption DEF StructuresAssumption
  <2>6. p.strike < Spot /\ Spot < c.strike BY <2>3, <2>4, <2>5 DEF Away
  <2>7. l.long = {c, p} BY <2>2 DEF Legs
  <2>8. Shaped(k, l) BY <1>9, <2>2, <2>4, <2>6, <2>7 DEF Shaped
  <2> QED BY <2>2, <2>4, <2>8 DEF Legs
<1> QED BY <1>4, <1>5, <1>6, <1>7, <1>8, <1>9 DEF Kinds, CreditKinds, DebitKinds

-----------------------------------------------------------------------------
(* What a structure can lose.                                              *)

\* The width of one right's two legs is the distance of their strikes.
LEMMA SideWidth ==
  ASSUME NEW l, NEW right, NEW a, NEW b, OfRight(l, right) = {a, b}, a.strike \in Nat, b.strike \in Nat
  PROVE  SpreadWidth(l, right) = Abs(a.strike - b.strike)
<1> DEFINE strikes == {c.strike : c \in OfRight(l, right)}
<1>1. strikes = {a.strike, b.strike} OBVIOUS
<1>2. strikes # {} /\ strikes \subseteq Int BY <1>1
<1>3. SpreadWidth(l, right) = Max(strikes) - Min(strikes) BY <1>2 DEF SpreadWidth
<1> HIDE DEF strikes
<1>4. CASE a.strike <= b.strike
  <2>1. /\ a.strike \in strikes /\ \A x \in strikes : a.strike <= x
        /\ b.strike \in strikes /\ \A x \in strikes : x <= b.strike
    BY <1>1, <1>4
  <2>2. Min(strikes) = a.strike BY <1>2, <2>1, MinIs
  <2>3. Max(strikes) = b.strike BY <1>2, <2>1, MaxIs
  <2> QED BY <1>3, <1>4, <2>2, <2>3 DEF Abs
<1>5. CASE b.strike <= a.strike
  <2>1. /\ b.strike \in strikes /\ \A x \in strikes : b.strike <= x
        /\ a.strike \in strikes /\ \A x \in strikes : x <= a.strike
    BY <1>1, <1>5
  <2>2. Min(strikes) = b.strike BY <1>2, <2>1, MinIs
  <2>3. Max(strikes) = a.strike BY <1>2, <2>1, MaxIs
  <2> QED BY <1>3, <1>5, <2>2, <2>3 DEF Abs
<1> QED BY <1>4, <1>5

\* And nothing without legs.
LEMMA NoWidth ==
  ASSUME NEW l, NEW right, OfRight(l, right) = {}
  PROVE  SpreadWidth(l, right) = 0
BY DEF SpreadWidth

\* The wider of the two sides governs.
LEMMA WidestSide ==
  ASSUME NEW l, SpreadWidth(l, "put") \in Int, SpreadWidth(l, "call") \in Int
  PROVE  Width(l) = IF SpreadWidth(l, "put") >= SpreadWidth(l, "call")
                    THEN SpreadWidth(l, "put") ELSE SpreadWidth(l, "call")
<1> DEFINE p == SpreadWidth(l, "put")
           c == SpreadWidth(l, "call")
           S == {SpreadWidth(l, right) : right \in Rights}
<1>1. S = {p, c} BY DEF Rights
<1>2. S \subseteq Int BY <1>1
<1>3. Width(l) = Max(S) BY DEF Width
<1> HIDE DEF S
<1>4. CASE p >= c
  <2>1. p \in S /\ \A x \in S : x <= p BY <1>1, <1>4
  <2>2. Max(S) = p BY <1>2, <2>1, MaxIs
  <2> QED BY <1>3, <1>4, <2>2
<1>5. CASE ~ (p >= c)
  <2>1. c \in S /\ \A x \in S : x <= c BY <1>1, <1>5
  <2>2. Max(S) = c BY <1>2, <2>1, MaxIs
  <2> QED BY <1>3, <1>5, <2>2
<1> QED BY <1>4, <1>5

\* A spread is as wide as its strikes are apart.
LEMMA PairWidth ==
  ASSUME NEW right \in Rights, NEW n \in Quotes, NEW f \in Quotes, Beyond(right, n, f),
         NEW l, l.long \cup l.short = {n, f}
  PROVE  Width(l) = Abs(f.strike - n.strike)
<1>1. n.strike \in Nat /\ f.strike \in Nat BY QuotesAre DEF Quoting
<1>2. n.right = right /\ f.right = right BY DEF Beyond
<1>3. OfRight(l, right) = {f, n} BY <1>2 DEF OfRight
<1>4. SpreadWidth(l, right) = Abs(f.strike - n.strike) BY <1>1, <1>3, SideWidth
<1>5. Abs(f.strike - n.strike) \in Nat BY <1>1 DEF Abs
<1>6. CASE right = "put"
  <2>1. OfRight(l, "call") = {} BY <1>2, <1>6 DEF OfRight
  <2>2. SpreadWidth(l, "call") = 0 BY <2>1, NoWidth
  <2> QED BY <1>4, <1>5, <1>6, <2>2, WidestSide
<1>7. CASE right = "call"
  <2>1. OfRight(l, "put") = {} BY <1>2, <1>7 DEF OfRight
  <2>2. SpreadWidth(l, "put") = 0 BY <2>1, NoWidth
  <2>3. Width(l) = IF 0 >= SpreadWidth(l, "call") THEN 0 ELSE SpreadWidth(l, "call")
    BY <1>4, <1>5, <1>7, <2>2, WidestSide
  <2> QED BY <1>4, <1>5, <1>7, <2>3
<1> QED BY <1>6, <1>7 DEF Rights

\* A condor is as wide as its wider spread.
LEMMA CondorWidth ==
  ASSUME NEW p \in Quotes, NEW q \in Quotes, NEW c \in Quotes, NEW d \in Quotes,
         Beyond("put", p, q), Beyond("call", c, d), NEW l, l.short = {p, c}, l.long = {q, d}
  PROVE  Width(l) = IF p.strike - q.strike >= d.strike - c.strike
                    THEN p.strike - q.strike ELSE d.strike - c.strike
<1>1. p.strike \in Nat /\ q.strike \in Nat /\ c.strike \in Nat /\ d.strike \in Nat
  BY QuotesAre DEF Quoting
<1>2. /\ p.right = "put" /\ q.right = "put" /\ p.strike > q.strike
      /\ c.right = "call" /\ d.right = "call" /\ d.strike > c.strike
  BY <1>1 DEF Beyond, Away
<1>3. OfRight(l, "put") = {p, q} /\ OfRight(l, "call") = {d, c} BY <1>2 DEF OfRight
<1>4. SpreadWidth(l, "put") = Abs(p.strike - q.strike) BY <1>1, <1>3, SideWidth
<1>5. SpreadWidth(l, "call") = Abs(d.strike - c.strike) BY <1>1, <1>3, SideWidth
<1>6. Abs(p.strike - q.strike) = p.strike - q.strike /\ Abs(d.strike - c.strike) = d.strike - c.strike
  BY <1>1, <1>2 DEF Abs
<1>7. p.strike - q.strike \in Int /\ d.strike - c.strike \in Int BY <1>1
<1> QED BY <1>4, <1>5, <1>6, <1>7, WidestSide

\* A credit structure has a width.
LEMMA WidthType ==
  ASSUME NEW k \in CreditKinds, NEW l \in [short : SUBSET Quotes, long : SUBSET Quotes], Shaped(k, l)
  PROVE  Width(l) \in Nat
<1>1. ASSUME NEW right \in Rights, Pair(right, l.short, l.long)
      PROVE  Width(l) \in Nat
  <2>1. PICK n \in l.short, f \in l.long : l.short = {n} /\ l.long = {f} /\ Beyond(right, n, f)
    BY <1>1 DEF Pair
  <2>2. n \in Quotes /\ f \in Quotes /\ l.long \cup l.short = {n, f} BY <2>1
  <2>3. Width(l) = Abs(f.strike - n.strike) BY <2>1, <2>2, PairWidth
  <2>4. n.strike \in Nat /\ f.strike \in Nat BY <2>2, QuotesAre DEF Quoting
  <2> QED BY <2>3, <2>4 DEF Abs
<1>2. CASE k = "bull_put_spread" BY <1>1, <1>2 DEF Shaped, Rights
<1>3. CASE k = "bear_call_spread" BY <1>1, <1>3 DEF Shaped, Rights
<1>4. CASE k = "iron_condor"
  <2>1. PICK p \in l.short, c \in l.short : \E q, d \in l.long :
           Beyond("put", p, q) /\ Beyond("call", c, d) /\ l = Legs({p, c}, {q, d})
    <3>1. \E p, c \in l.short : \E q, d \in l.long :
            /\ Beyond("put", p, q) /\ Beyond("call", c, d)
            /\ p.strike <= Spot /\ Spot <= c.strike
            /\ l = Legs({p, c}, {q, d})
      BY <1>4 DEF Shaped
    <3> QED BY <3>1
  <2>2. PICK q \in l.long, d \in l.long :
           Beyond("put", p, q) /\ Beyond("call", c, d) /\ l = Legs({p, c}, {q, d})
    BY <2>1
  <2>3. p \in Quotes /\ q \in Quotes /\ c \in Quotes /\ d \in Quotes OBVIOUS
  <2>4. p.strike \in Nat /\ q.strike \in Nat /\ c.strike \in Nat /\ d.strike \in Nat
    BY <2>3, QuotesAre DEF Quoting
  <2>5. p.strike > q.strike BY <2>2, <2>4 DEF Beyond, Away
  <2>6. d.strike > c.strike BY <2>2, <2>4 DEF Beyond, Away
  <2>7. Beyond("put", p, q) /\ Beyond("call", c, d) BY <2>2
  <2>8. l.short = {p, c} /\ l.long = {q, d} BY <2>2 DEF Legs
  <2>9. Width(l) = IF p.strike - q.strike >= d.strike - c.strike
                   THEN p.strike - q.strike ELSE d.strike - c.strike
    BY <2>3, <2>7, <2>8, CondorWidth
  <2> QED BY <2>4, <2>5, <2>6, <2>9
<1> QED BY <1>2, <1>3, <1>4 DEF CreditKinds

\* Where the payoff at expiry can turn.
Kinks == {0, 2 * Spot} \cup {c.strike : c \in legs.long \cup legs.short}

\* A call pays above its strike, a put below it.
LEMMA IntrinsicIs ==
  ASSUME NEW c \in Quotes, NEW price \in Int
  PROVE  /\ Intrinsic(c, price) \in Nat
         /\ c.right = "call" =>
              Intrinsic(c, price) = IF price > c.strike THEN price - c.strike ELSE 0
         /\ c.right = "put" =>
              Intrinsic(c, price) = IF price < c.strike THEN c.strike - price ELSE 0
<1>1. c.strike \in Nat /\ c.right \in Rights BY QuotesAre DEF Quoting
<1>2. CASE c.right = "call" BY <1>1, <1>2 DEF Intrinsic, Away
<1>3. CASE c.right = "put" BY <1>1, <1>3 DEF Intrinsic, Away
<1> QED BY <1>1, <1>2, <1>3 DEF Rights

\* What two legs, four, and two bought ones pay.
LEMMA PairPays ==
  ASSUME NEW a \in Quotes, NEW b \in Quotes, legs.long = {a}, legs.short = {b}, NEW price \in Int
  PROVE  Payoff(price) = Intrinsic(a, price) - Intrinsic(b, price)
<1> DEFINE f == [c \in legs.long |-> Intrinsic(c, price)]
           g == [c \in legs.short |-> Intrinsic(c, price)]
<1>1. DOMAIN f = {a} /\ f[a] = Intrinsic(a, price) OBVIOUS
<1>2. DOMAIN g = {b} /\ g[b] = Intrinsic(b, price) OBVIOUS
<1>3. f[a] \in Int /\ g[b] \in Int BY <1>1, <1>2, IntrinsicIs
<1>4. Payoff(price) = SumFunction(f) - SumFunction(g) BY DEF Payoff
<1> HIDE DEF f, g
<1>5. SumFunction(f) = f[a] BY <1>1, <1>3, SumOfOne
<1>6. SumFunction(g) = g[b] BY <1>2, <1>3, SumOfOne
<1> QED BY <1>1, <1>2, <1>4, <1>5, <1>6

\* What a condor pays at expiry: two shorts and two wings.
LEMMA CondorPays ==
  ASSUME NEW p \in Quotes, NEW c \in Quotes, p # c, legs.short = {p, c},
         NEW q \in Quotes, NEW d \in Quotes, q # d, legs.long = {q, d}, NEW price \in Int
  PROVE  Payoff(price) = (Intrinsic(q, price) + Intrinsic(d, price))
                           - (Intrinsic(p, price) + Intrinsic(c, price))
<1> DEFINE f == [x \in legs.long |-> Intrinsic(x, price)]
           g == [x \in legs.short |-> Intrinsic(x, price)]
<1>1. DOMAIN f = {q, d} /\ f[q] = Intrinsic(q, price) /\ f[d] = Intrinsic(d, price) OBVIOUS
<1>2. DOMAIN g = {p, c} /\ g[p] = Intrinsic(p, price) /\ g[c] = Intrinsic(c, price) OBVIOUS
<1>3. f[q] \in Int /\ f[d] \in Int /\ g[p] \in Int /\ g[c] \in Int BY <1>1, <1>2, IntrinsicIs
<1>4. Payoff(price) = SumFunction(f) - SumFunction(g) BY DEF Payoff
<1> HIDE DEF f, g
<1>5. SumFunction(f) = f[q] + f[d] BY <1>1, <1>3, SumOfTwo
<1>6. SumFunction(g) = g[p] + g[c] BY <1>2, <1>3, SumOfTwo
<1> QED BY <1>1, <1>2, <1>4, <1>5, <1>6

\* What a strangle pays at expiry: two longs.
LEMMA StranglePays ==
  ASSUME NEW c \in Quotes, NEW p \in Quotes, c # p, legs.long = {c, p}, legs.short = {},
         NEW price \in Int
  PROVE  Payoff(price) = Intrinsic(c, price) + Intrinsic(p, price)
<1> DEFINE f == [x \in legs.long |-> Intrinsic(x, price)]
           g == [x \in legs.short |-> Intrinsic(x, price)]
<1>1. DOMAIN f = {c, p} /\ f[c] = Intrinsic(c, price) /\ f[p] = Intrinsic(p, price) OBVIOUS
<1>2. DOMAIN g = {} OBVIOUS
<1>3. f[c] \in Int /\ f[p] \in Int BY <1>1, IntrinsicIs
<1>4. Payoff(price) = SumFunction(f) - SumFunction(g) BY DEF Payoff
<1> HIDE DEF f, g
<1>5. SumFunction(f) = f[c] + f[p] BY <1>1, <1>3, SumOfTwo
<1>6. SumFunction(g) = 0 BY <1>2, SumOfNone
<1> QED BY <1>1, <1>3, <1>4, <1>5, <1>6

\* A kink where nothing less is paid than at any other is where it is worst.
LEMMA WorstIs ==
  ASSUME NEW m \in Kinks, \A x \in Kinks : Payoff(x) \in Int /\ Payoff(m) <= Payoff(x)
  PROVE  \A paid : WorstLoss(paid) = paid - Payoff(m)
<1> DEFINE S == {Payoff(x) : x \in Kinks}
<1>1. \A paid : WorstLoss(paid) = paid - Min(S) BY DEF WorstLoss, Kinks
<1>2. S \subseteq Int /\ Payoff(m) \in S /\ \A y \in S : Payoff(m) <= y OBVIOUS
<1> HIDE DEF S
<1>3. Min(S) = Payoff(m) BY <1>2, MinIs
<1> QED BY <1>1, <1>3

\* The worst a credit pays is its width, the worst a debit pays nothing.
WorstAsBooked == \A paid \in Int :
  WorstLoss(paid) = paid + (IF kind \in CreditKinds THEN Width(legs) ELSE 0)

\* The kinks are prices.
LEMMA KinksType ==
  ASSUME legs \in [short : SUBSET Quotes, long : SUBSET Quotes]
  PROVE  Kinks \subseteq Int
<1>1. \A c \in legs.long \cup legs.short : c.strike \in Nat BY QuotesAre DEF Quoting
<1>2. Spot \in Nat BY StructuresAssumption DEF StructuresAssumption
<1> QED BY <1>1, <1>2 DEF Kinks

\* So it is of two legs, of four and of a strangle.
LEMMA PairWorst ==
  ASSUME NEW right \in Rights, NEW n \in Quotes, NEW f \in Quotes, Beyond(right, n, f),
         legs \in [short : SUBSET Quotes, long : SUBSET Quotes],
         \/ kind \in CreditKinds /\ legs.short = {n} /\ legs.long = {f}
         \/ kind \notin CreditKinds /\ legs.long = {n} /\ legs.short = {f}
  PROVE  WorstAsBooked
<1>1. n.strike \in Nat /\ f.strike \in Nat /\ n.right = right /\ f.right = right
      /\ Away(right) * (f.strike - n.strike) > 0
  BY QuotesAre DEF Quoting, Beyond
<1>2. \A x \in Kinks : x \in Int BY KinksType
<1>3. ASSUME NEW x \in Int
      PROVE  /\ right = "call" =>
                  /\ Intrinsic(n, x) = IF x > n.strike THEN x - n.strike ELSE 0
                  /\ Intrinsic(f, x) = IF x > f.strike THEN x - f.strike ELSE 0
             /\ right = "put" =>
                  /\ Intrinsic(n, x) = IF x < n.strike THEN n.strike - x ELSE 0
                  /\ Intrinsic(f, x) = IF x < f.strike THEN f.strike - x ELSE 0
  BY <1>1, IntrinsicIs DEF Rights
<1>4. CASE kind \in CreditKinds /\ legs.short = {n} /\ legs.long = {f}
  <2>1. f.strike \in Kinks BY <1>4 DEF Kinks
  <2>2. \A x \in Int : Payoff(x) = Intrinsic(f, x) - Intrinsic(n, x) BY <1>4, PairPays
  <2>3. Payoff(f.strike) = -Abs(f.strike - n.strike)
    <3>1. CASE right = "call" BY <1>1, <1>3, <2>2, <3>1 DEF Away, Abs
    <3>2. CASE right = "put" BY <1>1, <1>3, <2>2, <3>2 DEF Away, Abs
    <3> QED BY <3>1, <3>2 DEF Rights
  <2>4. ASSUME NEW x \in Int
        PROVE  Payoff(x) \in Int /\ -Abs(f.strike - n.strike) <= Payoff(x)
    <3>1. CASE right = "call" BY <1>1, <1>3, <2>2, <3>1 DEF Away, Abs
    <3>2. CASE right = "put"
      <4>1. f.strike < n.strike BY <1>1, <3>2 DEF Away
      <4>2. /\ Intrinsic(n, x) = IF x < n.strike THEN n.strike - x ELSE 0
            /\ Intrinsic(f, x) = IF x < f.strike THEN f.strike - x ELSE 0
        BY <1>3, <3>2
      <4> QED BY <1>1, <2>2, <4>1, <4>2 DEF Abs
    <3> QED BY <3>1, <3>2 DEF Rights
  <2>5. \A x \in Kinks : Payoff(x) \in Int /\ Payoff(f.strike) <= Payoff(x)
    BY <1>2, <2>3, <2>4
  <2>6. \A paid : WorstLoss(paid) = paid - Payoff(f.strike) BY <2>1, <2>5, WorstIs
  <2>7. legs.long \cup legs.short = {n, f} BY <1>4
  <2>8. Width(legs) = Abs(f.strike - n.strike) BY <2>7, PairWidth
  <2>9. Abs(f.strike - n.strike) \in Nat BY <1>1 DEF Abs
  <2> QED BY <1>4, <2>3, <2>6, <2>8, <2>9 DEF WorstAsBooked
<1>5. CASE kind \notin CreditKinds /\ legs.long = {n} /\ legs.short = {f}
  <2>1. n.strike \in Kinks BY <1>5 DEF Kinks
  <2>2. \A x \in Int : Payoff(x) = Intrinsic(n, x) - Intrinsic(f, x) BY <1>5, PairPays
  <2>3. Payoff(n.strike) = 0
    <3>1. CASE right = "call" BY <1>1, <1>3, <2>2, <3>1 DEF Away
    <3>2. CASE right = "put" BY <1>1, <1>3, <2>2, <3>2 DEF Away
    <3> QED BY <3>1, <3>2 DEF Rights
  <2>4. ASSUME NEW x \in Int
        PROVE  Payoff(x) \in Int /\ 0 <= Payoff(x)
    <3>1. CASE right = "call" BY <1>1, <1>3, <2>2, <3>1 DEF Away
    <3>2. CASE right = "put"
      <4>1. f.strike < n.strike BY <1>1, <3>2 DEF Away
      <4>2. /\ Intrinsic(n, x) = IF x < n.strike THEN n.strike - x ELSE 0
            /\ Intrinsic(f, x) = IF x < f.strike THEN f.strike - x ELSE 0
        BY <1>3, <3>2
      <4> QED BY <1>1, <2>2, <4>1, <4>2
    <3> QED BY <3>1, <3>2 DEF Rights
  <2>5. \A x \in Kinks : Payoff(x) \in Int /\ Payoff(n.strike) <= Payoff(x)
    BY <1>2, <2>3, <2>4
  <2>6. \A paid : WorstLoss(paid) = paid - Payoff(n.strike) BY <2>1, <2>5, WorstIs
  <2> QED BY <1>5, <2>3, <2>6 DEF WorstAsBooked
<1> QED BY <1>4, <1>5

\* A condor loses at most on one side: the wider of its two spreads.
LEMMA CondorWorst ==
  ASSUME NEW p \in Quotes, NEW q \in Quotes, NEW c \in Quotes, NEW d \in Quotes,
         Beyond("put", p, q), Beyond("call", c, d), p.strike <= Spot, Spot <= c.strike,
         legs \in [short : SUBSET Quotes, long : SUBSET Quotes],
         legs.short = {p, c}, legs.long = {q, d}, kind \in CreditKinds
  PROVE  WorstAsBooked
<1>1. /\ p.strike \in Nat /\ q.strike \in Nat /\ c.strike \in Nat /\ d.strike \in Nat
      /\ Spot \in Nat
  BY QuotesAre, StructuresAssumption DEF StructuresAssumption, Quoting
<1>2. /\ p.right = "put" /\ q.right = "put" /\ p.strike > q.strike
      /\ c.right = "call" /\ d.right = "call" /\ d.strike > c.strike
  BY <1>1 DEF Beyond, Away
<1>3. p # c /\ q # d BY <1>2
<1>4. \A x \in Int : Payoff(x) = (Intrinsic(q, x) + Intrinsic(d, x))
                                   - (Intrinsic(p, x) + Intrinsic(c, x))
  BY <1>3, CondorPays
<1> DEFINE w == IF p.strike - q.strike >= d.strike - c.strike
                THEN p.strike - q.strike ELSE d.strike - c.strike
           m == IF p.strike - q.strike >= d.strike - c.strike THEN q.strike ELSE d.strike
<1>5. Width(legs) = w BY CondorWidth
<1>6. ASSUME NEW x \in Int
      PROVE  /\ Intrinsic(p, x) = IF x < p.strike THEN p.strike - x ELSE 0
             /\ Intrinsic(q, x) = IF x < q.strike THEN q.strike - x ELSE 0
             /\ Intrinsic(c, x) = IF x > c.strike THEN x - c.strike ELSE 0
             /\ Intrinsic(d, x) = IF x > d.strike THEN x - d.strike ELSE 0
  BY <1>2, IntrinsicIs
<1>7. ASSUME NEW x \in Int
      PROVE  Payoff(x) \in Int /\ -w <= Payoff(x)
  BY <1>1, <1>2, <1>4, <1>6
<1>8. Payoff(m) = -w BY <1>1, <1>2, <1>4, <1>6
<1>9. m \in Kinks BY DEF Kinks
<1>10. w \in Int BY <1>1
<1> HIDE DEF w, m
<1>11. \A x \in Kinks : Payoff(x) \in Int /\ Payoff(m) <= Payoff(x)
  BY <1>7, <1>8, KinksType
<1>12. \A paid : WorstLoss(paid) = paid - Payoff(m) BY <1>9, <1>11, WorstIs
<1>13. ASSUME NEW paid \in Int PROVE WorstLoss(paid) = paid + Width(legs)
  BY <1>5, <1>8, <1>10, <1>12
<1> QED BY <1>13 DEF WorstAsBooked

\* A strangle loses at most what was paid: between its strikes.
LEMMA StrangleWorst ==
  ASSUME NEW c \in Quotes, NEW p \in Quotes, c.right = "call", p.right = "put",
         p.strike < Spot, Spot < c.strike,
         legs \in [short : SUBSET Quotes, long : SUBSET Quotes],
         legs.long = {c, p}, legs.short = {}, kind \notin CreditKinds
  PROVE  WorstAsBooked
<1>1. p.strike \in Nat /\ c.strike \in Nat /\ Spot \in Nat
  BY QuotesAre, StructuresAssumption DEF StructuresAssumption, Quoting
<1>2. c # p OBVIOUS
<1>3. \A x \in Int : Payoff(x) = Intrinsic(c, x) + Intrinsic(p, x) BY <1>2, StranglePays
<1>4. ASSUME NEW x \in Int PROVE Payoff(x) \in Int /\ 0 <= Payoff(x)
  BY <1>3, IntrinsicIs
<1>5. Payoff(c.strike) = 0 BY <1>1, <1>3, IntrinsicIs
<1>6. c.strike \in Kinks BY DEF Kinks
<1>7. \A x \in Kinks : Payoff(x) \in Int /\ Payoff(c.strike) <= Payoff(x)
  BY <1>4, <1>5, KinksType
<1>8. \A paid : WorstLoss(paid) = paid - Payoff(c.strike) BY <1>6, <1>7, WorstIs
<1> QED BY <1>5, <1>8 DEF WorstAsBooked

\* So it is of every kind whose strikes lie as they should.
LEMMA ShapeWorst ==
  ASSUME kind \in Kinds, legs \in [short : SUBSET Quotes, long : SUBSET Quotes], Shaped(kind, legs)
  PROVE  WorstAsBooked
<1>1. ASSUME NEW right \in Rights, Pair(right, legs.short, legs.long), kind \in CreditKinds
      PROVE  WorstAsBooked
  <2>1. PICK n \in legs.short, f \in legs.long :
           legs.short = {n} /\ legs.long = {f} /\ Beyond(right, n, f)
    BY <1>1 DEF Pair
  <2>2. n \in Quotes /\ f \in Quotes OBVIOUS
  <2> QED BY <1>1, <2>1, <2>2, PairWorst
<1>2. ASSUME NEW right \in Rights, Pair(right, legs.long, legs.short), kind \notin CreditKinds
      PROVE  WorstAsBooked
  <2>1. PICK n \in legs.long, f \in legs.short :
           legs.long = {n} /\ legs.short = {f} /\ Beyond(right, n, f)
    BY <1>2 DEF Pair
  <2>2. n \in Quotes /\ f \in Quotes OBVIOUS
  <2> QED BY <1>2, <2>1, <2>2, PairWorst
<1>3. CASE kind = "bull_put_spread" BY <1>1, <1>3 DEF Shaped, Rights, CreditKinds
<1>4. CASE kind = "bear_call_spread" BY <1>1, <1>4 DEF Shaped, Rights, CreditKinds
<1>5. CASE kind = "call_debit_spread" BY <1>2, <1>5 DEF Shaped, Rights, CreditKinds
<1>6. CASE kind = "put_debit_spread" BY <1>2, <1>6 DEF Shaped, Rights, CreditKinds
<1>7. CASE kind = "iron_condor"
  <2>1. \E p, c \in legs.short : \E q, d \in legs.long :
          /\ Beyond("put", p, q) /\ Beyond("call", c, d)
          /\ p.strike <= Spot /\ Spot <= c.strike
          /\ legs = Legs({p, c}, {q, d})
    BY <1>7 DEF Shaped
  <2>2. PICK p \in legs.short, c \in legs.short : \E q, d \in legs.long :
          /\ Beyond("put", p, q) /\ Beyond("call", c, d)
          /\ p.strike <= Spot /\ Spot <= c.strike
          /\ legs = Legs({p, c}, {q, d})
    BY <2>1
  <2>3. PICK q \in legs.long, d \in legs.long :
          /\ Beyond("put", p, q) /\ Beyond("call", c, d)
          /\ p.strike <= Spot /\ Spot <= c.strike
          /\ legs = Legs({p, c}, {q, d})
    BY <2>2
  <2>4. p \in Quotes /\ c \in Quotes /\ q \in Quotes /\ d \in Quotes OBVIOUS
  <2>5. /\ Beyond("put", p, q) /\ Beyond("call", c, d)
        /\ p.strike <= Spot /\ Spot <= c.strike
    BY <2>3
  <2>6. legs.short = {p, c} /\ legs.long = {q, d} BY <2>3 DEF Legs
  <2>7. kind \in CreditKinds BY <1>7 DEF CreditKinds
  <2> QED BY <2>4, <2>5, <2>6, <2>7, CondorWorst
<1>8. CASE kind = "long_strangle"
  <2>1. \E c, p \in legs.long :
          /\ c.right = "call" /\ p.right = "put" /\ p.strike < Spot /\ Spot < c.strike
          /\ legs = Legs({}, {c, p})
    BY <1>8 DEF Shaped
  <2>2. PICK c \in legs.long, p \in legs.long :
          /\ c.right = "call" /\ p.right = "put" /\ p.strike < Spot /\ Spot < c.strike
          /\ legs = Legs({}, {c, p})
    BY <2>1
  <2>3. c \in Quotes /\ p \in Quotes OBVIOUS
  <2>4. c.right = "call" /\ p.right = "put" /\ p.strike < Spot /\ Spot < c.strike BY <2>2
  <2>5. legs.long = {c, p} /\ legs.short = {} BY <2>2 DEF Legs
  <2>6. kind \notin CreditKinds BY <1>8 DEF CreditKinds
  <2> QED BY <2>3, <2>4, <2>5, <2>6, StrangleWorst
<1> QED BY <1>3, <1>4, <1>5, <1>6, <1>7, <1>8 DEF Kinds, CreditKinds, DebitKinds

\* At most two of something.
Few(S) == S = {} \/ \E a, b \in S : S = {a, b}

\* A structure has few legs on each side.
LEMMA FewLegs ==
  ASSUME NEW k \in Kinds, NEW l \in [short : SUBSET Quotes, long : SUBSET Quotes], Shaped(k, l)
  PROVE  Few(l.long) /\ Few(l.short)
<1>1. ASSUME NEW right, NEW x, NEW y, Pair(right, x, y)
      PROVE  Few(x) /\ Few(y)
  <2>1. PICK n \in x, f \in y : x = {n} /\ y = {f} BY <1>1 DEF Pair
  <2>2. x = {n, n} /\ y = {f, f} BY <2>1
  <2> QED BY <2>2 DEF Few
<1>2. CASE k = "bull_put_spread" BY <1>1, <1>2 DEF Shaped
<1>3. CASE k = "bear_call_spread" BY <1>1, <1>3 DEF Shaped
<1>4. CASE k = "call_debit_spread" BY <1>1, <1>4 DEF Shaped
<1>5. CASE k = "put_debit_spread" BY <1>1, <1>5 DEF Shaped
<1>6. CASE k = "iron_condor"
  <2>1. \E p, c \in l.short : \E q, d \in l.long :
          /\ Beyond("put", p, q) /\ Beyond("call", c, d)
          /\ p.strike <= Spot /\ Spot <= c.strike
          /\ l = Legs({p, c}, {q, d})
    BY <1>6 DEF Shaped
  <2>2. PICK p \in l.short, c \in l.short : \E q, d \in l.long : l = Legs({p, c}, {q, d}) BY <2>1
  <2>3. PICK q \in l.long, d \in l.long : l = Legs({p, c}, {q, d}) BY <2>2
  <2>4. l.short = {p, c} /\ l.long = {q, d} BY <2>3 DEF Legs
  <2> QED BY <2>4 DEF Few
<1>7. CASE k = "long_strangle"
  <2>1. \E c, p \in l.long :
          /\ c.right = "call" /\ p.right = "put" /\ p.strike < Spot /\ Spot < c.strike
          /\ l = Legs({}, {c, p})
    BY <1>7 DEF Shaped
  <2>2. PICK c \in l.long, p \in l.long : l = Legs({}, {c, p}) BY <2>1
  <2>3. l.long = {c, p} /\ l.short = {} BY <2>2 DEF Legs
  <2> QED BY <2>3 DEF Few
<1> QED BY <1>2, <1>3, <1>4, <1>5, <1>6, <1>7 DEF Kinds, CreditKinds, DebitKinds

\* Which add up to a number.
LEMMA FewAddUp ==
  ASSUME NEW f, Few(DOMAIN f), \A x \in DOMAIN f : f[x] \in Int
  PROVE  SumFunction(f) \in Int
<1>1. CASE DOMAIN f = {} BY <1>1, SumOfNone
<1>2. CASE \E a, b \in DOMAIN f : DOMAIN f = {a, b}
  <2>1. PICK a \in DOMAIN f, b \in DOMAIN f : DOMAIN f = {a, b} BY <1>2
  <2>2. f[a] \in Int /\ f[b] \in Int OBVIOUS
  <2>3. SumFunction(f) = IF a = b THEN f[a] ELSE f[a] + f[b] BY <2>1, <2>2, SumOfTwo
  <2> QED BY <2>2, <2>3
<1> QED BY <1>1, <1>2 DEF Few

\* What the legs cost, and what they give up, is a number of cents.
LEMMA NetPriceType ==
  ASSUME NEW k \in Kinds, NEW l \in [short : SUBSET Quotes, long : SUBSET Quotes], Shaped(k, l)
  PROVE  NetPrice(l) \subseteq Int
<1> DEFINE f == [c \in l.long |-> TwiceMid(c)]
           g == [c \in l.short |-> TwiceMid(c)]
<1>1. Few(DOMAIN f) /\ Few(DOMAIN g) BY FewLegs
<1>2. \A c \in Quotes : TwiceMid(c) \in Int BY QuotesAre DEF Quoting
<1>3. (\A x \in DOMAIN f : f[x] \in Int) /\ (\A x \in DOMAIN g : g[x] \in Int) BY <1>2
<1>4. NetPrice(l) = Rounded(SumFunction(f) - SumFunction(g), 2) BY DEF NetPrice
<1> HIDE DEF f, g
<1>5. SumFunction(f) - SumFunction(g) \in Int BY <1>1, <1>3, FewAddUp
<1>6. \A a \in Int : Rounded(a, 2) \subseteq Int BY DEF Rounded
<1> QED BY <1>4, <1>5, <1>6

\* What it takes to close, at the sides that would be hit, is a number of cents.
LEMMA StructurePriceType ==
  ASSUME NEW ch \in Chains, NEW k \in Kinds, NEW l \in [short : SUBSET Quotes, long : SUBSET Quotes],
         Shaped(k, l), Quoted(ch, l)
  PROVE  StructurePrice(ch, l) \in Int
<1> DEFINE f == [c \in l.long |-> Now(ch, c).bid]
           g == [c \in l.short |-> Now(ch, c).ask]
<1>1. Few(DOMAIN f) /\ Few(DOMAIN g) BY FewLegs
<1>2. \A c \in l.long \cup l.short : Now(ch, c) \in Quotes BY DEF Quoted, Now, Quotes
<1>3. (\A x \in DOMAIN f : f[x] \in Int) /\ (\A x \in DOMAIN g : g[x] \in Int)
  BY <1>2, QuotesAre DEF Quoting
<1>4. StructurePrice(ch, l) = SumFunction(f) - SumFunction(g) BY DEF StructurePrice
<1> HIDE DEF f, g
<1>5. SumFunction(f) \in Int /\ SumFunction(g) \in Int BY <1>1, <1>3, FewAddUp
<1> QED BY <1>4, <1>5

\* A loss that can be booked is not negative.
LEMMA MaxLossType ==
  ASSUME NEW k \in Kinds, NEW l \in [short : SUBSET Quotes, long : SUBSET Quotes], Shaped(k, l),
         NEW price \in Int
  PROVE  MaxLoss(k, l, price) \subseteq Nat
<1>1. Abs(price) \in Nat BY AbsType
<1>2. k \notin DebitKinds => Width(l) \in Nat BY WidthType DEF Kinds
<1> QED BY <1>1, <1>2 DEF MaxLoss

-----------------------------------------------------------------------------
(* What a rung concedes.                                                   *)

\* A rung of the entry's ladder climbs, and stays within the concession.
LEMMA StepIs ==
  ASSUME entry \in Int, spread \in Nat, NEW conceded \in Int, NEW s \in Step(conceded)
  PROVE  s \in Int /\ s >= 1 /\ 100 * (conceded + s) <= MaxConcessionPct * Abs(entry) + 50
<1> DEFINE wish == HalfEven(Abs(entry) * spread, 400)
           step == IF wish > LadderTick THEN wish ELSE LadderTick
           cap == Abs(entry) * MaxConcessionPct
<1>1. Abs(entry) \in Nat /\ Abs(entry) * spread \in Int BY AbsType
<1>2. wish \in Int BY <1>1, HalfEvenType
<1>3. s \in IF 100 * (conceded + step) <= cap THEN {step}
            ELSE {n \in Rounded(cap - 100 * conceded, 100) : n >= LadderTick}
  BY DEF Step
<1>4. cap \in Int /\ cap = MaxConcessionPct * Abs(entry) BY <1>1 DEF MaxConcessionPct
<1> HIDE DEF wish, cap
<1>5. CASE 100 * (conceded + step) <= cap
  BY <1>2, <1>3, <1>4, <1>5 DEF LadderTick
<1>6. CASE ~ (100 * (conceded + step) <= cap)
  <2>1. s \in Rounded(cap - 100 * conceded, 100) /\ s >= 1 BY <1>3, <1>6 DEF LadderTick
  <2>2. cap - 100 * conceded \in Int BY <1>4
  <2>3. s \in Int /\ 100 * s <= (cap - 100 * conceded) + 50 BY <2>1, <2>2, RoundedCents
  <2> QED BY <1>4, <2>1, <2>3
<1> QED BY <1>5, <1>6

\* A rung of a close's climbs too, by twelve percent and half a cent at most.
LEMMA ConcededIs ==
  ASSUME NEW price \in Int
  PROVE  /\ Conceded(price) \in Int /\ Conceded(price) >= price
         /\ Abs(price) >= 5 => Conceded(price) > price
         /\ price > 0 => 100 * Conceded(price) <= 112 * price + 50
         /\ price <= 0 => Conceded(price) <= 0 /\ 112 * Conceded(price) <= 100 * price + 56
<1>1. CASE price > 0
  <2> DEFINE h == HalfEven(112 * price, 100)
  <2>1. Conceded(price) = h BY <1>1 DEF Conceded, CloseEscalationPct
  <2>2. 112 * price \in Int OBVIOUS
  <2>3. /\ h \in Int
        /\ 2 * (112 * price) - 100 <= 200 * h /\ 200 * h <= 2 * (112 * price) + 100
    BY <2>2, HalfEvenCents
  <2> HIDE DEF h
  <2> QED BY <1>1, <2>1, <2>3 DEF Abs
<1>2. CASE price <= 0
  <2> DEFINE h == HalfEven(100 * price, 112)
  <2>1. Conceded(price) = h BY <1>2 DEF Conceded, CloseEscalationPct
  <2>2. 100 * price \in Int OBVIOUS
  <2>3. /\ h \in Int
        /\ 2 * (100 * price) - 112 <= 224 * h /\ 224 * h <= 2 * (100 * price) + 112
    BY <2>2, HalfEvenRung
  <2> HIDE DEF h
  <2> QED BY <1>2, <2>1, <2>3 DEF Abs
<1> QED BY <1>1, <1>2

-----------------------------------------------------------------------------
(* The inductive invariant.  The booked loss says nothing of how it came   *)
(* about: what makes it the worst is where the strikes lie, which no step  *)
(* after the first can disturb, that the books follow every price that a   *)
(* loss can be booked on, and how far a working order may have climbed.    *)

\* The strikes of a position that is held, or sought, lie as its kind says.
ShapeInv == Holds => Shaped(kind, legs)

\* Whenever a loss can be booked on the entry price, it is the one booked.
BookInv ==
  Holds /\ MaxLoss(kind, legs, entry) # {} => maxLoss \in MaxLoss(kind, legs, entry)

\* An entry that climbs stays within the cap of what was asked.
LadderInv ==
  status = "opening" =>
    limit >= entry /\ 100 * (limit - entry) <= MaxConcessionPct * Abs(entry) + 50

\* Where a close that started at the price may be at its nth attempt: a rung
\* adds twelve percent and half a cent to what is paid, or takes as much off
\* what is received.
Escalated(n, price, ask) ==
  /\ n = 1 => ask = price
  /\ price > 0 =>
       /\ n = 2 => 100 * ask <= 112 * price + 50
       /\ n = 3 => 10000 * ask <= 12544 * price + 10600
       /\ n = 4 => 1000000 * ask <= 1404928 * price + 1687200
  /\ price <= 0 =>
       /\ ask <= 0
       /\ n = 2 => 112 * ask <= 100 * price + 56
       /\ n = 3 => 12544 * ask <= 10000 * price + 11872
       /\ n = 4 => 1404928 * ask <= 1000000 * price + 1889664

\* A close concedes, and within what its attempt allows.
CloseInv ==
  status = "closing" =>
    attempt \in 1..CloseMaxAttempts /\ limit >= -mark /\ Escalated(attempt, -mark, limit)

StructInv ==
  /\ TypeOK /\ ShapeInv /\ BookInv /\ LadderInv /\ CloseInv
  /\ CloseCostIsBounded

-----------------------------------------------------------------------------
(* The invariant is inductive.                                             *)

\* It holds before the view.
LEMMA InvInit == Init => StructInv
<1> SUFFICES ASSUME Init PROVE StructInv OBVIOUS
<1>1. TypeOK BY DEF Init, TypeOK, NoLegs, Legs, CloseMaxAttempts
<1>2. status = "none" BY DEF Init
<1> QED BY <1>1, <1>2 DEF StructInv, ShapeInv, BookInv, LadderInv, CloseInv, Holds,
                         CloseCostIsBounded

\* What a view becomes, as booked, is shaped and priced as its kind.
LEMMA EnterStep ==
  ASSUME StructInv, Enter
  PROVE  StructInv'
<1>1. PICK k \in Kinds, m \in Moves, s \in SpreadPcts : \E l \in BuildStructure(k, chain, m) :
         \E price \in NetPrice(l) :
           /\ DefinedRisk(l)
           /\ maxLoss' \in MaxLoss(k, l, price)
           /\ kind' = k /\ legs' = l /\ spread' = s /\ move' = m
           /\ entry' = price /\ limit' = price
  BY DEF Enter
<1>0. PICK l \in BuildStructure(k, chain, m) : \E price \in NetPrice(l) :
           /\ DefinedRisk(l)
           /\ maxLoss' \in MaxLoss(k, l, price)
           /\ kind' = k /\ legs' = l /\ spread' = s /\ move' = m
           /\ entry' = price /\ limit' = price
  BY <1>1
<1>2. PICK price \in NetPrice(l) :
           /\ maxLoss' \in MaxLoss(k, l, price)
           /\ kind' = k /\ legs' = l /\ spread' = s /\ move' = m
           /\ entry' = price /\ limit' = price
  BY <1>0
<1>3. /\ status' = "opening" /\ attempt' = 0
      /\ chain' = chain /\ realized' = realized /\ mark' = mark
  BY DEF Enter
<1>4. /\ chain \in Chains /\ realized \in Int /\ mark \in Int
  BY DEF StructInv, TypeOK
<1>5. Shaped(k, l) /\ l \in [short : SUBSET Quotes, long : SUBSET Quotes] BY <1>4, BuildIs
<1>6. price \in Int BY <1>5, NetPriceType
<1>7. maxLoss' \in Nat BY <1>2, <1>5, <1>6, MaxLossType
<1>8. TypeOK'
  <2>1. {entry', maxLoss', limit', realized', mark'} \subseteq Int /\ maxLoss' >= 0
    BY <1>2, <1>3, <1>4, <1>6, <1>7
  <2>2. attempt' \in 0..CloseMaxAttempts BY <1>3 DEF CloseMaxAttempts
  <2> QED BY <1>2, <1>3, <1>4, <1>5, <2>1, <2>2 DEF TypeOK
<1>9. ShapeInv' BY <1>2, <1>5 DEF ShapeInv
<1>10. BookInv' BY <1>2 DEF BookInv
<1>11. LadderInv'
  <2>1. Abs(price) \in Nat BY <1>6, AbsType
  <2>2. limit' = price /\ entry' = price BY <1>2
  <2> QED BY <1>6, <2>1, <2>2 DEF LadderInv, MaxConcessionPct
<1>12. CloseInv' /\ CloseCostIsBounded' BY <1>3 DEF CloseInv, CloseCostIsBounded
<1> QED BY <1>8, <1>9, <1>10, <1>11, <1>12 DEF StructInv

\* A rung keeps the books and stays within the cap.
LEMMA EntryRungStep ==
  ASSUME StructInv, EntryRung
  PROVE  StructInv'
<1>1. TypeOK /\ status = "opening" /\ attempt < LadderSteps BY DEF StructInv, EntryRung
<1>2. PICK s \in Step(limit - entry) : limit' = limit + s BY DEF EntryRung
<1>3. /\ attempt' = attempt + 1
      /\ chain' = chain /\ status' = status /\ kind' = kind /\ legs' = legs
      /\ spread' = spread /\ move' = move
      /\ entry' = entry /\ maxLoss' = maxLoss /\ realized' = realized /\ mark' = mark
  BY DEF EntryRung, position
<1>4. entry \in Int /\ limit \in Int /\ spread \in Nat /\ attempt \in Nat
  BY <1>1, StructuresAssumption DEF TypeOK, StructuresAssumption
<1>5. limit - entry \in Int BY <1>4
<1>6. s \in Int /\ s >= 1 /\ 100 * ((limit - entry) + s) <= MaxConcessionPct * Abs(entry) + 50
  BY <1>4, <1>5, StepIs
<1>7. TypeOK'
  <2>1. limit' \in Int BY <1>2, <1>4, <1>6
  <2>2. attempt' \in 0..CloseMaxAttempts
    BY <1>1, <1>3, <1>4 DEF LadderSteps, CloseMaxAttempts
  <2> QED BY <1>1, <1>3, <2>1, <2>2 DEF TypeOK
<1>8. ShapeInv' /\ BookInv'
  BY <1>3 DEF StructInv, ShapeInv, BookInv, Holds
<1>9. LadderInv'
  <2>1. limit >= entry BY <1>1 DEF StructInv, LadderInv
  <2>2. Abs(entry) \in Nat BY <1>4, AbsType
  <2> QED BY <1>2, <1>3, <1>4, <1>6, <2>1, <2>2 DEF LadderInv, MaxConcessionPct
<1>10. CloseInv' /\ CloseCostIsBounded' BY <1>1, <1>3 DEF CloseInv, CloseCostIsBounded
<1> QED BY <1>7, <1>8, <1>9, <1>10 DEF StructInv

\* A fill corrects the booking, or keeps it.
LEMMA EntryFillStep ==
  ASSUME StructInv, EntryFill
  PROVE  StructInv'
<1>1. TypeOK /\ status = "opening" /\ status' = "open" BY DEF StructInv, EntryFill
<1>2. PICK fill \in Fills : entry' = fill /\ maxLoss' \in Rebooked(fill) BY DEF EntryFill
<1>3. /\ chain' = chain /\ kind' = kind /\ legs' = legs /\ spread' = spread /\ move' = move
      /\ limit' = limit /\ attempt' = attempt /\ realized' = realized /\ mark' = mark
  BY DEF EntryFill, position
<1>4. limit \in Int /\ maxLoss \in Nat BY <1>1 DEF TypeOK
<1>5. fill \in Int BY <1>4 DEF Fills
<1>6. Shaped(kind, legs) BY <1>1 DEF StructInv, ShapeInv, Holds
<1>7. MaxLoss(kind, legs, fill) \subseteq Nat BY <1>1, <1>5, <1>6, MaxLossType DEF TypeOK
<1>8. /\ maxLoss' \in Nat
      /\ MaxLoss(kind, legs, fill) # {} => maxLoss' \in MaxLoss(kind, legs, fill)
  BY <1>2, <1>4, <1>7 DEF Rebooked
<1>9. TypeOK'
  <2>1. entry' \in Int /\ maxLoss' \in Int /\ maxLoss' >= 0 BY <1>2, <1>5, <1>8
  <2> QED BY <1>1, <1>3, <2>1 DEF TypeOK
<1>10. ShapeInv' BY <1>3, <1>6 DEF ShapeInv
<1>11. BookInv' BY <1>2, <1>3, <1>8 DEF BookInv
<1>12. LadderInv' /\ CloseInv' /\ CloseCostIsBounded'
  BY <1>1 DEF LadderInv, CloseInv, CloseCostIsBounded
<1> QED BY <1>9, <1>10, <1>11, <1>12 DEF StructInv

\* A position that ends unfilled, or sees the market move, keeps its books.
LEMMA QuietStep ==
  ASSUME StructInv, EntryExpires \/ Market
  PROVE  StructInv'
<1>1. /\ status \in {"opening", "open"} /\ status' \in {"failed", "open"}
      /\ status' = "open" => status = "open"
      /\ chain \in Chains /\ chain' \in Chains
  BY DEF StructInv, TypeOK, EntryExpires, Market
<1>2. /\ kind' = kind /\ legs' = legs /\ spread' = spread /\ move' = move
      /\ entry' = entry /\ maxLoss' = maxLoss
      /\ limit' = limit /\ attempt' = attempt /\ realized' = realized /\ mark' = mark
  BY DEF EntryExpires, Market, position
<1>3. TypeOK' BY <1>1, <1>2 DEF StructInv, TypeOK
<1>4. ShapeInv' /\ BookInv'
  BY <1>1, <1>2 DEF StructInv, ShapeInv, BookInv, Holds
<1>5. LadderInv' /\ CloseInv' /\ CloseCostIsBounded'
  BY <1>1 DEF LadderInv, CloseInv, CloseCostIsBounded
<1> QED BY <1>3, <1>4, <1>5 DEF StructInv

\* A close starts at its price.
LEMMA EscalatedFirst ==
  ASSUME NEW price \in Int
  PROVE  Escalated(1, price, price)
BY DEF Escalated

\* A close leaves the books to the fill.
LEMMA CloseStep ==
  ASSUME StructInv, Close
  PROVE  StructInv'
<1>1. TypeOK /\ status = "open" /\ Quoted(chain, legs) /\ status' = "closing" /\ attempt' = 1
  BY DEF StructInv, Close
<1> DEFINE price == StructurePrice(chain, legs)
<1>2. mark' = price /\ limit' = -price BY DEF Close, CloseLimit
<1>3. /\ chain' = chain /\ kind' = kind /\ legs' = legs /\ spread' = spread /\ move' = move
      /\ entry' = entry /\ maxLoss' = maxLoss /\ realized' = realized
  BY DEF Close, position
<1>4. Shaped(kind, legs) BY <1>1 DEF StructInv, ShapeInv, Holds
<1>5. price \in Int BY <1>1, <1>4, StructurePriceType DEF TypeOK
<1> HIDE DEF price
<1>6. TypeOK'
  <2>1. mark' \in Int /\ limit' \in Int BY <1>2, <1>5
  <2>2. attempt' \in 0..CloseMaxAttempts BY <1>1 DEF CloseMaxAttempts
  <2> QED BY <1>1, <1>3, <2>1, <2>2 DEF TypeOK
<1>7. ShapeInv' BY <1>3, <1>4 DEF ShapeInv
<1>8. BookInv'
  BY <1>1, <1>3 DEF StructInv, BookInv, Holds
<1>9. CloseInv'
  <2>1. attempt' \in 1..CloseMaxAttempts BY <1>1 DEF CloseMaxAttempts
  <2>2. limit' = -mark' /\ limit' \in Int /\ mark' \in Int BY <1>2, <1>5
  <2>3. Escalated(attempt', -mark', limit') BY <1>1, <1>2, <1>5, EscalatedFirst
  <2>4. limit' >= -mark'
    <3>1. -price >= -price BY <1>5
    <3> QED BY <1>2, <3>1
  <2> QED BY <2>1, <2>3, <2>4 DEF CloseInv
<1>10. LadderInv' /\ CloseCostIsBounded' BY <1>1 DEF LadderInv, CloseCostIsBounded
<1> QED BY <1>6, <1>7, <1>8, <1>9, <1>10 DEF StructInv

\* A rung takes a close from where its attempt may be to where the next may.
LEMMA EscalatedOnce ==
  ASSUME NEW n \in {1, 2, 3}, NEW price \in Int, NEW ask \in Int, ask >= price,
         Escalated(n, price, ask)
  PROVE  Escalated(n + 1, price, Conceded(ask)) /\ Conceded(ask) >= price
<1> DEFINE next == Conceded(ask)
<1>1. /\ next \in Int /\ next >= ask
      /\ ask > 0 => 100 * next <= 112 * ask + 50
      /\ ask <= 0 => next <= 0 /\ 112 * next <= 100 * ask + 56
  BY ConcededIs
<1> HIDE DEF next
<1>2. next >= price BY <1>1
<1>3. CASE price > 0
  <2>1. CASE n = 1
    <3>1. ask = price /\ n + 1 = 2
      <4>1. Escalated(n, price, ask) /\ n = 1 BY <2>1
      <4> QED BY <4>1 DEF Escalated
    <3>2. 100 * next <= 112 * price + 50 BY <1>1, <1>3, <3>1
    <3>3. Escalated(2, price, next) BY <1>3, <3>2 DEF Escalated
    <3> QED BY <1>2, <3>1, <3>3 DEF next
  <2>2. CASE n = 2
    <3>1. 100 * ask <= 112 * price + 50 /\ n + 1 = 3
      <4>1. Escalated(n, price, ask) /\ n = 2 BY <2>2
      <4> QED BY <1>3, <4>1 DEF Escalated
    <3>2. 10000 * next <= 12544 * price + 10600 BY <1>1, <1>3, <3>1
    <3>3. Escalated(3, price, next) BY <1>3, <3>2 DEF Escalated
    <3> QED BY <1>2, <3>1, <3>3 DEF next
  <2>3. CASE n = 3
    <3>1. 10000 * ask <= 12544 * price + 10600 /\ n + 1 = 4
      <4>1. Escalated(n, price, ask) /\ n = 3 BY <2>3
      <4> QED BY <1>3, <4>1 DEF Escalated
    <3>2. 1000000 * next <= 1404928 * price + 1687200 BY <1>1, <1>3, <3>1
    <3>3. Escalated(4, price, next) BY <1>3, <3>2 DEF Escalated
    <3> QED BY <1>2, <3>1, <3>3 DEF next
  <2> QED BY <1>2, <2>1, <2>2, <2>3 DEF next
<1>4. CASE price <= 0
  <2>1. CASE n = 1
    <3>1. ask = price /\ n + 1 = 2
      <4>1. Escalated(n, price, ask) /\ n = 1 BY <2>1
      <4> QED BY <4>1 DEF Escalated
    <3>2. next <= 0 /\ 112 * next <= 100 * price + 56 BY <1>1, <1>4, <3>1
    <3>3. Escalated(2, price, next) BY <1>4, <3>2 DEF Escalated
    <3> QED BY <1>2, <3>1, <3>3 DEF next
  <2>2. CASE n = 2
    <3>1. ask <= 0 /\ 112 * ask <= 100 * price + 56 /\ n + 1 = 3
      <4>1. Escalated(n, price, ask) /\ n = 2 BY <2>2
      <4> QED BY <1>4, <4>1 DEF Escalated
    <3>2. next <= 0 /\ 12544 * next <= 10000 * price + 11872 BY <1>1, <1>4, <3>1
    <3>3. Escalated(3, price, next) BY <1>4, <3>2 DEF Escalated
    <3> QED BY <1>2, <3>1, <3>3 DEF next
  <2>3. CASE n = 3
    <3>1. ask <= 0 /\ 12544 * ask <= 10000 * price + 11872 /\ n + 1 = 4
      <4>1. Escalated(n, price, ask) /\ n = 3 BY <2>3
      <4> QED BY <1>4, <4>1 DEF Escalated
    <3>2. next <= 0 /\ 1404928 * next <= 1000000 * price + 1889664 BY <1>1, <1>4, <3>1
    <3>3. Escalated(4, price, next) BY <1>4, <3>2 DEF Escalated
    <3> QED BY <1>2, <3>1, <3>3 DEF next
  <2> QED BY <1>2, <2>1, <2>2, <2>3 DEF next
<1> QED BY <1>3, <1>4

\* An escalation stays within what its attempt allows.
LEMMA CloseRungStep ==
  ASSUME StructInv, CloseRung
  PROVE  StructInv'
<1>1. TypeOK /\ status = "closing" /\ attempt < CloseMaxAttempts
  BY DEF StructInv, CloseRung
<1>2. /\ limit' = Conceded(limit) /\ attempt' = attempt + 1
      /\ chain' = chain /\ status' = status /\ kind' = kind /\ legs' = legs
      /\ spread' = spread /\ move' = move
      /\ entry' = entry /\ maxLoss' = maxLoss /\ realized' = realized /\ mark' = mark
  BY DEF CloseRung, position
<1>3. limit \in Int /\ mark \in Int BY <1>1 DEF TypeOK
<1>4. /\ attempt \in 1..CloseMaxAttempts /\ limit >= -mark /\ Escalated(attempt, -mark, limit)
  BY <1>1 DEF StructInv, CloseInv
<1>5. attempt \in {1, 2, 3} BY <1>1, <1>4 DEF CloseMaxAttempts
<1>6. -mark \in Int BY <1>3
<1>7. Escalated(attempt + 1, -mark, Conceded(limit)) /\ Conceded(limit) >= -mark
  BY <1>3, <1>4, <1>5, <1>6, EscalatedOnce
<1>8. TypeOK'
  <2>1. limit' \in Int BY <1>2, <1>3, ConcededIs
  <2>2. attempt' \in 0..CloseMaxAttempts BY <1>2, <1>5 DEF CloseMaxAttempts
  <2> QED BY <1>1, <1>2, <2>1, <2>2 DEF TypeOK
<1>9. ShapeInv' /\ BookInv'
  BY <1>2 DEF StructInv, ShapeInv, BookInv, Holds
<1>10. CloseInv'
  <2>1. attempt' \in 1..CloseMaxAttempts BY <1>2, <1>5 DEF CloseMaxAttempts
  <2> QED BY <1>2, <1>7, <2>1 DEF CloseInv
<1>11. LadderInv' /\ CloseCostIsBounded' BY <1>1, <1>2 DEF LadderInv, CloseCostIsBounded
<1> QED BY <1>8, <1>9, <1>10, <1>11 DEF StructInv

\* Three rungs cost two fifths of the price, and two cents.
LEMMA RungsCost ==
  ASSUME NEW n \in 1..CloseMaxAttempts, NEW price \in Int, NEW ask \in Int, ask >= price,
         Escalated(n, price, ask)
  PROVE  100 * (ask - price) <= 41 * Abs(price) + 200
<1>1. n \in {1, 2, 3, 4} BY DEF CloseMaxAttempts
<1>2. CASE price > 0
  <2>1. Abs(price) = price BY <1>2 DEF Abs
  <2>2. CASE n = 1 BY <1>2, <2>1, <2>2 DEF Escalated
  <2>3. CASE n = 2 BY <1>2, <2>1, <2>3 DEF Escalated
  <2>4. CASE n = 3 BY <1>2, <2>1, <2>4 DEF Escalated
  <2>5. CASE n = 4 BY <1>2, <2>1, <2>5 DEF Escalated
  <2> QED BY <1>1, <2>2, <2>3, <2>4, <2>5
<1>3. CASE price <= 0
  <2>1. Abs(price) = -price BY <1>3 DEF Abs
  <2>2. CASE n = 1 BY <1>3, <2>1, <2>2 DEF Escalated
  <2>3. CASE n = 2 BY <1>3, <2>1, <2>3 DEF Escalated
  <2>4. CASE n = 3 BY <1>3, <2>1, <2>4 DEF Escalated
  <2>5. CASE n = 4 BY <1>3, <2>1, <2>5 DEF Escalated
  <2> QED BY <1>1, <2>2, <2>3, <2>4, <2>5
<1> QED BY <1>2, <1>3

\* So what a close realizes is bounded.
LEMMA CloseFillStep ==
  ASSUME StructInv, CloseFill
  PROVE  StructInv'
<1>1. TypeOK /\ status = "closing" /\ status' = "closed" BY DEF StructInv, CloseFill
<1>2. PICK fill \in Fills : realized' = Realized(fill) BY DEF CloseFill
<1>3. /\ chain' = chain /\ kind' = kind /\ legs' = legs /\ spread' = spread /\ move' = move
      /\ entry' = entry /\ maxLoss' = maxLoss /\ limit' = limit /\ attempt' = attempt
      /\ mark' = mark
  BY DEF CloseFill, position
<1>4. limit \in Int /\ mark \in Int /\ entry \in Int BY <1>1 DEF TypeOK
<1>5. attempt \in 1..CloseMaxAttempts /\ limit >= -mark /\ Escalated(attempt, -mark, limit)
  BY <1>1 DEF StructInv, CloseInv
<1>6. fill \in {limit, limit - 1} /\ realized' = -fill - entry BY <1>2 DEF Fills, Realized
<1>7. -mark \in Int BY <1>4
<1>8. 100 * (limit - (-mark)) <= 41 * Abs(-mark) + 200 BY <1>4, <1>5, <1>7, RungsCost
<1>9. Abs(-mark) = Abs(mark) /\ Abs(mark) \in Nat BY <1>4 DEF Abs
<1>10. TypeOK'
  <2>1. realized' \in Int BY <1>4, <1>6
  <2> QED BY <1>1, <1>3, <2>1 DEF TypeOK
<1>11. ShapeInv' /\ BookInv'
  BY <1>1, <1>3 DEF StructInv, ShapeInv, BookInv, Holds
<1>12. CloseCostIsBounded'
  <2>1. /\ 100 * (mark - entry - realized') <= 41 * Abs(mark) + 200
        /\ realized' - (mark - entry) <= 1
    BY <1>4, <1>5, <1>6, <1>8, <1>9
  <2> QED BY <1>3, <2>1 DEF CloseCostIsBounded
<1>13. LadderInv' /\ CloseInv' BY <1>1 DEF LadderInv, CloseInv
<1> QED BY <1>10, <1>11, <1>12, <1>13 DEF StructInv

\* Every step preserves it.
LEMMA InvStep == StructInv /\ [Next]_vars => StructInv'
<1> SUFFICES ASSUME StructInv, [Next]_vars PROVE StructInv' OBVIOUS
<1>1. CASE UNCHANGED vars
  BY <1>1 DEF vars, position, StructInv, TypeOK, ShapeInv, BookInv, LadderInv, CloseInv,
              CloseCostIsBounded, Holds
<1> QED BY <1>1, EnterStep, EntryRungStep, EntryFillStep, QuietStep, CloseStep, CloseRungStep,
           CloseFillStep
        DEF Next

-----------------------------------------------------------------------------
(* Theorems.                                                               *)

(* The invariant holds of every position, whatever the chains, the spot,   *)
(* the forecasts and the quoted spreads.                                   *)
THEOREM StructuresHold == Spec => []StructInv
BY InvInit, InvStep, PTL DEF Spec

(* Legs are sets of quotes, prices whole cents, and the loss booked is not *)
(* negative: the rows of the positions table have the types they should.   *)
THEOREM TypeCorrect == Spec => []TypeOK
<1>1. StructInv => TypeOK BY DEF StructInv
<1> QED BY <1>1, StructuresHold, PTL

(* The loss booked on a position is the worst its legs can do at expiry,   *)
(* and an entry that climbs its ladder is short of that by no more than    *)
(* the cap: max_loss_per_spread against the payoff of the legs.            *)
THEOREM LossIsWorst == Spec => []BookedLossIsWorst
<1>1. StructInv => BookedLossIsWorst
  <2> SUFFICES ASSUME StructInv, Holds, Sane(entry), WorstLoss(entry) > 0
               PROVE  /\ maxLoss = WorstLoss(entry)
                      /\ status = "opening" =>
                           /\ Sane(limit)
                           /\ 100 * (WorstLoss(limit) - maxLoss)
                                <= MaxConcessionPct * Abs(entry) + 50
    BY DEF BookedLossIsWorst
  <2>1. /\ kind \in Kinds /\ legs \in [short : SUBSET Quotes, long : SUBSET Quotes]
        /\ entry \in Int /\ limit \in Int /\ Shaped(kind, legs)
    BY DEF StructInv, TypeOK, ShapeInv
  <2> DEFINE width == IF kind \in CreditKinds THEN Width(legs) ELSE 0
  <2>2. \A paid \in Int : WorstLoss(paid) = paid + width BY <2>1, ShapeWorst DEF WorstAsBooked
  <2>3. width \in Nat BY <2>1, WidthType
  <2>4. kind \in CreditKinds => width = Width(legs) OBVIOUS
  <2>5. kind \notin CreditKinds => width = 0 /\ kind \in DebitKinds BY <2>1 DEF Kinds
  <2> HIDE DEF width
  <2>6. WorstLoss(entry) = entry + width /\ WorstLoss(limit) = limit + width BY <2>1, <2>2
  <2>7. MaxLoss(kind, legs, entry) = {entry + width}
    <3>1. CASE kind \in CreditKinds
      <4>1. entry < 0 BY <3>1 DEF Sane
      <4>2. Abs(entry) = -entry BY <2>1, <4>1 DEF Abs
      <4>3. kind \notin DebitKinds BY <3>1 DEF CreditKinds, DebitKinds
      <4>4. MaxLoss(kind, legs, entry) = {width - (-entry)} \cap (1..width)
        BY <2>4, <3>1, <4>2, <4>3 DEF MaxLoss
      <4>5. width - (-entry) = entry + width BY <2>1, <2>3
      <4>6. entry + width \in 1..width BY <2>1, <2>3, <2>6, <4>1
      <4> QED BY <4>4, <4>5, <4>6
    <3>2. CASE kind \notin CreditKinds
      <4>1. entry > 0 /\ width = 0 /\ kind \in DebitKinds BY <2>5, <3>2 DEF Sane
      <4>2. Abs(entry) = entry BY <2>1, <4>1 DEF Abs
      <4>3. MaxLoss(kind, legs, entry) = {entry} \ {0} BY <4>1, <4>2 DEF MaxLoss
      <4>4. entry + width = entry /\ entry # 0 BY <2>1, <4>1
      <4> QED BY <4>3, <4>4
    <3> QED BY <3>1, <3>2
  <2>8. maxLoss = WorstLoss(entry) BY <2>6, <2>7 DEF StructInv, BookInv
  <2>9. ASSUME status = "opening"
        PROVE  /\ Sane(limit)
               /\ 100 * (WorstLoss(limit) - maxLoss) <= MaxConcessionPct * Abs(entry) + 50
    <3>1. limit >= entry /\ 100 * (limit - entry) <= 15 * Abs(entry) + 50
      BY <2>9 DEF StructInv, LadderInv, MaxConcessionPct
    <3>2. Sane(limit)
      <4>1. CASE kind \in CreditKinds BY <2>1, <3>1, <4>1 DEF Sane, Abs
      <4>2. CASE kind \notin CreditKinds BY <2>1, <3>1, <4>2 DEF Sane
      <4> QED BY <4>1, <4>2
    <3>3. WorstLoss(limit) - maxLoss = limit - entry BY <2>1, <2>3, <2>6, <2>8
    <3> QED BY <3>1, <3>2, <3>3 DEF MaxConcessionPct
  <2> QED BY <2>8, <2>9
<1> QED BY <1>1, StructuresHold, PTL

(* To be flat costs at most three escalations of twelve percent and their  *)
(* rounding, and a cent is the most a better fill returns.                 *)
THEOREM CloseCostsLittle == Spec => []CloseCostIsBounded
<1>1. StructInv => CloseCostIsBounded BY DEF StructInv
<1> QED BY <1>1, StructuresHold, PTL

(* No escalation of a close takes back what the last one conceded, and     *)
(* from five cents on each concedes something.                             *)
THEOREM RungsConcede == Spec => EscalationConcedes
<1>1. StructInv /\ [Next]_vars =>
        [CloseRung => limit' >= limit /\ (Abs(limit) >= 5 => limit' > limit)]_vars
  <2> SUFFICES ASSUME StructInv, CloseRung
               PROVE  limit' >= limit /\ (Abs(limit) >= 5 => limit' > limit)
    OBVIOUS
  <2>1. limit \in Int /\ limit' = Conceded(limit) BY DEF StructInv, TypeOK, CloseRung
  <2> QED BY <2>1, ConcededIs
<1> QED BY <1>1, StructuresHold, PTL DEF Spec, EscalationConcedes

-----------------------------------------------------------------------------
(* What liquidity may move.                                                *)

\* The body of LiquidityKeepsTheShape for one short leg.
Kept(ch, l, m, s) ==
  LET full == Side(ch, s.right)
      width == WingWidth(full)
      outer == Past(full, s.right, s.strike)
      wings == {x \in l.long : x.right = s.right}
      distance(c) == Abs(c.strike - s.strike)
  IN /\ Away(s.right) * (s.strike - Reach(s.right, m)) >= 0
     /\ wings # {} /\ wings \subseteq outer
     /\ (\E c \in outer : distance(c) = width) => \A x \in wings : distance(x) <= 2 * width
     /\ (\E c \in outer : distance(c) <= width) => \A x \in wings : distance(x) < 3 * width

\* A winged pair has the shape.
LEMMA WingedKeeps ==
  ASSUME NEW ch, NEW l, NEW m, NEW s, NEW w, Winged(ch, s.right, m, s, w),
         {x \in l.long : x.right = s.right} = {w}
  PROVE  Kept(ch, l, m, s)
BY DEF Winged, Kept

\* A condor is a spread of each right.
LEMMA CondorIs ==
  ASSUME NEW ch, NEW m, NEW l \in Condor(ch, m)
  PROVE  \E x \in Credit(ch, "put", m), y \in Credit(ch, "call", m) :
           l = Legs(x.short \cup y.short, x.long \cup y.long)
BY DEF Condor

\* The legs of every credit have it.
LEMMA CreditKeeps ==
  ASSUME NEW ch \in Chains, NEW m \in Moves, NEW k \in CreditKinds,
         NEW l \in BuildStructure(k, ch, m), NEW s \in l.short
  PROVE  Kept(ch, l, m, s)
<1>1. ASSUME NEW right \in Rights, NEW x \in Credit(ch, right, m)
      PROVE  \E n, f : /\ x.short = {n} /\ x.long = {f} /\ n.right = right /\ f.right = right
                       /\ Winged(ch, right, m, n, f)
  <2>1. PICK n, f : x = Legs({n}, {f}) /\ Winged(ch, right, m, n, f) BY <1>1, CreditIs
  <2>2. n.right = right /\ f.right = right
    <3>1. n \in Side(ch, right) /\ f \in Side(ch, right) BY <2>1 DEF Winged, Past
    <3> QED BY <3>1 DEF Side
  <2>3. x.short = {n} /\ x.long = {f} BY <2>1 DEF Legs
  <2> QED BY <2>1, <2>2, <2>3
<1>2. ASSUME NEW right \in Rights, l \in Credit(ch, right, m)
      PROVE  Kept(ch, l, m, s)
  <2>1. PICK n, f : /\ l.short = {n} /\ l.long = {f} /\ n.right = right /\ f.right = right
                    /\ Winged(ch, right, m, n, f)
    BY <1>1, <1>2
  <2>2. s = n /\ s.right = right BY <2>1
  <2>3. {x \in l.long : x.right = s.right} = {f} BY <2>1, <2>2
  <2>4. Winged(ch, s.right, m, s, f) BY <2>1, <2>2
  <2> QED BY <2>3, <2>4, WingedKeeps
<1>3. CASE k = "bull_put_spread" BY <1>2, <1>3 DEF BuildStructure, Rights
<1>4. CASE k = "bear_call_spread" BY <1>2, <1>4 DEF BuildStructure, Rights
<1>5. CASE k = "iron_condor"
  <2>1. l \in Condor(ch, m) BY <1>5 DEF BuildStructure
  <2>2. PICK x \in Credit(ch, "put", m), y \in Credit(ch, "call", m) :
           l = Legs(x.short \cup y.short, x.long \cup y.long)
    BY <2>1, CondorIs
  <2>3. PICK p, q : /\ x.short = {p} /\ x.long = {q} /\ p.right = "put" /\ q.right = "put"
                    /\ Winged(ch, "put", m, p, q)
    BY <1>1, <2>2 DEF Rights
  <2>4. PICK c, d : /\ y.short = {c} /\ y.long = {d} /\ c.right = "call" /\ d.right = "call"
                    /\ Winged(ch, "call", m, c, d)
    BY <1>1, <2>2 DEF Rights
  <2>5. l.short = {p, c} /\ l.long = {q, d} BY <2>2, <2>3, <2>4 DEF Legs
  <2>6. CASE s = p
    <3>1. {e \in l.long : e.right = s.right} = {q} BY <2>3, <2>4, <2>5, <2>6
    <3>2. Winged(ch, s.right, m, s, q) BY <2>3, <2>6
    <3> QED BY <3>1, <3>2, WingedKeeps
  <2>7. CASE s = c
    <3>1. {e \in l.long : e.right = s.right} = {d} BY <2>3, <2>4, <2>5, <2>7
    <3>2. Winged(ch, s.right, m, s, d) BY <2>4, <2>7
    <3> QED BY <3>1, <3>2, WingedKeeps
  <2> QED BY <2>5, <2>6, <2>7
<1> QED BY <1>3, <1>4, <1>5 DEF CreditKinds

(* The gate on liquidity moves a credit's short legs outward only as far   *)
(* as the forecast allows, and its wings by a notch and the gap between    *)
(* strikes: _pick's tolerance keeps the shape the view asked for.          *)
THEOREM ShapeIsKept == Spec => LiquidityKeepsTheShape
<1>1. ASSUME StructInv, Enter
      PROVE  \A s \in legs'.short : kind' \in CreditKinds => Kept(chain, legs', move', s)
  <2>1. PICK k \in Kinds, m \in Moves : \E l \in BuildStructure(k, chain, m) :
           kind' = k /\ legs' = l /\ move' = m
    BY <1>1 DEF Enter
  <2>2. legs' \in BuildStructure(kind', chain, move') /\ move' \in Moves BY <2>1
  <2>3. chain \in Chains BY <1>1 DEF StructInv, TypeOK
  <2> QED BY <2>2, <2>3, CreditKeeps
<1>2. StructInv /\ [Next]_vars =>
        [Enter => \A s \in legs'.short : kind' \in CreditKinds =>
           LET full == Side(chain, s.right)
               width == WingWidth(full)
               outer == Past(full, s.right, s.strike)
               wings == {l \in legs'.long : l.right = s.right}
               distance(c) == Abs(c.strike - s.strike)
           IN /\ Away(s.right) * (s.strike - Reach(s.right, move')) >= 0
              /\ wings # {} /\ wings \subseteq outer
              /\ (\E c \in outer : distance(c) = width)
                   => \A l \in wings : distance(l) <= 2 * width
              /\ (\E c \in outer : distance(c) <= width)
                   => \A l \in wings : distance(l) < 3 * width]_vars
  BY <1>1 DEF Kept
<1> QED BY <1>2, StructuresHold, PTL DEF Spec, LiquidityKeepsTheShape
=============================================================================
