--------------------------- MODULE MC_Structures ---------------------------
(* Chains of strikes a dollar apart around a spot of 100, and one with a   *)
(* strike between two of them.                                             *)
EXTENDS Structures

Strikes == {9600, 9700, 9800, 9900, 10000, 10100, 10200, 10300, 10400}

\* Worth less the further out of the money.
Fair(right, strike) ==
  LET out == (Away(right) * (strike - 10000)) \div 100
  IN CASE out <= -4 -> 410 [] out = -3 -> 320 [] out = -2 -> 234 [] out = -1 -> 160
       [] out = 0 -> 112 [] out = 1 -> 74 [] out = 2 -> 48 [] out = 3 -> 32 [] out >= 4 -> 26
Quote(right, strike, mid, half, oi) ==
  [right |-> right, strike |-> strike, bid |-> mid - half, ask |-> mid + half, oi |-> oi]
ChainOn(strikes, mid(_, _), half(_, _), oi(_, _)) ==
  {Quote(r, k, mid(r, k), half(r, k), oi(r, k)) : r \in Rights, k \in strikes}
ChainOf(mid(_, _), half(_, _), oi(_, _)) == ChainOn(Strikes, mid, half, oi)

Tight(r, k) == 1
Deep(r, k) == 500
\* The put next to the short has no open interest: one wing is wider.
Lame(r, k) == IF r = "put" /\ k = 9800 THEN 4 ELSE 500
\* Only a far wing has any: liquidity pulls away from the shape.
FarWing(r, k) == IF k \in {9600, 9900, 10100, 10400} THEN 500 ELSE 4
\* No bid at the target: the strike cannot be traded.
Gap(r, k) == IF k \in {9900, 10100} THEN Fair(r, k) ELSE 2
\* Quotes out of order: the nearer strike looks cheaper than the further.
Crossed(r, k) == IF k \in {9900, 10100} THEN 26 ELSE Fair(r, k)
\* Pennies: a concession of a tick is a large share of the price.
Pennies(r, k) == 2 + Fair(r, k) \div 12
\* The short is so rich that the credit is the whole width.
Rich(r, k) == Fair(r, k) + (IF k \in {9900, 10100} THEN 80 ELSE 0)
\* A half-dollar strike above the dollar ones, of which the nearer two lack
\* open interest: the wing moves two widths and a half.
Notches(r, k) == IF r = "put" /\ k \in {9800, 9900} THEN 4 ELSE 500
Between(r, k) == IF k = 9950 THEN 136 ELSE Fair(r, k)
\* Mids of half a cent next to the money.
HalfCents ==
  {IF c.strike \in {9900, 10100} THEN [c EXCEPT !.ask = @ + 1] ELSE c
     : c \in ChainOf(Fair, Tight, Deep)}
\* A rally: the calls gain, the puts lose.
Rally(r, k) == Fair(r, k - 200)

MCChains ==
  {ChainOf(Fair, Tight, Deep), ChainOf(Fair, Tight, Lame), ChainOf(Fair, Tight, FarWing),
   ChainOf(Fair, Gap, Deep), ChainOf(Crossed, Tight, Deep), ChainOf(Pennies, Tight, Deep),
   ChainOf(Rich, Tight, Deep), ChainOf(Rally, Tight, Deep), HalfCents,
   ChainOn(Strikes \cup {9950}, Between, Tight, Notches)}
=============================================================================
