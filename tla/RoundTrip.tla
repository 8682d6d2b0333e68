------------------------------- MODULE RoundTrip -------------------------------
(***************************************************************************)
(* What the life of a position promises, whatever happens to its orders:   *)
(* one trip from flat to flat.  The market sells us a position once and    *)
(* buys it back once, only while the book says that we trade it; the book  *)
(* is closed when it is sold, or failed when it was never bought, and      *)
(* stays so; the learners hear of a closed trip, and once.                 *)
(***************************************************************************)
EXTENDS Naturals

CONSTANT Trips

VARIABLES
  market,   \* what the broker holds of each
  book,     \* what the rows say
  learned   \* how often the learners heard of it

vars == <<market, book, learned>>

Init ==
  /\ market = [p \in Trips |-> "flat"]
  /\ book = [p \in Trips |-> "none"]
  /\ learned = [p \in Trips |-> 0]

Begin(p) ==
  /\ book[p] = "none"
  /\ book' = [book EXCEPT ![p] = "trading"]
  /\ UNCHANGED <<market, learned>>

Buy(p) ==
  /\ book[p] = "trading" /\ market[p] = "flat"
  /\ market' = [market EXCEPT ![p] = "bought"]
  /\ UNCHANGED <<book, learned>>

Sell(p) ==
  /\ book[p] = "trading" /\ market[p] = "bought"
  /\ market' = [market EXCEPT ![p] = "sold"]
  /\ UNCHANGED <<book, learned>>

Close(p) ==
  /\ book[p] = "trading" /\ market[p] = "sold"
  /\ book' = [book EXCEPT ![p] = "closed"]
  /\ UNCHANGED <<market, learned>>

Fail(p) ==
  /\ book[p] = "trading" /\ market[p] = "flat"
  /\ book' = [book EXCEPT ![p] = "failed"]
  /\ UNCHANGED <<market, learned>>

Learn(p) ==
  /\ book[p] = "closed" /\ learned[p] = 0
  /\ learned' = [learned EXCEPT ![p] = 1]
  /\ UNCHANGED <<market, book>>

Next == \E p \in Trips : Begin(p) \/ Buy(p) \/ Sell(p) \/ Close(p) \/ Fail(p) \/ Learn(p)

Spec == Init /\ [][Next]_vars
=============================================================================
