-------------------------- MODULE LifecycleRoundTrip --------------------------
(***************************************************************************)
(* OrderLifecycle implements RoundTrip, as long as no submission is lost   *)
(* on its way back and the news socket is off: through every rung of the   *)
(* ladders, void, sweep, retry and restart.                                *)
(***************************************************************************)
EXTENDS OrderLifecycle, TLC

Symmetry == Permutations(Positions)

\* The broker's legs, and whether a close of them ever filled.
Market(p) ==
  IF held[p] = Qty THEN "bought"
  ELSE IF held[p] # 0 THEN "torn"
  ELSE IF p \in Exited THEN "sold" ELSE "flat"

Book(p) == IF position[p] \in {"opening", "open", "closing"} THEN "trading" ELSE position[p]

Trip == INSTANCE RoundTrip WITH
  Trips <- Positions,
  market <- [p \in Positions |-> Market(p)],
  book <- [p \in Positions |-> Book(p)],
  learned <- fed

\* Orders, rows and threads together make one trip of each position.
MakesRoundTrips == Trip!Spec
=============================================================================
