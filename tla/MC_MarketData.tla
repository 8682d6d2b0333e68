---------------------------- MODULE MC_MarketData ----------------------------
(* What the broker may show of a stock that trades at 100: a good quote, the *)
(* one-sided, wide, crossed and displaced ones of its bad hours, and no      *)
(* print.                                                                    *)
EXTENDS MarketData

Reading(bid, ask, print) == [bid |-> bid, ask |-> ask, print |-> print]

\* One thesis whose leg is quoted now well, now badly; and two whose chains
\* differ.
MCSubjects ==
  {[method |-> m, horizons |-> {4}, spreads |-> {}, obs |-> 0] : m \in {"state", "spot", "events"}}
    \cup {[method |-> "chain", horizons |-> {4}, spreads |-> {30, 150}, obs |-> 3],
          [method |-> "chain", horizons |-> {4, 288}, spreads |-> {150}, obs |-> 1]}

MCReadings ==
  {Reading(99, 101, 100), Reading(99, 101, 95), Reading(99, 101, None), Reading(110, 112, 105),
   Reading(121, 121, 110),
   Reading(94, 0, 100), Reading(94, 0, None), Reading(20, 180, 100), Reading(20, 180, None),
   Reading(60, 61, 100), Reading(101, 99, 100), Reading(0, 0, None)}

ASSUME MCReadingsAssumption == PrintsNearby
=============================================================================
