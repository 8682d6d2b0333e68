----------------------------- MODULE MC_Pipeline -----------------------------
(* A day of Pipeline: two stories of one name, a shock and a mild one.     *)
(* Their trades may want the same contracts, and the mild one leans too    *)
(* little to trade but for the floor, unless the stock has moved already.  *)
EXTENDS Pipeline

Story(name, topic, direction, expected, horizon) ==
  [name |-> name, topic |-> topic, direction |-> direction, expected |-> expected,
   horizon |-> horizon, confidence |-> 70]

MCNews ==
  [shock |-> Story("A", "fine", "down", 14, 6), mild |-> Story("A", "chip", "up", 11, 24)]

\* Everything may fail with the socket off; with it on, all but the process.
MCWorlds == {[socket |-> FALSE, faults |-> {"account", "analyst", "restart"}],
             [socket |-> TRUE, faults |-> {"account", "analyst"}]}

\* In the opening auction, an hour later, in the afternoon, after the close.
MCPhases == <<5, 60, 300, 400>>

\* The second in a calm market, the others in one that is not known.
Quote(realized, forecast, factors) ==
  [implied |-> 10, realized |-> realized, forecast |-> forecast, factors |-> factors]
MCQuotes ==
  {Quote(None, None, <<>>), Quote(4, 9, [credit |-> 30, breadth |-> 10]), Quote(0, 6, <<>>)}

Plain ==
  [kill |-> FALSE, halted |-> FALSE, past |-> FALSE, liquid |-> TRUE, expiry |-> 96, daily |-> 0,
   drawdown |-> 0, macro |-> FALSE, action |-> None, cost |-> 20, target |-> 60,
   abstaining |-> TRUE, losses |-> 0, vol |-> None]
Rough == [Plain EXCEPT !.daily = -150]
Macro == [Plain EXCEPT !.macro = TRUE, !.vol = 400]
MCDays == {Plain, Rough, Macro}
=============================================================================
