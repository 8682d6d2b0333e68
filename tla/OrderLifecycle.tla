--------------------------- MODULE OrderLifecycle ---------------------------
(***************************************************************************)
(* The life of an order and of the position behind it: the trader's main   *)
(* loop (lifecycle.sync, reconcile.enforce, Trader.manage_positions), its  *)
(* news thread (Trader.process_news, Trader.check_contradiction), the      *)
(* order router both use, and the SQLite rows they share.                  *)
(*                                                                         *)
(* A step is one statement on the store or one call to the broker: those   *)
(* are the points where the other thread can run, where the process can    *)
(* die and where a call can fail.  Prices, ages and market data are left   *)
(* out: a decision that depends on them (is the order stale, does a        *)
(* barrier fire) is a nondeterministic choice.                             *)
(***************************************************************************)
EXTENDS Integers, FiniteSets

CONSTANTS
  Positions,    \* position ids; each is born from one news signal
  Threads,      \* "main" and, when the news socket is on, "stream"
  Faults,       \* which of AllFaults the environment may commit
  Qty,          \* spreads per position
  EntrySteps,   \* execution.entry_ladder_steps
  CloseLimit,   \* execution.close_max_attempts
  MaxAttempt,   \* bound: no close is started at a higher close_attempt
  MaxCrashes,   \* bound: how often the process dies
  None          \* no order, no position

\* "crash"      the process dies between two steps
\* "ambiguous"  submit_order raises although the broker took the order
\* "outage"     a poll, a cancel or get_all_positions raises for no reason
\*              in the books; the cancel may or may not have been done
\* "partial"    an order fills in part
\* "latecancel" an accepted cancel request does not stop a fill
AllFaults == {"crash", "ambiguous", "outage", "partial", "latecancel"}

ASSUME ThreadsAssumption == {"main"} \subseteq Threads /\ Threads \subseteq {"main", "stream"}
ASSUME FaultsAssumption == Faults \subseteq AllFaults
ASSUME BoundsAssumption ==
  /\ Qty \in Nat \ {0}
  /\ EntrySteps \in Nat
  /\ CloseLimit \in Nat \ {0}
  /\ MaxAttempt \in Nat
  /\ CloseLimit <= MaxAttempt
  /\ MaxCrashes \in Nat

Reasons == {"barrier", "broken", "escalated"}

\* A client_order_id is a digest of exactly these parts (ids.py), so the parts
\* stand for it: equal parts, equal id.  The tag of an entry is its attempt.
OrderId ==
  [pos: Positions, intent: {"open"}, reason: {"entry"}, attempt: 0..EntrySteps]
    \cup [pos: Positions, intent: {"close"}, reason: Reasons, attempt: 0..MaxAttempt]

ASSUME NoneAssumption == None \notin OrderId \cup Positions

EntryId(p, n) == [pos |-> p, intent |-> "open", reason |-> "entry", attempt |-> n]
CloseId(p, r, n) == [pos |-> p, intent |-> "close", reason |-> r, attempt |-> n]

VARIABLES
  \* the SQLite file: survives a crash
  rows,          \* orders.status; canceled, rejected and expired are "dead"
  latest,        \* the last order recorded for a position and an intent
  position,      \* positions.status
  entryAttempt,  \* system_state entry_attempt:<pid>
  closeAttempt,  \* system_state close_attempt:<pid>, 0 when absent
  halted,        \* system_state halt_reason is not empty, latched by reconcile
  fed,           \* how often feed_learners ran for the position
  \* the broker
  broker,        \* state of each order there
  done,          \* spreads of it filled so far
  held,          \* spreads of each position's structure held there
  \* the threads' memory: lost in a crash
  pc, pid, cur, ret,
  todo,          \* in-flight rows of this sync still to poll
  unconfirmed,   \* those of them whose row was "pending" when it was read
  orphans,       \* rows of this sweep still to resolve
  walk,          \* rows a thread has read as open and has still to judge
  story,         \* the signal a thread is working on
  brokerView,    \* the positions enforce was called with
  crashes        \* bound: crashes so far

storeVars == <<rows, latest, position, entryAttempt, closeAttempt, halted, fed>>
brokerVars == <<broker, done, held>>
loopVars == <<todo, unconfirmed, orphans, walk, story, brokerView>>
vars == <<storeVars, brokerVars, pc, pid, cur, ret, loopVars, crashes>>

RowStatus == {"none", "pending", "submitted", "filled", "dead"}
BrokerStatus == {"absent", "live", "canceling", "filled", "dead"}
PositionStatus == {"none", "opening", "open", "closing", "closed", "failed"}

MainPC ==
  {"sync", "onfill", "fillpos", "feed", "ondead", "fail", "bump", "reopen",
   "live", "expire", "concede", "expired", "conceded", "rung", "sweep",
   "reconcile", "enforce", "market", "manage"}
AnyPC == {"idle", "story", "enter", "close", "record", "send", "ack", "nack"}

Init ==
  /\ rows = [o \in OrderId |-> "none"]
  /\ latest = [p \in Positions |-> [i \in {"open", "close"} |-> None]]
  /\ position = [p \in Positions |-> "none"]
  /\ entryAttempt = [p \in Positions |-> 0]
  /\ closeAttempt = [p \in Positions |-> 0]
  /\ halted = FALSE
  /\ fed = [p \in Positions |-> 0]
  /\ broker = [o \in OrderId |-> "absent"]
  /\ done = [o \in OrderId |-> 0]
  /\ held = [p \in Positions |-> 0]
  /\ pc = [t \in Threads |-> "idle"]
  /\ pid = [t \in Threads |-> None]
  /\ cur = [t \in Threads |-> None]
  /\ ret = [t \in Threads |-> "idle"]
  /\ todo = {} /\ unconfirmed = {} /\ orphans = {}
  /\ walk = [t \in Threads |-> {}]
  /\ story = [t \in Threads |-> None]
  /\ brokerView = held
  /\ crashes = 0

-----------------------------------------------------------------------------
(* What the store's queries return.                                        *)

InFlight == {o \in OrderId : rows[o] \in {"pending", "submitted"}}
HasInFlight(p, i) == \E o \in InFlight : o.pos = p /\ o.intent = i
\* Mutant: manage_positions without the status filter.
OpenRowsUnfiltered == {p \in Positions : position[p] \in {"opening", "open", "closing"}}

OpenRows == {p \in Positions : position[p] = "open"}

\* int(get_state(...) or 1): the escalation counts the first close as 1.
AttemptFromOne(p) == IF closeAttempt[p] = 0 THEN 1 ELSE closeAttempt[p]

-----------------------------------------------------------------------------
(* A thread's next statement: Goto inside a handler, Call into one, and    *)
(* Resume the loop that called it.                                         *)

Goto(t, l) == /\ pc' = [pc EXCEPT ![t] = l]
              /\ UNCHANGED <<pid, cur, ret>>
Call(t, l, o, r) == /\ pc' = [pc EXCEPT ![t] = l]
                    /\ cur' = [cur EXCEPT ![t] = o]
                    /\ ret' = [ret EXCEPT ![t] = r]
                    /\ UNCHANGED pid
Leave(t, l) == /\ pc' = [pc EXCEPT ![t] = l]
               /\ pid' = [pid EXCEPT ![t] = None]
               /\ cur' = [cur EXCEPT ![t] = None]
               /\ ret' = [ret EXCEPT ![t] = "idle"]
Resume(t) == Leave(t, ret[t])

\* Mutant: a fill does not resolve the order's row.
ResolveRowUnlessFilled(s) ==
  rows' = [rows EXCEPT ![cur["main"]] = IF s = "filled" THEN @ ELSE s]

ResolveRow(s) == rows' = [rows EXCEPT ![cur["main"]] = s]
SetPosition(p, s) == position' = [position EXCEPT ![p] = s]

-----------------------------------------------------------------------------
(* lifecycle.sync: poll every row that was in flight when the tick began.  *)

StartTick ==
  /\ pc["main"] = "idle"
  /\ todo' = InFlight
  /\ unconfirmed' = {o \in InFlight : rows[o] = "pending"}
  /\ Goto("main", "sync")
  /\ UNCHANGED <<storeVars, brokerVars, orphans, walk, story, brokerView, crashes>>

CanFailPoll(o) == broker[o] = "absent" \/ "outage" \in Faults

\* The poll raised.  The row is left for the next tick.
PollFails(o) ==
  /\ pc["main"] = "sync" /\ o \in todo /\ CanFailPoll(o)
  /\ todo' = todo \ {o}
  /\ unconfirmed' = unconfirmed \ {o}
  /\ UNCHANGED <<storeVars, brokerVars, pc, pid, cur, ret, orphans, walk, story, brokerView, crashes>>

\* The poll raised and the row, pending when it was read, is older than the
\* entry timeout: _maybe_void_unconfirmed.
VoidUnconfirmed(o) ==
  /\ pc["main"] = "sync" /\ o \in todo /\ CanFailPoll(o)
  /\ o \in unconfirmed
  /\ rows' = [rows EXCEPT ![o] = "dead"]
  /\ todo' = todo \ {o}
  /\ unconfirmed' = unconfirmed \ {o}
  /\ UNCHANGED <<latest, position, entryAttempt, closeAttempt, halted, fed, brokerVars,
                 pc, pid, cur, ret, orphans, walk, story, brokerView, crashes>>

\* The handler of each status a poll can return; "canceling" is Alpaca's
\* pending_cancel, neither terminal nor one of LIVE_STATES.
HandlerOf(s) ==
  IF s = "filled" THEN "onfill"
  ELSE IF s = "dead" THEN "ondead" ELSE IF s = "live" THEN "live" ELSE "sync"

\* router.poll: a row still pending is backfilled to submitted.
Poll(o) ==
  /\ pc["main"] = "sync" /\ o \in todo
  /\ broker[o] # "absent"
  /\ todo' = todo \ {o}
  /\ rows' = [rows EXCEPT ![o] = IF @ = "pending" THEN "submitted" ELSE @]
  /\ IF HandlerOf(broker[o]) = "sync"
     THEN Goto("main", "sync") /\ unconfirmed' = unconfirmed \ {o}
     ELSE Call("main", HandlerOf(broker[o]), o, "sync") /\ UNCHANGED unconfirmed
  /\ UNCHANGED <<latest, position, entryAttempt, closeAttempt, halted, fed, brokerVars,
                 orphans, walk, story, brokerView, crashes>>

\* Mutant: no sweep, as before 1 September.
OrphansIgnored == {}

\* lifecycle._sweep_orphans: rows opening or closing with no order in flight.
Orphans ==
  {r \in Positions \X {"open", "close"} :
     /\ position[r[1]] = IF r[2] = "open" THEN "opening" ELSE "closing"
     /\ ~HasInFlight(r[1], "open") /\ ~HasInFlight(r[1], "close")}

StartSweep ==
  /\ pc["main"] = "sync" /\ todo = {}
  /\ orphans' = Orphans
  /\ unconfirmed' = {}
  /\ Goto("main", "sweep")
  /\ UNCHANGED <<storeVars, brokerVars, todo, walk, story, brokerView, crashes>>

\* The recorded status of the latest order decides, as a poll would have.
SweepOne(r) ==
  /\ pc["main"] = "sweep" /\ r \in orphans
  /\ orphans' = orphans \ {r}
  /\ LET o == latest[r[1]][r[2]]
     IN IF o = None \/ rows[o] \notin {"filled", "dead"}
        THEN UNCHANGED <<pc, pid, cur, ret>>
        ELSE Call("main", HandlerOf(rows[o]), o, "sweep")
  /\ UNCHANGED <<storeVars, brokerVars, todo, unconfirmed, walk, story, brokerView, crashes>>

EndSweep ==
  /\ pc["main"] = "sweep" /\ orphans = {}
  /\ Goto("main", "reconcile")
  /\ UNCHANGED <<storeVars, brokerVars, loopVars, crashes>>

-----------------------------------------------------------------------------
(* lifecycle._on_fill: the row, then the position, then the learners.      *)

FillRow ==
  /\ pc["main"] = "onfill"
  /\ ResolveRow("filled")
  /\ Goto("main", "fillpos")
  /\ UNCHANGED <<latest, position, entryAttempt, closeAttempt, halted, fed, brokerVars,
                 loopVars, crashes>>

\* An entry fill opens the position whatever its status was.
FillPosition ==
  /\ pc["main"] = "fillpos"
  /\ LET o == cur["main"]
     IN IF o.intent = "open"
        THEN SetPosition(o.pos, "open") /\ Resume("main")
        ELSE SetPosition(o.pos, "closed") /\ Goto("main", "feed")
  /\ UNCHANGED <<rows, latest, entryAttempt, closeAttempt, halted, fed, brokerVars,
                 loopVars, crashes>>

FeedLearners ==
  /\ pc["main"] = "feed"
  /\ fed' = [fed EXCEPT ![cur["main"].pos] = @ + 1]
  /\ Resume("main")
  /\ UNCHANGED <<rows, latest, position, entryAttempt, closeAttempt, halted, brokerVars,
                 loopVars, crashes>>

-----------------------------------------------------------------------------
(* lifecycle._on_dead: the row, then by intent and status the position.    *)

\* Mutant: a dead order is taken for a close whatever its intent was.
DeadBranchAnyIntent(o) ==
  IF position[o.pos] \in {"opening", "closing"} THEN "bump" ELSE "none"

\* What a dead order does to the position behind it: the next statement.
DeadBranch(o) ==
  IF o.intent = "open" /\ position[o.pos] = "opening" THEN "fail"
  ELSE IF o.intent = "close" /\ position[o.pos] = "closing" THEN "bump" ELSE "none"

DeadRow ==
  /\ pc["main"] = "ondead"
  /\ ResolveRow("dead")
  /\ IF DeadBranch(cur["main"]) = "none"
     THEN Resume("main")
     ELSE Goto("main", DeadBranch(cur["main"]))
  /\ UNCHANGED <<latest, position, entryAttempt, closeAttempt, halted, fed, brokerVars,
                 loopVars, crashes>>

FailEntry ==
  /\ pc["main"] = "fail"
  /\ SetPosition(cur["main"].pos, "failed")
  /\ Resume("main")
  /\ UNCHANGED <<rows, latest, entryAttempt, closeAttempt, halted, fed, brokerVars,
                 loopVars, crashes>>

\* A fresh attempt number, because Alpaca never accepts a used id again.
BumpAttempt ==
  /\ pc["main"] = "bump"
  /\ closeAttempt' = [closeAttempt EXCEPT ![cur["main"].pos] = @ + 1]
  /\ Goto("main", "reopen")
  /\ UNCHANGED <<rows, latest, position, entryAttempt, halted, fed, brokerVars, loopVars,
                 crashes>>

Reopen ==
  /\ pc["main"] = "reopen"
  /\ SetPosition(cur["main"].pos, "open")
  /\ Resume("main")
  /\ UNCHANGED <<rows, latest, entryAttempt, closeAttempt, halted, fed, brokerVars,
                 loopVars, crashes>>

-----------------------------------------------------------------------------
(* lifecycle._maybe_expire, _escalate_entry, _escalate_close.  Ages and    *)
(* prices decide whether an order rests on, expires or concedes.           *)

\* Not its turn yet, or the ladder is exhausted.
Rest ==
  /\ pc["main"] = "live"
  /\ Resume("main")
  /\ UNCHANGED <<storeVars, brokerVars, loopVars, crashes>>

\* The entry is older than its budget.
Expire ==
  /\ pc["main"] = "live"
  /\ cur["main"].intent = "open"
  /\ Goto("main", "expire")
  /\ UNCHANGED <<storeVars, brokerVars, loopVars, crashes>>

\* Mutant: the ladder forgets the halt.
MayConcedeUnderHalt(o) ==
  IF o.intent = "open"
  THEN entryAttempt[o.pos] < EntrySteps
  ELSE AttemptFromOne(o.pos) < CloseLimit

MayConcede(o) ==
  IF o.intent = "open"
  THEN ~halted /\ entryAttempt[o.pos] < EntrySteps
  ELSE AttemptFromOne(o.pos) < CloseLimit

Concede ==
  /\ pc["main"] = "live"
  /\ MayConcede(cur["main"])
  /\ Goto("main", "concede")
  /\ UNCHANGED <<storeVars, brokerVars, loopVars, crashes>>

\* router.cancel: the broker's call, then the row.  Alpaca acknowledges the
\* request; whether a fill can still come is the environment's choice.
AfterCancel == IF "latecancel" \in Faults THEN {"dead", "canceling"} ELSE {"dead"}

Cancel ==
  /\ pc["main"] \in {"expire", "concede"}
  /\ cur["main"] \notin unconfirmed
  /\ broker[cur["main"]] = "live"
  /\ \E s \in AfterCancel : broker' = [broker EXCEPT ![cur["main"]] = s]
  /\ Goto("main", IF pc["main"] = "expire" THEN "expired" ELSE "conceded")
  /\ UNCHANGED <<storeVars, done, held, loopVars, crashes>>

\* Too late, no alpaca_order_id in the row that was read, or an outage, in
\* which the broker may have done it all the same: next tick polls again.
CancelFails ==
  /\ pc["main"] \in {"expire", "concede"}
  /\ \/ /\ cur["main"] \in unconfirmed \/ broker[cur["main"]] # "live"
        /\ UNCHANGED broker
     \/ /\ "outage" \in Faults
        /\ broker' \in {broker, [broker EXCEPT ![cur["main"]] = IF @ = "live" THEN "dead" ELSE @]}
  /\ Resume("main")
  /\ UNCHANGED <<storeVars, done, held, loopVars, crashes>>

\* The row is dead at once; it will not be polled again.
CancelRow ==
  /\ pc["main"] \in {"expired", "conceded"}
  /\ ResolveRow("dead")
  /\ IF pc["main"] = "expired" THEN Resume("main") ELSE Goto("main", "rung")
  /\ UNCHANGED <<latest, position, entryAttempt, closeAttempt, halted, fed, brokerVars,
                 loopVars, crashes>>

\* The attempt is persisted, then the full quantity is submitted again.
Rung ==
  /\ pc["main"] = "rung"
  /\ LET p == cur["main"].pos
     IN IF cur["main"].intent = "open"
        THEN /\ entryAttempt' = [entryAttempt EXCEPT ![p] = @ + 1]
             /\ Call("main", "record", EntryId(p, entryAttempt[p] + 1), "sync")
             /\ UNCHANGED closeAttempt
        ELSE /\ closeAttempt' = [closeAttempt EXCEPT ![p] = AttemptFromOne(p) + 1]
             /\ Call("main", "record", CloseId(p, "escalated", AttemptFromOne(p) + 1), "sync")
             /\ UNCHANGED entryAttempt
  /\ UNCHANGED <<rows, latest, position, halted, fed, brokerVars, loopVars, crashes>>

-----------------------------------------------------------------------------
(* OrderRouter.submit_structure, in either thread: the intent is recorded, *)
(* the broker called, the row updated.                                     *)

\* A row submitted or filled suppresses the order; INSERT OR IGNORE keeps any
\* other row that is already there.
Record(t) ==
  /\ pc[t] = "record"
  /\ LET o == cur[t]
     IN IF rows[o] \in {"submitted", "filled"}
        THEN Resume(t) /\ UNCHANGED <<rows, latest>>
        ELSE /\ Goto(t, "send")
             /\ IF rows[o] = "none"
                THEN /\ rows' = [rows EXCEPT ![o] = "pending"]
                     /\ latest' = [latest EXCEPT ![o.pos][o.intent] = o]
                ELSE UNCHANGED <<rows, latest>>
  /\ UNCHANGED <<position, entryAttempt, closeAttempt, halted, fed, brokerVars, loopVars,
                 crashes>>

\* The broker accepts an id it has never seen.
Send(t) ==
  /\ pc[t] = "send"
  /\ broker[cur[t]] = "absent"
  /\ broker' = [broker EXCEPT ![cur[t]] = "live"]
  /\ \/ Goto(t, "ack")
     \/ "ambiguous" \in Faults /\ Goto(t, "nack")
  /\ UNCHANGED <<storeVars, done, held, loopVars, crashes>>

\* Rejected, a duplicate id, the breaker open, no connection.
SendFails(t) ==
  /\ pc[t] = "send"
  /\ Goto(t, "nack")
  /\ UNCHANGED <<storeVars, brokerVars, loopVars, crashes>>

Ack(t) ==
  /\ pc[t] = "ack"
  /\ rows' = [rows EXCEPT ![cur[t]] = "submitted"]
  /\ Resume(t)
  /\ UNCHANGED <<latest, position, entryAttempt, closeAttempt, halted, fed, brokerVars,
                 loopVars, crashes>>

\* Whatever the exception was, the row reads rejected.  It is raised on: out
\* of the sync into the reconcile, out of the tick, or out of the story.
Nack(t) ==
  /\ pc[t] = "nack"
  /\ rows' = [rows EXCEPT ![cur[t]] = "dead"]
  /\ IF ret[t] = "sync"
     THEN Leave(t, "reconcile") /\ todo' = {} /\ unconfirmed' = {}
     ELSE Leave(t, "idle") /\ UNCHANGED <<todo, unconfirmed>>
  /\ walk' = [walk EXCEPT ![t] = {}]
  /\ story' = [story EXCEPT ![t] = None]
  /\ UNCHANGED <<latest, position, entryAttempt, closeAttempt, halted, fed, brokerVars,
                 orphans, brokerView, crashes>>

-----------------------------------------------------------------------------
(* reconcile.enforce, called with the positions the broker reported before *)
(* the store is read.  A working entry may or may not have filled, a       *)
(* working close may or may not have: the broker must lie in that band.    *)

ReadBroker ==
  /\ pc["main"] = "reconcile"
  /\ brokerView' = held
  /\ Goto("main", "enforce")
  /\ UNCHANGED <<storeVars, brokerVars, todo, unconfirmed, orphans, walk, story, crashes>>

Arriving(p) == IF position[p] = "opening" /\ HasInFlight(p, "open") THEN Qty ELSE 0
Leaving(p) == IF position[p] = "closing" /\ HasInFlight(p, "close") THEN Qty ELSE 0
Settled(p) ==
  IF position[p] \in {"opening", "open", "closing"} /\ Arriving(p) = 0 THEN Qty ELSE 0

\* Mutant: legs the book does not know of are no divergence.
ExplainedFromBelow(p, b) == Settled(p) - Leaving(p) <= b

Explained(p, b) == Settled(p) - Leaving(p) <= b /\ b <= Settled(p) + Arriving(p)
InSync(view) == \A p \in Positions : Explained(p, view[p])

\* A divergence halts; agreement clears the halt reconcile itself latched.
Enforce ==
  /\ pc["main"] = "enforce"
  /\ halted' = ~InSync(brokerView)
  /\ brokerView' = [p \in Positions |-> 0]
  /\ Goto("main", IF InSync(brokerView) THEN "market" ELSE "idle")
  /\ UNCHANGED <<rows, latest, position, entryAttempt, closeAttempt, fed, brokerVars, todo,
                 unconfirmed, orphans, walk, story, crashes>>

\* get_all_positions raised: the tick goes on under the halt flag it finds.
EnforceFails ==
  /\ pc["main"] = "reconcile" /\ "outage" \in Faults
  /\ Goto("main", IF halted THEN "idle" ELSE "market")
  /\ UNCHANGED <<storeVars, brokerVars, loopVars, crashes>>

-----------------------------------------------------------------------------
(* Trader.manage_positions and Trader.check_contradiction walk the rows    *)
(* that were open when the walk began; Trader._close closes one.           *)

StartManage ==
  /\ pc["main"] = "market"
  /\ walk' = [walk EXCEPT !["main"] = OpenRows]
  /\ Goto("main", "manage")
  /\ UNCHANGED <<storeVars, brokerVars, todo, unconfirmed, orphans, story, brokerView, crashes>>

\* The market is closed, or market_state() raised.
SkipManage ==
  /\ pc["main"] = "market"
  /\ Goto("main", "idle")
  /\ UNCHANGED <<storeVars, brokerVars, loopVars, crashes>>

\* No barrier fires for this row, or its thesis is not reversed.
Hold(t, p) ==
  /\ pc[t] \in {"manage", "story"} /\ p \in walk[t]
  /\ walk' = [walk EXCEPT ![t] = @ \ {p}]
  /\ UNCHANGED <<storeVars, brokerVars, pc, pid, cur, ret, todo, unconfirmed, orphans, story,
                 brokerView, crashes>>

\* The row in hand was read when the walk began.
Exit(t, p) ==
  /\ pc[t] \in {"manage", "story"} /\ p \in walk[t]
  /\ closeAttempt[p] < MaxAttempt
  /\ walk' = [walk EXCEPT ![t] = @ \ {p}]
  /\ pc' = [pc EXCEPT ![t] = "close"]
  /\ pid' = [pid EXCEPT ![t] = p]
  /\ ret' = [ret EXCEPT ![t] = pc[t]]
  /\ UNCHANGED <<storeVars, brokerVars, cur, todo, unconfirmed, orphans, story, brokerView, crashes>>

EndManage ==
  /\ pc["main"] = "manage" /\ walk["main"] = {}
  /\ Goto("main", "idle")
  /\ UNCHANGED <<storeVars, brokerVars, loopVars, crashes>>

\* The row becomes closing before the order is recorded, whatever it was.
CloseRow(t) ==
  /\ pc[t] = "close"
  /\ LET reason == IF ret[t] = "manage" THEN "barrier" ELSE "broken"
     IN IF closeAttempt[pid[t]] <= MaxAttempt
        THEN /\ SetPosition(pid[t], "closing")
             /\ pc' = [pc EXCEPT ![t] = "record"]
             /\ cur' = [cur EXCEPT ![t] = CloseId(pid[t], reason, closeAttempt[pid[t]])]
             /\ pid' = [pid EXCEPT ![t] = None]
             /\ UNCHANGED ret
        ELSE Resume(t) /\ UNCHANGED position  \* the bound on attempts
  /\ UNCHANGED <<rows, latest, entryAttempt, closeAttempt, halted, fed, brokerVars, loopVars,
                 crashes>>

-----------------------------------------------------------------------------
(* Trader.process_news.  The set of stories already seen is left out: a    *)
(* restart empties it, deferred and floor re-entries go round it, and its  *)
(* check and its add are two steps.  The row of the signal is the guard.   *)

\* A story whose signal has no position, read while no halt stands; None is
\* one that opens nothing, whatever the gate would have said.
News(t, p) ==
  /\ pc[t] = "idle"
  /\ p # None => position[p] = "none"
  /\ ~halted
  /\ story' = [story EXCEPT ![t] = p]
  /\ walk' = [walk EXCEPT ![t] = OpenRows]
  /\ Goto(t, "story")
  /\ UNCHANGED <<storeVars, brokerVars, todo, unconfirmed, orphans, brokerView, crashes>>

\* Filter, sizing or the gate refuses the story, or a later stage raises.
Drop(t) ==
  /\ pc[t] = "story" /\ walk[t] = {}
  /\ story' = [story EXCEPT ![t] = None]
  /\ Goto(t, "idle")
  /\ UNCHANGED <<storeVars, brokerVars, todo, unconfirmed, orphans, walk, brokerView, crashes>>

\* The gate reads the halt flag again.
Approve(t) ==
  /\ pc[t] = "story" /\ walk[t] = {}
  /\ story[t] # None
  /\ ~halted
  /\ Goto(t, "enter")
  /\ UNCHANGED <<storeVars, brokerVars, loopVars, crashes>>

\* The row first, whatever it has become; then the order.
EnterRow(t) ==
  /\ pc[t] = "enter"
  /\ SetPosition(story[t], "opening")
  /\ Call(t, "record", EntryId(story[t], 0), "idle")
  /\ story' = [story EXCEPT ![t] = None]
  /\ UNCHANGED <<rows, latest, entryAttempt, closeAttempt, halted, fed, brokerVars, todo,
                 unconfirmed, orphans, walk, brokerView, crashes>>

-----------------------------------------------------------------------------
(* The broker, as the code uses it, and the death of the process.          *)

\* Spreads that n more fills of an order add to its position.
Signed(o, n) == IF o.intent = "open" THEN n ELSE -n

Fill(o) ==
  /\ broker[o] \in {"live", "canceling"}
  /\ broker' = [broker EXCEPT ![o] = "filled"]
  /\ done' = [done EXCEPT ![o] = Qty]
  /\ held' = [held EXCEPT ![o.pos] = @ + Signed(o, Qty - done[o])]
  /\ UNCHANGED <<storeVars, pc, pid, cur, ret, loopVars, crashes>>

PartialFill(o) ==
  /\ "partial" \in Faults
  /\ broker[o] \in {"live", "canceling"}
  /\ done[o] + 1 < Qty
  /\ done' = [done EXCEPT ![o] = @ + 1]
  /\ held' = [held EXCEPT ![o.pos] = @ + Signed(o, 1)]
  /\ UNCHANGED <<storeVars, broker, pc, pid, cur, ret, loopVars, crashes>>

\* Canceled, rejected or, as every order is for the day, expired.
Die(o) ==
  /\ broker[o] \in {"live", "canceling"}
  /\ broker' = [broker EXCEPT ![o] = "dead"]
  /\ UNCHANGED <<storeVars, done, held, pc, pid, cur, ret, loopVars, crashes>>

Crash ==
  /\ "crash" \in Faults /\ crashes < MaxCrashes
  /\ crashes' = crashes + 1
  /\ pc' = [t \in Threads |-> "idle"]
  /\ pid' = [t \in Threads |-> None]
  /\ cur' = [t \in Threads |-> None]
  /\ ret' = [t \in Threads |-> "idle"]
  /\ todo' = {} /\ unconfirmed' = {} /\ orphans' = {}
  /\ walk' = [t \in Threads |-> {}]
  /\ story' = [t \in Threads |-> None]
  /\ brokerView' = [p \in Positions |-> 0]
  /\ UNCHANGED <<storeVars, brokerVars>>

-----------------------------------------------------------------------------
Sync ==
  \/ StartTick \/ StartSweep \/ EndSweep
  \/ \E o \in todo : Poll(o) \/ PollFails(o)
  \/ \E r \in orphans : SweepOne(r)
Voiding == \E o \in todo : VoidUnconfirmed(o)
Handle ==
  \/ FillRow \/ FillPosition \/ FeedLearners
  \/ DeadRow \/ FailEntry \/ BumpAttempt \/ Reopen
  \/ Rest \/ Expire \/ Concede \/ Cancel \/ CancelFails \/ CancelRow \/ Rung
Manage == StartManage \/ SkipManage \/ EndManage
Walk(t) == \E p \in walk[t] : Hold(t, p) \/ Exit(t, p)
Submit(t) == CloseRow(t) \/ Record(t) \/ Send(t) \/ SendFails(t) \/ Ack(t) \/ Nack(t)
Story(t) == Walk(t) \/ Drop(t) \/ Approve(t) \/ EnterRow(t) \/ Submit(t)
Broker == \E o \in OrderId : Fill(o) \/ PartialFill(o) \/ Die(o)

MainLoop ==
  \/ Sync \/ Voiding \/ Handle \/ ReadBroker \/ Enforce \/ EnforceFails \/ Manage
  \/ Story("main")

Next ==
  \/ MainLoop
  \/ \E t \in Threads :
       Story(t) \/ \E p \in Positions \cup {None} : News(t, p)
  \/ Broker
  \/ Crash

Spec == Init /\ [][Next]_vars

\* The main loop runs for ever, each pass one tick and a bounded batch of
\* stories, and is started again after a crash (Runner.run).  An order is for
\* the day (router.submit_structure), so the broker resolves it.  A row whose
\* poll keeps failing passes the entry timeout (_maybe_void_unconfirmed), so
\* it cannot be spared at every tick.
Fairness ==
  /\ WF_vars(MainLoop) /\ SF_vars(StartTick)
  /\ \A t \in Threads : WF_vars(Story(t))
  /\ WF_vars(\E o \in OrderId : Fill(o) \/ Die(o))
  /\ SF_vars(Voiding)

FairSpec == Spec /\ Fairness

-----------------------------------------------------------------------------
(* Properties                                                              *)

StoreTypeOK ==
  /\ rows \in [OrderId -> RowStatus]
  /\ latest \in [Positions -> [{"open", "close"} -> OrderId \cup {None}]]
  /\ position \in [Positions -> PositionStatus]
  /\ entryAttempt \in [Positions -> 0..EntrySteps]
  /\ closeAttempt \in [Positions -> Nat]
  /\ halted \in BOOLEAN
  /\ fed \in [Positions -> Nat]
BrokerTypeOK ==
  /\ broker \in [OrderId -> BrokerStatus]
  /\ done \in [OrderId -> 0..Qty]
  /\ held \in [Positions -> Int]
ThreadTypeOK ==
  /\ pc \in [Threads -> MainPC \cup AnyPC]
  /\ pid \in [Threads -> Positions \cup {None}]
  /\ cur \in [Threads -> OrderId \cup {None}]
  /\ ret \in [Threads -> {"idle", "sync", "sweep", "manage", "story"}]
LoopTypeOK ==
  /\ todo \subseteq OrderId /\ unconfirmed \subseteq OrderId
  /\ orphans \subseteq Positions \X {"open", "close"}
  /\ walk \in [Threads -> SUBSET Positions]
  /\ story \in [Threads -> Positions \cup {None}]
  /\ brokerView \in [Positions -> Int]
  /\ crashes \in 0..MaxCrashes
TypeOK == StoreTypeOK /\ BrokerTypeOK /\ ThreadTypeOK /\ LoopTypeOK

\* Positions with an entry, and with a close, that filled at the broker.
FilledFor(i) == {o.pos : o \in {q \in OrderId : q.intent = i /\ broker[q] = "filled"}}
Entered == FilledFor("open")
Exited == FilledFor("close")

\* The book never claims what the broker did not do: a position is open,
\* closing or closed only once an entry order of it filled at the broker, and
\* closed only once a close order did.  A close that was submitted is not a
\* close that happened (Trader._close, lifecycle._on_fill, _on_dead).
BookIsBacked ==
  \A p \in Positions :
    /\ position[p] \in {"open", "closing", "closed"} => p \in Entered
    /\ position[p] = "closed" => p \in Exited

\* What makes it inductive.  Each thread's place in the code fits what it
\* holds: an order while it handles or submits one, a position while it closes
\* or enters one, room for another attempt once it has decided to concede.
HandlingPC == {"onfill", "fillpos", "feed", "ondead", "fail", "bump", "reopen", "live",
               "expire", "concede", "expired", "conceded", "rung"}
ConcedingPC == {"concede", "conceded", "rung"}
ControlOK ==
  /\ \A t \in Threads :
       /\ pc[t] \in MainPC \/ ret[t] \in {"sync", "sweep", "manage"} => t = "main"
       /\ pc[t] \in HandlingPC \cup {"record", "send", "ack", "nack"} => cur[t] \in OrderId
       /\ pc[t] = "close" => pid[t] \in Positions
       /\ pc[t] = "enter" => story[t] \in Positions
  /\ pc["main"] \in ConcedingPC =>
       LET o == cur["main"]
       IN IF o.intent = "open"
          THEN entryAttempt[o.pos] < EntrySteps
          ELSE AttemptFromOne(o.pos) < CloseLimit

\* What the rows say was done, and what a thread is about to write, is backed
\* already: a filled row by a filled order; a close that was recorded or sent,
\* or is being handled, and a row being walked or closed, by a filled entry; a
\* fill being booked by the order in hand.
Closing(o) == o.intent = "close" /\ (rows[o] # "none" \/ broker[o] # "absent")
RecordsBacked ==
  \A o \in OrderId :
    /\ rows[o] = "filled" => broker[o] = "filled"
    /\ Closing(o) => o.pos \in Entered
    /\ o \in todo => rows[o] # "none"
HandsBacked ==
  /\ pc["main"] \in {"onfill", "fillpos"} => broker[cur["main"]] = "filled"
  /\ pc["main"] \in {"feed", "bump", "reopen"} => cur["main"].intent = "close"
  /\ \A t \in Threads :
       /\ cur[t] \in OrderId /\ cur[t].intent = "close" => cur[t].pos \in Entered
       /\ \A p \in walk[t] : p \in Entered
       /\ pc[t] = "close" => pid[t] \in Entered

BackingInv == TypeOK /\ ControlOK /\ RecordsBacked /\ HandsBacked /\ BookIsBacked

\* The learners are fed at most once for a position, over crashes, lost
\* answers and sweeps (lifecycle._on_fill, Trader.feed_learners).
FedOnce == \A p \in Positions : fed[p] <= 1

\* No fill is doubled: the broker never holds more of a position than was
\* ordered once, nor is short of it (OrderRouter's and ids.py's promise).
ExposureBounded == \A p \in Positions : held[p] \in 0..Qty

\* Never two orders in flight for a position, in the store's rows.
OneInFlight ==
  \A o, q \in InFlight : o.pos = q.pos => o = q

\* No opening order is recorded under a halt: the ladder runs before the
\* tick's own halt check and carries the guard itself (_escalate_entry).
NoEntryUnderHalt ==
  [][\A o \in OrderId :
       halted /\ o.intent = "open" /\ rows[o] = "none" => rows'[o] = "none"]_vars

\* A position whose transition has an order on record completes it: no crash,
\* rejection or lost answer leaves it opening or closing for ever
\* (lifecycle.sync, _maybe_void_unconfirmed, _sweep_orphans).
InTransition(p, s, i) == position[p] = s /\ latest[p][i] # None
LimboEnds ==
  \A p \in Positions :
    /\ InTransition(p, "opening", "open") ~> position[p] # "opening"
    /\ InTransition(p, "closing", "close") ~> position[p] # "closing"

\* Legs held at the broker that the book has written off, by a fill of an
\* order recorded as rejected or by a second close, halt the system
\* (_maybe_void_unconfirmed's "reconcile halts", reconcile.enforce).
WrittenOff(p) == position[p] \in {"closed", "failed"} /\ held[p] # 0
StrayFillHalts == \A p \in Positions : WrittenOff(p) ~> halted \/ ~WrittenOff(p)

\* A transition with no order on record is for reconcile to catch
\* (_sweep_orphans): every pass over one halts.
OrphanHalts ==
  [][\A p \in Positions :
       /\ pc["main"] = "enforce" /\ pc'["main"] # "enforce"
       /\ crashes' = crashes
       /\ \/ position[p] = "opening" /\ latest[p]["open"] = None
          \/ position[p] = "closing" /\ latest[p]["close"] = None
       => halted']_vars

\* Only an actual divergence halts (reconcile.enforce): when a halt is
\* latched, the broker holds legs the book does not, or the reverse.
HaltMeansDivergence ==
  [][~halted /\ halted' =>
       \E p \in Positions : (held[p] # 0) # (position[p] \in {"open", "closing"})]_vars
=============================================================================
