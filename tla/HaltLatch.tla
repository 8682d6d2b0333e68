------------------------------ MODULE HaltLatch ------------------------------
(***************************************************************************)
(* The halt that two processes and an operator latch, steal and lift: the  *)
(* trader's reconcile.enforce, the supervisor's tick and flatten_all, and  *)
(* the operator's kill switch, repair and reset.  They share four rows of  *)
(* system_state, written one at a time, a file and the broker's book.      *)
(*                                                                         *)
(* One position stands for the book.  How its orders reach the broker is   *)
(* OrderLifecycle's; here an entry is one step, it fills in one step, and  *)
(* the trader's own exits are left out: what empties the book is flatten.  *)
(***************************************************************************)
EXTENDS Integers

CONSTANTS
  Breaches,      \* the account guards that may trip
  Assignments,   \* option assignments the broker may report
  FlattenTries,  \* flatten_all's attempts
  CutPoints      \* where a tick of the supervisor may be cut off

AccountGuards == {"drawdown", "daily_loss", "heartbeat"}
Guards == {"kill_switch"} \cup AccountGuards

ASSUME BreachesAssumption == Breaches \subseteq AccountGuards
ASSUME TriesAssumption == FlattenTries \in Nat \ {0}

VARIABLES
  \* the store's system_state; "" is absent or empty
  reason,      \* halt_reason: who wrote the text, a guard by its name
  source,      \* halt_source
  guard,       \* halt_guard
  seen,        \* seen_assignments
  row,         \* positions.status of the one position
  \* the world
  kill,        \* data/KILL exists
  breached,    \* the account guards whose condition holds
  reported,    \* assignments in the broker's activity feed
  entry,       \* the entry order at the broker
  held,        \* what the broker holds
  fills,       \* the legs closed by a fill since the position opened
  \* the processes
  supervisor,  \* program counter of tick and flatten_all
  verdict,     \* the guard that fired in this tick
  tries,       \* flatten attempts so far
  trader,      \* program counter of the trader's main loop
  view,        \* the positions enforce was called with
  news,        \* program counter of the news path
  \* history
  acted,       \* the guard that last latched since the halt was last clear
  alarmed      \* assignments that have latched a halt

latchVars == <<reason, source, guard>>
bookVars == <<row, entry, held, fills>>
worldVars == <<kill, breached, reported>>
supervisorVars == <<supervisor, verdict, tries, alarmed>>
traderVars == <<trader, view>>
vars == <<latchVars, seen, bookVars, worldVars, supervisorVars, traderVars, news, acted>>

Legs == {"long", "short"}
\* An assigned short leg becomes stock nobody ordered.
Holdings == Legs \cup {"stock"}

SupervisorPC ==
  {"idle", "alarm", "alarmed", "guards", "standing", "marker", "residue",
   "latch", "source", "guard", "flatten", "close", "verify"}
TraderPC == {"idle", "read", "compare", "ok", "own", "lift", "lifted", "diverged", "tag"}

Init ==
  /\ reason = "" /\ source = "" /\ guard = ""
  /\ seen = {} /\ row = "none"
  /\ kill = FALSE /\ breached = {} /\ reported = {}
  /\ entry = "none" /\ held = {} /\ fills = {}
  /\ supervisor = "idle" /\ verdict = "" /\ tries = 0
  /\ trader = "idle" /\ view = {}
  /\ news = "idle"
  /\ acted = "" /\ alarmed = {}

-----------------------------------------------------------------------------
(* One set_state each.  The history follows halt_reason: what was acted on *)
(* is forgotten when the reason is emptied.                                *)

SetReason(r) == reason' = r
EmptyReason == reason' = "" /\ acted' = ""

-----------------------------------------------------------------------------
(* supervisor.tick, from the activity check to the latch.                  *)

SupervisorGoto(l) == supervisor' = l /\ UNCHANGED <<verdict, alarmed>>
SupervisorRest == supervisor' = "idle" /\ verdict' = "" /\ UNCHANGED alarmed

\* Nothing new in the feed, or the feed is down.
NoAssignments ==
  /\ supervisor = "idle"
  /\ SupervisorGoto("guards")
  /\ UNCHANGED <<latchVars, seen, bookVars, worldVars, tries, traderVars, news, acted>>

\* check_assignments: fresh assignments are marked seen, then latch a halt.
MarkSeen ==
  /\ supervisor = "idle"
  /\ ~ reported \subseteq seen
  /\ seen' = seen \cup reported
  /\ SupervisorGoto("alarm")
  /\ UNCHANGED <<latchVars, bookVars, worldVars, tries, traderVars, news, acted>>

LatchAssignment ==
  /\ supervisor = "alarm"
  /\ SetReason("assignment")
  /\ supervisor' = "alarmed"
  /\ alarmed' = seen
  /\ UNCHANGED <<source, guard, seen, bookVars, worldVars, verdict, tries, traderVars, news, acted>>

TagAssignment ==
  /\ supervisor = "alarmed"
  /\ source' = "assignment"
  /\ SupervisorGoto("guards")
  /\ UNCHANGED <<reason, guard, seen, bookVars, worldVars, tries, traderVars, news, acted>>

\* evaluate_guards: hardest condition first.
Verdict ==
  IF kill THEN "kill_switch"
  ELSE IF "drawdown" \in breached THEN "drawdown"
  ELSE IF "daily_loss" \in breached THEN "daily_loss"
  ELSE IF "heartbeat" \in breached THEN "heartbeat" ELSE ""

EvaluateGuards ==
  /\ supervisor = "guards"
  /\ IF Verdict = ""
     THEN SupervisorRest
     ELSE /\ verdict' = Verdict
          /\ supervisor' = "standing" /\ UNCHANGED alarmed
  /\ UNCHANGED <<latchVars, seen, bookVars, worldVars, tries, traderVars, news, acted>>

\* Is a halt standing ...
ReadStanding ==
  /\ supervisor = "standing"
  /\ SupervisorGoto(IF reason = "" THEN "latch" ELSE "marker")
  /\ UNCHANGED <<latchVars, seen, bookVars, worldVars, tries, traderVars, news, acted>>

\* Mutant: the reasons are compared, whose live numbers never match.
ReadMarkerByText ==
  /\ supervisor = "marker"
  /\ SupervisorGoto("latch")
  /\ UNCHANGED <<latchVars, seen, bookVars, worldVars, tries, traderVars, news, acted>>

\* ... and did this guard latch it?  Then the breach counts as handled.
ReadMarker ==
  /\ supervisor = "marker"
  /\ SupervisorGoto(IF guard = verdict THEN "residue" ELSE "latch")
  /\ UNCHANGED <<latchVars, seen, bookVars, worldVars, tries, traderVars, news, acted>>

\* Mutant: a standing halt needs no action.
ResidueIgnored ==
  /\ supervisor = "residue"
  /\ SupervisorRest
  /\ UNCHANGED <<latchVars, seen, bookVars, worldVars, tries, traderVars, news, acted>>

\* Inventory that reappeared under a standing halt is flattened again.
Residue ==
  /\ supervisor = "residue"
  /\ IF held = {} THEN SupervisorRest ELSE SupervisorGoto("flatten")
  /\ UNCHANGED <<latchVars, seen, bookVars, worldVars, tries, traderVars, news, acted>>

\* A new breach: guard_breach is audited and the halt written over any other.
LatchReason ==
  /\ supervisor = "latch"
  /\ SetReason(verdict)
  /\ SupervisorGoto("source")
  /\ UNCHANGED <<source, guard, seen, bookVars, worldVars, tries, traderVars, news, acted>>

LatchSource ==
  /\ supervisor = "source"
  /\ source' = "supervisor"
  /\ SupervisorGoto("guard")
  /\ UNCHANGED <<reason, guard, seen, bookVars, worldVars, tries, traderVars, news, acted>>

LatchGuard ==
  /\ supervisor = "guard"
  /\ guard' = verdict
  /\ acted' = IF reason = "" THEN "" ELSE verdict
  /\ SupervisorGoto("flatten")
  /\ UNCHANGED <<reason, source, seen, bookVars, worldVars, tries, traderVars, news>>

-----------------------------------------------------------------------------
(* flatten_all: cancel every order, then close and look, a few times over. *)

CancelEntry == entry' = IF entry = "working" THEN "dead" ELSE entry

CancelOrders ==
  /\ supervisor = "flatten"
  /\ CancelEntry
  /\ tries' = 0
  /\ SupervisorGoto("close")
  /\ UNCHANGED <<latchVars, seen, row, held, fills, worldVars, traderVars, news, acted>>

\* Legs close one by one in any order; the broker refuses to sell the long
\* leg while the short one is there, for that would leave it naked.
Closable(S) == S \subseteq held /\ ("long" \in S /\ "short" \in held => "short" \in S)

CloseAll(S) ==
  /\ supervisor = "close"
  /\ Closable(S)
  /\ held' = held \ S
  /\ fills' = fills \cup (S \cap Legs)
  /\ CancelEntry
  /\ tries' = tries + 1
  /\ SupervisorGoto("verify")
  /\ UNCHANGED <<latchVars, seen, row, worldVars, traderVars, news, acted>>

\* Flat, or flatten_incomplete, or once more.
Verify ==
  /\ supervisor = "verify"
  /\ IF held = {} \/ tries = FlattenTries
     THEN SupervisorRest /\ tries' = 0
     ELSE SupervisorGoto("close") /\ UNCHANGED tries
  /\ UNCHANGED <<latchVars, seen, bookVars, worldVars, traderVars, news, acted>>

\* A broker call or a store write raises, which the main loop absorbs, or the
\* process dies and is restarted: the next tick starts over.
CutOff ==
  /\ supervisor \in CutPoints \ {"idle"}
  /\ SupervisorRest
  /\ tries' = 0
  /\ UNCHANGED <<latchVars, seen, bookVars, worldVars, traderVars, news, acted>>

-----------------------------------------------------------------------------
(* The trader's tick: lifecycle.sync, then reconcile.enforce.              *)

TraderGoto(l) == trader' = l /\ UNCHANGED view
Unwatched == UNCHANGED <<seen, worldVars, supervisorVars, news>>

\* What sync makes of a resolved entry.  A fill opens the row whatever it has
\* become, a repaired one too.
Sync ==
  /\ trader = "idle"
  /\ IF entry \in {"filled", "dead"}
     THEN /\ row' = IF entry = "filled" THEN "open" ELSE "none"
          /\ entry' = "none"
     ELSE UNCHANGED <<row, entry>>
  /\ TraderGoto("read")
  /\ UNCHANGED <<latchVars, held, fills, acted>> /\ Unwatched

ReadBook ==
  /\ trader = "read"
  /\ view' = held
  /\ trader' = "compare"
  /\ UNCHANGED <<latchVars, bookVars, acted>> /\ Unwatched

\* get_all_positions raised: no reconcile in this tick.
ReadBookFails ==
  /\ trader = "read"
  /\ TraderGoto("idle")
  /\ UNCHANGED <<latchVars, bookVars, acted>> /\ Unwatched

\* A working entry may hold anything from nothing to all of its legs.
InSync(v) ==
  \/ row = "none" /\ v = {}
  \/ row = "opening" /\ v \subseteq Legs
  \/ row = "open" /\ v = Legs

Compare ==
  /\ trader = "compare"
  /\ trader' = IF InSync(view) THEN "ok" ELSE "diverged"
  /\ view' = {}
  /\ UNCHANGED <<latchVars, bookVars, acted>> /\ Unwatched

\* Mutant: any halt is lifted when the book is in sync, as before 4 September.
ReadSourceAny ==
  /\ trader = "ok"
  /\ TraderGoto("own")
  /\ UNCHANGED <<latchVars, bookVars, acted>> /\ Unwatched

\* Mutant: a marker left behind keeps reconcile from lifting its own halt.
ReadSourceUnmarked ==
  /\ trader = "ok"
  /\ TraderGoto(IF source = "reconcile" /\ guard = "" THEN "own" ELSE "idle")
  /\ UNCHANGED <<latchVars, bookVars, acted>> /\ Unwatched

\* In sync: halt_source is read, then halt_reason, then both are emptied.
ReadSource ==
  /\ trader = "ok"
  /\ TraderGoto(IF source = "reconcile" THEN "own" ELSE "idle")
  /\ UNCHANGED <<latchVars, bookVars, acted>> /\ Unwatched

ReadReason ==
  /\ trader = "own"
  /\ TraderGoto(IF reason = "" THEN "idle" ELSE "lift")
  /\ UNCHANGED <<latchVars, bookVars, acted>> /\ Unwatched

Lift ==
  /\ trader = "lift"
  /\ EmptyReason
  /\ TraderGoto("lifted")
  /\ UNCHANGED <<source, guard, bookVars>> /\ Unwatched

LiftSource ==
  /\ trader = "lifted"
  /\ source' = ""
  /\ TraderGoto("idle")
  /\ UNCHANGED <<reason, guard, bookVars, acted>> /\ Unwatched

\* Diverged: both are written over whatever halt is standing.
HaltReason ==
  /\ trader = "diverged"
  /\ SetReason("reconcile")
  /\ TraderGoto("tag")
  /\ UNCHANGED <<source, guard, bookVars, acted>> /\ Unwatched

HaltSource ==
  /\ trader = "tag"
  /\ source' = "reconcile"
  /\ TraderGoto("idle")
  /\ UNCHANGED <<reason, guard, bookVars, acted>> /\ Unwatched

-----------------------------------------------------------------------------
(* The news path: the halt and the kill switch are read for the gate, and  *)
(* the order goes out later.                                               *)

Approve ==
  /\ news = "idle" /\ row = "none" /\ entry = "none"
  /\ reason = "" /\ ~kill
  /\ news' = "submit"
  /\ UNCHANGED <<latchVars, seen, bookVars, worldVars, supervisorVars, traderVars, acted>>

Submit ==
  /\ news = "submit"
  /\ row' = "opening" /\ entry' = "working" /\ fills' = {}
  /\ news' = "idle"
  /\ UNCHANGED <<latchVars, seen, held, worldVars, supervisorVars, traderVars, acted>>

-----------------------------------------------------------------------------
(* The broker, the account and the operator.                               *)

Still == UNCHANGED <<seen, supervisorVars, traderVars, news>>

FillEntry ==
  /\ entry = "working"
  /\ entry' = "filled" /\ held' = held \cup Legs
  /\ UNCHANGED <<latchVars, row, fills, worldVars, acted>> /\ Still

Assign(a) ==
  /\ a \in Assignments \ reported /\ "short" \in held
  /\ held' = (held \ {"short"}) \cup {"stock"}
  /\ reported' = reported \cup {a}
  /\ UNCHANGED <<latchVars, row, entry, fills, kill, breached, acted>> /\ Still

Breach(g) ==
  /\ g \in Breaches \ breached
  /\ breached' = breached \cup {g}
  /\ UNCHANGED <<latchVars, bookVars, kill, reported, acted>> /\ Still

Recover(g) ==
  /\ g \in breached
  /\ breached' = breached \ {g}
  /\ UNCHANGED <<latchVars, bookVars, kill, reported, acted>> /\ Still

\* make kill, make resume.
Kill ==
  /\ ~kill /\ kill' = TRUE
  /\ UNCHANGED <<latchVars, bookVars, breached, reported, acted>> /\ Still

Resume ==
  /\ kill /\ kill' = FALSE
  /\ UNCHANGED <<latchVars, bookVars, breached, reported, acted>> /\ Still

\* What clears a halt by hand: the reason, and neither source nor guard.
ClearHalt ==
  /\ ~kill /\ reason # ""
  /\ EmptyReason
  /\ UNCHANGED <<source, guard, bookVars, worldVars>> /\ Still

\* repair --apply: every leg is gone and its closing fill is on record.  The
\* orders are left as they are.
Repair ==
  /\ row \in {"opening", "open"}
  /\ held \cap Legs = {} /\ fills = Legs
  /\ row' = "none"
  /\ UNCHANGED <<latchVars, entry, held, fills, worldVars, acted>> /\ Still

-----------------------------------------------------------------------------
Flatten == CancelOrders \/ (\E S \in SUBSET Holdings : CloseAll(S)) \/ Verify
CheckAssignments == NoAssignments \/ MarkSeen \/ LatchAssignment \/ TagAssignment
SupervisorTick ==
  \/ CheckAssignments \/ EvaluateGuards \/ ReadStanding \/ ReadMarker
  \/ Residue \/ LatchReason \/ LatchSource \/ LatchGuard \/ Flatten
TraderTick ==
  \/ Sync \/ ReadBook \/ ReadBookFails \/ Compare \/ ReadSource \/ ReadReason
  \/ Lift \/ LiftSource \/ HaltReason \/ HaltSource
News == Approve \/ Submit
Environment ==
  \/ FillEntry \/ (\E a \in Assignments : Assign(a))
  \/ (\E g \in Breaches : Breach(g) \/ Recover(g))
Operator == Kill \/ Resume \/ ClearHalt \/ Repair

Next == SupervisorTick \/ CutOff \/ TraderTick \/ News
          \/ Environment \/ Operator

Spec == Init /\ [][Next]_vars

\* Both loops keep looping, the broker's calls do not fail for ever, and what
\* the broker may close it closes in the end.
Fairness ==
  /\ WF_vars(SupervisorTick) /\ WF_vars(TraderTick)
  /\ SF_vars(Residue) /\ SF_vars(CancelOrders) /\ SF_vars(supervisor = "close" /\ CloseAll(held))
  /\ SF_vars(ReadBook)

FairSpec == Spec /\ Fairness

-----------------------------------------------------------------------------
(* Properties.                                                             *)

LatchTypeOK ==
  /\ reason \in {"", "reconcile", "assignment"} \cup Guards
  /\ source \in {"", "reconcile", "assignment", "supervisor"}
  /\ guard \in {""} \cup Guards
  /\ acted \in {""} \cup Guards

WorldTypeOK ==
  /\ kill \in BOOLEAN /\ breached \subseteq AccountGuards
  /\ reported \subseteq Assignments /\ seen \subseteq Assignments
  /\ alarmed \subseteq Assignments

BookTypeOK ==
  /\ row \in {"none", "opening", "open"}
  /\ entry \in {"none", "working", "filled", "dead"}
  /\ held \subseteq Holdings /\ view \subseteq Holdings /\ fills \subseteq Legs

ProcessTypeOK ==
  /\ supervisor \in SupervisorPC
  /\ verdict \in {""} \cup Guards
  /\ tries \in 0..FlattenTries
  /\ trader \in TraderPC /\ news \in {"idle", "submit"}

\* Every variable has its type.
TypeOK == LatchTypeOK /\ WorldTypeOK /\ BookTypeOK /\ ProcessTypeOK

\* A guard acts once per breach, not once per tick: it is not recorded and
\* latched a second time running unless the halt was cleared in between
\* (supervisor/run.py:147-165).  It has acted once its marker is written: a
\* latch that was cut off before that is made again.
OncePerBreach == [][LatchReason => acted # verdict]_vars

\* Why it holds: as long as the halt has not been cleared the marker names the
\* guard that latched last, whoever has written over the reason since.
Judging == {"standing", "marker", "latch", "source", "guard"}
MarkerInv ==
  /\ acted # "" => guard = acted /\ reason # ""
  /\ supervisor \in Judging => verdict # ""
  /\ supervisor = "latch" => acted # verdict

\* A flatten that may still close has an attempt left.
TriesLeft == supervisor = "close" => tries < FlattenTries

LatchInv == TypeOK /\ MarkerInv /\ TriesLeft

\* The other half: the branch that treats a breach as handled is taken only
\* for the guard that acted since the halt was last clear, so that a marker
\* which outlived its halt never swallows a new breach (run.py:34-38).
NewBreachActs ==
  [][supervisor = "marker" /\ supervisor' = "residue" /\ reason # "" => acted = verdict]_vars

\* reconcile clears only its own halts: not one under which the supervisor
\* has latched since the halt was last clear (reconcile.py:16-22).
LiftsOnlyItsOwn == [][Lift => acted = ""]_vars

\* An assignment that is marked as seen has latched a halt, or is about to in
\* the tick that marked it (check_assignments).
SeenAssignmentsHalt == supervisor # "alarm" => seen \subseteq alarmed

\* Somebody wants the book flat.
Danger == kill \/ breached # {}

\* The halt's promise is an empty book: while a guard stands tripped, what
\* is held goes, however orders, fills and flatten attempts interleave.
BookEmpties == (Danger /\ held # {}) ~> (~Danger \/ held = {})

\* A kill switch that stays engaged keeps the system halted in the end,
\* although reconcile may steal the halt and lift it on the way.
KillHolds == <>[]kill => <>[](reason # "")

\* A halt that reconcile latched does not outlive its divergence.
Mine == reason = "reconcile" /\ source = "reconcile"
OwnHaltLifts == (Mine /\ row = "none" /\ held = {}) ~> (~Mine \/ row # "none" \/ held # {})

=============================================================================
