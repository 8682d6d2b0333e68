-------------------------------- MODULE Jobs --------------------------------
(***************************************************************************)
(* The scheduler's three nightly jobs and the predictions the first of     *)
(* them scores.  A tick of the scheduler lists the jobs that are due and   *)
(* runs them one after the other; a job is marked as run for the day when  *)
(* it has ended, well or not, so a crash between the two runs it again.    *)
(*                                                                         *)
(* Days go round (a row that says "today" from the last round is another   *)
(* date and is forgotten), and a day is a few slots of the market's clock. *)
(***************************************************************************)
EXTENDS Integers, Sequences, SequencesExt, FiniteSets

CONSTANTS
  Predictions,   \* the estimates the trader records
  Dead,          \* those whose move can never be measured
  Limit,         \* how many rows resolve_due asks for
  DayCount,      \* days in a round
  Weekend,       \* the days on which weekdays_only jobs do not run
  MaxCrashes,    \* bound on the scheduler's crashes
  None

ASSUME PredictionsAssumption == Dead \subseteq Predictions /\ IsFiniteSet(Predictions)
ASSUME LimitAssumption == Limit \in Nat \ {0}
ASSUME DaysAssumption == DayCount \in Nat /\ DayCount > 2 /\ MaxCrashes \in Nat
ASSUME NoneIsNoDay == None \notin Nat

\* JOBS: the order they are declared in is the order they run in, and their
\* place is also the first slot of the day at which they are due.
JOBS == <<"resolve_predictions", "nightly_report", "model_refit">>
JobNames == {"resolve_predictions", "nightly_report", "model_refit"}
Days == 0 .. DayCount - 1
LastSlot == Len(JOBS)
Place(j) == CHOOSE k \in DOMAIN JOBS : JOBS[k] = j

VARIABLES
  \* the clock, in US Eastern
  day, slot,
  \* the store
  lastRun,     \* job_last_run:<job>
  elapsed,     \* unscored predictions, in the order of resolve_after
  scored,      \* predictions with resolved_at
  \* the scheduler
  due,         \* the rest of due_jobs, the job at hand among them
  tickDay,     \* now.date(), read once a tick; None before today's first
  step,        \* "idle", "start", "run", "rows" or "mark"
  rows,        \* the rest of due_predictions
  \* history
  starts,      \* how often each job was started for tickDay
  crashes      \* how often the scheduler died, and how often inside a job of tickDay

storeVars == <<lastRun, elapsed, scored>>
schedulerVars == <<due, tickDay, step, rows>>
jobsVars == <<day, slot, storeVars, schedulerVars, starts, crashes>>

JobsTypeOK ==
  /\ day \in Days /\ slot \in 0 .. LastSlot
  /\ lastRun \in [JobNames -> Days \cup {None}]
  /\ scored \subseteq Predictions
  /\ elapsed \in Seq(Predictions) /\ rows \in Seq(Predictions)
  /\ due \subseteq JobNames /\ tickDay \in Days \cup {None}
  /\ step \in {"idle", "start", "run", "rows", "mark"}
  /\ starts \in [JobNames -> Nat]
  /\ crashes \in [total : 0 .. MaxCrashes, inside : [JobNames -> Nat]]

JobsInit ==
  /\ day = 0 /\ slot = 0
  /\ lastRun = [j \in JobNames |-> None]
  /\ elapsed = <<>> /\ scored = {}
  /\ due = {} /\ tickDay = None /\ step = "idle" /\ rows = <<>>
  /\ starts = [j \in JobNames |-> 0]
  /\ crashes = [total |-> 0, inside |-> [j \in JobNames |-> 0]]

-----------------------------------------------------------------------------
(* The trader and the clock.                                               *)

\* An estimate that predictions.record wrote comes to the end of its horizon.
\* When it was written matters to nothing here.
Elapse(p) ==
  /\ p \notin ToSet(elapsed) \cup scored
  /\ elapsed' = Append(elapsed, p)
  /\ UNCHANGED <<day, slot, lastRun, scored, schedulerVars, starts, crashes>>

Later ==
  /\ slot < LastSlot
  /\ slot' = slot + 1
  /\ UNCHANGED <<day, storeVars, schedulerVars, starts, crashes>>

\* No job takes a whole day (each is cut off after ten minutes): the tick
\* that was under way yesterday has ended by midnight today.
Midnight ==
  /\ slot = LastSlot
  /\ step = "idle" \/ tickDay = day
  /\ day' = (day + 1) % DayCount
  /\ lastRun' = [j \in JobNames |-> IF lastRun[j] = day' THEN None ELSE lastRun[j]]
  /\ slot' = 0
  /\ tickDay' = IF step = "idle" THEN None ELSE tickDay
  /\ UNCHANGED <<elapsed, scored, due, step, rows, starts, crashes>>

-----------------------------------------------------------------------------
(* The scheduler.                                                          *)

\* due_jobs: declared for today, its time has come, and not marked yet.
IsDue(j) ==
  /\ day \notin Weekend
  /\ slot >= Place(j)
  /\ lastRun[j] # day

Tick ==
  /\ step = "idle"
  /\ due' = {j \in JobNames : IsDue(j)} /\ due' # {}
  /\ tickDay' = day
  /\ step' = "start"
  /\ IF tickDay # day
     THEN /\ starts' = [j \in JobNames |-> 0]
          /\ crashes' = [crashes EXCEPT !.inside = [j \in JobNames |-> 0]]
     ELSE UNCHANGED <<starts, crashes>>
  /\ UNCHANGED <<day, slot, storeVars, rows>>

\* The first of the list.
Job == CHOOSE j \in due : \A k \in due : Place(j) <= Place(k)

\* job_start, and for the scoring the query: the oldest Limit rows.
Start ==
  /\ step = "start"
  /\ starts' = [starts EXCEPT ![Job] = @ + 1]
  /\ IF Job = "resolve_predictions"
     THEN /\ rows' = SubSeq(elapsed, 1, IF Len(elapsed) < Limit THEN Len(elapsed) ELSE Limit)
          /\ step' = "rows"
     ELSE rows' = <<>> /\ step' = "run"
  /\ UNCHANGED <<day, slot, storeVars, due, tickDay, crashes>>

\* A subprocess that ends, fails or is cut off, or an error of the store's:
\* job_done or job_error, in either case the job is over.
Run ==
  /\ step \in {"run", "rows"} /\ (step = "rows" => rows = <<>>)
  /\ step' = "mark"
  /\ UNCHANGED <<day, slot, storeVars, due, tickDay, rows, starts, crashes>>

\* A row at a time, each with a commit of its own.
Score(p) ==
  /\ step = "rows" /\ rows # <<>> /\ Head(rows) = p /\ p \notin Dead
  /\ scored' = scored \cup {p}
  /\ \E k \in DOMAIN elapsed : elapsed[k] = p /\ elapsed' = RemoveAt(elapsed, k)
  /\ rows' = Tail(rows)
  /\ UNCHANGED <<day, slot, lastRun, due, tickDay, step, starts, crashes>>

MutantSkip(p) ==
  /\ step = "rows" /\ rows # <<>> /\ Head(rows) = p
  /\ rows' = <<>>
  /\ UNCHANGED <<day, slot, storeVars, due, tickDay, step, starts, crashes>>

\* measure_move answered None: left for another day.
Skip(p) ==
  /\ step = "rows" /\ rows # <<>> /\ Head(rows) = p
  /\ rows' = Tail(rows)
  /\ UNCHANGED <<day, slot, storeVars, due, tickDay, step, starts, crashes>>

MutantMark ==
  /\ step = "mark"
  /\ \/ lastRun' = [lastRun EXCEPT ![Job] = tickDay]
     \/ UNCHANGED lastRun
  /\ due' = due \ {Job}
  /\ step' = IF due = {Job} THEN "idle" ELSE "start"
  /\ UNCHANGED <<day, slot, elapsed, scored, tickDay, rows, starts, crashes>>

\* Marks the slot instead of the date.
MutantMarkSlot ==
  /\ step = "mark"
  /\ lastRun' = [lastRun EXCEPT ![Job] = slot]
  /\ due' = due \ {Job}
  /\ step' = IF due = {Job} THEN "idle" ELSE "start"
  /\ UNCHANGED <<day, slot, elapsed, scored, tickDay, rows, starts, crashes>>

\* mark_ran, and on to the next of the list.
Mark ==
  /\ step = "mark"
  /\ lastRun' = [lastRun EXCEPT ![Job] = tickDay]
  /\ due' = due \ {Job}
  /\ step' = IF due = {Job} THEN "idle" ELSE "start"
  /\ UNCHANGED <<day, slot, elapsed, scored, tickDay, rows, starts, crashes>>

\* The list and the rows die with the process.
Crash ==
  /\ step # "idle" /\ crashes.total < MaxCrashes
  /\ crashes' = [total  |-> crashes.total + 1,
                 inside |-> IF step = "start" THEN crashes.inside
                            ELSE [crashes.inside EXCEPT ![Job] = @ + 1]]
  /\ due' = {} /\ step' = "idle" /\ rows' = <<>>
  /\ UNCHANGED <<day, slot, storeVars, tickDay, starts>>

Trader == \E p \in Predictions : Elapse(p)
Clock == Later \/ Midnight
Scheduler == Tick \/ Start \/ Run \/ Mark \/ \E p \in Predictions : Score(p) \/ Skip(p)

JobsNext == Trader \/ Clock \/ Scheduler \/ Crash

JobsSpec == JobsInit /\ [][JobsNext]_jobsVars

\* Time passes and horizons elapse.  The loop comes round every minute, and
\* the last slot of a day is most of eight hours: it does not miss every
\* evening.  Bars that are late arrive: a move that can be measured is not
\* unmeasurable every night.
JobsFairness ==
  /\ WF_jobsVars(Clock)
  /\ \A p \in Predictions : WF_jobsVars(Elapse(p)) /\ SF_jobsVars(Score(p))
  /\ SF_jobsVars(Tick)
  /\ WF_jobsVars(Start) /\ WF_jobsVars(Run) /\ WF_jobsVars(Mark)
  /\ \A p \in Predictions : WF_jobsVars(Skip(p))

JobsFairSpec == JobsSpec /\ JobsFairness

-----------------------------------------------------------------------------
(* Properties.                                                             *)

\* "Each job runs at most once per market day": once, and once more for
\* every crash that came between its start and its mark.
OncePerDay == \A j \in JobNames : starts[j] <= 1 + crashes.inside[j]

\* A move that can be measured is scored in the end, whatever the order in
\* which the horizons elapsed, as long as the rows that can never be scored
\* do not fill the batch.
ScoredInTheEnd ==
  Cardinality(Dead) < Limit =>
    \A p \in Predictions \ Dead : p \in ToSet(elapsed) ~> p \in scored
=============================================================================
