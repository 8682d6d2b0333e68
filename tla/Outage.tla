------------------------------- MODULE Outage -------------------------------
(***************************************************************************)
(* How the system rides out a broker that fails or is slow: the circuit    *)
(* breaker both threads of the trader send their orders through, the       *)
(* trader's loop that counts its failed ticks and withholds its heartbeat, *)
(* and the supervisor that reads the heartbeat's age against a timeout.    *)
(*                                                                         *)
(* Time goes in units (of the supervisor's fifteen seconds).  An age is    *)
(* counted up to the bound it is compared with and no further.             *)
(***************************************************************************)
EXTENDS Integers, FiniteSets

CONSTANTS
  Threads,        \* callers of the router: the main loop, the news socket
  Main,           \* the one of them that ticks
  Threshold,      \* failure_threshold of the breaker
  Cooldown,       \* cooldown_seconds
  Poll,           \* poll_seconds, between two ticks
  MaxSpent,       \* the longest a tick and its news can take
  MaxFailures,    \* max_consecutive_tick_failures
  Timeout         \* heartbeat_timeout

ASSUME ThreadsAssumption == Main \in Threads /\ IsFiniteSet(Threads)
ASSUME BreakerAssumption == Threshold \in Nat \ {0} /\ Cooldown \in Nat \ {0}
ASSUME LoopAssumption ==
  /\ Poll \in Nat \ {0} /\ MaxSpent \in Nat
  /\ MaxFailures \in Nat \ {0} /\ Timeout \in Nat \ {0}

VARIABLES
  \* the breaker
  state,      \* _state
  failures,   \* _failures, consecutive
  openFor,    \* time since _opened_at
  call,       \* where a thread is in call()
  \* the loop
  loop,       \* where the main loop is
  rest,       \* time to the next tick
  spent,      \* time this tick has taken
  missed,     \* _consecutive_failures
  \* the supervisor and what it reads
  age,        \* of trader_heartbeat
  halted,
  looked,     \* the supervisor has ticked in this unit of time
  \* history
  burst,      \* failed calls since the broker last had a rest or a success
  quiet,      \* time since the last failed call
  silenced    \* a heartbeat was withheld since the last one

breakerVars == <<state, failures, openFor, call>>
loopVars == <<loop, rest, spent, missed>>
vars == <<breakerVars, loopVars, age, halted, looked, burst, quiet, silenced>>

TypeOK ==
  /\ state \in {"closed", "open", "half_open"}
  /\ failures \in Nat
  /\ openFor \in 0 .. Cooldown
  /\ call \in [Threads -> {"none", "sent", "opening"}]
  /\ loop \in {"resting", "sync", "market", "news"}
  /\ rest \in 0 .. Poll /\ spent \in 0 .. MaxSpent
  /\ missed \in 0 .. MaxFailures
  /\ age \in 0 .. Timeout + 1
  /\ halted \in BOOLEAN /\ looked \in BOOLEAN /\ silenced \in BOOLEAN
  /\ burst \in Nat /\ quiet \in 0 .. Cooldown

\* Nothing has opened the breaker: _opened_at is long ago.
Init ==
  /\ state = "closed" /\ failures = 0 /\ openFor = Cooldown
  /\ call = [t \in Threads |-> "none"]
  /\ loop = "resting" /\ rest = 0 /\ spent = 0 /\ missed = 0
  /\ age = 0 /\ halted = FALSE /\ looked = FALSE
  /\ burst = 0 /\ quiet = Cooldown /\ silenced = FALSE

AtMost(n, bound) == IF n > bound THEN bound ELSE n

-----------------------------------------------------------------------------
(* The breaker.  It has no lock.                                           *)

CooledDown == openFor >= Cooldown

MutantState == IF state = "open" THEN "half_open" ELSE state

\* The property state: reading it may move it.
State == IF state = "open" /\ CooledDown THEN "half_open" ELSE state

\* The main loop calls from sync alone, the socket's thread at any time.
MayCall(t) == call[t] = "none" /\ (t = Main => loop = "sync")

\* Let through, with the state it was let through in already forgotten.
Send(t) ==
  /\ MayCall(t) /\ State # "open"
  /\ state' = State
  /\ call' = [call EXCEPT ![t] = "sent"]
  /\ UNCHANGED <<failures, openFor, loopVars, age, halted, looked, burst, quiet, silenced>>

\* The broker answers: two assignments with nothing in between.
Succeed(t) ==
  /\ call[t] = "sent"
  /\ failures' = 0 /\ state' = "closed"
  /\ call' = [call EXCEPT ![t] = "none"]
  /\ burst' = 0
  /\ UNCHANGED <<openFor, loopVars, age, halted, looked, quiet, silenced>>

Trips == state = "half_open" \/ failures + 1 >= Threshold

\* The broker fails.  _state is set before the clock is read for _opened_at,
\* and the other thread may run during that call.
Fail(t) ==
  /\ call[t] = "sent"
  /\ failures' = AtMost(failures + 1, Threshold)
  /\ IF Trips
     THEN state' = "open" /\ call' = [call EXCEPT ![t] = "opening"]
     ELSE UNCHANGED state /\ call' = [call EXCEPT ![t] = "none"]
  /\ burst' = (IF quiet >= Cooldown THEN 0 ELSE burst) + 1
  /\ quiet' = 0
  /\ UNCHANGED <<openFor, loopVars, age, halted, looked, silenced>>

StampOpened(t) ==
  /\ call[t] = "opening"
  /\ openFor' = 0
  /\ call' = [call EXCEPT ![t] = "none"]
  /\ UNCHANGED <<state, failures, loopVars, age, halted, looked, burst, quiet, silenced>>

Breaker == \E t \in Threads : Send(t) \/ Succeed(t) \/ Fail(t) \/ StampOpened(t)

-----------------------------------------------------------------------------
(* The loop: guarded_step, and the parts of tick that can fail or be slow. *)

MutantBeats == TRUE

Beats == missed < MaxFailures

\* tick begins with the heartbeat, or with withholding it.
Beat ==
  /\ loop = "resting" /\ rest = 0
  /\ age' = IF Beats THEN 0 ELSE age
  /\ silenced' = ~Beats
  /\ loop' = "sync" /\ spent' = 0
  /\ UNCHANGED <<breakerVars, rest, missed, halted, looked, burst, quiet>>

\* sync polls through the breaker as often as there are orders, absorbs what
\* the calls raise, and is over when no call is on its way.  Under a halt the
\* tick ends here, as well as it would otherwise.
Synced ==
  /\ loop = "sync" /\ call[Main] = "none"
  /\ loop' = IF halted THEN "news" ELSE "market"
  /\ UNCHANGED <<breakerVars, rest, spent, missed, age, halted, looked, burst, quiet, silenced>>

Rest == loop' = "resting" /\ rest' = Poll /\ spent' = 0

\* market_state, manage_positions: what they raise ends the tick.
TickFails ==
  /\ loop = "market"
  /\ missed' = AtMost(missed + 1, MaxFailures)
  /\ Rest
  /\ UNCHANGED <<breakerVars, age, halted, looked, burst, quiet, silenced>>

Managed ==
  /\ loop = "market"
  /\ loop' = "news"
  /\ UNCHANGED <<breakerVars, rest, spent, missed, age, halted, looked, burst, quiet, silenced>>

\* poll_news raises nothing; only now is the step a success.
NewsDone ==
  /\ loop = "news"
  /\ missed' = 0
  /\ Rest
  /\ UNCHANGED <<breakerVars, age, halted, looked, burst, quiet, silenced>>

Loop == Beat \/ Synced \/ TickFails \/ Managed \/ NewsDone

-----------------------------------------------------------------------------
(* The supervisor, and time.                                               *)

MutantStale == age >= Timeout

\* The heartbeat guard.
Stale == age > Timeout

\* Its own reads of the account may fail: then it has looked at nothing.
SupervisorFails ==
  /\ ~looked /\ looked' = TRUE
  /\ UNCHANGED <<breakerVars, loopVars, age, halted, burst, quiet, silenced>>

SupervisorLooks ==
  /\ ~looked /\ looked' = TRUE
  /\ halted' = (halted \/ Stale)
  /\ UNCHANGED <<breakerVars, loopVars, age, burst, quiet, silenced>>

\* A person lifts the halt.
Reset ==
  /\ halted
  /\ halted' = FALSE
  /\ UNCHANGED <<breakerVars, loopVars, age, looked, burst, quiet, silenced>>

\* A unit passes when the supervisor has ticked in it, the loop is not due,
\* and the tick under way is within what its calls can take.
Pass ==
  /\ looked /\ looked' = FALSE
  /\ \A t \in Threads : call[t] # "opening"
  /\ \/ loop = "resting" /\ rest > 0 /\ rest' = rest - 1 /\ UNCHANGED spent
     \/ loop # "resting" /\ spent < MaxSpent /\ spent' = spent + 1 /\ UNCHANGED rest
  /\ age' = AtMost(age + 1, Timeout + 1)
  /\ openFor' = AtMost(openFor + 1, Cooldown)
  /\ quiet' = AtMost(quiet + 1, Cooldown)
  /\ UNCHANGED <<state, failures, call, loop, missed, halted, burst, silenced>>

Next == Breaker \/ Loop \/ SupervisorFails \/ SupervisorLooks \/ Reset \/ Pass

Spec == Init /\ [][Next]_vars

\* The loop and time go on (a sync has finitely many orders), a call is
\* answered or times out, and the supervisor is not cut off from the account
\* for ever.  No thread has to call, and nobody has to reset.
Fairness ==
  /\ SF_vars(Pass) /\ WF_vars(Beat) /\ SF_vars(Synced) /\ WF_vars(NewsDone)
  /\ WF_vars(TickFails \/ Managed)
  /\ \A t \in Threads : WF_vars(Succeed(t) \/ Fail(t)) /\ WF_vars(StampOpened(t))
  /\ WF_vars(SupervisorFails \/ SupervisorLooks) /\ SF_vars(SupervisorLooks)

FairSpec == Spec /\ Fairness

-----------------------------------------------------------------------------
(* Properties.                                                             *)

\* The breaker stops a storm: without a success or a pause of Cooldown, the
\* broker sees no more failures than the threshold and, for want of a lock,
\* a few for every other thread.
NoStorm == burst <= Threshold + 2 * (Cardinality(Threads) - 1)

\* Transient faults are absorbed: as long as a tick fits between the poll and
\* the timeout, the heartbeat goes stale only when it was withheld.
StaleMeansSilenced == (Poll + MaxSpent <= Timeout /\ Stale) => silenced

\* Persistent ones are not: a loop whose ticks all fail ends in a halt.
FailureEscalates == <>[](loop # "news" \/ halted) => []<>halted

\* guarded_step: "transient faults are absorbed, persistent ones stop the
\* heartbeat and let the supervisor flatten" - whatever a tick takes.
OnlySilenceAlarms == Stale => silenced
=============================================================================
