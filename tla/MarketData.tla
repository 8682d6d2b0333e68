------------------------------ MODULE MarketData ------------------------------
(***************************************************************************)
(* What a process believes of the market: the cache in front of every call *)
(* to the broker, filled and read by the threads that share it, the        *)
(* retries, and what is made of an answer - a spot from a quote and a      *)
(* print, one expiry of a chain, a spread judged over a window.            *)
(*                                                                         *)
(* An entry carries its age, by its stamp, and how long ago the broker     *)
(* said it, which the code does not know.  One that has expired is as good *)
(* as none.  The keys of one method do not matter to another: a behaviour  *)
(* is about one of them, its subject.  One underlying, one day; expiries   *)
(* are in days ahead, spreads in tenths of a percent of the mid, and a mid *)
(* is doubled.                                                             *)
(***************************************************************************)
EXTENDS Integers, Sequences, FiniteSets, FiniteSetsExt

CONSTANTS
  Threads,
  Subjects,    \* the method in use, and for chain: the horizons of the theses in
               \* hours, what a leg may be quoted at, and a bound on what is recorded
  Expiries,    \* that are listed, in days ahead
  Monthlies,   \* the third Fridays among them
  Legs,        \* of the structure that is traded
  Readings,    \* quote and last print of the underlying, as the broker may show them
  Price,       \* what it trades at
  Due,         \* types of corporate action that are announced
  QuoteTtl, BarTtl, ClockTtl,
  Window,      \* gate.liquidity_window_minutes
  Patience,    \* bound: an answer is kept, and a chain judged, this soon after
  None

ASSUME TtlAssumption ==
  /\ {QuoteTtl, BarTtl, ClockTtl} \subseteq Nat \ {0} /\ {Window, Patience} \subseteq Nat
  /\ QuoteTtl <= BarTtl /\ ClockTtl <= BarTtl
ASSUME SubjectsAssumption ==
  \A s \in Subjects : /\ s.method \in {"state", "spot", "chain", "events"}
                      /\ s.horizons \cup s.spreads \subseteq Nat /\ s.obs \in Nat
ASSUME ExpiriesAssumption == Expiries \subseteq Nat
ASSUME PriceAssumption == Price \in Nat

\* config/default.yaml.
ReadRetries == 2
MinObservations == 3
MaxSpread == 80

\* The lookups a method makes, in order.
Lookups(method) ==
  CASE method = "state"  -> <<"clock", "session">>
    [] method = "spot"   -> <<"spot">>
    [] method = "chain"  -> <<"contracts", "snap">>
    [] method = "events" -> <<"events">>

\* chain: never inside the minimum time to expiry.
First(h) == Max({3, h \div 24 + 1})

MutantContractsKey(h) == 3

\* The range of expiries is part of the key.
ContractsKey(h) == First(h)

Keys ==
  {<<src, 0>> : src \in {"clock", "session", "spot", "events"}}
    \cup {<<"contracts", ContractsKey(h)>> : h \in UNION {s.horizons : s \in Subjects}}
    \cup {<<"snap", e>> : e \in Expiries}

MutantTtl(src) == BarTtl

\* For how long an answer is served.
Ttl(src) ==
  CASE src = "clock"            -> ClockTtl
    [] src \in {"spot", "snap"} -> QuoteTtl
    [] OTHER                    -> BarTtl

VARIABLES
  subject,
  cache,     \* MarketData._cache
  history,   \* Trader._spread_history
  job,       \* what each thread is looking up
  judged,    \* history: its last verdict on a chain
  lastTight  \* history: how long ago the broker showed each leg at a fair spread

vars == <<subject, cache, history, job, judged, lastTight>>

Idle == [at |-> 0, phase |-> "idle", horizon |-> 0, expiry |-> None, tries |-> 0,
         value |-> None, old |-> 0, chain |-> None]

\* The longest a trace of a spread may matter.
Long == Window + QuoteTtl + 2 * Patience + 1

TypeOK ==
  /\ subject \in Subjects
  /\ DOMAIN cache = Keys /\ DOMAIN history = Expiries \X Legs
  /\ \A k \in Keys : cache[k] # None => /\ cache[k].age \in 0 .. Ttl(k[1]) - 1
                                       /\ cache[k].old \in Nat
  /\ DOMAIN judged = Threads /\ DOMAIN job = Threads
  /\ lastTight \in [Expiries \X Legs -> 0 .. Long]
  /\ \A t \in Threads :
       /\ job[t].phase \in {"idle", "look", "fetch", "keep", "judge"} /\ job[t].at \in Nat
       /\ job[t].tries \in 0 .. ReadRetries /\ job[t].old \in 0 .. Patience

Init ==
  /\ subject \in Subjects
  /\ cache = [k \in Keys |-> None]
  /\ history = [l \in Expiries \X Legs |-> <<>>]
  /\ job = [t \in Threads |-> Idle]
  /\ judged = [t \in Threads |-> None]
  /\ lastTight = [l \in Expiries \X Legs |-> Long]

-----------------------------------------------------------------------------
(* What is made of an answer.                                              *)

\* A quote is a price when it has two sides and they are within five percent.
Sane(r) == r.bid > 0 /\ r.ask >= r.bid /\ 40 * (r.ask - r.bid) <= r.bid + r.ask

MutantDisagree(r) == FALSE

\* By more than a tenth of the print: one of them is stale or broken.
Disagree(r) ==
  LET gap == r.bid + r.ask - 2 * r.print
  IN  10 * gap > 2 * r.print \/ 10 * gap < -2 * r.print

\* spot: the quote's mid unless the last print contradicts it, the print when
\* there is no quote to trust, and otherwise nothing.
SpotOf(r) ==
  IF Sane(r) /\ (r.print = None \/ ~Disagree(r)) THEN r.bid + r.ask
  ELSE IF r.print # None THEN 2 * r.print ELSE None

Listed(lo) == {e \in Expiries : lo <= e /\ e <= lo + 30}

\* choose_expiry: the first monthly, or the first.
ChooseExpiry(listed) ==
  IF listed \cap Monthlies # {} THEN Min(listed \cap Monthlies) ELSE Min(listed)

\* The k-th smallest of a sequence of numbers.
Kth(s, k) ==
  CHOOSE x \in {s[i] : i \in DOMAIN s} :
    /\ Cardinality({i \in DOMAIN s : s[i] < x}) < k
    /\ k <= Cardinality({i \in DOMAIN s : s[i] <= x})

Median(s) ==
  LET n == Len(s)
  IN  IF n % 2 = 1 THEN Kth(s, n \div 2 + 1)
      ELSE (Kth(s, n \div 2) + Kth(s, n \div 2 + 1)) \div 2

MutantRecent(s) == s

\* What falls out of the window is never read again, so it is dropped then;
\* the oldest come first.
Recent(s) ==
  LET old == Cardinality({i \in DOMAIN s : s[i].age > Window})
  IN  [i \in 1 .. Len(s) - old |-> s[i + old]]

\* _windowed_spread of one leg, once its spread of now is recorded.
LegSpread(s) ==
  IF Len(s) >= MinObservations THEN Median([i \in DOMAIN s |-> s[i].pct]) ELSE s[Len(s)].pct

-----------------------------------------------------------------------------
(* _cached.                                                                *)

Source(t) == Lookups(subject.method)[job[t].at]
Key(t) ==
  CASE Source(t) = "contracts" -> <<"contracts", ContractsKey(job[t].horizon)>>
    [] Source(t) = "snap"      -> <<"snap", job[t].expiry>>
    [] OTHER                   -> <<Source(t), 0>>

\* fetch_session: the calendar's failure is an answer, before any retry could
\* see it.
SessionAnswers == {"known", "unknown"}

\* fetch_events: a type of action that cannot be asked for is left out.
EventAnswers == SUBSET Due

\* What a lookup that ends well may bring.
Answers(t) ==
  CASE Source(t) = "clock"     -> BOOLEAN
    [] Source(t) = "session"   -> SessionAnswers
    [] Source(t) = "spot"      -> {SpotOf(r) : r \in Readings} \ {None}
    [] Source(t) = "contracts" -> {Listed(First(job[t].horizon))}
    [] Source(t) = "snap"      -> [Legs -> subject.spreads]
    [] Source(t) = "events"    -> EventAnswers

Retries(src) == IF src \in {"clock", "session"} THEN ReadRetries ELSE 0

\* The method goes on with what it was given; a chain without contracts ends it.
Takes(t, value) ==
  LET j == [at |-> job[t].at + 1, phase |-> "look", horizon |-> job[t].horizon,
            expiry |-> job[t].expiry, tries |-> 0, value |-> None, old |-> 0, chain |-> None]
  IN  job' = [job EXCEPT ![t] =
                CASE Source(t) = "clock" -> j
                  [] Source(t) = "contracts" /\ value # {} -> [j EXCEPT !.expiry = ChooseExpiry(value)]
                  [] Source(t) = "snap" -> [j EXCEPT !.phase = "judge", !.chain = value]
                  [] OTHER -> Idle]

Asks(t, h) ==
  /\ job[t] = Idle
  /\ job' = [job EXCEPT ![t] = [Idle EXCEPT !.at = 1, !.phase = "look", !.horizon = h]]
  /\ judged' = [judged EXCEPT ![t] = None]
  /\ UNCHANGED <<subject, cache, history, lastTight>>

Hit(t) ==
  /\ job[t].phase = "look" /\ cache[Key(t)] # None
  /\ Takes(t, cache[Key(t)].value)
  /\ UNCHANGED <<subject, cache, history, judged, lastTight>>

Misses(t) ==
  \/ job[t].phase = "look" /\ cache[Key(t)] = None
  \/ job[t].phase = "fetch"

\* The broker answers; the thread has still to hear of it.
Observes(t) ==
  /\ Misses(t)
  /\ \E value \in Answers(t) :
       /\ job' = [job EXCEPT ![t].phase = "keep", ![t].value = value]
       /\ lastTight' = [l \in Expiries \X Legs |->
                          IF Source(t) = "snap" /\ l[1] = job[t].expiry /\ value[l[2]] <= MaxSpread
                            THEN 0 ELSE lastTight[l]]
  /\ UNCHANGED <<subject, cache, history, judged>>

\* _with_retries: what is transient is tried again, the rest is the caller's.
Fails(t) ==
  /\ Misses(t) /\ Source(t) \notin {"session", "events"}
  /\ \/ job[t].tries < Retries(Source(t)) /\ job' = [job EXCEPT ![t].phase = "fetch", ![t].tries = @ + 1]
     \/ job' = [job EXCEPT ![t] = Idle]
  /\ UNCHANGED <<subject, cache, history, judged, lastTight>>

\* Stamped now, whenever the broker said it; a later answer may be there.
Keeps(t) ==
  /\ job[t].phase = "keep"
  /\ cache' = [cache EXCEPT ![Key(t)] = [value |-> job[t].value, age |-> 0, old |-> job[t].old]]
  /\ Takes(t, job[t].value)
  /\ UNCHANGED <<subject, history, judged, lastTight>>

\* _windowed_spread and the gate's liquidity check: by the worst leg.
Judges(t) ==
  LET Recorded(l) == Append(history[l], [age |-> 0, pct |-> job[t].chain[l[2]]])
      Mine == {job[t].expiry} \X Legs
      liquid == \A l \in Mine : LegSpread(Recorded(l)) <= MaxSpread
  IN  /\ job[t].phase = "judge"
      /\ \A l \in Mine : Len(history[l]) < subject.obs
      /\ history' = [l \in DOMAIN history |-> IF l \in Mine THEN Recorded(l) ELSE history[l]]
      /\ judged' = [judged EXCEPT ![t] =
                      [horizon |-> job[t].horizon, expiry |-> job[t].expiry, liquid |-> liquid]]
      /\ job' = [job EXCEPT ![t] = Idle]
      /\ UNCHANGED <<subject, cache, lastTight>>

\* The straddle, the edge, the sizing: most stories end before the gate.
Refused(t) ==
  /\ job[t].phase = "judge"
  /\ job' = [job EXCEPT ![t] = Idle]
  /\ UNCHANGED <<subject, cache, history, judged, lastTight>>

-----------------------------------------------------------------------------
(* Time.                                                                   *)

MutantExpired(k, e) == e.age >= Ttl(k[1])

Expired(k, e) == e.age + 1 >= Ttl(k[1])

Older(k, e) ==
  IF e = None \/ Expired(k, e) THEN None
  ELSE [e EXCEPT !.age = @ + 1, !.old = @ + 1]

Aged(n, cap) == IF n < cap THEN n + 1 ELSE cap

OlderSpreads(s) == [i \in DOMAIN s |-> [s[i] EXCEPT !.age = Aged(@, Window + 1)]]

Waits(t) == job[t].phase \in {"keep", "judge"}

TimePasses ==
  /\ \A t \in Threads : Waits(t) => job[t].old < Patience
  /\ cache' = [k \in Keys |-> Older(k, cache[k])]
  /\ history' = [l \in DOMAIN history |-> Recent(OlderSpreads(history[l]))]
  /\ job' = [t \in Threads |-> IF Waits(t) THEN [job[t] EXCEPT !.old = @ + 1] ELSE job[t]]
  /\ judged' = [t \in Threads |-> None]
  /\ lastTight' = [l \in DOMAIN lastTight |-> Aged(lastTight[l], Long)]
  /\ UNCHANGED subject

Next ==
  \/ TimePasses
  \/ \E t \in Threads :
       \/ \E h \in subject.horizons : Asks(t, h)
       \/ Hit(t) \/ Observes(t) \/ Fails(t) \/ Keeps(t) \/ Judges(t) \/ Refused(t)

Spec == Init /\ [][Next]_vars

-----------------------------------------------------------------------------
(* Properties.                                                             *)

\* A burst of news is served from memory, but never with what the broker said
\* longer ago than the entry's time to live and one call: however the threads
\* overtake each other between asking and keeping.
ServedWithin ==
  \A k \in Keys : cache[k] # None =>
    cache[k].old < Patience + IF k[1] \in {"spot", "snap"} THEN QuoteTtl
                              ELSE IF k[1] = "clock" THEN ClockTtl ELSE BarTtl

\* What the broker may show in its bad hours: a print is within a tenth of
\* where the stock trades, and a stock without one is quoted within a fifth, or
\* unusably.
PrintsNearby ==
  \A r \in Readings :
    /\ r.bid \in Nat /\ r.ask \in Nat
    /\ IF r.print = None
         THEN Sane(r) => 8 * Price <= 5 * (r.bid + r.ask) /\ 5 * (r.bid + r.ask) <= 12 * Price
         ELSE r.print \in Nat /\ 9 * Price <= 10 * r.print /\ 10 * r.print <= 11 * Price

\* Then no broken quote is a spot: it is within 21% of where the stock trades,
\* a tenth of a print that is itself a tenth off.
SpotIsPlausible ==
  cache[<<"spot", 0>>] # None =>
    /\ 79 * 2 * Price <= 100 * cache[<<"spot", 0>>].value
    /\ 100 * cache[<<"spot", 0>>].value <= 121 * 2 * Price

\* A structure that passes for liquid had each of its legs at a fair spread
\* within the window and an entry's life.
LiquidWasReal ==
  \A t \in Threads : judged[t] # None /\ judged[t].liquid =>
    \A leg \in Legs : lastTight[<<judged[t].expiry, leg>>] <= Window + QuoteTtl + 2 * Patience

\* The chain a thesis is judged on outlives it, whatever the chain of another
\* thesis of the same name left in the cache.
ExpirySpansHorizon ==
  \A t \in Threads : judged[t] # None =>
    judged[t].expiry >= 3 /\ 24 * judged[t].expiry > judged[t].horizon
=============================================================================
