------------------------------- MODULE Pipeline -------------------------------
(***************************************************************************)
(* From a story to an entry: the two threads of the runner that hear news, *)
(* the trader's pipeline they both run, its memory in the process and in   *)
(* the store, the deferral of the opening auction and the daily floor.     *)
(*                                                                         *)
(* A thread is interrupted where it calls out: between its check of the    *)
(* seen set and its entry there, at the account, at the analyst, at the    *)
(* data, and between the gate and the row that records the entry.          *)
(*                                                                         *)
(* A day of one session in phases; a position that is live leaves at any   *)
(* time (OrderLifecycle, Exits).  The options of a name are calls and puts *)
(* at four strikes.                                                       *)
(***************************************************************************)
EXTENDS EntryRules, Sequences

CONSTANTS
  Names,        \* the universe
  Stories,
  News,         \* what each is: name, topic, and the analyst's view of it
  Phases,       \* times of the day, minutes since the open
  Quotes,       \* what the market may say of a name: edge test inputs
  Days,         \* the conditions the gate may find
  Risks,        \* maximum loss of one spread, dollars
  Worlds,       \* whether the socket works, and which faults can strike
  MaxDeferred   \* trader.py: ten

ASSUME WorldsAssumption ==
  Worlds \subseteq [socket : BOOLEAN, faults : SUBSET {"account", "analyst", "restart"}]
ASSUME DeferredAssumption == MaxDeferred \in Nat
ASSUME StoriesAssumption ==
  /\ IsFiniteSet(Stories)
  /\ \A s \in Stories : /\ News[s].name \in Names
                        /\ News[s].direction \in {"up", "down", "vol_only"}
                        /\ News[s].confidence \in Nat
ASSUME PhasesAssumption == Phases \in Seq(Nat) \ {<<>>} /\ None \notin Nat
ASSUME QuotesAssumption ==
  \A quote \in Quotes : /\ IsFiniteSet(DOMAIN quote.factors)
                        /\ \A f \in DOMAIN quote.factors : quote.factors[f] \in Int
ASSUME DaysAssumption == \A x \in Days : x.daily \in Int /\ x.vol \in (Nat \ {0}) \cup {None}
ASSUME RisksAssumption == Risks \subseteq Nat \ {0}

Threads == {"main", "stream"}

Closing == 390
MaxAge == 120
FloorTime == 270
OldAge == 110     \* of a story that was late already when it was heard

\* A signal: the story, or its second life as the day's floor.
Signals == Stories \X {"organic", "floor"}

Sides == {"long", "short"}
Legs == [right : {"call", "put"}, strike : 1 .. 4, side : Sides]

VARIABLES
  phase,        \* the time of day
  world,        \* one of Worlds
  heard,        \* when each story reached us first, or None
  late,         \* it was old by then
  recent,       \* orders of the last minute, as far as the limit
  \* the store
  rows,         \* positions, by signal
  floorDate,    \* floor_trade_date is today
  floorTried,   \* floor_attempt_at is recent
  \* the process
  seen,         \* _seen_news
  memory,       \* the filter's _seen
  deferred,     \* _deferred
  candidate,    \* _floor_candidate: a story and its lean, or None
  floorMode,    \* _floor_mode
  job,          \* what each thread is doing
  \* history
  sent          \* orders submitted, by signal

worldVars == <<phase, world, heard, late>>
storeVars == <<rows, floorDate, floorTried>>
memoryVars == <<seen, memory, deferred, candidate, floorMode>>
vars == <<worldVars, recent, storeVars, memoryVars, job, sent>>

\* story, floor, given: the signal, and that it comes with its view;
\* market: the snapshot it is judged by; order: what it became;
\* batch: the deferred stories still to be retried.
Idle == [at |-> "idle", story |-> None, floor |-> FALSE, given |-> FALSE,
         market |-> None, order |-> None, batch |-> {}]

\* A signal that never had a position, and one whose position has left.
NoRow == [live |-> FALSE, opened |-> FALSE]
Left == [live |-> FALSE, opened |-> TRUE]

Minute == Phases[phase]
Age(s) == Minute - Phases[heard[s]] + IF late[s] THEN OldAge ELSE 0

LiveSignals == {g \in Signals : rows[g].live}
OpenedToday == {g \in Signals : rows[g].opened}

TypeOK ==
  /\ phase \in DOMAIN Phases /\ world \in Worlds
  /\ heard \in [Stories -> DOMAIN Phases \cup {None}] /\ late \in [Stories -> BOOLEAN]
  /\ recent \in Nat
  /\ DOMAIN rows = Signals
  /\ \A g \in LiveSignals : rows[g].qty \in Nat \ {0} /\ rows[g].legs \subseteq Legs
  /\ floorDate \in BOOLEAN /\ floorTried \in BOOLEAN
  /\ seen \subseteq Stories /\ memory \subseteq seen
  /\ deferred \subseteq Stories /\ Cardinality(deferred) <= MaxDeferred
  /\ candidate = None \/ candidate.story \in Stories
  /\ floorMode \in BOOLEAN
  /\ \A t \in Threads :
       job[t].at \in {"idle", "new", "account", "admit", "remember", "analyst", "judge", "decide", "enter", "ended"}
  /\ sent \in [Signals -> Nat]

Init ==
  /\ phase = 1 /\ world \in Worlds
  /\ heard = [s \in Stories |-> None] /\ late = [s \in Stories |-> FALSE]
  /\ recent = 0
  /\ rows = [g \in Signals |-> NoRow]
  /\ floorDate = FALSE /\ floorTried = FALSE
  /\ seen = {} /\ memory = {} /\ deferred = {} /\ candidate = None /\ floorMode = FALSE
  /\ job = [t \in Threads |-> Idle]
  /\ sent = [g \in Signals |-> 0]

-----------------------------------------------------------------------------
(* What the pipeline reads.                                                *)

\* market_state.
MarketNow ==
  [open |-> Minute < Closing, since |-> Minute,
   toClose |-> IF Minute < Closing THEN Closing - Minute ELSE 0,
   orders |-> recent, opened |-> Cardinality(OpenedToday)]

\* correlations(): the pairs of the names that are held.
HeldPairs ==
  {pair \in Correlations : \A n \in pair : \E g \in LiveSignals : rows[g].name = n}

MutantLegsOf(n) ==
  UNION {rows[g].legs : g \in {h \in LiveSignals : rows[h].name = n /\ IsCredit(rows[h].kind)}}

\* held_legs: by contract, over all positions.
LegsOf(n) == UNION {rows[g].legs : g \in {h \in LiveSignals : rows[h].name = n}}

MutantHeat == MapThenSumSet(LAMBDA g : rows[g].risk, LiveSignals)

Heat == MapThenSumSet(LAMBDA g : rows[g].risk * rows[g].qty, LiveSignals)

Count(n) == Cardinality({g \in LiveSignals : rows[g].name = n})

\* snapshot, _book_greeks, has_duplicate, held_legs: the book as it is.
Portfolio ==
  [heat |-> Heat,
   count |-> [n \in Names |-> Count(n)],
   delta |-> MapThenSumSet(LAMBDA g : rows[g].delta * rows[g].qty, LiveSignals),
   pairs |-> HeldPairs,
   legs |-> [n \in Names |-> LegsOf(n)],
   structures |-> {<<rows[g].name, rows[g].kind, rows[g].legs>> : g \in LiveSignals}]

\* build_structure: from the k-th strike of the chain.
LegsAt(kind, k) ==
  LET Leg(right, strike, side) == [right |-> right, strike |-> strike, side |-> side]
      Call(sold, bought) == {Leg("call", sold, "short"), Leg("call", bought, "long")}
      Put(sold, bought) == {Leg("put", sold, "short"), Leg("put", bought, "long")}
  IN  CASE kind = "call_debit_spread" -> Call(k + 1, k)
        [] kind = "bear_call_spread"  -> Call(k, k + 1)
        [] kind = "put_debit_spread"  -> Put(k, k + 1)
        [] kind = "bull_put_spread"   -> Put(k + 1, k)
        [] kind = "iron_condor"       -> Call(2, 3) \cup Put(2, 1)
        [] kind = "long_strangle"     -> {Leg("call", k + 1, "long"), Leg("put", k, "long")}

\* Delta-dollars of one spread.
DeltaOf(kind) ==
  CASE kind \in {"call_debit_spread", "bull_put_spread"} -> 900
    [] kind \in {"put_debit_spread", "bear_call_spread"} -> -900
    [] OTHER                                             -> 0

-----------------------------------------------------------------------------
(* The runner: hearing of a story.                                         *)

Goes(t, at) == job' = [job EXCEPT ![t].at = at]

\* What the thread was asked to do is over; the floor has to tidy up.
Ends(t, order) ==
  LET j == job[t]
  IN  job' = [job EXCEPT ![t] =
                IF j.floor THEN [j EXCEPT !.at = "ended", !.order = order]
                ELSE [Idle EXCEPT !.batch = j.batch,
                                  !.market = IF j.batch = {} THEN None ELSE j.market]]
Drops(t) == Ends(t, None)

Free(t) == job[t] = Idle

\* The socket's callback, or a story of the poll, which goes back a quarter
\* of an hour; it may be hours old.
Hears(t, s) ==
  /\ Free(t) /\ (t = "stream" => world.socket)
  /\ s \notin seen /\ heard[s] \in {None, phase}
  /\ heard' = [heard EXCEPT ![s] = phase]
  /\ \E old \in BOOLEAN : /\ heard[s] # None => old = late[s]
                          /\ late' = [late EXCEPT ![s] = old]
  /\ job' = [job EXCEPT ![t] = [Idle EXCEPT !.at = "new", !.story = s]]
  /\ UNCHANGED <<phase, world, recent, storeVars, memoryVars, sent>>

\* handle_news: only now is it in the set.
MarksSeen(t) ==
  /\ job[t].at = "new" /\ Goes(t, "account")
  /\ seen' = seen \cup {job[t].story}
  /\ UNCHANGED <<worldVars, recent, storeVars, memory, deferred, candidate, floorMode, sent>>

ReadsAccount(t) ==
  /\ job[t].at = "account"
  /\ job' = [job EXCEPT ![t].at = "admit", ![t].market = MarketNow]
  /\ UNCHANGED <<worldVars, recent, storeVars, memoryVars, sent>>

\* pipeline_error: the story is in the set and will not be heard again.
AccountFails(t) ==
  /\ "account" \in world.faults /\ job[t].at = "account" /\ Drops(t)
  /\ UNCHANGED <<worldVars, recent, storeVars, memoryVars, sent>>

-----------------------------------------------------------------------------
(* process_news.                                                           *)

Signal(t) == <<job[t].story, IF job[t].floor THEN "floor" ELSE "organic">>

MutantPositionExists(g) == rows[g].live

\* position_for_signal: of any status.
PositionExists(g) == rows[g] # NoRow

\* NewsFilter: fresh, and not a restatement of what it remembers.
Restated(s) ==
  \E m \in memory : News[m].name = News[s].name /\ News[m].topic = News[s].topic
Passes(s) == Age(s) <= MaxAge /\ ~Restated(s)

\* A story that comes with its view skips the filter and the analyst.
Admits(t) ==
  /\ job[t].at = "admit"
  /\ IF PositionExists(Signal(t)) \/ ~job[t].market.open THEN Drops(t)
     ELSE IF job[t].given THEN Goes(t, "judge")
     ELSE IF Passes(job[t].story) THEN Goes(t, "remember") ELSE Drops(t)
  /\ UNCHANGED <<worldVars, recent, storeVars, memoryVars, sent>>

\* Only after the other thread may have found it novel too.
Remembers(t) ==
  /\ job[t].at = "remember" /\ Goes(t, "analyst")
  /\ memory' = memory \cup {job[t].story}
  /\ UNCHANGED <<worldVars, recent, storeVars, seen, deferred, candidate, floorMode, sent>>

AnalystAnswers(t) ==
  /\ job[t].at = "analyst" /\ Goes(t, "judge")
  /\ UNCHANGED <<worldVars, recent, storeVars, memoryVars, sent>>

\* No view, or no quotes to judge it by.
AnalystFails(t) ==
  /\ "analyst" \in world.faults /\ job[t].at = "analyst" /\ Drops(t)
  /\ UNCHANGED <<worldVars, recent, storeVars, memoryVars, sent>>

\* _record_floor_candidate: the best of the day, if it leans at all.
Candidate(s, quote) ==
  LET lean == (100 * Magnitude(RemainingMove(News[s].expected, quote.realized) - quote.implied))
                \div quote.implied
  IN  IF lean < 8 \/ (candidate # None /\ candidate.lean >= lean) THEN candidate
      ELSE [story |-> s, lean |-> lean]

\* The edge test.
Judges(t, quote) ==
  LET s == job[t].story
      verdict == EdgeVerdict(News[s], quote, floorMode)
      relaxed == EdgeVerdict(News[s], quote, FALSE) = "fair"
  IN  /\ job[t].at = "judge"
      /\ IF verdict \in {"fair", "no"} THEN Drops(t)
         ELSE job' = [job EXCEPT ![t].at = "decide",
                                 ![t].order = [kind |-> Eligible(verdict, News[s].direction),
                                               relaxed |-> relaxed,
                                               score |-> RegimeScore(quote.factors)]]
      /\ candidate' = IF verdict = "fair" THEN Candidate(s, quote) ELSE candidate
      /\ UNCHANGED <<worldVars, recent, storeVars, seen, memory, deferred, floorMode, sent>>

\* Steps 5 to 6b: what the structure at strikes k becomes on such a day.
Order(t, k, risk, x) ==
  LET s == job[t].story
      kind == job[t].order.kind
      context == Times(Times(SizeMultiplier(job[t].order.score), IF x.macro THEN 6000 ELSE One),
                       Times(Times(HeatTaper(Heat), DrawdownTaper(x.daily)),
                             IF floorMode THEN 5000 ELSE One))
      qty == SizePosition(risk, Conviction(News[s].confidence, x.abstaining), context, x.losses, x.vol)
  IN  [name |-> News[s].name, kind |-> kind, legs |-> LegsAt(kind, k), risk |-> risk,
       delta |-> DeltaOf(kind), qty |-> FitDelta(qty, Portfolio.delta, DeltaOf(kind)),
       horizon |-> News[s].horizon, relaxed |-> job[t].order.relaxed]

MutantDeferrable(t, vetoes) == vetoes = {"market_window"} /\ ~floorMode

\* Refused by nothing but the opening auction: kept for one retry.
Deferrable(t, vetoes) ==
  /\ vetoes = {"market_window"} /\ job[t].market.since < SkipFirst
  /\ ~floorMode /\ Cardinality(deferred) < MaxDeferred

\* Sizing and the gate, on the book of this moment.
Decides(t, k, risk, x) ==
  /\ job[t].at = "decide"
  /\ \E order \in {Order(t, k, risk, x)}, book \in {Portfolio} :
       \E vetoes \in {Vetoes(order, job[t].market, book, x)} :
         LET sized == order.qty >= 1
         IN  /\ IF sized /\ vetoes = {}
                  THEN job' = [job EXCEPT ![t].at = "enter", ![t].order = order]
                  ELSE Drops(t)
             /\ deferred' = IF sized /\ Deferrable(t, vetoes) THEN deferred \cup {job[t].story}
                            ELSE deferred
  /\ UNCHANGED <<worldVars, recent, storeVars, seen, memory, candidate, floorMode, sent>>

\* The row, whatever it was, then the order; the same order a second time
\* has the same id, and the router suppresses it.
Enters(t) ==
  LET g == Signal(t)
      order == job[t].order
      suppressed == rows[g].live /\ rows[g].kind = order.kind /\ rows[g].legs = order.legs
  IN  /\ job[t].at = "enter" /\ Ends(t, order)
      /\ rows' = [rows EXCEPT ![g] =
                    [live |-> TRUE, opened |-> TRUE, name |-> order.name, kind |-> order.kind,
                     legs |-> order.legs, risk |-> order.risk, qty |-> order.qty,
                     delta |-> order.delta, relaxed |-> order.relaxed,
                     fresh |-> Age(job[t].story) <= MaxAge]]
      /\ recent' = Lesser(recent + 1, MaxPerMinute)
      /\ sent' = [sent EXCEPT ![g] = IF suppressed THEN @ ELSE @ + 1]
      /\ UNCHANGED <<worldVars, floorDate, floorTried, memoryVars>>

-----------------------------------------------------------------------------
(* The tick: what was deferred, then the floor.                            *)

WindowOpen == Minute < Closing /\ Minute >= SkipFirst

\* retry_deferred: one snapshot of the market for them all.
StartsRetry ==
  /\ Free("main") /\ deferred # {} /\ WindowOpen
  /\ job' = [job EXCEPT !["main"].batch = deferred, !["main"].market = MarketNow]
  /\ UNCHANGED <<worldVars, recent, storeVars, memoryVars, sent>>

\* Popped before it is processed: whatever comes of it is final.
Popped(s) == deferred \ {s}

MutantTooOld(s) == FALSE

TooOld(s) == Age(s) > MaxAge

Retries(s) ==
  LET j == job["main"]
      rest == j.batch \ {s}
  IN  /\ j.at = "idle" /\ s \in j.batch
      /\ deferred' = Popped(s)
      /\ job' = [job EXCEPT !["main"] =
                   IF ~TooOld(s)
                     THEN [@ EXCEPT !.at = "admit", !.story = s, !.given = TRUE, !.batch = rest]
                   ELSE IF rest = {} THEN Idle
                   ELSE [@ EXCEPT !.batch = rest]]
      /\ UNCHANGED <<worldVars, recent, storeVars, seen, memory, candidate, floorMode, sent>>

MutantFloorDue ==
  /\ Minute < Closing /\ Minute >= FloorTime
  /\ candidate # None /\ ~floorDate /\ ~floorTried

\* maybe_floor_trade's guards.
FloorDue ==
  /\ Minute < Closing /\ Minute >= FloorTime
  /\ candidate # None /\ ~floorDate /\ OpenedToday = {} /\ ~floorTried

StartsFloor ==
  /\ Free("main") /\ deferred = {} /\ FloorDue
  /\ floorTried' = TRUE /\ floorMode' = TRUE
  /\ job' = [job EXCEPT !["main"] =
               [Idle EXCEPT !.at = "admit", !.story = candidate.story, !.floor = TRUE,
                            !.given = TRUE, !.market = MarketNow]]
  /\ UNCHANGED <<worldVars, recent, rows, floorDate, seen, memory, deferred, candidate, sent>>

EndsFloor ==
  /\ job["main"].at = "ended"
  /\ floorMode' = FALSE
  /\ floorDate' = (floorDate \/ job["main"].order # None)
  /\ job' = [job EXCEPT !["main"] = Idle]
  /\ UNCHANGED <<worldVars, recent, rows, floorTried, seen, memory, deferred, candidate, sent>>

-----------------------------------------------------------------------------
(* The world.                                                              *)

PositionLeaves(g) ==
  /\ rows[g].live
  /\ rows' = [rows EXCEPT ![g] = Left]
  /\ UNCHANGED <<worldVars, recent, floorDate, floorTried, memoryVars, job, sent>>

\* Twenty minutes, and so the one, are over.
TimePasses ==
  /\ floorTried \/ recent > 0
  /\ floorTried' = FALSE /\ recent' = 0
  /\ UNCHANGED <<worldVars, rows, floorDate, memoryVars, job, sent>>

\* Hours pass only with a tick in them, and no story takes an hour.
NextPhase ==
  /\ phase < Len(Phases) /\ \A t \in Threads : Free(t)
  /\ WindowOpen => deferred = {}
  /\ phase' = phase + 1
  /\ recent' = 0 /\ floorTried' = FALSE
  /\ UNCHANGED <<world, heard, late, rows, floorDate, memoryVars, job, sent>>

Restart ==
  /\ "restart" \in world.faults
  /\ seen' = {} /\ memory' = {} /\ deferred' = {} /\ candidate' = None /\ floorMode' = FALSE
  /\ job' = [t \in Threads |-> Idle]
  /\ UNCHANGED <<worldVars, recent, storeVars, sent>>

Work(t) ==
  \/ MarksSeen(t) \/ ReadsAccount(t) \/ AccountFails(t) \/ Admits(t) \/ Remembers(t)
  \/ AnalystAnswers(t) \/ AnalystFails(t) \/ Enters(t)
  \/ \E quote \in Quotes : Judges(t, quote)
  \/ \E k \in {1, 3}, risk \in Risks, x \in Days : Decides(t, k, risk, x)

Next ==
  \/ \E t \in Threads : Work(t) \/ \E s \in Stories : Hears(t, s)
  \/ StartsRetry \/ StartsFloor \/ EndsFloor \/ TimePasses \/ NextPhase \/ Restart
  \/ \E s \in Stories : Retries(s)
  \/ \E g \in Signals : PositionLeaves(g)

Spec == Init /\ [][Next]_vars

-----------------------------------------------------------------------------
(* Properties.  A socket that works is a second thread: what the gate read *)
(* may have changed by the time the row is there.                          *)

\* A signal that produced a position never produces another, across restarts
\* that forget the stories seen, the deferral's retry and the floor.
OneEntryPerSignal == ~world.socket => \A g \in Signals : sent[g] <= 1

\* portfolio_heat_pct; with a second thread, but for the one entry it may
\* have had in hand.
HeatBounded ==
  MapThenSumSet(LAMBDA g : rows[g].risk * rows[g].qty, LiveSignals)
    <= HeatCap + IF world.socket THEN PositionCap ELSE 0

\* No contract is in two live positions, as long as no other thread trades.
LegsDisjoint ==
  ~world.socket => \A g, h \in LiveSignals : g # h /\ rows[g].name = rows[h].name =>
    \A a \in rows[g].legs, b \in rows[h].legs : a.right = b.right => a.strike # b.strike

\* "A contract held on both sides at once cannot happen", whoever trades.
HeldOneSided ==
  \A g, h \in LiveSignals, leg \in Legs : rows[g].name = rows[h].name /\ leg \in rows[g].legs =>
    [leg EXCEPT !.side = Opposed(leg.side)] \notin rows[h].legs

\* The floor trades only when nothing has traded that day, itself included,
\* and nothing but the floor trades inside the band.
FloorIsTheException ==
  [][~world.socket => \A g \in Signals : sent'[g] > sent[g] =>
       /\ g[2] = "floor" => OpenedToday = {}
       /\ rows'[g].relaxed => g[2] = "floor"]_vars

\* The retry is no way to trade old news.
EntriesAreFresh == \A g \in LiveSignals : g[2] = "organic" => rows[g].fresh
=============================================================================
