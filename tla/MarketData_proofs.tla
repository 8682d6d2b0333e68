-------------------------- MODULE MarketData_proofs --------------------------
(***************************************************************************)
(* For every number of threads, subjects, listed expiries and times to     *)
(* live: the types of MarketData; that nothing is served that the broker   *)
(* said longer ago than a time to live and one call; that the chain a      *)
(* thesis is judged on outlives it; that no broken quote becomes a spot;   *)
(* and that a structure that passes for liquid was.                        *)
(*                                                                         *)
(* IInv ties what the broker said to the stamp it was kept under, and      *)
(* every list of expiries, in a thread's hand or in the cache, to the      *)
(* horizon it was asked for.  SpotInv says the same of every spot, in a    *)
(* hand or in the cache.  SpreadInv follows a fair spread from the chain   *)
(* it was shown on, through the cache and the history, to the verdict: a   *)
(* median of three can only be fair if one of them was.                    *)
(***************************************************************************)
EXTENDS MarketData, FiniteSetTheorems, WellFoundedInduction, TLAPS

Phases == {"idle", "look", "fetch", "keep", "judge"}
Looking(t) == job[t].phase \in {"look", "fetch", "keep"}

IsJob(j) ==
  j = [at |-> j.at, phase |-> j.phase, horizon |-> j.horizon, expiry |-> j.expiry,
       tries |-> j.tries, value |-> j.value, old |-> j.old, chain |-> j.chain]

IsEntry(e) == e = [value |-> e.value, age |-> e.age, old |-> e.old]

\* An answer was as old as a call may last when it was stamped.
EntryInv(k, e) ==
  e # None => /\ IsEntry(e) /\ e.age \in 0 .. Ttl(k[1]) - 1
              /\ e.old \in 0 .. e.age + Patience

\* The expiries a thread may be given when it asks from lo on.
From(lo) == {e \in Expiries : lo <= e}
ListInv(k, e) == e # None /\ k[1] = "contracts" => e.value \subseteq From(k[2])

CacheInv ==
  /\ cache = [k \in Keys |-> cache[k]]
  /\ \A k \in Keys : EntryInv(k, cache[k]) /\ ListInv(k, cache[k])

\* A thread looks up what its method looks up.
AtInv(t) ==
  /\ job[t].at \in Nat
  /\ Looking(t) => job[t].at = 1 \/ (job[t].at = 2 /\ subject.method \in {"state", "chain"})

Outlives(e, h) == e \in Nat /\ e >= 3 /\ 24 * e > h

\* Once an expiry is chosen it outlives the thesis; a list in hand was asked
\* for from its key on.
ExpiryInv(t) ==
  /\ Looking(t) /\ subject.method = "chain" /\ job[t].at = 2 => Outlives(job[t].expiry, job[t].horizon)
  /\ job[t].phase = "judge" => Outlives(job[t].expiry, job[t].horizon)
  /\ job[t].phase = "keep" /\ Source(t) = "contracts" => job[t].value \subseteq From(ContractsKey(job[t].horizon))

JobInv(t) ==
  /\ IsJob(job[t]) /\ job[t].phase \in Phases
  /\ job[t].tries \in 0 .. ReadRetries /\ job[t].old \in 0 .. Patience
  /\ job[t].phase # "idle" => job[t].horizon \in subject.horizons
  /\ AtInv(t) /\ ExpiryInv(t)

JobsInv == job = [t \in Threads |-> job[t]] /\ \A t \in Threads : JobInv(t)

JudgedInv ==
  /\ judged = [t \in Threads |-> judged[t]]
  /\ \A t \in Threads : judged[t] # None => Outlives(judged[t].expiry, judged[t].horizon)

TraceInv ==
  /\ subject \in Subjects
  /\ DOMAIN history = Expiries \X Legs
  /\ lastTight \in [Expiries \X Legs -> 0 .. Long]

IInv == CacheInv /\ JobsInv /\ JudgedInv /\ TraceInv

-----------------------------------------------------------------------------
(* What the operators return.                                              *)

\* An entry lives for a while, and the longest trace is a count.
LEMMA Times ==
  /\ \A src : Ttl(src) \in Nat \ {0}
  /\ Long \in Nat /\ Long > Patience /\ Patience \in Nat /\ Patience >= 0
BY TtlAssumption DEF Ttl, Long

\* The first day asked for is three days away and after the horizon.
LEMMA FirstOutlives ==
  ASSUME NEW h \in Nat
  PROVE  First(h) \in Nat /\ First(h) >= 3 /\ 24 * First(h) > h
<1> DEFINE S == {3, h \div 24 + 1}
<1>1. h \div 24 + 1 \in Nat /\ 24 * (h \div 24 + 1) > h OBVIOUS
<1>2. \E x \in S : \A y \in S : x >= y BY <1>1
<1>3. First(h) \in S /\ \A y \in S : First(h) >= y BY <1>2 DEF First, Max
<1> QED BY <1>1, <1>3

\* A choice among some expiries is one of them.
LEMMA MinIsIn ==
  ASSUME NEW S, S \subseteq Nat, S # {}
  PROVE  Min(S) \in S
<1> DEFINE R == {p \in Nat \X Nat : p[1] < p[2]}
<1>1. IsWellFoundedOn(R, Nat) BY NatLessThanWellFounded DEF OpToRel
<1>2. PICK x \in S : \A y \in S : ~(<<y, x>> \in R) BY <1>1, WFMin
<1>3. ASSUME NEW y \in S PROVE x =< y
  <2>1. x \in Nat /\ y \in Nat OBVIOUS
  <2>2. ~(y < x)
    <3>1. <<y, x>> \notin R BY <1>2
    <3>2. <<y, x>> \in Nat \X Nat BY <2>1
    <3> QED BY <3>1, <3>2
  <2> QED BY <2>1, <2>2
<1> QED BY <1>2, <1>3 DEF Min

\* What is chosen from a list outlives what the list was asked for.
LEMMA ChoiceOutlives ==
  ASSUME NEW h \in Nat, NEW listed, listed \subseteq From(First(h)), listed # {}
  PROVE  Outlives(ChooseExpiry(listed), h)
<1>1. listed \subseteq Nat BY ExpiriesAssumption DEF From
<1>2. ChooseExpiry(listed) \in listed
  <2>1. CASE listed \cap Monthlies # {}
    <3>1. Min(listed \cap Monthlies) \in listed \cap Monthlies BY <1>1, <2>1, MinIsIn
    <3> QED BY <2>1, <3>1 DEF ChooseExpiry
  <2>2. CASE listed \cap Monthlies = {}
    <3>1. Min(listed) \in listed BY <1>1, MinIsIn
    <3> QED BY <2>2, <3>1 DEF ChooseExpiry
  <2> QED BY <2>1, <2>2
<1>3. /\ ChooseExpiry(listed) \in Nat /\ First(h) <= ChooseExpiry(listed)
      /\ First(h) \in Nat /\ First(h) >= 3 /\ 24 * First(h) > h
  BY <1>1, <1>2, FirstOutlives DEF From
<1> QED BY <1>3 DEF Outlives

\* What a thread that is looking looks up, and where in the cache.
LEMMA Looked ==
  ASSUME IInv, NEW t \in Threads, Looking(t)
  PROVE  /\ Source(t) \in {"clock", "session", "spot", "contracts", "snap", "events"}
         /\ Source(t) = "clock" => job[t].at = 1 /\ subject.method = "state"
         /\ Source(t) = "contracts" => job[t].at = 1 /\ subject.method = "chain" /\ Key(t) \in Keys
         /\ Source(t) = "snap" => job[t].at = 2 /\ subject.method = "chain"
         /\ Key(t)[1] = Source(t)
         /\ Source(t) = "contracts" => Key(t)[2] = ContractsKey(job[t].horizon)
<1>1. /\ subject \in Subjects
      /\ subject.method \in {"state", "spot", "chain", "events"}
      /\ job[t].at = 1 \/ (job[t].at = 2 /\ subject.method \in {"state", "chain"})
      /\ job[t].horizon \in subject.horizons
  BY SubjectsAssumption DEF IInv, TraceInv, JobsInv, JobInv, AtInv, Looking
<1>2. /\ Source(t) \in {"clock", "session", "spot", "contracts", "snap", "events"}
      /\ Source(t) = "clock" => job[t].at = 1 /\ subject.method = "state"
      /\ Source(t) = "contracts" => job[t].at = 1 /\ subject.method = "chain"
      /\ Source(t) = "snap" => job[t].at = 2 /\ subject.method = "chain"
  BY <1>1 DEF Source, Lookups
<1>3. Source(t) = "contracts" => Key(t) = <<"contracts", ContractsKey(job[t].horizon)>>
  BY DEF Key
<1>4. Source(t) = "contracts" => Key(t) \in Keys BY <1>1, <1>3 DEF Keys
<1>5. Key(t)[1] = Source(t) BY <1>2 DEF Key
<1> QED BY <1>2, <1>3, <1>4, <1>5

-----------------------------------------------------------------------------
(* One step.                                                               *)

\* What another thread does to its job leaves this one's as it was.
LEMMA OthersKeep ==
  ASSUME IInv, NEW t \in Threads, UNCHANGED subject,
         job' = [job EXCEPT ![t] = job'[t]], JobInv(t)'
  PROVE  JobsInv'
<1>1. job' = [u \in Threads |-> job'[u]] BY DEF IInv, JobsInv
<1>2. ASSUME NEW u \in Threads PROVE JobInv(u)'
  <2>1. CASE u = t BY <2>1
  <2>2. CASE u # t
    <3>1. job'[u] = job[u] BY <2>2 DEF IInv, JobsInv
    <3>2. JobInv(u) BY DEF IInv, JobsInv
    <3> QED
      BY <3>1, <3>2
      DEF JobInv, IsJob, AtInv, ExpiryInv, Looking, Source, Outlives
  <2> QED BY <2>1, <2>2
<1> QED BY <1>1, <1>2 DEF JobsInv

\* An idle job.
LEMMA IdleInv ==
  ASSUME NEW t \in Threads, job'[t] = Idle
  PROVE  JobInv(t)'
<1>1. job'[t].phase = "idle" /\ job'[t].at = 0 /\ job'[t].tries = 0 /\ job'[t].old = 0
      /\ IsJob(job'[t])
  BY DEF Idle, IsJob
<1>2. 0 \in 0 .. Patience /\ 0 \in 0 .. ReadRetries BY Times DEF ReadRetries
<1> QED BY <1>1, <1>2 DEF JobInv, AtInv, ExpiryInv, Looking, IsJob, Phases

\* A method that takes a list of expiries goes on with one that outlives it.
LEMMA TakesInv ==
  ASSUME IInv, NEW t \in Threads, Looking(t), NEW value, Takes(t, value), UNCHANGED subject,
         Source(t) = "contracts" => value \subseteq From(ContractsKey(job[t].horizon))
  PROVE  JobsInv'
<1> DEFINE j == [at |-> job[t].at + 1, phase |-> "look", horizon |-> job[t].horizon,
                  expiry |-> job[t].expiry, tries |-> 0, value |-> None, old |-> 0, chain |-> None]
<1>1. JobInv(t) /\ t \in DOMAIN job BY DEF IInv, JobsInv
<1>2. /\ job[t].horizon \in subject.horizons /\ job[t].horizon \in Nat /\ job[t].at \in Nat
      /\ 0 \in 0 .. Patience /\ 0 \in 0 .. ReadRetries
  BY <1>1, SubjectsAssumption, Times DEF JobInv, AtInv, Looking, IInv, TraceInv, ReadRetries
<1>3. j = [at |-> job[t].at + 1, phase |-> "look", horizon |-> job[t].horizon,
           expiry |-> job[t].expiry, tries |-> 0, value |-> None, old |-> 0, chain |-> None]
  BY DEF j
<1>4. job' = [job EXCEPT ![t] = job'[t]] BY DEF Takes
<1> HIDE DEF j
<1>5. CASE Source(t) = "clock"
  <2>1. job'[t] = j BY <1>1, <1>5 DEF Takes, j
  <2>2. job[t].at = 1 /\ subject.method = "state" BY <1>5, Looked
  <2>3. /\ IsJob(job'[t]) /\ job'[t].phase = "look" /\ job'[t].at = 2 /\ job'[t].tries = 0
        /\ job'[t].old = 0 /\ job'[t].horizon = job[t].horizon
    BY <1>3, <2>1, <2>2 DEF IsJob
  <2>4. JobInv(t)' BY <1>2, <2>2, <2>3 DEF JobInv, AtInv, ExpiryInv, Looking, Phases, IsJob
  <2> QED BY <1>4, <2>4, OthersKeep
<1>6. CASE Source(t) = "contracts" /\ value # {}
  <2> DEFINE e == ChooseExpiry(value)
  <2>1. job'[t] = [j EXCEPT !.expiry = e] BY <1>1, <1>6 DEF Takes, j
  <2>2. job[t].at = 1 /\ subject.method = "chain" BY <1>6, Looked
  <2>3. Outlives(e, job[t].horizon) BY <1>2, <1>6, ChoiceOutlives DEF ContractsKey
  <2> HIDE DEF e
  <2>4. /\ IsJob(job'[t]) /\ job'[t].phase = "look" /\ job'[t].at = 2 /\ job'[t].tries = 0
        /\ job'[t].old = 0 /\ job'[t].horizon = job[t].horizon /\ job'[t].expiry = e
    BY <1>3, <2>1, <2>2 DEF IsJob
  <2>5. JobInv(t)' BY <1>2, <2>2, <2>3, <2>4 DEF JobInv, AtInv, ExpiryInv, Looking, Phases, IsJob
  <2> QED BY <1>4, <2>5, OthersKeep
<1>7. CASE Source(t) = "snap"
  <2>1. job'[t] = [j EXCEPT !.phase = "judge", !.chain = value] BY <1>1, <1>7 DEF Takes, j
  <2>2. Outlives(job[t].expiry, job[t].horizon) BY <1>1, <1>7, Looked DEF JobInv, ExpiryInv
  <2>5. job'[t] = [at |-> job[t].at + 1, phase |-> "judge", horizon |-> job[t].horizon,
                   expiry |-> job[t].expiry, tries |-> 0, value |-> None, old |-> 0,
                   chain |-> value]
    BY <1>3, <2>1
  <2>6. job[t].at + 1 \in Nat BY <1>2
  <2>3. /\ IsJob(job'[t]) /\ job'[t].phase = "judge" /\ job'[t].at \in Nat /\ job'[t].tries = 0
        /\ job'[t].old = 0 /\ job'[t].horizon = job[t].horizon
        /\ job'[t].expiry = job[t].expiry
    BY <2>5, <2>6 DEF IsJob
  <2>4. JobInv(t)' BY <1>2, <2>2, <2>3 DEF JobInv, AtInv, ExpiryInv, Looking, Phases, IsJob
  <2> QED BY <1>4, <2>4, OthersKeep
<1>8. CASE ~(Source(t) = "clock" \/ (Source(t) = "contracts" /\ value # {}) \/ Source(t) = "snap")
  <2>1. job'[t] = Idle BY <1>1, <1>8 DEF Takes
  <2> QED BY <1>4, <2>1, IdleInv, OthersKeep
<1> QED BY <1>5, <1>6, <1>7, <1>8

\* The start.
LEMMA InitIInv == Init => IInv
<1> SUFFICES ASSUME Init PROVE IInv OBVIOUS
<1>1. CacheInv BY DEF Init, CacheInv, EntryInv, ListInv
<1>2. JobsInv
  <2>1. ASSUME NEW t \in Threads PROVE JobInv(t)
    <3>1. job[t] = Idle BY DEF Init
    <3>2. /\ job[t].phase = "idle" /\ job[t].at = 0 /\ job[t].tries = 0 /\ job[t].old = 0
          /\ IsJob(job[t])
      BY <3>1 DEF Idle, IsJob
    <3>3. 0 \in 0 .. Patience /\ 0 \in 0 .. ReadRetries BY Times DEF ReadRetries
    <3> QED BY <3>2, <3>3 DEF JobInv, AtInv, ExpiryInv, Looking, IsJob, Phases
  <2> QED BY <2>1 DEF Init, JobsInv
<1>3. JudgedInv BY DEF Init, JudgedInv
<1>4. TraceInv BY Times DEF Init, TraceInv
<1> QED BY <1>1, <1>2, <1>3, <1>4 DEF IInv

\* A call begins.
LEMMA AsksIInv ==
  ASSUME IInv, NEW t \in Threads, NEW h \in subject.horizons, Asks(t, h)
  PROVE  IInv'
<1>1. job'[t] = [at |-> 1, phase |-> "look", horizon |-> h, expiry |-> None, tries |-> 0,
                 value |-> None, old |-> 0, chain |-> None]
  BY DEF Asks, Idle, IInv, JobsInv
<1>2. 0 \in 0 .. Patience /\ 0 \in 0 .. ReadRetries BY Times DEF ReadRetries
<1>3. UNCHANGED subject /\ job' = [job EXCEPT ![t] = job'[t]] BY DEF Asks, IInv, JobsInv
<1>4. JobInv(t)'
  BY <1>1, <1>2, <1>3 DEF JobInv, AtInv, ExpiryInv, Looking, Phases, IsJob
<1>5. JobsInv' BY <1>3, <1>4, OthersKeep
<1>6. CacheInv' BY DEF Asks, IInv, CacheInv, EntryInv, IsEntry, ListInv, From, Ttl, Keys, ContractsKey, First
<1>7. JudgedInv' BY DEF Asks, IInv, JudgedInv, Outlives
<1>8. TraceInv' BY DEF Asks, IInv, TraceInv
<1> QED BY <1>5, <1>6, <1>7, <1>8 DEF IInv

\* Served from memory.
LEMMA HitIInv ==
  ASSUME IInv, NEW t \in Threads, Hit(t)
  PROVE  IInv'
<1>1. Looking(t) BY DEF Hit, Looking
<1>2. Source(t) = "contracts" => cache[Key(t)].value \subseteq From(ContractsKey(job[t].horizon))
  BY <1>1, Looked DEF Hit, IInv, CacheInv, ListInv
<1>3. JobsInv' BY <1>1, <1>2, TakesInv DEF Hit
<1>4. CacheInv' BY DEF Hit, IInv, CacheInv, EntryInv, IsEntry, ListInv, From, Ttl, Keys, ContractsKey, First
<1>5. JudgedInv' /\ TraceInv' BY DEF Hit, IInv, JudgedInv, Outlives, TraceInv
<1> QED BY <1>3, <1>4, <1>5 DEF IInv

\* The broker answers.
LEMMA ObservesIInv ==
  ASSUME IInv, NEW t \in Threads, Observes(t)
  PROVE  IInv'
<1>1. Looking(t) /\ JobInv(t) BY DEF Observes, Misses, Looking, IInv, JobsInv
<1>2. PICK value \in Answers(t) :
        /\ job' = [job EXCEPT ![t].phase = "keep", ![t].value = value]
        /\ lastTight' = [l \in Expiries \X Legs |->
                           IF Source(t) = "snap" /\ l[1] = job[t].expiry /\ value[l[2]] <= MaxSpread
                             THEN 0 ELSE lastTight[l]]
  BY DEF Observes
<1>3. UNCHANGED <<subject, cache, history, judged>> BY DEF Observes
<1>4. /\ IsJob(job'[t]) /\ job'[t].phase = "keep" /\ job'[t].value = value
      /\ job'[t].at = job[t].at /\ job'[t].tries = job[t].tries /\ job'[t].old = job[t].old
      /\ job'[t].horizon = job[t].horizon /\ job'[t].expiry = job[t].expiry
      /\ job' = [job EXCEPT ![t] = job'[t]]
  BY <1>1, <1>2 DEF IInv, JobsInv, JobInv, IsJob
<1>5. Source(t) = "contracts" => value \subseteq From(ContractsKey(job[t].horizon))
  BY <1>2 DEF Answers, Listed, From, ContractsKey
<1>6. Source(t)' = Source(t) BY <1>3, <1>4 DEF Source
<1>7. JobInv(t)'
  <2>1. AtInv(t)' BY <1>1, <1>3, <1>4 DEF JobInv, AtInv, Looking
  <2>2. ExpiryInv(t)'
    BY <1>1, <1>3, <1>4, <1>5, <1>6
    DEF JobInv, ExpiryInv, Looking, Outlives, From, ContractsKey, First
  <2>3. job'[t].horizon \in subject'.horizons BY <1>1, <1>3, <1>4 DEF JobInv, Looking
  <2> QED BY <1>1, <1>4, <2>1, <2>2, <2>3 DEF JobInv, Phases
<1>8. JobsInv' BY <1>3, <1>4, <1>7, OthersKeep
<1>9. CacheInv' BY <1>3 DEF IInv, CacheInv, EntryInv, IsEntry, ListInv, From, Ttl, Keys, ContractsKey, First
<1>10. JudgedInv' BY <1>3 DEF IInv, JudgedInv, Outlives
<1>11. TraceInv' BY <1>2, <1>3, Times DEF IInv, TraceInv
<1> QED BY <1>8, <1>9, <1>10, <1>11 DEF IInv

\* The broker does not.
LEMMA FailsIInv ==
  ASSUME IInv, NEW t \in Threads, Fails(t)
  PROVE  IInv'
<1>1. Looking(t) /\ JobInv(t) BY DEF Fails, Misses, Looking, IInv, JobsInv
<1>2. UNCHANGED <<subject, cache, history, judged, lastTight>> BY DEF Fails
<1>3. JobsInv'
  <2>1. CASE job[t].tries < Retries(Source(t)) /\ job' = [job EXCEPT ![t].phase = "fetch", ![t].tries = @ + 1]
    <3>1. job[t].tries + 1 \in 0 .. ReadRetries BY <1>1, <2>1 DEF JobInv, Retries, ReadRetries
    <3>2. /\ IsJob(job'[t]) /\ job'[t].phase = "fetch" /\ job'[t].tries = job[t].tries + 1
          /\ job'[t].at = job[t].at /\ job'[t].old = job[t].old
          /\ job'[t].horizon = job[t].horizon /\ job'[t].expiry = job[t].expiry
          /\ job' = [job EXCEPT ![t] = job'[t]]
      BY <1>1, <2>1, <3>1 DEF IInv, JobsInv, JobInv, IsJob
    <3>3. JobInv(t)'
      BY <1>1, <1>2, <3>1, <3>2 DEF JobInv, AtInv, ExpiryInv, Looking, Outlives, Phases
    <3> QED BY <1>2, <3>2, <3>3, OthersKeep
  <2>2. CASE job' = [job EXCEPT ![t] = Idle]
    <3>1. job'[t] = Idle /\ job' = [job EXCEPT ![t] = job'[t]] BY <2>2 DEF IInv, JobsInv
    <3> QED BY <1>2, <3>1, IdleInv, OthersKeep
  <2> QED BY <2>1, <2>2 DEF Fails
<1>4. CacheInv' BY <1>2 DEF IInv, CacheInv, EntryInv, IsEntry, ListInv, From, Ttl, Keys, ContractsKey, First
<1>5. JudgedInv' /\ TraceInv' BY <1>2 DEF IInv, JudgedInv, Outlives, TraceInv
<1> QED BY <1>3, <1>4, <1>5 DEF IInv

\* An answer is kept, under the key it was asked for.
LEMMA KeepsIInv ==
  ASSUME IInv, NEW t \in Threads, Keeps(t)
  PROVE  IInv'
<1> DEFINE e == [value |-> job[t].value, age |-> 0, old |-> job[t].old]
<1>1. Looking(t) /\ JobInv(t) BY DEF Keeps, Looking, IInv, JobsInv
<1>2. UNCHANGED <<subject, history, judged, lastTight>> /\ cache' = [cache EXCEPT ![Key(t)] = e]
  BY DEF Keeps
<1>3. Source(t) = "contracts" => job[t].value \subseteq From(ContractsKey(job[t].horizon))
  BY <1>1 DEF JobInv, ExpiryInv, Keeps
<1>4. JobsInv' BY <1>1, <1>2, <1>3, TakesInv DEF Keeps
<1>5. CacheInv'
  <2>1. /\ e.age \in 0 .. Ttl(Key(t)[1]) - 1 /\ e.old \in 0 .. e.age + Patience /\ IsEntry(e)
    BY <1>1, Times DEF JobInv, IsEntry
  <2>2. EntryInv(Key(t), e) BY <2>1 DEF EntryInv
  <2>3. ListInv(Key(t), e) BY <1>1, <1>3, Looked DEF ListInv
  <2>4. Keys' = Keys BY <1>2 DEF Keys, ContractsKey, First
  <2> HIDE DEF e
  <2>5. ASSUME NEW k \in Keys PROVE EntryInv(k, cache'[k]) /\ ListInv(k, cache'[k])
    <3>1. CASE k = Key(t)
      <4>1. cache'[k] = e BY <1>2, <3>1 DEF IInv, CacheInv
      <4> QED BY <2>2, <2>3, <3>1, <4>1
    <3>2. CASE k # Key(t)
      <4>1. cache'[k] = cache[k] BY <1>2, <3>2 DEF IInv, CacheInv
      <4>2. EntryInv(k, cache[k]) /\ ListInv(k, cache[k]) BY DEF IInv, CacheInv
      <4> QED BY <4>1, <4>2
    <3> QED BY <3>1, <3>2
  <2>6. cache' = [k \in Keys |-> cache'[k]] BY <1>2 DEF IInv, CacheInv
  <2> QED BY <2>4, <2>5, <2>6 DEF CacheInv, EntryInv, IsEntry, ListInv, From, Ttl
<1>6. JudgedInv' /\ TraceInv' BY <1>2 DEF IInv, JudgedInv, Outlives, TraceInv
<1> QED BY <1>4, <1>5, <1>6 DEF IInv

\* A chain is judged, or its story ends before.
LEMMA JudgesIInv ==
  ASSUME IInv, NEW t \in Threads, Judges(t) \/ Refused(t)
  PROVE  IInv'
<1>1. /\ UNCHANGED <<subject, cache, lastTight>> /\ job[t].phase = "judge"
      /\ job' = [job EXCEPT ![t] = Idle] /\ DOMAIN history' = DOMAIN history
  BY DEF Judges, Refused
<1>2. job'[t] = Idle /\ job' = [job EXCEPT ![t] = job'[t]] BY <1>1 DEF IInv, JobsInv
<1>3. JobsInv' BY <1>1, <1>2, IdleInv, OthersKeep
<1>4. JudgedInv'
  <2>1. CASE Judges(t)
    <3>1. PICK liquid : judged' = [judged EXCEPT ![t] =
              [horizon |-> job[t].horizon, expiry |-> job[t].expiry, liquid |-> liquid]]
      BY <2>1 DEF Judges
    <3>2. Outlives(job[t].expiry, job[t].horizon) BY <1>1 DEF IInv, JobsInv, JobInv, ExpiryInv
    <3> QED BY <3>1, <3>2 DEF IInv, JudgedInv, Outlives
  <2>2. CASE Refused(t) BY <2>2 DEF Refused, IInv, JudgedInv, Outlives
  <2> QED BY <2>1, <2>2
<1>5. CacheInv' BY <1>1 DEF IInv, CacheInv, EntryInv, IsEntry, ListInv, From, Ttl, Keys, ContractsKey, First
<1>6. TraceInv' BY <1>1 DEF IInv, TraceInv
<1> QED BY <1>3, <1>4, <1>5, <1>6 DEF IInv

\* A moment passes: what the broker said ages with its stamp.
LEMMA TimeIInv == ASSUME IInv, TimePasses PROVE IInv'
<1>1. /\ UNCHANGED subject /\ cache' = [k \in Keys |-> Older(k, cache[k])]
      /\ job' = [t \in Threads |-> IF Waits(t) THEN [job[t] EXCEPT !.old = @ + 1] ELSE job[t]]
      /\ judged' = [t \in Threads |-> None]
      /\ \A t \in Threads : Waits(t) => job[t].old < Patience
  BY DEF TimePasses
<1>2. Keys' = Keys BY <1>1 DEF Keys, ContractsKey, First
<1>3. ASSUME NEW k \in Keys PROVE EntryInv(k, cache'[k]) /\ ListInv(k, cache'[k])
  <2> DEFINE e == cache[k]
  <2>1. EntryInv(k, e) /\ ListInv(k, e) BY DEF IInv, CacheInv
  <2>2. cache'[k] = Older(k, e) BY <1>1
  <2> HIDE DEF e
  <2>3. CASE e = None \/ Expired(k, e) BY <2>2, <2>3 DEF Older, EntryInv, ListInv
  <2>4. CASE ~(e = None \/ Expired(k, e))
    <3>1. /\ e.age \in Nat /\ e.old \in 0 .. e.age + Patience /\ e.age + 1 < Ttl(k[1])
      BY <2>1, <2>4, Times DEF EntryInv, Expired
    <3>2. cache'[k] = [e EXCEPT !.age = @ + 1, !.old = @ + 1] BY <2>2, <2>4 DEF Older
    <3>3. cache'[k] = [value |-> e.value, age |-> e.age + 1, old |-> e.old + 1]
      BY <2>1, <2>4, <3>1, <3>2 DEF EntryInv, IsEntry
    <3>4. e.age + 1 \in 0 .. Ttl(k[1]) - 1 /\ e.old + 1 \in 0 .. e.age + 1 + Patience
      BY <3>1, Times
    <3>5. EntryInv(k, cache'[k]) BY <3>3, <3>4 DEF EntryInv, IsEntry
    <3>6. ListInv(k, cache'[k]) BY <2>1, <2>4, <3>3 DEF ListInv
    <3> QED BY <3>5, <3>6
  <2> QED BY <2>3, <2>4
<1>4. CacheInv' BY <1>1, <1>2, <1>3 DEF CacheInv, EntryInv, IsEntry, ListInv, From, Ttl
<1>5. ASSUME NEW t \in Threads PROVE JobInv(t)'
  <2>1. JobInv(t) BY DEF IInv, JobsInv
  <2>2. CASE ~Waits(t)
    <3>1. job'[t] = job[t] BY <1>1, <2>2
    <3> QED
      BY <1>1, <2>1, <3>1
      DEF JobInv, IsJob, AtInv, ExpiryInv, Looking, Source, Outlives, From, ContractsKey, First
  <2>3. CASE Waits(t)
    <3>1. job'[t] = [job[t] EXCEPT !.old = @ + 1] BY <1>1, <2>3
    <3>2. job[t].old + 1 \in 0 .. Patience BY <1>1, <2>1, <2>3, Times DEF JobInv
    <3>3. /\ IsJob(job'[t]) /\ job'[t].phase = job[t].phase /\ job'[t].at = job[t].at
          /\ job'[t].tries = job[t].tries /\ job'[t].value = job[t].value
          /\ job'[t].horizon = job[t].horizon /\ job'[t].expiry = job[t].expiry
          /\ job'[t].old = job[t].old + 1
      BY <2>1, <3>1, <3>2 DEF JobInv, IsJob
    <3>4. Source(t)' = Source(t) BY <1>1, <3>3 DEF Source
    <3>5. AtInv(t)' BY <1>1, <2>1, <3>3 DEF JobInv, AtInv, Looking
    <3>6. ExpiryInv(t)'
      BY <1>1, <2>1, <3>3, <3>4
      DEF JobInv, ExpiryInv, Looking, Outlives, From, ContractsKey, First
    <3> QED BY <1>1, <2>1, <3>2, <3>3, <3>5, <3>6 DEF JobInv
  <2> QED BY <2>2, <2>3
<1>6. JobsInv' BY <1>1, <1>5 DEF JobsInv
<1>7. JudgedInv' BY <1>1 DEF JudgedInv
<1>8. DOMAIN history' = DOMAIN history /\ lastTight' = [l \in DOMAIN lastTight |-> Aged(lastTight[l], Long)]
  BY DEF TimePasses
<1>9. ASSUME NEW l \in Expiries \X Legs PROVE lastTight'[l] \in 0 .. Long
  <2>1. lastTight[l] \in 0 .. Long /\ DOMAIN lastTight = Expiries \X Legs BY DEF IInv, TraceInv
  <2>2. lastTight'[l] = Aged(lastTight[l], Long) BY <1>8, <2>1
  <2> QED BY <2>1, <2>2, Times DEF Aged
<1>10. TraceInv' BY <1>1, <1>8, <1>9 DEF IInv, TraceInv
<1> QED BY <1>4, <1>6, <1>7, <1>10 DEF IInv

\* Nothing happens.
LEMMA StutterIInv == ASSUME IInv, UNCHANGED vars PROVE IInv'
<1>1. CacheInv'
  BY DEF vars, IInv, CacheInv, EntryInv, IsEntry, ListInv, From, Ttl, Keys, ContractsKey, First
<1>2. JobsInv'
  <2>1. ASSUME NEW t \in Threads PROVE JobInv(t)'
    BY DEF vars, IInv, JobsInv, JobInv, IsJob, AtInv, ExpiryInv, Looking, Source, Outlives,
           From, ContractsKey, First
  <2> QED BY <2>1 DEF vars, IInv, JobsInv
<1>3. JudgedInv' /\ TraceInv' BY DEF vars, IInv, JudgedInv, Outlives, TraceInv
<1> QED BY <1>1, <1>2, <1>3 DEF IInv

-----------------------------------------------------------------------------
(* What an answer is worth: the spot.                                      *)

\* A doubled price that is within 21% of where the stock trades.
Near(v) == v \in Nat /\ 79 * 2 * Price <= 100 * v /\ 100 * v <= 121 * 2 * Price

\* So is every spot in the cache or in a thread's hand.
SpotInv ==
  /\ cache[<<"spot", 0>>] # None => Near(cache[<<"spot", 0>>].value)
  /\ \A t \in Threads : job[t].phase = "keep" /\ Source(t) = "spot" => Near(job[t].value)

\* What is made of a quote and a print.
LEMMA SpotIsNear ==
  ASSUME PrintsNearby, NEW r \in Readings, SpotOf(r) # None
  PROVE  Near(SpotOf(r))
<1> DEFINE mid == r.bid + r.ask
<1>1. Price \in Nat /\ r.bid \in Nat /\ r.ask \in Nat /\ mid \in Nat
  BY PriceAssumption DEF PrintsNearby
<1>2. CASE Sane(r) /\ r.print = None
  <2>1. SpotOf(r) = mid BY <1>2 DEF SpotOf
  <2>2. 8 * Price <= 5 * mid /\ 5 * mid <= 12 * Price BY <1>2 DEF PrintsNearby
  <2> HIDE DEF mid
  <2> QED BY <1>1, <2>1, <2>2 DEF Near
<1>3. CASE r.print # None
  <2>1. r.print \in Nat /\ 9 * Price <= 10 * r.print /\ 10 * r.print <= 11 * Price
    BY <1>3 DEF PrintsNearby
  <2>2. CASE Sane(r) /\ ~Disagree(r)
    <3>1. SpotOf(r) = mid BY <2>2 DEF SpotOf
    <3>2. 18 * r.print <= 10 * mid /\ 10 * mid <= 22 * r.print
      <4>1. 10 * (mid - 2 * r.print) <= 2 * r.print /\ 10 * (mid - 2 * r.print) >= -2 * r.print
        BY <1>1, <2>1, <2>2 DEF Disagree
      <4> HIDE DEF mid
      <4> QED BY <1>1, <2>1, <4>1
    <3> HIDE DEF mid
    <3> QED BY <1>1, <2>1, <3>1, <3>2 DEF Near
  <2>3. CASE ~(Sane(r) /\ ~Disagree(r))
    <3>1. SpotOf(r) = 2 * r.print BY <1>3, <2>3 DEF SpotOf
    <3> QED BY <1>1, <2>1, <3>1 DEF Near
  <2> QED BY <2>2, <2>3
<1>4. ~Sane(r) /\ r.print = None => SpotOf(r) = None BY DEF SpotOf
<1> QED BY <1>2, <1>3, <1>4

\* A thread that goes on with what it was given keeps nothing.
LEMMA TakesOn ==
  ASSUME IInv, NEW t \in Threads, NEW value, Takes(t, value)
  PROVE  /\ job' = [job EXCEPT ![t] = job'[t]] /\ job'[t].phase \in {"look", "judge", "idle"}
         /\ job'[t].phase = "judge" =>
              Source(t) = "snap" /\ job'[t].chain = value /\ job'[t].expiry = job[t].expiry
         /\ job'[t].old = 0
         /\ job'[t].phase = "look" =>
              \/ Source(t) = "clock" /\ job'[t].expiry = job[t].expiry
              \/ Source(t) = "contracts" /\ value # {} /\ job'[t].expiry = ChooseExpiry(value)
<1> DEFINE j == [at |-> job[t].at + 1, phase |-> "look", horizon |-> job[t].horizon,
                  expiry |-> job[t].expiry, tries |-> 0, value |-> None, old |-> 0, chain |-> None]
<1>1. /\ j.phase = "look" /\ j.expiry = job[t].expiry /\ j.old = 0
      /\ j = [at |-> j.at, phase |-> j.phase, horizon |-> j.horizon, expiry |-> j.expiry,
              tries |-> j.tries, value |-> j.value, old |-> j.old, chain |-> j.chain]
  OBVIOUS
<1>2. /\ job' = [job EXCEPT ![t] = job'[t]]
      /\ \/ Source(t) = "clock" /\ job'[t] = j
         \/ /\ Source(t) = "contracts" /\ value # {}
            /\ job'[t] = [j EXCEPT !.expiry = ChooseExpiry(value)]
         \/ Source(t) = "snap" /\ job'[t] = [j EXCEPT !.phase = "judge", !.chain = value]
         \/ job'[t] = Idle
  BY DEF Takes, IInv, JobsInv
<1> DEFINE e == ChooseExpiry(value)
<1> HIDE DEF j, e
<1>3. [j EXCEPT !.expiry = e].phase = "look" /\ [j EXCEPT !.expiry = e].expiry = e
      /\ [j EXCEPT !.expiry = e].old = 0
  BY <1>1
<1>4. /\ [j EXCEPT !.phase = "judge", !.chain = value].phase = "judge"
      /\ [j EXCEPT !.phase = "judge", !.chain = value].chain = value
      /\ [j EXCEPT !.phase = "judge", !.chain = value].expiry = job[t].expiry
      /\ [j EXCEPT !.phase = "judge", !.chain = value].old = 0
  BY <1>1
<1>5. Idle.phase = "idle" /\ Idle.old = 0 BY DEF Idle
<1> QED BY <1>1, <1>2, <1>3, <1>4, <1>5 DEF e

\* Another thread's job says what it said.
LEMMA OthersSay ==
  ASSUME IInv, NEW t \in Threads, UNCHANGED subject, job' = [job EXCEPT ![t] = job'[t]],
         NEW u \in Threads, u # t
  PROVE  job'[u] = job[u] /\ Source(u)' = Source(u)
BY DEF IInv, JobsInv, Source

\* A spot stays in the cache, or one that was in hand is kept.
LEMMA SpotStep ==
  ASSUME PrintsNearby, IInv, SpotInv, [Next]_vars
  PROVE  SpotInv'
<1> DEFINE k == <<"spot", 0>>
<1>1. k \in Keys BY DEF Keys
<1>2. ASSUME NEW t \in Threads, UNCHANGED <<subject, cache>>, job' = [job EXCEPT ![t] = job'[t]],
             job'[t].phase = "keep" /\ Source(t)' = "spot" => Near(job'[t].value)
      PROVE  SpotInv'
  BY <1>2, OthersSay DEF SpotInv
<1>3. ASSUME NEW t \in Threads, (\E h \in subject.horizons : Asks(t, h)) \/ Judges(t) \/ Refused(t)
      PROVE  SpotInv'
  <2>1. /\ UNCHANGED <<subject, cache>> /\ job' = [job EXCEPT ![t] = job'[t]]
        /\ job'[t].phase # "keep"
    <3>1. ASSUME NEW h \in subject.horizons, Asks(t, h) PROVE job'[t].phase = "look"
      BY <3>1 DEF Asks, Idle, IInv, JobsInv
    <3>2. Judges(t) \/ Refused(t) => job'[t].phase = "idle"
      BY DEF Judges, Refused, Idle, IInv, JobsInv
    <3>3. UNCHANGED <<subject, cache>> /\ job' = [job EXCEPT ![t] = job'[t]]
      BY <1>3 DEF Asks, Judges, Refused, IInv, JobsInv
    <3> QED BY <1>3, <3>1, <3>2, <3>3
  <2> QED BY <1>2, <2>1
<1>4. ASSUME NEW t \in Threads, Hit(t) PROVE SpotInv'
  <2>1. UNCHANGED <<subject, cache>> /\ job' = [job EXCEPT ![t] = job'[t]]
        /\ job'[t].phase # "keep"
    BY <1>4, TakesOn DEF Hit
  <2> QED BY <1>2, <2>1
<1>5. ASSUME NEW t \in Threads, Observes(t) PROVE SpotInv'
  <2>1. PICK value \in Answers(t) : job' = [job EXCEPT ![t].phase = "keep", ![t].value = value]
    BY <1>5 DEF Observes
  <2>2. UNCHANGED <<subject, cache>> BY <1>5 DEF Observes
  <2>3. job' = [job EXCEPT ![t] = job'[t]] /\ job'[t].value = value /\ job'[t].at = job[t].at
    <3> DEFINE j == job[t]
    <3>1. job'[t] = [j EXCEPT !.phase = "keep", !.value = value] /\ IsJob(j)
      BY <2>1 DEF IInv, JobsInv, JobInv
    <3>2. job' = [job EXCEPT ![t] = job'[t]] BY <2>1 DEF IInv, JobsInv
    <3> HIDE DEF j
    <3>3. job'[t].value = value /\ job'[t].at = j.at BY <3>1 DEF IsJob
    <3> QED BY <3>2, <3>3 DEF j
  <2>4. Source(t)' = Source(t) BY <2>2, <2>3 DEF Source
  <2>5. Source(t) = "spot" => Near(value)
    <3>1. Source(t) = "spot" => \E r \in Readings : value = SpotOf(r) /\ SpotOf(r) # None
      BY <2>1 DEF Answers
    <3> QED BY <3>1, SpotIsNear
  <2> QED BY <1>2, <2>2, <2>3, <2>4, <2>5
<1>6. ASSUME NEW t \in Threads, Fails(t) PROVE SpotInv'
  <2>1. UNCHANGED <<subject, cache>> /\ job' = [job EXCEPT ![t] = job'[t]]
        /\ job'[t].phase # "keep"
    BY <1>6 DEF Fails, Idle, IInv, JobsInv, JobInv, IsJob
  <2> QED BY <1>2, <2>1
<1>7. ASSUME NEW t \in Threads, Keeps(t) PROVE SpotInv'
  <2>1. /\ UNCHANGED subject /\ job[t].phase = "keep"
        /\ cache' = [cache EXCEPT ![Key(t)] = [value |-> job[t].value, age |-> 0, old |-> job[t].old]]
    BY <1>7 DEF Keeps
  <2>2. job' = [job EXCEPT ![t] = job'[t]] /\ job'[t].phase # "keep" BY <1>7, TakesOn DEF Keeps
  <2>3. Key(t)[1] = Source(t) BY <2>1, Looked DEF Looking
  <2>4. CASE Key(t) = k
    <3>1. cache'[k].value = job[t].value BY <1>1, <2>1, <2>4 DEF IInv, CacheInv
    <3>2. Near(job[t].value) BY <2>1, <2>3, <2>4 DEF SpotInv
    <3> QED BY <2>1, <2>2, <3>1, <3>2, OthersSay DEF SpotInv
  <2>5. CASE Key(t) # k
    <3>1. cache'[k] = cache[k] BY <2>1, <2>5 DEF IInv, CacheInv
    <3> QED BY <2>1, <2>2, <3>1, OthersSay DEF SpotInv
  <2> QED BY <2>4, <2>5
<1>8. CASE TimePasses
  <2>1. cache'[k] = Older(k, cache[k]) /\ UNCHANGED subject BY <1>1, <1>8 DEF TimePasses
  <2>2. cache'[k] # None => cache[k] # None /\ cache'[k].value = cache[k].value
    <3>1. cache[k] # None => IsEntry(cache[k]) BY <1>1 DEF IInv, CacheInv, EntryInv
    <3> DEFINE e == cache[k]
    <3>2. e # None => IsEntry(e) BY <3>1
    <3>3. cache'[k] = None \/ (e # None /\ cache'[k] = [e EXCEPT !.age = @ + 1, !.old = @ + 1])
      BY <2>1 DEF Older
    <3> HIDE DEF e
    <3>4. cache'[k] # None => e # None /\ cache'[k].value = e.value BY <3>2, <3>3 DEF IsEntry
    <3> QED BY <3>4 DEF e
  <2>3. ASSUME NEW t \in Threads
        PROVE  job'[t].phase = job[t].phase /\ job'[t].value = job[t].value /\ job'[t].at = job[t].at
    <3>1. job'[t] = job[t] \/ job'[t] = [job[t] EXCEPT !.old = @ + 1] BY <1>8 DEF TimePasses
    <3>2. IsJob(job[t]) BY DEF IInv, JobsInv, JobInv
    <3> DEFINE j == job[t]
    <3>3. (job'[t] = j \/ job'[t] = [j EXCEPT !.old = @ + 1]) /\ IsJob(j) BY <3>1, <3>2
    <3> HIDE DEF j
    <3>4. job'[t].phase = j.phase /\ job'[t].value = j.value /\ job'[t].at = j.at
      BY <3>3 DEF IsJob
    <3> QED BY <3>4 DEF j
  <2>4. \A t \in Threads : Source(t)' = Source(t) BY <2>1, <2>3 DEF Source
  <2> QED BY <2>2, <2>3, <2>4 DEF SpotInv
<1>9. CASE UNCHANGED vars BY <1>9 DEF vars, SpotInv, Source
<1> QED BY <1>3, <1>4, <1>5, <1>6, <1>7, <1>8, <1>9 DEF Next

-----------------------------------------------------------------------------
(* What an answer is worth: the spread of a leg.                           *)

\* Which of some numbers are no more than x, and which are less.
UpTo(f, S, x) == {i \in S : f[i] <= x}
Below(f, S, x) == {i \in S : f[i] < x}

\* A part of the first n numbers has at most n.
LEMMA PartCount ==
  ASSUME NEW n \in Nat, NEW S \in SUBSET (1 .. n)
  PROVE  IsFiniteSet(S) /\ Cardinality(S) \in 0 .. n
<1>1. IsFiniteSet(1 .. n) /\ Cardinality(1 .. n) = n BY FS_Interval
<1>2. IsFiniteSet(S) /\ Cardinality(S) <= n BY <1>1, FS_Subset
<1> QED BY <1>2, FS_CardinalityType

\* Some numbers that were seen, of which one is the greatest.
LEMMA GreatestIsIn ==
  ASSUME NEW n \in Nat, NEW f \in [1 .. n -> Nat], NEW S \in SUBSET (1 .. n), S # {}
  PROVE  \E j \in S : \A i \in S : f[i] <= f[j]
<1> DEFINE Rest(j) == n - Cardinality(UpTo(f, S, f[j]))
           R == {p \in Nat \X Nat : p[1] < p[2]}
           T == {Rest(j) : j \in S}
<1>1. ASSUME NEW j \in S
      PROVE  /\ IsFiniteSet(UpTo(f, S, f[j])) /\ Cardinality(UpTo(f, S, f[j])) \in 0 .. n
             /\ Rest(j) \in Nat
  <2>1. UpTo(f, S, f[j]) \in SUBSET (1 .. n) BY DEF UpTo
  <2>2. IsFiniteSet(UpTo(f, S, f[j])) /\ Cardinality(UpTo(f, S, f[j])) \in 0 .. n
    BY <2>1, PartCount
  <2> QED BY <2>2
<1>2. T \in SUBSET Nat /\ T # {}
  <2> HIDE DEF Rest
  <2> QED BY <1>1
<1>3. IsWellFoundedOn(R, Nat) BY NatLessThanWellFounded DEF OpToRel
<1>4. PICK m \in T : \A k \in T : <<k, m>> \notin R
  <2> HIDE DEF T, R
  <2> QED BY <1>2, <1>3, WFMin
<1>5. PICK j \in S : m = Rest(j) BY <1>4
<1>6. ASSUME NEW i \in S, ~(f[i] <= f[j]) PROVE FALSE
  <2> DEFINE X == UpTo(f, S, f[j])
             Y == UpTo(f, S, f[i])
  <2>1. f[i] \in Nat /\ f[j] \in Nat OBVIOUS
  <2>2. X \in SUBSET Y
    <3>1. ASSUME NEW h \in S, f[h] <= f[j] PROVE f[h] <= f[i]
      <4>1. f[h] \in Nat OBVIOUS
      <4> QED BY <1>6, <2>1, <3>1, <4>1
    <3> QED BY <3>1 DEF UpTo
  <2>3. i \in Y /\ i \notin X BY <1>6, <2>1 DEF UpTo
  <2>4. IsFiniteSet(Y) /\ Cardinality(X) \in 0 .. n /\ Cardinality(Y) \in 0 .. n BY <1>1
  <2>5. Rest(i) \in T /\ Rest(i) = n - Cardinality(Y) /\ Rest(j) = n - Cardinality(X) OBVIOUS
  <2> HIDE DEF X, Y, Rest, T
  <2>6. Cardinality(X) <= Cardinality(Y) /\ Cardinality(X) # Cardinality(Y)
    BY <2>2, <2>3, <2>4, FS_Subset
  <2>7. Rest(i) < Rest(j) /\ Rest(i) \in Nat /\ Rest(j) \in Nat BY <2>4, <2>5, <2>6
  <2>8. <<Rest(i), Rest(j)>> \in R BY <2>7
  <2> QED BY <1>4, <1>5, <2>5, <2>8
<1> QED BY <1>6

\* Every one of them has its place among the others.
LEMMA KthIsIn ==
  ASSUME NEW n \in Nat, NEW f \in [1 .. n -> Nat], NEW k \in 1 .. n
  PROVE  Kth(f, k) \in {f[i] : i \in 1 .. n}
<1> DEFINE I == 1 .. n
           C == {x \in {f[i] : i \in I} : k <= Cardinality(UpTo(f, I, x))}
<1>1. C \in SUBSET Nat /\ C # {}
  <2>1. I # {} /\ I \in SUBSET (1 .. n) OBVIOUS
  <2>2. PICK j \in I : \A i \in I : f[i] <= f[j] BY <2>1, GreatestIsIn
  <2>3. UpTo(f, I, f[j]) = I BY <2>2 DEF UpTo
  <2>4. k <= Cardinality(I) BY FS_Interval
  <2>5. f[j] \in C BY <2>3, <2>4
  <2>6. C \in SUBSET Nat OBVIOUS
  <2> QED BY <2>5, <2>6
<1>2. PICK x \in C : \A y \in C : x <= y
  <2> DEFINE R == {p \in Nat \X Nat : p[1] < p[2]}
  <2> HIDE DEF C
  <2>1. IsWellFoundedOn(R, Nat) BY NatLessThanWellFounded DEF OpToRel
  <2>2. PICK x \in C : \A y \in C : <<y, x>> \notin R BY <1>1, <2>1, WFMin
  <2>3. ASSUME NEW y \in C PROVE x <= y
    <3>1. x \in Nat /\ y \in Nat BY <1>1
    <3>2. ~(y < x) BY <2>2, <3>1
    <3> QED BY <3>1, <3>2
  <2> QED BY <2>3
<1>3. Cardinality(Below(f, I, x)) < k
  <2> DEFINE B == Below(f, I, x)
  <2>1. B \in SUBSET (1 .. n) BY DEF Below
  <2>2. IsFiniteSet(B) /\ Cardinality(B) \in Nat BY <2>1, PartCount
  <2> SUFFICES ASSUME k <= Cardinality(B) PROVE FALSE BY <2>2
  <2>3. B # {}
    <3> HIDE DEF B
    <3> QED BY <2>2, FS_EmptySet
  <2>4. PICK j \in B : \A i \in B : f[i] <= f[j]
    <3> HIDE DEF B
    <3> QED BY <2>1, <2>3, GreatestIsIn
  <2>5. x \in Nat /\ f[j] \in Nat /\ f[j] < x /\ j \in I BY <1>1, <2>4 DEF Below
  <2>6. UpTo(f, I, f[j]) = B
    <3>1. ASSUME NEW i \in I, f[i] <= f[j] PROVE f[i] < x
      <4>1. f[i] \in Nat OBVIOUS
      <4> QED BY <2>5, <3>1, <4>1
    <3>2. \A i \in I : f[i] < x => f[i] <= f[j] BY <2>4 DEF Below
    <3> QED BY <3>1, <3>2 DEF UpTo, Below
  <2>7. f[j] \in C BY <2>5, <2>6
  <2>8. x <= f[j]
    <3> HIDE DEF C
    <3> QED BY <1>2, <2>7
  <2> QED BY <2>5, <2>8
<1>4. /\ x \in {f[i] : i \in DOMAIN f}
      /\ Cardinality({i \in DOMAIN f : f[i] < x}) < k
      /\ k <= Cardinality({i \in DOMAIN f : f[i] <= x})
  <2>1. DOMAIN f = I OBVIOUS
  <2> QED BY <1>2, <1>3, <2>1 DEF UpTo, Below
<1>5. Kth(f, k) \in {f[i] : i \in DOMAIN f} BY <1>4 DEF Kth
<1> QED BY <1>5

Observations == [age : 0 .. Window, pct : Nat]

\* The spread a leg is judged by is not below all that were seen.
LEMMA SpreadWasSeen ==
  ASSUME NEW s \in Seq(Observations), s # <<>>, LegSpread(s) <= MaxSpread
  PROVE  \E i \in 1 .. Len(s) : s[i].pct <= MaxSpread
<1> DEFINE n == Len(s)
           f == [i \in DOMAIN s |-> s[i].pct]
<1>1. n \in Nat \ {0} /\ DOMAIN s = 1 .. n /\ f \in [1 .. n -> Nat] /\ Len(f) = n
  <2>1. n \in Nat \ {0} /\ DOMAIN s = 1 .. n /\ \A i \in 1 .. n : s[i] \in Observations
    OBVIOUS
  <2>2. \A i \in 1 .. n : s[i].pct \in Nat BY <2>1 DEF Observations
  <2>3. f = [i \in 1 .. n |-> s[i].pct] BY <2>1
  <2> HIDE DEF f, n
  <2>4. f \in [1 .. n -> Nat] BY <2>2, <2>3
  <2>5. f \in Seq(Nat) BY <2>1, <2>4
  <2> QED BY <2>1, <2>4, <2>5
<1>2. CASE n < MinObservations
  <2>1. s[n].pct <= MaxSpread BY <1>1, <1>2 DEF LegSpread, MinObservations
  <2> QED BY <1>1, <2>1
<1>3. CASE n >= MinObservations
  <2>1. Median(f) <= MaxSpread BY <1>1, <1>3 DEF LegSpread, MinObservations
  <2> HIDE DEF f, n
  <2>2. ASSUME NEW k \in 1 .. n
        PROVE  Kth(f, k) \in Nat /\ (Kth(f, k) <= MaxSpread => \E i \in 1 .. n : f[i] <= MaxSpread)
    <3>1. Kth(f, k) \in {f[i] : i \in 1 .. n} BY <1>1, KthIsIn
    <3> QED BY <1>1, <3>1
  <2>3. \A k \in 1 .. n : Kth(f, k) \in Nat BY <2>2
  <2>4. \E k \in 1 .. n : Kth(f, k) <= MaxSpread
    <3>1. CASE n % 2 = 1
      <4>1. n \div 2 + 1 \in 1 .. n BY <1>1, <3>1
      <4> QED BY <1>1, <2>1, <3>1, <4>1 DEF Median
    <3>2. CASE n % 2 # 1
      <4>1. n \div 2 \in 1 .. n /\ n \div 2 + 1 \in 1 .. n
        BY <1>1, <1>3, <3>2 DEF MinObservations
      <4> DEFINE a == Kth(f, n \div 2)
                 b == Kth(f, n \div 2 + 1)
      <4>2. a \in Nat /\ b \in Nat BY <2>3, <4>1
      <4>3. (a + b) \div 2 <= MaxSpread BY <1>1, <2>1, <3>2 DEF Median
      <4> HIDE DEF a, b
      <4>4. a <= MaxSpread \/ b <= MaxSpread BY <4>2, <4>3 DEF MaxSpread
      <4> QED BY <4>1, <4>4 DEF a, b
    <3> QED BY <3>1, <3>2
  <2>5. PICK i \in 1 .. n : f[i] <= MaxSpread BY <2>2, <2>4
  <2> QED BY <1>1, <2>5 DEF f, n
<1> QED BY <1>1, <1>2, <1>3 DEF MinObservations

-----------------------------------------------------------------------------
(* What was seen of a spread, and when.                                    *)

\* How long after the broker said so a spread may be recorded.
Delay == QuoteTtl + 2 * Patience

\* What was recorded of a leg: of late, the oldest first, and no fair spread
\* that the broker has not shown since.
Seen(s, n) ==
  /\ s \in Seq(Observations)
  /\ \A i \in 1 .. Len(s) : s[i].pct <= MaxSpread => n <= s[i].age + Delay
  /\ \A i, j \in 1 .. Len(s) : i < j => s[j].age <= s[i].age

\* A chain of expiry e that the broker showed n units ago, by what the last
\* fair spreads were.
Said(trace, e, chain, n) ==
  /\ chain \in [Legs -> Nat]
  /\ \A leg \in Legs : chain[leg] <= MaxSpread => trace[<<e, leg>>] <= n

\* A thread that has its expiry.
OnChain(t) ==
  job[t].phase = "judge" \/ (Looking(t) /\ subject.method = "chain" /\ job[t].at = 2)

ChainInv(t) ==
  /\ OnChain(t) => job[t].expiry \in Expiries
  /\ job[t].phase = "keep" /\ Source(t) = "snap" =>
       Said(lastTight, job[t].expiry, job[t].value, job[t].old)
  /\ job[t].phase = "judge" =>
       Said(lastTight, job[t].expiry, job[t].chain, job[t].old + QuoteTtl + Patience)
  /\ judged[t] # None =>
       /\ judged[t].expiry \in Expiries
       /\ judged[t].liquid =>
            \A leg \in Legs : lastTight[<<judged[t].expiry, leg>>] <= Window + Delay

CachedChains ==
  \A e \in Expiries : cache[<<"snap", e>>] # None =>
    Said(lastTight, e, cache[<<"snap", e>>].value, cache[<<"snap", e>>].old)

SeenInv == \A l \in Expiries \X Legs : Seen(history[l], lastTight[l])

SpreadInv == CachedChains /\ SeenInv /\ \A t \in Threads : ChainInv(t)

\* The bounds are counts.
LEMMA Delays == Delay \in Nat /\ Window \in Nat /\ QuoteTtl \in Nat \ {0} /\ Patience \in Nat
BY TtlAssumption DEF Delay

\* One more spread is recorded.
LEMMA SeenMore ==
  ASSUME NEW s, NEW n \in Nat, Seen(s, n), NEW p \in Nat, p <= MaxSpread => n <= Delay
  PROVE  Seen(Append(s, [age |-> 0, pct |-> p]), n)
<1> DEFINE o == [age |-> 0, pct |-> p]
           r == Append(s, o)
<1>1. o \in Observations /\ o.age = 0 /\ o.pct = p BY Delays DEF Observations
<1>2. s \in Seq(Observations) BY DEF Seen
<1> HIDE DEF o
<1>3. /\ r \in Seq(Observations) /\ Len(s) \in Nat /\ Len(r) = Len(s) + 1 /\ r[Len(s) + 1] = o
      /\ \A i \in 1 .. Len(s) : r[i] = s[i]
  BY <1>1, <1>2
<1> HIDE DEF r
<1>4. \A i \in 1 .. Len(r) : i = Len(s) + 1 \/ i \in 1 .. Len(s) BY <1>3
<1>5. \A i \in 1 .. Len(r) : r[i].age \in Nat
  <2>1. \A i \in 1 .. Len(r) : r[i] \in Observations BY <1>3
  <2> QED BY <2>1, Delays DEF Observations
<1>6. ASSUME NEW i \in 1 .. Len(r), r[i].pct <= MaxSpread PROVE n <= r[i].age + Delay
  <2>1. CASE i = Len(s) + 1 BY <1>1, <1>3, <1>6, <2>1, Delays
  <2>2. CASE i \in 1 .. Len(s) BY <1>3, <1>6, <2>2 DEF Seen
  <2> QED BY <1>4, <2>1, <2>2
<1>7. ASSUME NEW i \in 1 .. Len(r), NEW j \in 1 .. Len(r), i < j PROVE r[j].age <= r[i].age
  <2>1. CASE j = Len(s) + 1 BY <1>1, <1>3, <1>5, <2>1
  <2>2. CASE j \in 1 .. Len(s)
    <3>1. i \in 1 .. Len(s) BY <1>3, <1>7, <2>2
    <3> QED BY <1>3, <1>7, <2>2, <3>1 DEF Seen
  <2> QED BY <1>4, <2>1, <2>2
<1> QED BY <1>3, <1>6, <1>7 DEF Seen, r, o

\* The broker showed a fair spread since.
LEMMA SeenSince ==
  ASSUME NEW s, NEW n \in Nat, Seen(s, n), NEW m \in Nat, m <= n
  PROVE  Seen(s, m)
<1>1. ASSUME NEW i \in 1 .. Len(s), s[i].pct <= MaxSpread PROVE m <= s[i].age + Delay
  <2>1. s[i] \in Observations BY DEF Seen
  <2>2. s[i].age \in Nat BY <2>1, Delays DEF Observations
  <2>3. n <= s[i].age + Delay BY <1>1 DEF Seen
  <2> QED BY <2>2, <2>3, Delays
<1> QED BY <1>1 DEF Seen

\* A moment passes, and what is not of late is dropped.
LEMMA SeenOlder ==
  ASSUME NEW s, NEW n \in Nat, Seen(s, n), NEW m \in Nat, m <= n + 1
  PROVE  Seen(Recent(OlderSpreads(s)), m)
<1> DEFINE a == OlderSpreads(s)
           len == Len(s)
           old == Cardinality({i \in DOMAIN a : a[i].age > Window})
           r == Recent(a)
<1>1. len \in Nat /\ DOMAIN s = 1 .. len /\ \A i \in 1 .. len : s[i] \in Observations
  BY DEF Seen
<1>2. /\ a = [i \in 1 .. len |-> a[i]]
      /\ \A i \in 1 .. len : a[i] = [age |-> s[i].age + 1, pct |-> s[i].pct]
      /\ \A i \in 1 .. len : s[i].age \in 0 .. Window /\ s[i].pct \in Nat
  <2>1. ASSUME NEW i \in 1 .. len
        PROVE  /\ a[i] = [age |-> s[i].age + 1, pct |-> s[i].pct]
               /\ s[i].age \in 0 .. Window /\ s[i].pct \in Nat
    <3> DEFINE o == s[i]
    <3>1. a[i] = [o EXCEPT !.age = Aged(@, Window + 1)] BY <1>1 DEF OlderSpreads
    <3>2. o \in Observations BY <1>1
    <3> HIDE DEF o
    <3>3. o.age \in 0 .. Window /\ o.pct \in Nat /\ o = [age |-> o.age, pct |-> o.pct]
      BY <3>2 DEF Observations
    <3>4. Aged(o.age, Window + 1) = o.age + 1 BY <3>3, Delays DEF Aged
    <3> QED BY <3>1, <3>3, <3>4 DEF o
  <2>2. a = [i \in 1 .. len |-> a[i]] BY <1>1 DEF OlderSpreads
  <2> QED BY <2>1, <2>2
<1> HIDE DEF a, len
<1>3. Len(a) = len /\ DOMAIN a = 1 .. len
  <2>1. \A i \in 1 .. len : a[i] \in [age : Nat, pct : Nat] BY <1>2, Delays
  <2>2. a \in Seq([age : Nat, pct : Nat])
    <3>1. len \in Nat BY <1>1
    <3>2. a = [i \in 1 .. len |-> a[i]] BY <1>2
    <3> DEFINE A == [age : Nat, pct : Nat]
    <3>3. \A i \in 1 .. len : a[i] \in A BY <2>1
    <3> HIDE DEF A
    <3>4. a \in Seq(A) BY <3>1, <3>2, <3>3
    <3> QED BY <3>4 DEF A
  <2>3. DOMAIN a = 1 .. len BY <1>2
  <2> QED BY <1>1, <2>2, <2>3
<1> DEFINE Old == {i \in 1 .. len : a[i].age > Window}
<1>4. old = Cardinality(Old) BY <1>3
<1> HIDE DEF old
<1>5. IsFiniteSet(Old) /\ old \in 0 .. len
  <2>1. Old \in SUBSET (1 .. len) OBVIOUS
  <2> HIDE DEF Old
  <2> QED BY <1>1, <1>4, <2>1, PartCount
<1>6. \A i, j \in 1 .. len : i < j => a[j].age <= a[i].age
  <2>1. \A i, j \in 1 .. len : i < j => s[j].age <= s[i].age BY DEF Seen, len
  <2> QED BY <1>2, <2>1
<1>7. ASSUME NEW j \in 1 .. len, old < j PROVE a[j].age <= Window
  <2> SUFFICES ASSUME a[j].age > Window PROVE FALSE BY <1>2, Delays
  <2>1. 1 .. j \in SUBSET Old
    <3>1. ASSUME NEW i \in 1 .. j PROVE i \in 1 .. len /\ a[i].age > Window
      <4>1. i \in 1 .. len /\ (i = j \/ i < j) BY <1>1
      <4>2. a[i].age \in Nat /\ a[j].age \in Nat BY <1>2, <4>1
      <4> QED BY <1>6, <4>1, <4>2, Delays
    <3> QED BY <3>1
  <2>2. Cardinality(1 .. j) = j BY FS_Interval
  <2> HIDE DEF Old
  <2>3. j <= old BY <1>4, <1>5, <2>1, <2>2, FS_Subset
  <2> QED BY <1>5, <1>7, <2>3
<1>8. r = [i \in 1 .. len - old |-> a[i + old]] BY <1>3 DEF Recent, old
<1> HIDE DEF r
<1>9. \A i \in 1 .. len - old : i + old \in 1 .. len /\ old < i + old BY <1>1, <1>5
<1>10. \A i \in 1 .. len - old : r[i] = a[i + old] /\ r[i] \in Observations
  <2>1. ASSUME NEW i \in 1 .. len - old PROVE a[i + old] \in Observations
    <3>1. i + old \in 1 .. len /\ a[i + old].age <= Window BY <1>7, <1>9
    <3> QED BY <1>2, <3>1 DEF Observations
  <2> QED BY <1>8, <2>1
<1>11. r \in Seq(Observations) /\ Len(r) = len - old
  <2>1. len - old \in Nat BY <1>1, <1>5
  <2>2. r = [i \in 1 .. len - old |-> r[i]] BY <1>8
  <2> QED BY <1>10, <2>1, <2>2
<1>12. ASSUME NEW i \in 1 .. Len(r), r[i].pct <= MaxSpread PROVE m <= r[i].age + Delay
  <2>1. i + old \in 1 .. len /\ r[i] = a[i + old] BY <1>9, <1>10, <1>11
  <2>2. s[i + old].pct <= MaxSpread /\ r[i].age = s[i + old].age + 1 /\ s[i + old].age \in Nat
    BY <1>2, <1>12, <2>1
  <2>3. n <= s[i + old].age + Delay BY <2>1, <2>2 DEF Seen, len
  <2> QED BY <2>2, <2>3, Delays
<1>13. ASSUME NEW i \in 1 .. Len(r), NEW j \in 1 .. Len(r), i < j PROVE r[j].age <= r[i].age
  <2>1. i + old \in 1 .. len /\ j + old \in 1 .. len /\ i + old < j + old
    BY <1>5, <1>9, <1>11, <1>13
  <2> QED BY <1>6, <1>10, <1>11, <2>1
<1> QED BY <1>11, <1>12, <1>13 DEF Seen, r, a

\* A leg that passes for liquid.
LEMMA SeenLiquid ==
  ASSUME NEW s, NEW n \in Nat, Seen(s, n), s # <<>>, LegSpread(s) <= MaxSpread
  PROVE  n <= Window + Delay
<1>1. PICK i \in 1 .. Len(s) : s[i].pct <= MaxSpread BY SpreadWasSeen DEF Seen
<1>2. s[i] \in Observations BY DEF Seen
<1>3. s[i].age \in 0 .. Window /\ n <= s[i].age + Delay BY <1>1, <1>2 DEF Seen, Observations
<1> QED BY <1>3, Delays


\* What is chosen from a list is on it.
LEMMA ChoiceListed ==
  ASSUME NEW listed \in SUBSET Expiries, listed # {}
  PROVE  ChooseExpiry(listed) \in Expiries
<1>1. listed \subseteq Nat BY ExpiriesAssumption
<1>2. CASE listed \cap Monthlies # {}
  <2>1. Min(listed \cap Monthlies) \in listed \cap Monthlies BY <1>1, <1>2, MinIsIn
  <2> QED BY <1>2, <2>1 DEF ChooseExpiry
<1>3. CASE listed \cap Monthlies = {}
  <2>1. Min(listed) \in listed BY <1>1, MinIsIn
  <2> QED BY <1>3, <2>1 DEF ChooseExpiry
<1> QED BY <1>2, <1>3

-----------------------------------------------------------------------------
(* One step, once more.                                                    *)

\* The last fair spreads are no longer ago than they were.
Since == \A l \in Expiries \X Legs : lastTight'[l] <= lastTight[l]

\* What was said stays said.
LEMMA SaidSince ==
  ASSUME TraceInv, TraceInv', Since, NEW e \in Expiries, NEW chain,
         NEW n \in Nat, NEW m \in Nat, n <= m, Said(lastTight, e, chain, n)
  PROVE  Said(lastTight', e, chain, m)
<1>1. ASSUME NEW leg \in Legs, chain[leg] <= MaxSpread PROVE lastTight'[<<e, leg>>] <= m
  <2>1. <<e, leg>> \in Expiries \X Legs OBVIOUS
  <2>2. lastTight[<<e, leg>>] \in Nat /\ lastTight'[<<e, leg>>] \in Nat
    BY <2>1, Times DEF TraceInv
  <2>3. lastTight'[<<e, leg>>] <= lastTight[<<e, leg>>] BY <2>1 DEF Since
  <2>4. lastTight[<<e, leg>>] <= n BY <1>1 DEF Said
  <2> QED BY <2>2, <2>3, <2>4
<1> QED BY <1>1 DEF Said

\* What a thread does leaves the others with what they had.
LEMMA SpreadKept ==
  ASSUME IInv, IInv', SpreadInv, NEW t \in Threads, UNCHANGED subject, Since,
         job' = [job EXCEPT ![t] = job'[t]], \A u \in Threads \ {t} : judged'[u] = judged[u],
         CachedChains', SeenInv', ChainInv(t)'
  PROVE  SpreadInv'
<1>1. ASSUME NEW u \in Threads, u # t PROVE ChainInv(u)'
  <2>1. job'[u] = job[u] /\ Source(u)' = Source(u) /\ judged'[u] = judged[u]
    BY <1>1, OthersSay
  <2>2. ChainInv(u) BY DEF SpreadInv
  <2>3. job[u].old \in Nat /\ job[u].old + QuoteTtl + Patience \in Nat
    BY Delays DEF IInv, JobsInv, JobInv
  <2>4. OnChain(u)' <=> OnChain(u) BY <2>1 DEF OnChain, Looking
  <2>5. OnChain(u)' => job'[u].expiry \in Expiries BY <2>1, <2>2, <2>4 DEF ChainInv
  <2>6. ASSUME job'[u].phase = "keep", Source(u)' = "snap"
        PROVE  Said(lastTight', job'[u].expiry, job'[u].value, job'[u].old)
    <3>1. Said(lastTight, job[u].expiry, job[u].value, job[u].old) BY <2>1, <2>2, <2>6 DEF ChainInv
    <3>2. subject.method = "chain" /\ job[u].at = 2
      BY <2>1, <2>6, Looked DEF Looking
    <3>3. job[u].expiry \in Expiries BY <2>1, <2>2, <2>6, <3>2 DEF ChainInv, OnChain, Looking
    <3>4. Said(lastTight', job[u].expiry, job[u].value, job[u].old)
      BY <2>3, <3>1, <3>3, SaidSince DEF IInv
    <3> QED BY <2>1, <3>4
  <2>7. ASSUME job'[u].phase = "judge"
        PROVE  Said(lastTight', job'[u].expiry, job'[u].chain, job'[u].old + QuoteTtl + Patience)
    <3>1. Said(lastTight, job[u].expiry, job[u].chain, job[u].old + QuoteTtl + Patience)
          /\ job[u].expiry \in Expiries
      BY <2>1, <2>2, <2>7 DEF ChainInv, OnChain
    <3>2. Said(lastTight', job[u].expiry, job[u].chain, job[u].old + QuoteTtl + Patience)
      BY <2>3, <3>1, SaidSince DEF IInv
    <3> QED BY <2>1, <3>2
  <2>8. ASSUME judged'[u] # None
        PROVE  /\ judged'[u].expiry \in Expiries
               /\ judged'[u].liquid =>
                    \A leg \in Legs : lastTight'[<<judged'[u].expiry, leg>>] <= Window + Delay
    <3>1. judged[u].expiry \in Expiries BY <2>1, <2>2, <2>8 DEF ChainInv
    <3>2. ASSUME judged[u].liquid, NEW leg \in Legs
          PROVE  lastTight'[<<judged[u].expiry, leg>>] <= Window + Delay
      <4> DEFINE l == <<judged[u].expiry, leg>>
      <4>1. l \in Expiries \X Legs BY <3>1
      <4>2. lastTight[l] <= Window + Delay BY <2>1, <2>2, <2>8, <3>2 DEF ChainInv
      <4> HIDE DEF l
      <4>3. lastTight[l] \in Nat /\ lastTight'[l] \in Nat /\ lastTight'[l] <= lastTight[l]
        BY <4>1, Times DEF IInv, TraceInv, Since
      <4>4. lastTight'[l] <= Window + Delay BY <4>2, <4>3, Delays
      <4> QED BY <4>4 DEF l
    <3> QED BY <2>1, <3>1, <3>2
  <2> QED BY <2>5, <2>6, <2>7, <2>8 DEF ChainInv
<1> QED BY <1>1 DEF SpreadInv

\* What is cached, as the broker goes on to show.
LEMMA CacheKept ==
  ASSUME IInv, IInv', CachedChains, UNCHANGED cache, Since
  PROVE  CachedChains'
<1> SUFFICES ASSUME NEW e \in Expiries, cache'[<<"snap", e>>] # None
             PROVE  Said(lastTight', e, cache'[<<"snap", e>>].value, cache'[<<"snap", e>>].old)
  BY DEF CachedChains
<1> DEFINE k == <<"snap", e>>
<1>1. k \in Keys BY DEF Keys
<1>2. EntryInv(k, cache[k]) /\ cache[k] # None BY <1>1 DEF IInv, CacheInv
<1>3. cache[k].old \in Nat BY <1>2, Times DEF EntryInv
<1>4. Said(lastTight, e, cache[k].value, cache[k].old) BY <1>2 DEF CachedChains
<1>5. Said(lastTight', e, cache[k].value, cache[k].old) BY <1>3, <1>4, SaidSince DEF IInv
<1> QED BY <1>5

\* And what was recorded.
LEMMA RecordKept ==
  ASSUME IInv, IInv', SeenInv, UNCHANGED history, Since
  PROVE  SeenInv'
<1>1. ASSUME NEW l \in Expiries \X Legs PROVE Seen(history[l], lastTight'[l])
  <2>1. lastTight[l] \in Nat /\ lastTight'[l] \in Nat /\ lastTight'[l] <= lastTight[l]
    BY Times DEF IInv, TraceInv, Since
  <2>2. Seen(history[l], lastTight[l]) BY DEF SeenInv
  <2> QED BY <2>1, <2>2, SeenSince
<1> QED BY <1>1 DEF SeenInv

\* What is taken from the cache or from a call: of a chain the broker showed
\* no longer ago than an entry lives.
LEMMA TakesSpread ==
  ASSUME IInv, IInv', SpreadInv, NEW t \in Threads, Looking(t), NEW value, Takes(t, value),
         UNCHANGED <<subject, judged, lastTight>>,
         Source(t) = "contracts" => value \subseteq Expiries,
         Source(t) = "snap" =>
           Said(lastTight, job[t].expiry, value, QuoteTtl + Patience)
  PROVE  ChainInv(t)' /\ (Source(t) = "snap" => job[t].expiry \in Expiries)
<1>1. /\ job' = [job EXCEPT ![t] = job'[t]] /\ job'[t].phase \in {"look", "judge", "idle"}
      /\ job'[t].phase = "judge" =>
           Source(t) = "snap" /\ job'[t].chain = value /\ job'[t].expiry = job[t].expiry
      /\ job'[t].old = 0
      /\ job'[t].phase = "look" =>
           \/ Source(t) = "clock" /\ job'[t].expiry = job[t].expiry
           \/ Source(t) = "contracts" /\ value # {} /\ job'[t].expiry = ChooseExpiry(value)
  BY TakesOn
<1>2. ChainInv(t) BY DEF SpreadInv
<1>3. Source(t) = "snap" => job[t].expiry \in Expiries
  BY <1>2, Looked DEF ChainInv, OnChain
<1>4. Source(t) = "clock" => subject.method = "state" BY Looked
<1>5. OnChain(t)' => job'[t].expiry \in Expiries
  <2>1. CASE job'[t].phase = "judge" BY <1>1, <1>3, <2>1
  <2>2. CASE job'[t].phase = "look"
    BY <1>1, <1>4, <2>2, ChoiceListed DEF OnChain, Looking
  <2>3. CASE job'[t].phase = "idle" BY <2>3 DEF OnChain, Looking
  <2> QED BY <1>1, <2>1, <2>2, <2>3
<1>6. job'[t].phase = "judge" =>
        Said(lastTight', job'[t].expiry, job'[t].chain, job'[t].old + QuoteTtl + Patience)
  <2>1. 0 + QuoteTtl + Patience = QuoteTtl + Patience BY Delays
  <2> QED BY <1>1, <2>1
<1>7. judged'[t] # None =>
        /\ judged'[t].expiry \in Expiries
        /\ judged'[t].liquid =>
             \A leg \in Legs : lastTight'[<<judged'[t].expiry, leg>>] <= Window + Delay
  BY <1>2 DEF ChainInv
<1> QED BY <1>1, <1>3, <1>5, <1>6, <1>7 DEF ChainInv

\* A chain that was said some time ago was said within a longer one.
LEMMA SaidWithin ==
  ASSUME TraceInv, NEW e \in Expiries, NEW chain, NEW n \in Nat, NEW m \in Nat, n <= m,
         Said(lastTight, e, chain, n)
  PROVE  Said(lastTight, e, chain, m)
<1>1. ASSUME NEW leg \in Legs, chain[leg] <= MaxSpread PROVE lastTight[<<e, leg>>] <= m
  <2>1. <<e, leg>> \in Expiries \X Legs OBVIOUS
  <2>2. lastTight[<<e, leg>>] \in Nat BY <2>1, Times DEF TraceInv
  <2>3. lastTight[<<e, leg>>] <= n BY <1>1 DEF Said
  <2> QED BY <2>2, <2>3
<1> QED BY <1>1 DEF Said

\* A call begins, is served from memory, or fails.
LEMMA AsksSpread ==
  ASSUME IInv, IInv', SpreadInv, NEW t \in Threads, NEW h \in subject.horizons, Asks(t, h)
  PROVE  SpreadInv'
<1>1. /\ UNCHANGED <<subject, cache, history, lastTight>> /\ job' = [job EXCEPT ![t] = job'[t]]
      /\ judged' = [judged EXCEPT ![t] = None]
  BY DEF Asks, IInv, JobsInv
<1>2. job'[t].phase = "look" /\ job'[t].at = 1 BY DEF Asks, Idle, IInv, JobsInv
<1>3. judged'[t] = None /\ \A u \in Threads \ {t} : judged'[u] = judged[u]
  BY <1>1 DEF IInv, JudgedInv
<1>4. Since BY <1>1, Times DEF Since, IInv, TraceInv
<1>5. ChainInv(t)' BY <1>2, <1>3 DEF ChainInv, OnChain, Looking
<1>6. CachedChains' /\ SeenInv' BY <1>1, <1>4, CacheKept, RecordKept DEF SpreadInv
<1> QED BY <1>1, <1>3, <1>4, <1>5, <1>6, SpreadKept

\* Served from memory.
LEMMA HitSpread ==
  ASSUME IInv, IInv', SpreadInv, NEW t \in Threads, Hit(t)
  PROVE  SpreadInv'
<1>1. /\ UNCHANGED <<subject, cache, history, judged, lastTight>> /\ Looking(t)
      /\ cache[Key(t)] # None /\ Takes(t, cache[Key(t)].value)
  BY DEF Hit, Looking
<1>2. Since BY <1>1, Times DEF Since, IInv, TraceInv
<1>3. Source(t) = "contracts" => cache[Key(t)].value \subseteq Expiries
  BY <1>1, Looked DEF IInv, CacheInv, ListInv, From
<1>4. ASSUME Source(t) = "snap"
      PROVE  Said(lastTight, job[t].expiry, cache[Key(t)].value, QuoteTtl + Patience)
  <2> DEFINE e == job[t].expiry
             k == <<"snap", e>>
  <2>1. ChainInv(t) BY DEF SpreadInv
  <2>2. e \in Expiries BY <1>1, <1>4, <2>1, Looked DEF ChainInv, OnChain
  <2>3. Key(t) = k BY <1>4 DEF Key
  <2>4. k \in Keys /\ Ttl(k[1]) = QuoteTtl BY <2>2 DEF Keys, Ttl
  <2>5. EntryInv(k, cache[k]) BY <2>4 DEF IInv, CacheInv
  <2>6. cache[k].age \in 0 .. QuoteTtl - 1 /\ cache[k].old \in 0 .. cache[k].age + Patience
    BY <1>1, <2>3, <2>4, <2>5 DEF EntryInv
  <2>7. cache[k].old \in Nat /\ QuoteTtl + Patience \in Nat /\ cache[k].old <= QuoteTtl + Patience
    BY <2>6, Delays
  <2>8. Said(lastTight, e, cache[k].value, cache[k].old)
    BY <1>1, <2>2, <2>3 DEF SpreadInv, CachedChains
  <2>9. Said(lastTight, e, cache[k].value, QuoteTtl + Patience)
    BY <2>2, <2>7, <2>8, SaidWithin DEF IInv
  <2> QED BY <2>3, <2>9
<1>5. ChainInv(t)' BY <1>1, <1>3, <1>4, TakesSpread
<1>6. CachedChains' /\ SeenInv' BY <1>1, <1>2, CacheKept, RecordKept DEF SpreadInv
<1>7. job' = [job EXCEPT ![t] = job'[t]] BY <1>1, TakesOn
<1> QED BY <1>1, <1>2, <1>5, <1>6, <1>7, SpreadKept

\* The broker answers; a fair spread it shows is there now.
LEMMA ObservesSpread ==
  ASSUME IInv, IInv', SpreadInv, NEW t \in Threads, Observes(t)
  PROVE  SpreadInv'
<1>1. Looking(t) /\ UNCHANGED <<subject, cache, history, judged>>
  BY DEF Observes, Misses, Looking
<1>2. PICK value \in Answers(t) :
        /\ job' = [job EXCEPT ![t].phase = "keep", ![t].value = value]
        /\ lastTight' = [l \in Expiries \X Legs |->
                           IF Source(t) = "snap" /\ l[1] = job[t].expiry /\ value[l[2]] <= MaxSpread
                             THEN 0 ELSE lastTight[l]]
  BY DEF Observes
<1>3. /\ job' = [job EXCEPT ![t] = job'[t]] /\ job'[t].phase = "keep" /\ job'[t].value = value
      /\ job'[t].at = job[t].at /\ job'[t].expiry = job[t].expiry /\ job'[t].old = job[t].old
  <2> DEFINE j == job[t]
  <2>1. job'[t] = [j EXCEPT !.phase = "keep", !.value = value] /\ IsJob(j)
    BY <1>2 DEF IInv, JobsInv, JobInv
  <2>2. job' = [job EXCEPT ![t] = job'[t]] BY <1>2 DEF IInv, JobsInv
  <2> HIDE DEF j
  <2>3. /\ job'[t].phase = "keep" /\ job'[t].value = value /\ job'[t].at = j.at
        /\ job'[t].expiry = j.expiry /\ job'[t].old = j.old
    BY <2>1 DEF IsJob
  <2> QED BY <2>2, <2>3 DEF j
<1>4. Since
  <2>1. ASSUME NEW l \in Expiries \X Legs PROVE lastTight'[l] <= lastTight[l]
    <3>1. lastTight[l] \in Nat BY Times DEF IInv, TraceInv
    <3>2. lastTight'[l] = 0 \/ lastTight'[l] = lastTight[l] BY <1>2
    <3> QED BY <3>1, <3>2
  <2> QED BY <2>1 DEF Since
<1>5. Source(t)' = Source(t) BY <1>1, <1>3 DEF Source
<1>6. ChainInv(t) BY DEF SpreadInv
<1>7. OnChain(t)' => job[t].expiry \in Expiries
  BY <1>1, <1>3, <1>6 DEF ChainInv, OnChain, Looking
<1>8. ASSUME Source(t) = "snap" PROVE Said(lastTight', job[t].expiry, value, job[t].old)
  <2>1. value \in [Legs -> subject.spreads] /\ subject.spreads \subseteq Nat
    BY <1>2, <1>8, SubjectsAssumption DEF Answers, IInv, TraceInv
  <2>2. job[t].old \in Nat /\ job[t].expiry \in Expiries
    BY <1>1, <1>6, <1>8, Looked, Delays DEF IInv, JobsInv, JobInv, ChainInv, OnChain
  <2>3. ASSUME NEW leg \in Legs, value[leg] <= MaxSpread
        PROVE  lastTight'[<<job[t].expiry, leg>>] <= job[t].old
    <3> DEFINE l == <<job[t].expiry, leg>>
    <3>1. l \in Expiries \X Legs /\ l[1] = job[t].expiry /\ l[2] = leg BY <2>2
    <3> HIDE DEF l
    <3>2. lastTight'[l] = 0 BY <1>2, <1>8, <2>3, <3>1
    <3> QED BY <2>2, <3>2 DEF l
  <2> QED BY <2>1, <2>3 DEF Said
<1>9. judged'[t] # None =>
        /\ judged'[t].expiry \in Expiries
        /\ judged'[t].liquid =>
             \A leg \in Legs : lastTight'[<<judged'[t].expiry, leg>>] <= Window + Delay
  <2> SUFFICES ASSUME judged[t] # None
               PROVE  /\ judged[t].expiry \in Expiries
                      /\ judged[t].liquid =>
                           \A leg \in Legs : lastTight'[<<judged[t].expiry, leg>>] <= Window + Delay
    BY <1>1
  <2>1. judged[t].expiry \in Expiries BY <1>6 DEF ChainInv
  <2>2. ASSUME judged[t].liquid, NEW leg \in Legs
        PROVE  lastTight'[<<judged[t].expiry, leg>>] <= Window + Delay
    <3> DEFINE l == <<judged[t].expiry, leg>>
    <3>1. l \in Expiries \X Legs /\ lastTight[l] <= Window + Delay BY <1>6, <2>1, <2>2 DEF ChainInv
    <3> HIDE DEF l
    <3>2. lastTight[l] \in Nat /\ lastTight'[l] \in Nat /\ lastTight'[l] <= lastTight[l]
      BY <1>4, <3>1, Times DEF IInv, TraceInv, Since
    <3>3. lastTight'[l] <= Window + Delay BY <3>1, <3>2, Delays
    <3> QED BY <3>3 DEF l
  <2> QED BY <2>1, <2>2
<1>10. ChainInv(t)' BY <1>3, <1>5, <1>7, <1>8, <1>9 DEF ChainInv
<1>11. CachedChains' /\ SeenInv' BY <1>1, <1>4, CacheKept, RecordKept DEF SpreadInv
<1> QED BY <1>1, <1>3, <1>4, <1>10, <1>11, SpreadKept

\* The broker does not.
LEMMA FailsSpread ==
  ASSUME IInv, IInv', SpreadInv, NEW t \in Threads, Fails(t) \/ Refused(t)
  PROVE  SpreadInv'
<1>1. /\ UNCHANGED <<subject, cache, history, judged, lastTight>>
      /\ \/ Looking(t) /\ job' = [job EXCEPT ![t].phase = "fetch", ![t].tries = @ + 1]
         \/ job' = [job EXCEPT ![t] = Idle]
  BY DEF Fails, Misses, Refused, Looking
<1>2. Since BY <1>1, Times DEF Since, IInv, TraceInv
<1>3. /\ job' = [job EXCEPT ![t] = job'[t]]
      /\ \/ /\ Looking(t) /\ job'[t].phase = "fetch" /\ job'[t].at = job[t].at
            /\ job'[t].expiry = job[t].expiry
         \/ job'[t].phase = "idle"
  <2> DEFINE j == job[t]
  <2>1. job' = [job EXCEPT ![t] = job'[t]] /\ IsJob(j) BY <1>1 DEF IInv, JobsInv, JobInv
  <2>2. \/ Looking(t) /\ job'[t] = [j EXCEPT !.phase = "fetch", !.tries = @ + 1]
        \/ job'[t] = Idle
    BY <1>1 DEF IInv, JobsInv
  <2> HIDE DEF j
  <2>3. \/ Looking(t) /\ job'[t].phase = "fetch" /\ job'[t].at = j.at /\ job'[t].expiry = j.expiry
        \/ job'[t].phase = "idle"
    <3>1. CASE Looking(t) /\ job'[t] = [j EXCEPT !.phase = "fetch", !.tries = @ + 1]
      <4> DEFINE k == job'[t]
      <4>1. IsJob(j) /\ k = [j EXCEPT !.phase = "fetch", !.tries = @ + 1] BY <2>1, <3>1
      <4> HIDE DEF k
      <4>2. k.phase = "fetch" /\ k.at = j.at /\ k.expiry = j.expiry BY <4>1 DEF IsJob
      <4> QED BY <3>1, <4>2 DEF k
    <3>2. CASE job'[t] = Idle BY <3>2 DEF Idle
    <3> QED BY <2>2, <3>1, <3>2
  <2> QED BY <2>1, <2>3 DEF j
<1>4. ChainInv(t) BY DEF SpreadInv
<1>5. ChainInv(t)' BY <1>1, <1>3, <1>4 DEF ChainInv, OnChain, Looking
<1>6. CachedChains' /\ SeenInv' BY <1>1, <1>2, CacheKept, RecordKept DEF SpreadInv
<1> QED BY <1>1, <1>2, <1>3, <1>5, <1>6, SpreadKept

\* A chain is kept as old as it was when the thread heard of it.
LEMMA KeepsSpread ==
  ASSUME IInv, IInv', SpreadInv, NEW t \in Threads, Keeps(t)
  PROVE  SpreadInv'
<1> DEFINE v == [value |-> job[t].value, age |-> 0, old |-> job[t].old]
<1>1. /\ UNCHANGED <<subject, history, judged, lastTight>> /\ Looking(t) /\ job[t].phase = "keep"
      /\ cache' = [cache EXCEPT ![Key(t)] = v] /\ Takes(t, job[t].value)
  BY DEF Keeps, Looking
<1>2. Since BY <1>1, Times DEF Since, IInv, TraceInv
<1>3. Source(t) = "contracts" => job[t].value \subseteq Expiries
  BY <1>1 DEF IInv, JobsInv, JobInv, ExpiryInv, From
<1>4. ChainInv(t) /\ job[t].old \in 0 .. Patience BY DEF SpreadInv, IInv, JobsInv, JobInv
<1>5. Source(t) = "snap" => job[t].expiry \in Expiries
  BY <1>1, <1>4, Looked DEF ChainInv, OnChain
<1>6. Source(t) = "snap" => Said(lastTight, job[t].expiry, job[t].value, job[t].old)
  BY <1>1, <1>4 DEF ChainInv
<1>7. Source(t) = "snap" => Said(lastTight, job[t].expiry, job[t].value, QuoteTtl + Patience)
  <2>1. job[t].old \in Nat /\ QuoteTtl + Patience \in Nat /\ job[t].old <= QuoteTtl + Patience
    BY <1>4, Delays
  <2> QED BY <1>5, <1>6, <2>1, SaidWithin DEF IInv
<1>8. ChainInv(t)' BY <1>1, <1>3, <1>7, TakesSpread
<1>9. CachedChains'
  <2> SUFFICES ASSUME NEW e \in Expiries, cache'[<<"snap", e>>] # None
               PROVE  Said(lastTight, e, cache'[<<"snap", e>>].value, cache'[<<"snap", e>>].old)
    BY <1>1 DEF CachedChains
  <2> DEFINE k == <<"snap", e>>
  <2>1. k \in Keys BY DEF Keys
  <2>2. CASE Key(t) = k
    <3>1. Source(t) = "snap" BY <1>1, <2>2, Looked
    <3>2. job[t].expiry = e BY <2>2, <3>1 DEF Key
    <3>3. cache'[k] = v /\ v.value = job[t].value /\ v.old = job[t].old
      BY <1>1, <2>1, <2>2 DEF IInv, CacheInv
    <3> QED BY <1>6, <3>1, <3>2, <3>3
  <2>3. CASE Key(t) # k
    <3>1. cache'[k] = cache[k] BY <1>1, <2>1, <2>3 DEF IInv, CacheInv
    <3> QED BY <3>1 DEF SpreadInv, CachedChains
  <2> QED BY <2>2, <2>3
<1>10. SeenInv' BY <1>1, <1>2, RecordKept DEF SpreadInv
<1>11. job' = [job EXCEPT ![t] = job'[t]] BY <1>1, TakesOn
<1> QED BY <1>1, <1>2, <1>8, <1>9, <1>10, <1>11, SpreadKept

\* A chain is judged: each of its legs is recorded, and by what was recorded.
LEMMA JudgesSpread ==
  ASSUME IInv, IInv', SpreadInv, NEW t \in Threads, Judges(t)
  PROVE  SpreadInv'
<1> DEFINE e == job[t].expiry
           Recorded(l) == Append(history[l], [age |-> 0, pct |-> job[t].chain[l[2]]])
           Mine == {e} \X Legs
           liquid == \A l \in Mine : LegSpread(Recorded(l)) <= MaxSpread
<1>1. /\ UNCHANGED <<subject, cache, lastTight>> /\ job[t].phase = "judge"
      /\ job' = [job EXCEPT ![t] = Idle]
      /\ history' = [l \in DOMAIN history |-> IF l \in Mine THEN Recorded(l) ELSE history[l]]
      /\ judged' = [judged EXCEPT ![t] =
                      [horizon |-> job[t].horizon, expiry |-> e, liquid |-> liquid]]
  BY DEF Judges
<1>2. Since BY <1>1, Times DEF Since, IInv, TraceInv
<1>3. /\ e \in Expiries
      /\ Said(lastTight, e, job[t].chain, job[t].old + QuoteTtl + Patience)
      /\ job[t].old \in 0 .. Patience
  BY <1>1 DEF SpreadInv, ChainInv, OnChain, IInv, JobsInv, JobInv
<1>4. job[t].old + QuoteTtl + Patience \in Nat /\ job[t].old + QuoteTtl + Patience <= Delay
  BY <1>3, Delays DEF Delay
<1>5. ASSUME NEW l \in Mine
      PROVE  /\ l \in Expiries \X Legs /\ lastTight[l] \in Nat /\ Seen(Recorded(l), lastTight[l])
             /\ Recorded(l) # <<>>
  <2>1. l \in Expiries \X Legs /\ l = <<e, l[2]>> /\ l[2] \in Legs BY <1>3
  <2>2. lastTight[l] \in Nat BY <2>1, Times DEF IInv, TraceInv
  <2>3. Seen(history[l], lastTight[l]) BY <2>1 DEF SpreadInv, SeenInv
  <2> DEFINE p == job[t].chain[l[2]]
  <2>4. p \in Nat /\ (p <= MaxSpread => lastTight[l] <= job[t].old + QuoteTtl + Patience)
    BY <1>3, <2>1 DEF Said
  <2>5. p <= MaxSpread => lastTight[l] <= Delay BY <1>4, <2>2, <2>4, Delays
  <2>6. Seen(Append(history[l], [age |-> 0, pct |-> p]), lastTight[l])
    <3> HIDE DEF p
    <3> QED BY <2>2, <2>3, <2>4, <2>5, SeenMore
  <2>7. Append(history[l], [age |-> 0, pct |-> p]) # <<>>
    <3>1. history[l] \in Seq(Observations) BY <2>3 DEF Seen
    <3>2. [age |-> 0, pct |-> p] \in Observations BY <2>4, Delays DEF Observations
    <3> DEFINE o == [age |-> 0, pct |-> p]
    <3> HIDE DEF p, o
    <3>3. Len(Append(history[l], o)) = Len(history[l]) + 1 /\ Len(history[l]) \in Nat
      BY <3>1
    <3>4. Append(history[l], o) # <<>> BY <3>3
    <3> QED BY <3>4 DEF o
  <2> QED BY <2>1, <2>2, <2>6, <2>7
<1> HIDE DEF Recorded, liquid, Mine
<1>6. SeenInv'
  <2>1. ASSUME NEW l \in Expiries \X Legs PROVE Seen(history'[l], lastTight[l])
    <3>1. l \in DOMAIN history BY DEF IInv, TraceInv
    <3>2. CASE l \in Mine
      <4>1. history'[l] = Recorded(l) BY <1>1, <3>1, <3>2
      <4> QED BY <1>5, <3>2, <4>1
    <3>3. CASE l \notin Mine
      <4>1. history'[l] = history[l] BY <1>1, <3>1, <3>3
      <4> QED BY <4>1 DEF SpreadInv, SeenInv
    <3> QED BY <3>2, <3>3
  <2> QED BY <1>1, <2>1 DEF SeenInv
<1>7. /\ judged'[t] = [horizon |-> job[t].horizon, expiry |-> e, liquid |-> liquid]
      /\ \A u \in Threads \ {t} : judged'[u] = judged[u]
  BY <1>1 DEF IInv, JudgedInv
<1>8. ASSUME liquid, NEW leg \in Legs PROVE lastTight[<<e, leg>>] <= Window + Delay
  <2> DEFINE l == <<e, leg>>
  <2>1. l \in Mine BY DEF Mine
  <2> HIDE DEF l
  <2>2. LegSpread(Recorded(l)) <= MaxSpread BY <1>8, <2>1 DEF liquid
  <2>3. lastTight[l] <= Window + Delay BY <1>5, <2>1, <2>2, SeenLiquid
  <2> QED BY <2>3 DEF l
<1>9. job'[t] = Idle /\ job' = [job EXCEPT ![t] = job'[t]] BY <1>1 DEF IInv, JobsInv
<1>10. ChainInv(t)'
  <2>1. job'[t].phase = "idle" BY <1>9 DEF Idle
  <2>2. judged'[t].expiry = e /\ judged'[t].liquid = liquid BY <1>7
  <2>3. judged'[t].liquid => \A leg \in Legs : lastTight'[<<judged'[t].expiry, leg>>] <= Window + Delay
    BY <1>1, <1>8, <2>2
  <2> QED BY <1>3, <2>1, <2>2, <2>3 DEF ChainInv, OnChain, Looking
<1>11. CachedChains' BY <1>1, <1>2, CacheKept DEF SpreadInv
<1> QED BY <1>1, <1>2, <1>6, <1>7, <1>9, <1>10, <1>11, SpreadKept

\* A moment passes: everything is older by it.
LEMMA TimeSpread ==
  ASSUME IInv, IInv', SpreadInv, TimePasses
  PROVE  SpreadInv'
<1>1. /\ UNCHANGED subject /\ cache' = [k \in Keys |-> Older(k, cache[k])]
      /\ history' = [l \in DOMAIN history |-> Recent(OlderSpreads(history[l]))]
      /\ job' = [t \in Threads |-> IF Waits(t) THEN [job[t] EXCEPT !.old = @ + 1] ELSE job[t]]
      /\ judged' = [t \in Threads |-> None]
      /\ lastTight' = [l \in DOMAIN lastTight |-> Aged(lastTight[l], Long)]
  BY DEF TimePasses
<1>2. ASSUME NEW l \in Expiries \X Legs
      PROVE  lastTight[l] \in Nat /\ lastTight'[l] \in Nat /\ lastTight'[l] <= lastTight[l] + 1
  <2>1. lastTight[l] \in 0 .. Long /\ l \in DOMAIN lastTight BY DEF IInv, TraceInv
  <2>2. lastTight'[l] = Aged(lastTight[l], Long) BY <1>1, <2>1
  <2> QED BY <2>1, <2>2, Times DEF Aged
<1>3. SeenInv'
  <2>1. ASSUME NEW l \in Expiries \X Legs PROVE Seen(history'[l], lastTight'[l])
    <3>1. history'[l] = Recent(OlderSpreads(history[l])) BY <1>1 DEF IInv, TraceInv
    <3>2. Seen(history[l], lastTight[l]) BY DEF SpreadInv, SeenInv
    <3> QED BY <1>2, <3>1, <3>2, SeenOlder
  <2> QED BY <2>1 DEF SeenInv
<1>4. ASSUME NEW e \in Expiries, NEW chain, NEW n \in Nat, Said(lastTight, e, chain, n)
      PROVE  Said(lastTight', e, chain, n + 1)
  <2>1. ASSUME NEW leg \in Legs, chain[leg] <= MaxSpread PROVE lastTight'[<<e, leg>>] <= n + 1
    <3> DEFINE l == <<e, leg>>
    <3>1. l \in Expiries \X Legs OBVIOUS
    <3>2. lastTight[l] <= n BY <1>4, <2>1 DEF Said
    <3> HIDE DEF l
    <3>3. lastTight'[l] <= n + 1 BY <1>2, <3>1, <3>2
    <3> QED BY <3>3 DEF l
  <2> QED BY <1>4, <2>1 DEF Said
<1>5. CachedChains'
  <2> SUFFICES ASSUME NEW e \in Expiries, cache'[<<"snap", e>>] # None
               PROVE  Said(lastTight', e, cache'[<<"snap", e>>].value, cache'[<<"snap", e>>].old)
    BY DEF CachedChains
  <2> DEFINE k == <<"snap", e>>
             c == cache[k]
  <2>1. k \in Keys BY DEF Keys
  <2>2. cache'[k] = Older(k, c) BY <1>1, <2>1
  <2>3. EntryInv(k, c) BY <2>1 DEF IInv, CacheInv
  <2>4. c # None => Said(lastTight, e, c.value, c.old) BY DEF SpreadInv, CachedChains
  <2> HIDE DEF k, c
  <2>5. c # None /\ cache'[k] = [c EXCEPT !.age = @ + 1, !.old = @ + 1]
    BY <2>2 DEF Older, k
  <2>6. IsEntry(c) /\ c.old \in Nat BY <2>3, <2>5, Times DEF EntryInv
  <2>7. cache'[k].value = c.value /\ cache'[k].old = c.old + 1 BY <2>5, <2>6 DEF IsEntry
  <2>8. Said(lastTight', e, c.value, c.old + 1) BY <1>4, <2>4, <2>5, <2>6
  <2>9. Said(lastTight', e, cache'[k].value, cache'[k].old) BY <2>7, <2>8
  <2> QED BY <2>9 DEF k
<1>6. ASSUME NEW t \in Threads PROVE ChainInv(t)'
  <2> DEFINE j == job[t]
  <2>1. IsJob(j) /\ j.old \in Nat /\ ChainInv(t) BY Delays DEF IInv, JobsInv, JobInv, SpreadInv
  <2>2. job'[t] = IF Waits(t) THEN [j EXCEPT !.old = @ + 1] ELSE j BY <1>1
  <2>3. judged'[t] = None BY <1>1
  <2>4. Waits(t) <=> j.phase \in {"keep", "judge"} BY DEF Waits
  <2> HIDE DEF j
  <2>5. /\ job'[t].phase = j.phase /\ job'[t].at = j.at /\ job'[t].expiry = j.expiry
        /\ job'[t].value = j.value /\ job'[t].chain = j.chain
        /\ j.phase \in {"keep", "judge"} => job'[t].old = j.old + 1
    BY <2>1, <2>2, <2>4 DEF IsJob
  <2> USE DEF j
  <2>6. Source(t)' = Source(t) BY <1>1, <2>5 DEF Source
  <2>7. OnChain(t)' => j.expiry \in Expiries BY <1>1, <2>1, <2>5 DEF ChainInv, OnChain, Looking
  <2>8. ASSUME j.phase = "keep", Source(t) = "snap"
        PROVE  Said(lastTight', j.expiry, j.value, j.old + 1)
    <3>1. Said(lastTight, j.expiry, j.value, j.old) BY <2>1, <2>8 DEF ChainInv
    <3>2. j.expiry \in Expiries BY <2>1, <2>8, Looked DEF ChainInv, OnChain, Looking
    <3> QED BY <1>4, <2>1, <3>1, <3>2
  <2>9. ASSUME j.phase = "judge"
        PROVE  Said(lastTight', j.expiry, j.chain, (j.old + 1) + QuoteTtl + Patience)
    <3> DEFINE n == j.old + QuoteTtl + Patience
    <3>1. Said(lastTight, j.expiry, j.chain, n) /\ j.expiry \in Expiries
      BY <2>1, <2>9 DEF ChainInv, OnChain
    <3>2. n \in Nat /\ (j.old + 1) + QuoteTtl + Patience = n + 1 BY <2>1, Delays
    <3> HIDE DEF n
    <3>3. Said(lastTight', j.expiry, j.chain, n + 1) BY <1>4, <3>1, <3>2
    <3> QED BY <3>2, <3>3
  <2> QED BY <2>3, <2>5, <2>6, <2>7, <2>8, <2>9 DEF ChainInv
<1> QED BY <1>3, <1>5, <1>6 DEF SpreadInv

\* The start, and nothing happens.
LEMMA InitSpread == Init => SpreadInv
<1> SUFFICES ASSUME Init PROVE SpreadInv OBVIOUS
<1>1. CachedChains BY DEF Init, CachedChains, Keys
<1>2. SeenInv
  <2>1. ASSUME NEW l \in Expiries \X Legs PROVE Seen(history[l], lastTight[l])
    <3>1. history[l] = <<>> BY <2>1 DEF Init
    <3>2. <<>> \in Seq(Observations) /\ Len(<<>>) = 0 OBVIOUS
    <3> QED BY <3>1, <3>2 DEF Seen
  <2> QED BY <2>1 DEF SeenInv
<1>3. ASSUME NEW t \in Threads PROVE ChainInv(t)
  <2>1. job[t] = Idle /\ judged[t] = None BY DEF Init
  <2>2. job[t].phase = "idle" BY <2>1 DEF Idle
  <2> QED BY <2>1, <2>2 DEF ChainInv, OnChain, Looking
<1> QED BY <1>1, <1>2, <1>3 DEF SpreadInv

\* Every step keeps it.
LEMMA SpreadStep == IInv /\ IInv' /\ SpreadInv /\ [Next]_vars => SpreadInv'
<1> SUFFICES ASSUME IInv, IInv', SpreadInv, [Next]_vars PROVE SpreadInv' OBVIOUS
<1>1. CASE TimePasses BY <1>1, TimeSpread
<1>2. ASSUME NEW t \in Threads,
             (\E h \in subject.horizons : Asks(t, h)) \/ Hit(t) \/ Observes(t) \/ Fails(t)
               \/ Keeps(t) \/ Judges(t) \/ Refused(t)
      PROVE  SpreadInv'
  BY <1>2, AsksSpread, HitSpread, ObservesSpread, FailsSpread, KeepsSpread, JudgesSpread
<1>3. CASE UNCHANGED vars
  BY <1>3 DEF vars, SpreadInv, CachedChains, SeenInv, ChainInv, OnChain, Looking, Source
<1> QED BY <1>1, <1>2, <1>3 DEF Next

-----------------------------------------------------------------------------
(* The theorems.                                                           *)

\* The strengthened invariant, for every behaviour of the cache.
THEOREM MarketInvariant == Spec => []IInv
<1>1. IInv /\ [Next]_vars => IInv'
  <2> SUFFICES ASSUME IInv, [Next]_vars PROVE IInv' OBVIOUS
  <2>1. CASE TimePasses BY <2>1, TimeIInv
  <2>2. ASSUME NEW t \in Threads,
               (\E h \in subject.horizons : Asks(t, h)) \/ Hit(t) \/ Observes(t) \/ Fails(t)
                 \/ Keeps(t) \/ Judges(t) \/ Refused(t)
        PROVE  IInv'
    BY <2>2, AsksIInv, HitIInv, ObservesIInv, FailsIInv, KeepsIInv, JudgesIInv
  <2>3. CASE UNCHANGED vars BY <2>3, StutterIInv
  <2> QED BY <2>1, <2>2, <2>3 DEF Next
<1> QED BY <1>1, InitIInv, PTL DEF Spec

\* Every variable keeps its type: nothing past its time to live is in the
\* cache of MarketData, and no call is retried more often than config allows.
THEOREM TypeCorrect == Spec => []TypeOK
<1>1. IInv => TypeOK
  BY Times
  DEF IInv, CacheInv, EntryInv, JobsInv, JobInv, AtInv, JudgedInv, TraceInv, Phases, TypeOK
<1> QED BY <1>1, MarketInvariant, PTL

\* What _cached serves was said by the broker within a time to live and one
\* call, however many threads fill the cache and overtake each other.
THEOREM AnswersAreFresh == Spec => []ServedWithin
<1>1. IInv => ServedWithin
  <2> SUFFICES ASSUME IInv, NEW k \in Keys, cache[k] # None
      PROVE cache[k].old < Patience + IF k[1] \in {"spot", "snap"} THEN QuoteTtl
                              ELSE IF k[1] = "clock" THEN ClockTtl ELSE BarTtl
    BY DEF ServedWithin
  <2>1. cache[k].age \in 0 .. Ttl(k[1]) - 1 /\ cache[k].old \in 0 .. cache[k].age + Patience
    BY DEF IInv, CacheInv, EntryInv
  <2>2. Ttl(k[1]) = IF k[1] \in {"spot", "snap"} THEN QuoteTtl
                    ELSE IF k[1] = "clock" THEN ClockTtl ELSE BarTtl
    BY DEF Ttl
  <2> QED BY <2>1, <2>2, Times, TtlAssumption
<1> QED BY <1>1, MarketInvariant, PTL

\* The expiry chain() chooses for a thesis is three days away and after its
\* horizon, for every listing and every thesis that shares the cache.
THEOREM ChainOutlivesThesis == Spec => []ExpirySpansHorizon
<1>1. IInv => ExpirySpansHorizon
  <2> SUFFICES ASSUME IInv, NEW t \in Threads, judged[t] # None
      PROVE Outlives(judged[t].expiry, judged[t].horizon)
    BY DEF ExpirySpansHorizon, Outlives
  <2> QED BY DEF IInv, JudgedInv
<1> QED BY <1>1, MarketInvariant, PTL

\* What spot() returns is within 21% of where the stock trades, for every bad
\* hour in which prints are within a tenth and a stock without one is quoted
\* within a fifth or unusably.
THEOREM SpotIsNoFluke ==
  ASSUME PrintsNearby
  PROVE  Spec => []SpotIsPlausible
<1>1. Init => SpotInv BY DEF Init, SpotInv, Keys, Idle
<1>2. IInv /\ SpotInv /\ [Next]_vars => SpotInv' BY SpotStep
<1>3. SpotInv => SpotIsPlausible BY DEF SpotInv, SpotIsPlausible, Near
<1> QED BY <1>1, <1>2, <1>3, MarketInvariant, PTL DEF Spec

\* A structure the gate takes for liquid had every leg at a fair spread within
\* the window and an answer's life, however the threads share the history.
THEOREM LiquidIsLiquid == Spec => []LiquidWasReal
<1>1. IInv /\ IInv' /\ SpreadInv /\ [Next]_vars => SpreadInv' BY SpreadStep
<1>2. SpreadInv => LiquidWasReal
  <2> SUFFICES ASSUME SpreadInv, NEW t \in Threads, judged[t] # None, judged[t].liquid,
                      NEW leg \in Legs
               PROVE  lastTight[<<judged[t].expiry, leg>>] <= Window + QuoteTtl + 2 * Patience
    BY DEF LiquidWasReal
  <2>1. lastTight[<<judged[t].expiry, leg>>] <= Window + Delay BY DEF SpreadInv, ChainInv
  <2>2. Window + Delay = Window + QuoteTtl + 2 * Patience BY Delays DEF Delay
  <2> QED BY <2>1, <2>2
<1> QED BY <1>1, <1>2, InitSpread, MarketInvariant, PTL DEF Spec
=============================================================================
