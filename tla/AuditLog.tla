------------------------------ MODULE AuditLog ------------------------------
(***************************************************************************)
(* The audit log: a file of lines per UTC day and role, each line carrying *)
(* the hash of the one before it.  The threads of a process share a lock   *)
(* and a cached hash; processes share nothing but the directory.  A        *)
(* process may die between any two steps, and a write may fail half way    *)
(* (a full disk), leaving a fragment that has no line end.                 *)
(*                                                                         *)
(* SHA-256 is a fresh number for every line that was ever different, which *)
(* is to say that it does not collide: record_id makes every line unique.  *)
(***************************************************************************)
EXTENDS Integers, Sequences, FiniteSets

CONSTANTS
  Roles,       \* the processes that write, each with files of its own
  Threads,     \* the threads of a process
  None,
  MaxDay,      \* days the clock may reach
  MaxHash,     \* bound on the hashes a role may use, two a line
  MaxTears     \* bound on the writes that fail half way

ASSUME BoundsAssumption == MaxDay \in Nat /\ MaxHash \in Nat /\ MaxTears \in Nat
ASSUME NoneAssumption == None \notin Nat /\ None \notin Threads

GENESIS == 0
Days == 0 .. MaxDay
Hashes == Nat

VARIABLES
  file,      \* the lines of each role's file of each day
  today,     \* the UTC day
  path,      \* _path: the day whose file the cached hash belongs to
  prevHash,  \* _prev_hash
  lock,      \* _lock: the thread that holds it
  pc,        \* where a thread is in append
  hashes,    \* the hashes a role's lines have used up
  tears      \* history: how often a write into a file failed half way

processVars == <<path, prevHash, lock, pc>>
vars == <<file, today, processVars, hashes, tears>>

\* "whole" parses; "open" is a fragment with no line end, "glued" a fragment
\* that a later record was written behind, on the same line.
Line == [hash : Hashes, prev : Hashes, form : {"whole", "open", "glued"}]
Files == Roles \X Days

TypeOK ==
  /\ file \in [Files -> Seq(Line)]
  /\ today \in Days
  /\ path \in [Roles -> Days \cup {None}]
  /\ prevHash \in [Roles -> Hashes \cup {None}]
  /\ lock \in [Roles -> Threads \cup {None}]
  /\ pc \in [Roles \X Threads -> {"idle", "locked", "linked", "written"}]
  /\ hashes \in [Roles -> Nat]
  /\ tears \in [Files -> Nat]

Init ==
  /\ file = [f \in Files |-> <<>>]
  /\ today = 0
  /\ path = [r \in Roles |-> None]
  /\ prevHash = [r \in Roles |-> None]
  /\ lock = [r \in Roles |-> None]
  /\ pc = [w \in Roles \X Threads |-> "idle"]
  /\ hashes = [r \in Roles |-> 0]
  /\ tears = [f \in Files |-> 0]

Last(lines) == lines[Len(lines)]
EndsOpen(lines) == lines # <<>> /\ Last(lines).form = "open"

\* _last_hash: of the last line of the file, whatever that line is.
LastHash(lines) == IF lines = <<>> THEN GENESIS ELSE Last(lines).hash

-----------------------------------------------------------------------------
(* append, by thread t of the process in role r.                           *)

At(r, t, step) == pc[<<r, t>>] = step
Goto(r, t, step) == pc' = [pc EXCEPT ![<<r, t>>] = step]

LockIsFree(r) == lock[r] = None

Acquire(r, t) ==
  /\ At(r, t, "idle") /\ LockIsFree(r)
  /\ lock' = [lock EXCEPT ![r] = t]
  /\ Goto(r, t, "locked")
  /\ UNCHANGED <<file, today, path, prevHash, hashes, tears>>

MutantCacheIsStale(r) == prevHash[r] = None

\* The cached hash is good for the file it was taken from and no other.
CacheIsStale(r) == prevHash[r] = None \/ path[r] # today

\* The day is read once; it names the file for the rest of the call.
LinkTo(r, t) ==
  /\ At(r, t, "locked")
  /\ path' = [path EXCEPT ![r] = today]
  /\ prevHash' = IF CacheIsStale(r)
                 THEN [prevHash EXCEPT ![r] = LastHash(file[<<r, today>>])] ELSE prevHash
  /\ Goto(r, t, "linked")
  /\ UNCHANGED <<file, today, lock, hashes, tears>>

\* A line written behind a fragment ends up on the same line, unread.
Glued(fragment, line) ==
  [fragment EXCEPT !.hash = line.hash + 1,
                   !.form = IF line.form = "open" THEN "open" ELSE "glued"]

MutantExtended(lines, line) ==
  IF lines = <<>> THEN <<line>> ELSE [lines EXCEPT ![Len(lines)] = Glued(@, line)]

\* The line, and its end.
Extended(lines, line) ==
  IF EndsOpen(lines) THEN [lines EXCEPT ![Len(lines)] = Glued(@, line)]
  ELSE Append(lines, line)

Write(r, t) ==
  /\ At(r, t, "linked") /\ hashes[r] + 2 <= MaxHash
  /\ LET line == [hash |-> hashes[r] + 1, prev |-> prevHash[r], form |-> "whole"]
     IN  file' = [file EXCEPT ![<<r, path[r]>>] = Extended(@, line)]
  /\ hashes' = [hashes EXCEPT ![r] = @ + 2]
  /\ Goto(r, t, "written")
  /\ UNCHANGED <<today, path, prevHash, lock, tears>>

\* The hash of what was written, and the end of the with.
Cache(r, t) ==
  /\ At(r, t, "written")
  /\ prevHash' = [prevHash EXCEPT ![r] = hashes[r] - 1]
  /\ lock' = [lock EXCEPT ![r] = None]
  /\ Goto(r, t, "idle")
  /\ UNCHANGED <<file, today, path, hashes, tears>>

\* The write raises half way: the lock is released, the cached hash stays.
Tear(r, t) ==
  /\ At(r, t, "linked") /\ hashes[r] + 2 <= MaxHash
  /\ tears[<<r, path[r]>>] < MaxTears
  /\ LET line == [hash |-> hashes[r] + 1, prev |-> prevHash[r], form |-> "open"]
     IN  file' = [file EXCEPT ![<<r, path[r]>>] = Extended(@, line)]
  /\ hashes' = [hashes EXCEPT ![r] = @ + 2]
  /\ tears' = [tears EXCEPT ![<<r, path[r]>>] = @ + 1]
  /\ lock' = [lock EXCEPT ![r] = None]
  /\ Goto(r, t, "idle")
  /\ UNCHANGED <<today, path, prevHash>>

\* The process dies and comes back: a new AuditLog, with nothing cached.
Restart(r) ==
  /\ path[r] # None
  /\ path' = [path EXCEPT ![r] = None]
  /\ prevHash' = [prevHash EXCEPT ![r] = None]
  /\ lock' = [lock EXCEPT ![r] = None]
  /\ pc' = [w \in Roles \X Threads |-> IF w[1] = r THEN "idle" ELSE pc[w]]
  /\ UNCHANGED <<file, today, hashes, tears>>

Midnight ==
  /\ today < MaxDay
  /\ today' = today + 1
  /\ UNCHANGED <<file, processVars, hashes, tears>>

Next ==
  \/ \E r \in Roles, t \in Threads :
       Acquire(r, t) \/ LinkTo(r, t) \/ Write(r, t) \/ Cache(r, t) \/ Tear(r, t)
  \/ \E r \in Roles : Restart(r)
  \/ Midnight

Spec == Init /\ [][Next]_vars

-----------------------------------------------------------------------------
(* What verify_chain finds.                                                *)

Links(lines, i) == lines[i].prev = IF i = 1 THEN GENESIS ELSE lines[i - 1].hash

Whole(lines) == {i \in DOMAIN lines : lines[i].form = "whole"}
Damaged(lines) == DOMAIN lines \ Whole(lines)

\* verify_chain answers (True, n).  A damaged line makes it raise instead.
Verifies(lines) == \A i \in DOMAIN lines : i \in Whole(lines) /\ Links(lines, i)

\* Wherever two whole lines are neighbours the chain holds between them.
Neighbours(lines) ==
  \A i \in Whole(lines) : (i = 1 \/ i - 1 \in Whole(lines)) => Links(lines, i)

\* A file that no write failed on verifies from its first line to its last,
\* whichever threads wrote it, over midnight and however often the process
\* died between two steps of append.
ChainsVerify == \A f \in Files : tears[f] = 0 => Verifies(file[f])

\* A write that failed half way spoils one line of its own file, together
\* with the record that is written behind it, and nothing else: the chain
\* holds on both sides, and there are no more spoiled lines than failures.
DamageIsConfined ==
  \A f \in Files : Neighbours(file[f]) /\ Cardinality(Damaged(file[f])) <= tears[f]
=============================================================================
