-------------------------- MODULE AuditLog_proofs --------------------------
(***************************************************************************)
(* For every number of roles, threads and days: what AuditLog promises of  *)
(* its files.  The strengthening says what the cached hash is worth: it is *)
(* the hash of the last line of the file it was taken from, as long as     *)
(* that line is whole and nobody is between the write and the caching.     *)
(***************************************************************************)
EXTENDS AuditLog, TLAPS, FiniteSetTheorems

-----------------------------------------------------------------------------
(* One file, one line more.                                                *)

\* The hash a line must carry, where the chain asks for one.
Fits(lines, h) == (lines = <<>> \/ Last(lines).form = "whole") => h = LastHash(lines)

\* _last_hash answers with a hash.
LEMMA LastHashType ==
  ASSUME NEW lines \in Seq(Line) PROVE LastHash(lines) \in Hashes
<1>1. CASE lines = <<>> BY <1>1 DEF LastHash, GENESIS, Hashes
<1>2. CASE lines # <<>>
  <2>1. Len(lines) \in 1 .. Len(lines) BY <1>2
  <2>2. lines[Len(lines)] \in Line BY <2>1
  <2> QED BY <1>2, <2>2 DEF LastHash, Last, Line
<1> QED BY <1>1, <1>2

\* A spoiled line is a line.
LEMMA GluedType ==
  ASSUME NEW fragment \in Line, NEW line \in Line
  PROVE  Glued(fragment, line) \in Line /\ Glued(fragment, line).form # "whole"
<1>1. line.hash + 1 \in Hashes BY DEF Line, Hashes
<1> QED BY <1>1 DEF Glued, Line

\* Extended keeps the file a sequence of lines, and its last line is the new
\* one if it is whole.
LEMMA ExtendedType ==
  ASSUME NEW lines \in Seq(Line), NEW line \in Line, line.form \in {"whole", "open"}
  PROVE  /\ Extended(lines, line) \in Seq(Line)
         /\ Extended(lines, line) # <<>>
         /\ Last(Extended(lines, line)).form = "whole"
              => Last(Extended(lines, line)).hash = line.hash
<1>1. CASE EndsOpen(lines)
  <2> DEFINE n == Len(lines)
             end == Glued(lines[n], line)
             new == [lines EXCEPT ![n] = end]
  <2>1. n \in Nat \ {0} /\ lines[n] \in Line BY <1>1 DEF EndsOpen
  <2>2. end \in Line /\ end.form # "whole" BY <2>1, GluedType
  <2> HIDE DEF end
  <2>3. new \in Seq(Line) /\ Len(new) = n /\ new[n] = end BY <2>1, <2>2
  <2> QED BY <1>1, <2>1, <2>2, <2>3 DEF Extended, Last, end
<1>2. CASE ~EndsOpen(lines) BY <1>2 DEF Extended, Last
<1> QED BY <1>1, <1>2

\* A fragment leaves the file ending in a spoiled line.
LEMMA ExtendedOpen ==
  ASSUME NEW lines \in Seq(Line), NEW line \in Line, line.form = "open"
  PROVE  Last(Extended(lines, line)).form # "whole"
<1>1. CASE EndsOpen(lines)
  <2> DEFINE n == Len(lines)
             end == Glued(lines[n], line)
             new == [lines EXCEPT ![n] = end]
  <2>1. n \in Nat \ {0} /\ lines[n] \in Line BY <1>1 DEF EndsOpen
  <2>2. end \in Line /\ end.form # "whole" BY <2>1, GluedType
  <2> HIDE DEF end
  <2>3. Len(new) = n /\ new[n] = end BY <2>1, <2>2
  <2> QED BY <1>1, <2>2, <2>3 DEF Extended, Last, end
<1>2. CASE ~EndsOpen(lines) BY <1>2 DEF Extended, Last
<1> QED BY <1>1, <1>2

\* A line that fits what it is written behind leaves the neighbours linked.
LEMMA ExtendedNeighbours ==
  ASSUME NEW lines \in Seq(Line), NEW line \in Line, line.form \in {"whole", "open"},
         Neighbours(lines), Fits(lines, line.prev)
  PROVE  Neighbours(Extended(lines, line))
<1>1. CASE EndsOpen(lines)
  <2> DEFINE n == Len(lines)
             end == Glued(lines[n], line)
             new == [lines EXCEPT ![n] = end]
  <2>1. n \in Nat \ {0} /\ lines[n] \in Line /\ lines[n].form = "open"
    BY <1>1 DEF EndsOpen, Last
  <2>2. end.form # "whole" BY <2>1, GluedType
  <2> HIDE DEF end
  <2>4. DOMAIN new = 1 .. n /\ DOMAIN lines = 1 .. n
        /\ new[n] = end /\ \A i \in 1 .. n - 1 : new[i] = lines[i]
    BY <2>1
  <2>5. Whole(new) = Whole(lines)
    BY <2>1, <2>2, <2>4 DEF Whole
  <2>6. \A i \in Whole(new) : i \in 1 .. n - 1
    BY <2>1, <2>2, <2>4 DEF Whole
  <2>7. ASSUME NEW i \in Whole(new), i = 1 \/ i - 1 \in Whole(new) PROVE Links(new, i)
    <3>1. Links(lines, i) BY <2>5, <2>7 DEF Neighbours
    <3>2. new[i] = lines[i] BY <2>4, <2>6
    <3>3. i # 1 => new[i - 1] = lines[i - 1] BY <2>4, <2>6, <2>7
    <3> QED BY <3>1, <3>2, <3>3 DEF Links
  <2>8. Neighbours(new) BY <2>7 DEF Neighbours
  <2> QED BY <1>1, <2>8 DEF Extended, end
<1>2. CASE ~EndsOpen(lines)
  <2> DEFINE new == Append(lines, line)
             n == Len(lines)
  <2>1. n \in Nat /\ Len(new) = n + 1 /\ new[n + 1] = line /\ \A i \in 1 .. n : new[i] = lines[i]
    OBVIOUS
  <2>2. \A i \in 1 .. n : i \in Whole(new) <=> i \in Whole(lines) BY <2>1 DEF Whole
  <2>3. ASSUME NEW i \in Whole(new), i = 1 \/ i - 1 \in Whole(new) PROVE Links(new, i)
    <3>1. i \in 1 .. n + 1 BY <2>1 DEF Whole
    <3>2. CASE i \in 1 .. n
      <4>1. i = 1 \/ i - 1 \in Whole(lines) BY <2>1, <2>2, <2>3, <3>2 DEF Whole
      <4>2. Links(lines, i) BY <2>2, <3>2, <4>1 DEF Neighbours
      <4> QED BY <2>1, <3>2, <4>2 DEF Links
    <3>3. CASE i = n + 1 /\ n = 0
      BY <2>1, <3>3 DEF Links, Fits, LastHash
    <3>4. CASE i = n + 1 /\ n # 0
      <4>1. n \in Whole(lines) BY <2>1, <2>2, <2>3, <3>4
      <4>2. lines # <<>> /\ Last(lines).form = "whole" BY <2>1, <3>4, <4>1 DEF Whole, Last
      <4>3. line.prev = lines[n].hash BY <4>2 DEF Fits, LastHash, Last
      <4> QED BY <2>1, <3>4, <4>3 DEF Links
    <3> QED BY <3>1, <3>2, <3>3, <3>4, <2>1
  <2>4. Neighbours(new) BY <2>3 DEF Neighbours
  <2> QED BY <1>2, <2>4 DEF Extended
<1> QED BY <1>1, <1>2

\* The spoiled lines of a file are a finite set.
LEMMA DamagedFinite ==
  ASSUME NEW lines \in Seq(Line)
  PROVE  IsFiniteSet(Damaged(lines)) /\ Cardinality(Damaged(lines)) \in Nat
<1>1. IsFiniteSet(1 .. Len(lines)) BY FS_Interval
<1>2. Damaged(lines) \subseteq 1 .. Len(lines) BY DEF Damaged, Whole
<1> QED BY <1>1, <1>2, FS_Subset, FS_CardinalityType

\* A whole line spoils nothing, a fragment one line at most.
LEMMA ExtendedDamage ==
  ASSUME NEW lines \in Seq(Line), NEW line \in Line, line.form \in {"whole", "open"}
  PROVE  /\ Cardinality(Damaged(Extended(lines, line))) <= Cardinality(Damaged(lines)) + 1
         /\ line.form = "whole" => Damaged(Extended(lines, line)) = Damaged(lines)
<1>0. IsFiniteSet(Damaged(lines)) /\ Cardinality(Damaged(lines)) \in Nat BY DamagedFinite
<1>1. CASE EndsOpen(lines)
  <2> DEFINE n == Len(lines)
             end == Glued(lines[n], line)
             new == [lines EXCEPT ![n] = end]
  <2>1. n \in Nat \ {0} /\ lines[n] \in Line /\ lines[n].form = "open"
    BY <1>1 DEF EndsOpen, Last
  <2>2. end.form # "whole" BY <2>1, GluedType
  <2> HIDE DEF end
  <2>4. DOMAIN new = 1 .. n /\ DOMAIN lines = 1 .. n
        /\ new[n] = end /\ \A i \in 1 .. n - 1 : new[i] = lines[i]
    BY <2>1
  <2>6. Damaged(new) = Damaged(lines) BY <2>1, <2>2, <2>4 DEF Damaged, Whole
  <2> QED BY <1>0, <1>1, <2>6 DEF Extended, end
<1>2. CASE ~EndsOpen(lines)
  <2> DEFINE new == Append(lines, line)
             n == Len(lines)
  <2>1. n \in Nat /\ new[n + 1] = line /\ (\A i \in 1 .. n : new[i] = lines[i])
        /\ DOMAIN new = 1 .. n + 1 /\ DOMAIN lines = 1 .. n
    OBVIOUS
  <2>2. CASE line.form = "whole"
    <3>1. Damaged(new) = Damaged(lines) BY <2>1, <2>2 DEF Damaged, Whole
    <3> QED BY <1>0, <1>2, <3>1 DEF Extended
  <2>3. CASE line.form = "open"
    <3>1. Damaged(new) = Damaged(lines) \cup {n + 1} BY <2>1, <2>3 DEF Damaged, Whole
    <3>2. n + 1 \notin Damaged(lines) BY <2>1 DEF Damaged
    <3>3. Cardinality(Damaged(new)) = Cardinality(Damaged(lines)) + 1
      BY <1>0, <3>1, <3>2, FS_AddElement
    <3> QED BY <1>0, <1>2, <2>3, <3>3 DEF Extended
  <2> QED BY <2>2, <2>3
<1> QED BY <1>1, <1>2
-----------------------------------------------------------------------------
(* The strengthening.                                                      *)

\* A thread inside append holds the lock of its process, and the process has
\* a path and a hash once it is past LinkTo.
ControlInv ==
  \A r \in Roles :
    /\ \A t \in Threads : pc[<<r, t>>] # "idle" => lock[r] = t
    /\ \A t \in Threads : pc[<<r, t>>] \in {"linked", "written"} => path[r] # None
    /\ path[r] # None <=> prevHash[r] # None

\* What the cached hash is worth to the next line, and what it will be once
\* the thread that has written caches it.
CacheInv ==
  \A r \in Roles : path[r] # None =>
    /\ (\A t \in Threads : pc[<<r, t>>] # "written") => Fits(file[<<r, path[r]>>], prevHash[r])
    /\ (\E t \in Threads : pc[<<r, t>>] = "written") =>
         /\ hashes[r] >= 2
         /\ Fits(file[<<r, path[r]>>], hashes[r] - 1)

IInv == TypeOK /\ ControlInv /\ CacheInv /\ DamageIsConfined

\* The empty log.
LEMMA InitIInv == Init => IInv
<1> SUFFICES ASSUME Init PROVE IInv OBVIOUS
<1>1. TypeOK BY NoneAssumption, BoundsAssumption DEF Init, TypeOK, Files, Days
<1>2. ControlInv /\ CacheInv BY DEF Init, ControlInv, CacheInv
<1>3. Damaged(<<>>) = {} /\ Neighbours(<<>>) BY DEF Damaged, Whole, Neighbours
<1>4. Cardinality(Damaged(<<>>)) = 0 BY <1>3, FS_EmptySet
<1>5. \A f \in Files : file[f] = <<>> /\ tears[f] = 0 BY DEF Init
<1>6. DamageIsConfined BY <1>3, <1>4, <1>5 DEF DamageIsConfined
<1> QED BY <1>1, <1>2, <1>6 DEF IInv

\* The write, whole or not, touches the one file its process has open.
LEMMA WriteKeeps ==
  ASSUME IInv, NEW r \in Roles, NEW t \in Threads, pc[<<r, t>>] = "linked",
         NEW form \in {"whole", "open"}
  PROVE  LET line == [hash |-> hashes[r] + 1, prev |-> prevHash[r], form |-> form]
             f == <<r, path[r]>>
             new == Extended(file[f], line)
         IN  /\ f \in Files /\ line \in Line
             /\ new \in Seq(Line) /\ Neighbours(new)
             /\ Cardinality(Damaged(new)) <= tears[f] + (IF form = "open" THEN 1 ELSE 0)
             /\ Fits(new, hashes[r] + 1)
             /\ form = "open" => new # <<>> /\ Last(new).form # "whole"
<1> DEFINE line == [hash |-> hashes[r] + 1, prev |-> prevHash[r], form |-> form]
           f == <<r, path[r]>>
           new == Extended(file[f], line)
<1>1. path[r] # None /\ path[r] \in Days /\ prevHash[r] \in Hashes /\ hashes[r] \in Nat
  BY DEF IInv, ControlInv, TypeOK
<1>2. f \in Files /\ line \in Line BY <1>1 DEF Files, Line, Hashes
<1>3. file[f] \in Seq(Line) /\ tears[f] \in Nat BY <1>2 DEF IInv, TypeOK
<1>4. \A u \in Threads : pc[<<r, u>>] # "written"
  BY DEF IInv, ControlInv
<1>5. Fits(file[f], prevHash[r]) BY <1>1, <1>4 DEF IInv, CacheInv
<1>6. Neighbours(file[f]) /\ Cardinality(Damaged(file[f])) <= tears[f]
  BY <1>2 DEF IInv, DamageIsConfined
<1>7. line.form = form /\ line.prev = prevHash[r] /\ line.hash = hashes[r] + 1 OBVIOUS
<1> HIDE DEF line, f
<1>8. new \in Seq(Line) /\ new # <<>>
      /\ (Last(new).form = "whole" => Last(new).hash = line.hash)
  BY <1>2, <1>3, <1>7, ExtendedType
<1>9. Neighbours(new) BY <1>2, <1>3, <1>5, <1>6, <1>7, ExtendedNeighbours
<1>10. Cardinality(Damaged(file[f])) \in Nat /\ Cardinality(Damaged(new)) \in Nat
  BY <1>3, <1>8, DamagedFinite
<1>11. Cardinality(Damaged(new)) <= tears[f] + (IF form = "open" THEN 1 ELSE 0)
  <2>1. CASE form = "whole"
    BY <2>1, <1>2, <1>3, <1>6, <1>7, <1>10, ExtendedDamage
  <2>2. CASE form = "open"
    BY <2>2, <1>2, <1>3, <1>6, <1>7, <1>10, ExtendedDamage
  <2> QED BY <2>1, <2>2
<1>12. Fits(new, line.hash) BY <1>8 DEF Fits, LastHash
<1>13. form = "open" => Last(new).form # "whole"
  BY <1>2, <1>3, <1>7, ExtendedOpen
<1> QED BY <1>2, <1>8, <1>9, <1>11, <1>12, <1>13 DEF line, f

\* One step of one thread, of a process or of the clock.
LEMMA NextIInv == IInv /\ [Next]_vars => IInv'
<1> SUFFICES ASSUME IInv, [Next]_vars PROVE IInv' OBVIOUS
<1> USE DEF IInv
<1>1. ASSUME NEW r \in Roles, NEW t \in Threads, Acquire(r, t) PROVE IInv'
  <2>1. lock' = [lock EXCEPT ![r] = t] /\ pc' = [pc EXCEPT ![<<r, t>>] = "locked"]
        /\ pc[<<r, t>>] = "idle" /\ lock[r] = None /\ UNCHANGED <<file, path, prevHash, hashes, tears>>
    BY <1>1 DEF Acquire, At, Goto, LockIsFree
  <2>2. TypeOK' BY <1>1, <2>1 DEF TypeOK, Acquire
  <2>3. ControlInv' BY <2>1, NoneAssumption DEF TypeOK, ControlInv
  <2>4. \A q \in Roles, u \in Threads : pc'[<<q, u>>] = "written" <=> pc[<<q, u>>] = "written"
    BY <2>1 DEF TypeOK
  <2>5. CacheInv' BY <2>1, <2>4 DEF CacheInv, Fits, LastHash, Last
  <2>6. DamageIsConfined' BY <2>1 DEF DamageIsConfined
  <2> QED BY <2>2, <2>3, <2>5, <2>6
<1>2. ASSUME NEW r \in Roles, NEW t \in Threads, LinkTo(r, t) PROVE IInv'
  <2>1. path' = [path EXCEPT ![r] = today]
        /\ pc' = [pc EXCEPT ![<<r, t>>] = "linked"]
        /\ pc[<<r, t>>] = "locked" /\ UNCHANGED <<file, today, lock, hashes, tears>>
    BY <1>2 DEF LinkTo, At, Goto
  <2>2. prevHash' = IF CacheIsStale(r)
                    THEN [prevHash EXCEPT ![r] = LastHash(file[<<r, today>>])] ELSE prevHash
    BY <1>2 DEF LinkTo
  <2>3. <<r, today>> \in Files /\ file[<<r, today>>] \in Seq(Line) BY DEF TypeOK, Files
  <2>4. LastHash(file[<<r, today>>]) \in Hashes
    BY <2>3, LastHashType
  <2>5. TypeOK' BY <2>1, <2>2, <2>4 DEF TypeOK
  <2>6. today # None BY NoneAssumption DEF TypeOK, Days
  <2>7. prevHash'[r] # None
    BY <2>2, <2>4, NoneAssumption DEF CacheIsStale, TypeOK, Hashes
  <2>8. \A q \in Roles : q # r => path'[q] = path[q] /\ prevHash'[q] = prevHash[q]
    BY <2>1, <2>2 DEF TypeOK
  <2>9. path'[r] = today BY <2>1 DEF TypeOK
  <2>10. ControlInv' BY <2>1, <2>6, <2>7, <2>8, <2>9 DEF ControlInv, TypeOK
  <2>11. \A q \in Roles, u \in Threads : pc'[<<q, u>>] = "written" <=> pc[<<q, u>>] = "written"
    BY <2>1 DEF TypeOK
  <2>12. \A u \in Threads : pc[<<r, u>>] # "written" BY <2>1 DEF ControlInv
  <2>13. Fits(file[<<r, today>>], prevHash'[r])
    <3>1. CASE CacheIsStale(r) BY <2>2, <3>1 DEF TypeOK, Fits
    <3>2. CASE ~CacheIsStale(r)
      BY <2>2, <2>6, <2>12, <3>2 DEF CacheIsStale, CacheInv
    <3> QED BY <3>1, <3>2
  <2>14. ASSUME NEW q \in Roles, path'[q] # None
         PROVE  /\ (\A u \in Threads : pc'[<<q, u>>] # "written")
                      => Fits(file'[<<q, path'[q]>>], prevHash'[q])
                /\ (\E u \in Threads : pc'[<<q, u>>] = "written") =>
                      /\ hashes'[q] >= 2
                      /\ Fits(file'[<<q, path'[q]>>], hashes'[q] - 1)
    <3>1. CASE q = r BY <2>1, <2>9, <2>11, <2>12, <2>13, <3>1
    <3>2. CASE q # r BY <2>1, <2>8, <2>11, <2>14, <3>2 DEF CacheInv
    <3> QED BY <3>1, <3>2
  <2>16. CacheInv' BY <2>14 DEF CacheInv, Fits, LastHash, Last
  <2>15. DamageIsConfined' BY <2>1 DEF DamageIsConfined
  <2> QED BY <2>5, <2>10, <2>15, <2>16
<1>3. ASSUME NEW r \in Roles, NEW t \in Threads, Write(r, t) PROVE IInv'
  <2> DEFINE f == <<r, path[r]>>
             line == [hash |-> hashes[r] + 1, prev |-> prevHash[r], form |-> "whole"]
             new == Extended(file[f], line)
  <2>1. pc[<<r, t>>] = "linked" /\ pc' = [pc EXCEPT ![<<r, t>>] = "written"]
        /\ file' = [file EXCEPT ![f] = new] /\ hashes' = [hashes EXCEPT ![r] = @ + 2]
        /\ UNCHANGED <<today, path, prevHash, lock, tears>>
    BY <1>3 DEF Write, At, Goto
  <2>2. /\ f \in Files /\ new \in Seq(Line) /\ Neighbours(new)
        /\ Cardinality(Damaged(new)) <= tears[f] + 0
        /\ Fits(new, hashes[r] + 1)
    BY <2>1, WriteKeeps
  <2>3. tears[f] \in Nat /\ hashes[r] \in Nat BY <2>2 DEF TypeOK
  <2> HIDE DEF new
  <2>4. TypeOK' BY <2>1, <2>2 DEF TypeOK
  <2>5. ControlInv' BY <2>1 DEF ControlInv, TypeOK
  <2>6. DamageIsConfined'
    <3>1. \A g \in Files : file'[g] = IF g = f THEN new ELSE file[g] BY <2>1 DEF TypeOK
    <3>2. \A g \in Files : Neighbours(file'[g]) /\ Cardinality(Damaged(file'[g])) <= tears[g]
      BY <2>2, <2>3, <3>1 DEF DamageIsConfined
    <3> QED BY <2>1, <3>2 DEF DamageIsConfined, Neighbours, Damaged, Links, Whole
  <2>7. \A q \in Roles : q # r => <<q, path[q]>> # f OBVIOUS
  <2>8. ASSUME NEW q \in Roles, path'[q] # None
        PROVE  /\ (\A u \in Threads : pc'[<<q, u>>] # "written")
                     => Fits(file'[<<q, path'[q]>>], prevHash'[q])
               /\ (\E u \in Threads : pc'[<<q, u>>] = "written") =>
                     /\ hashes'[q] >= 2
                     /\ Fits(file'[<<q, path'[q]>>], hashes'[q] - 1)
    <3>1. CASE q = r
      <4>1. pc'[<<r, t>>] = "written" BY <2>1 DEF TypeOK
      <4>2. hashes'[r] = hashes[r] + 2 /\ file'[f] = new BY <2>1, <2>2 DEF TypeOK
      <4>3. hashes'[r] >= 2 /\ hashes'[r] - 1 = hashes[r] + 1 BY <2>3, <4>2
      <4> QED BY <2>1, <2>2, <3>1, <4>1, <4>2, <4>3
    <3>2. CASE q # r
      <4>1. \A u \in Threads : pc'[<<q, u>>] = pc[<<q, u>>] BY <2>1, <3>2 DEF TypeOK
      <4>2. hashes'[q] = hashes[q] BY <2>1, <3>2 DEF TypeOK
      <4>3. <<q, path[q]>> \in Files BY <2>1, <2>8 DEF TypeOK, Files
      <4>4. file'[<<q, path[q]>>] = file[<<q, path[q]>>]
        BY <2>1, <2>7, <3>2, <4>3 DEF TypeOK
      <4> QED BY <2>1, <2>8, <4>1, <4>2, <4>4 DEF CacheInv
    <3> QED BY <3>1, <3>2
  <2>9. CacheInv' BY <2>8 DEF CacheInv, Fits, LastHash, Last
  <2> QED BY <2>4, <2>5, <2>6, <2>9
<1>4. ASSUME NEW r \in Roles, NEW t \in Threads, Cache(r, t) PROVE IInv'
  <2>1. pc[<<r, t>>] = "written" /\ pc' = [pc EXCEPT ![<<r, t>>] = "idle"]
        /\ prevHash' = [prevHash EXCEPT ![r] = hashes[r] - 1] /\ lock' = [lock EXCEPT ![r] = None]
        /\ UNCHANGED <<file, today, path, hashes, tears>>
    BY <1>4 DEF Cache, At, Goto
  <2>2. path[r] # None /\ hashes[r] \in Nat /\ lock[r] = t BY <2>1 DEF ControlInv, TypeOK
  <2>3. hashes[r] >= 2 /\ Fits(file[<<r, path[r]>>], hashes[r] - 1) BY <2>1, <2>2 DEF CacheInv
  <2>4. hashes[r] - 1 \in Hashes BY <2>2, <2>3 DEF Hashes
  <2>5. TypeOK' BY <2>1, <2>4 DEF TypeOK
  <2>6. prevHash'[r] = hashes[r] - 1 /\ prevHash'[r] # None
    BY <2>1, <2>4, NoneAssumption DEF TypeOK, Hashes
  <2>7. \A q \in Roles : q # r => prevHash'[q] = prevHash[q] /\ lock'[q] = lock[q]
    BY <2>1 DEF TypeOK
  <2>8. \A u \in Threads : pc'[<<r, u>>] = "idle"
    <3>1. \A u \in Threads : u # t => pc[<<r, u>>] = "idle" BY <2>2 DEF ControlInv
    <3> QED BY <2>1, <3>1 DEF TypeOK
  <2>9. \A q \in Roles, u \in Threads : q # r => pc'[<<q, u>>] = pc[<<q, u>>]
    BY <2>1 DEF TypeOK
  <2>10. ControlInv' BY <2>1, <2>2, <2>6, <2>7, <2>8, <2>9 DEF ControlInv
  <2>11. ASSUME NEW q \in Roles, path'[q] # None
         PROVE  /\ (\A u \in Threads : pc'[<<q, u>>] # "written")
                      => Fits(file'[<<q, path'[q]>>], prevHash'[q])
                /\ (\E u \in Threads : pc'[<<q, u>>] = "written") =>
                      /\ hashes'[q] >= 2
                      /\ Fits(file'[<<q, path'[q]>>], hashes'[q] - 1)
    <3>1. CASE q = r BY <2>1, <2>3, <2>6, <2>8, <3>1
    <3>2. CASE q # r BY <2>1, <2>7, <2>9, <2>11, <3>2 DEF CacheInv
    <3> QED BY <3>1, <3>2
  <2>12. CacheInv' BY <2>11 DEF CacheInv, Fits, LastHash, Last
  <2>13. DamageIsConfined' BY <2>1 DEF DamageIsConfined
  <2> QED BY <2>5, <2>10, <2>12, <2>13
<1>5. ASSUME NEW r \in Roles, NEW t \in Threads, Tear(r, t) PROVE IInv'
  <2> DEFINE f == <<r, path[r]>>
             line == [hash |-> hashes[r] + 1, prev |-> prevHash[r], form |-> "open"]
             new == Extended(file[f], line)
  <2>1. pc[<<r, t>>] = "linked" /\ pc' = [pc EXCEPT ![<<r, t>>] = "idle"]
        /\ file' = [file EXCEPT ![f] = new] /\ hashes' = [hashes EXCEPT ![r] = @ + 2]
        /\ tears' = [tears EXCEPT ![f] = @ + 1] /\ lock' = [lock EXCEPT ![r] = None]
        /\ UNCHANGED <<today, path, prevHash>>
    BY <1>5 DEF Tear, At, Goto
  <2>2. /\ f \in Files /\ new \in Seq(Line) /\ Neighbours(new)
        /\ Cardinality(Damaged(new)) <= tears[f] + 1
        /\ new # <<>> /\ Last(new).form # "whole"
    BY <2>1, WriteKeeps
  <2>3. tears[f] \in Nat /\ hashes[r] \in Nat /\ lock[r] = t /\ path[r] # None
    BY <2>1, <2>2 DEF TypeOK, ControlInv
  <2> HIDE DEF new
  <2>4. TypeOK' BY <2>1, <2>2 DEF TypeOK
  <2>5. \A u \in Threads : pc'[<<r, u>>] = "idle"
    <3>1. \A u \in Threads : u # t => pc[<<r, u>>] = "idle" BY <2>3 DEF ControlInv
    <3> QED BY <2>1, <3>1 DEF TypeOK
  <2>6. \A q \in Roles, u \in Threads : q # r => pc'[<<q, u>>] = pc[<<q, u>>]
    BY <2>1 DEF TypeOK
  <2>7. \A q \in Roles : q # r => lock'[q] = lock[q] /\ hashes'[q] = hashes[q]
    BY <2>1 DEF TypeOK
  <2>8. ControlInv' BY <2>1, <2>3, <2>5, <2>6, <2>7 DEF ControlInv
  <2>9. DamageIsConfined'
    <3>1. \A g \in Files : /\ file'[g] = IF g = f THEN new ELSE file[g]
                           /\ tears'[g] = IF g = f THEN tears[g] + 1 ELSE tears[g]
      BY <2>1 DEF TypeOK
    <3>2. \A g \in Files : Neighbours(file'[g]) /\ Cardinality(Damaged(file'[g])) <= tears'[g]
      BY <2>2, <2>3, <3>1 DEF DamageIsConfined
    <3> QED BY <3>2 DEF DamageIsConfined, Neighbours, Damaged, Links, Whole
  <2>10. ASSUME NEW q \in Roles, path'[q] # None
         PROVE  /\ (\A u \in Threads : pc'[<<q, u>>] # "written")
                      => Fits(file'[<<q, path'[q]>>], prevHash'[q])
                /\ (\E u \in Threads : pc'[<<q, u>>] = "written") =>
                      /\ hashes'[q] >= 2
                      /\ Fits(file'[<<q, path'[q]>>], hashes'[q] - 1)
    <3>1. CASE q = r
      <4>1. file'[f] = new BY <2>1, <2>2 DEF TypeOK
      <4>2. Fits(new, prevHash[r]) BY <2>2 DEF Fits
      <4> QED BY <2>1, <2>5, <3>1, <4>1, <4>2
    <3>2. CASE q # r
      <4>1. <<q, path[q]>> \in Files BY <2>1, <2>10 DEF TypeOK, Files
      <4>2. file'[<<q, path[q]>>] = file[<<q, path[q]>>] BY <2>1, <3>2, <4>1 DEF TypeOK
      <4> QED BY <2>1, <2>6, <2>7, <2>10, <3>2, <4>2 DEF CacheInv
    <3> QED BY <3>1, <3>2
  <2>11. CacheInv' BY <2>10 DEF CacheInv, Fits, LastHash, Last
  <2> QED BY <2>4, <2>8, <2>9, <2>11
<1>6. ASSUME NEW r \in Roles, Restart(r) PROVE IInv'
  <2>1. path' = [path EXCEPT ![r] = None] /\ prevHash' = [prevHash EXCEPT ![r] = None]
        /\ lock' = [lock EXCEPT ![r] = None]
        /\ pc' = [w \in Roles \X Threads |-> IF w[1] = r THEN "idle" ELSE pc[w]]
        /\ UNCHANGED <<file, today, hashes, tears>>
    BY <1>6 DEF Restart
  <2>2. TypeOK' BY <2>1 DEF TypeOK
  <2>3. \A u \in Threads : pc'[<<r, u>>] = "idle" BY <2>1
  <2>4. \A q \in Roles : q # r =>
          /\ path'[q] = path[q] /\ prevHash'[q] = prevHash[q] /\ lock'[q] = lock[q]
          /\ \A u \in Threads : pc'[<<q, u>>] = pc[<<q, u>>]
    BY <2>1 DEF TypeOK
  <2>5. path'[r] = None /\ prevHash'[r] = None BY <2>1 DEF TypeOK
  <2>6. ControlInv' BY <2>3, <2>4, <2>5 DEF ControlInv
  <2>7. ASSUME NEW q \in Roles, path'[q] # None
        PROVE  /\ (\A u \in Threads : pc'[<<q, u>>] # "written")
                     => Fits(file'[<<q, path'[q]>>], prevHash'[q])
               /\ (\E u \in Threads : pc'[<<q, u>>] = "written") =>
                     /\ hashes'[q] >= 2
                     /\ Fits(file'[<<q, path'[q]>>], hashes'[q] - 1)
    BY <2>1, <2>4, <2>5, <2>7 DEF CacheInv
  <2>8. CacheInv' BY <2>7 DEF CacheInv, Fits, LastHash, Last
  <2>9. DamageIsConfined' BY <2>1 DEF DamageIsConfined
  <2> QED BY <2>2, <2>6, <2>8, <2>9
<1>7. CASE Midnight
  <2>1. today' \in Days /\ UNCHANGED <<file, processVars, hashes, tears>>
    BY <1>7, BoundsAssumption DEF Midnight, TypeOK, Days
  <2> QED BY <2>1 DEF processVars, TypeOK, ControlInv, CacheInv, DamageIsConfined,
        Fits, LastHash, Last
<1>8. CASE UNCHANGED vars
  BY <1>8 DEF vars, processVars, TypeOK, ControlInv, CacheInv, DamageIsConfined,
     Fits, LastHash, Last
<1> QED BY <1>1, <1>2, <1>3, <1>4, <1>5, <1>6, <1>7, <1>8 DEF Next

-----------------------------------------------------------------------------
\* The strengthened invariant holds for every number of roles, threads, days,
\* crashes and failed writes.
THEOREM LogInvariant == Spec => []IInv
<1> QED BY InitIInv, NextIInv, PTL DEF Spec

\* Every variable of the log keeps its type.
THEOREM TypeCorrect == Spec => []TypeOK
<1>1. IInv => TypeOK BY DEF IInv
<1> QED BY <1>1, LogInvariant, PTL

\* A failed write spoils its own line and the record written behind it.
THEOREM DamageStaysConfined == Spec => []DamageIsConfined
<1>1. IInv => DamageIsConfined BY DEF IInv
<1> QED BY <1>1, LogInvariant, PTL

\* A file no write failed on verifies, whatever the threads, the processes
\* and the calendar did.
THEOREM ChainsAlwaysVerify == Spec => []ChainsVerify
<1>1. IInv => ChainsVerify
  <2> SUFFICES ASSUME IInv, NEW f \in Files, tears[f] = 0 PROVE Verifies(file[f])
    BY DEF ChainsVerify
  <2>1. file[f] \in Seq(Line) BY DEF IInv, TypeOK
  <2>2. IsFiniteSet(Damaged(file[f])) /\ Cardinality(Damaged(file[f])) \in Nat
    BY <2>1, DamagedFinite
  <2>3. Cardinality(Damaged(file[f])) = 0 BY <2>2 DEF IInv, DamageIsConfined
  <2>4. Damaged(file[f]) = {} BY <2>2, <2>3, FS_EmptySet
  <2>5. \A i \in DOMAIN file[f] : i \in Whole(file[f]) BY <2>4 DEF Damaged
  <2>6. \A i \in DOMAIN file[f] : i = 1 \/ i - 1 \in DOMAIN file[f] BY <2>1
  <2>7. \A i \in DOMAIN file[f] : Links(file[f], i)
    BY <2>5, <2>6 DEF IInv, DamageIsConfined, Neighbours
  <2> QED BY <2>5, <2>7 DEF Verifies
<1> QED BY <1>1, LogInvariant, PTL
=============================================================================
