------------------------ MODULE ProfileCaches_proofs ------------------------
(***************************************************************************)
(* Proofs about the per-profile caches, for any number of profiles, shows, *)
(* episodes and handlers.  The reverse index covers the caches under all   *)
(* write paths and events.  Each cache is sound under the write paths that *)
(* run its hook after the write (SafePaths): what an answer may still be   *)
(* wrong about is always due to a hook that is yet to run, or to a step of *)
(* the poller or of the next start (Sane).                                 *)
(***************************************************************************)
EXTENDS MC_ProfileCaches, FiniteSetTheorems, TLAPS

\* The shape of the two maps, and what the reverse index covers.
Maps(c, i) ==
  /\ c = [k \in Kind |-> [p \in Profile |-> c[k][p]]]
  /\ i = [k \in Indexed |-> [d \in Card |-> i[k][d]]]
IndexInv == Maps(cache, index) /\ IndexCovers

\* An action that only drops answers, or leaves them alone, and keeps the reverse
\* index preserves the invariant.
LEMMA DroppingKeepsIndex ==
  ASSUME IndexInv,
         cache' = [k \in Kind |-> [p \in Profile |-> cache'[k][p]]],
         index' = index,
         \A k \in Indexed, p \in Profile : cache'[k][p] \in {cache[k][p], NotCached}
  PROVE  IndexInv'
BY DEF IndexInv, Maps, IndexCovers

\* Forgetting a card empties one set of the index together with the answers it named.
LEMMA ForgettingKeepsIndex ==
  ASSUME IndexInv, NEW k, NEW c, ForgetCard(k, c)
  PROVE  IndexInv'
<1> DEFINE gone == index[k][c]
<1>1. /\ cache' = [cache EXCEPT ![k] = [p \in Profile |->
                     IF p \in gone THEN NotCached ELSE cache[k][p]]]
      /\ index' = [index EXCEPT ![k][c] = {}]
  BY DEF ForgetCard, Dropped
<1> HIDE DEF gone
<1>2. Maps(cache', index')
  BY <1>1 DEF IndexInv, Maps, Indexed, Kind
<1>3. ASSUME NEW i \in Indexed, NEW p \in Profile, NEW d \in Card,
             cache'[i][p] # NotCached, Lists(cache'[i][p].rows, d)
      PROVE  p \in index'[i][d]
  <2>1. cache'[i][p] = cache[i][p] /\ (i = k => p \notin gone)
    BY <1>1, <1>3 DEF IndexInv, Maps, Indexed, Kind
  <2>2. p \in index[i][d]
    BY <1>3, <2>1 DEF IndexInv, IndexCovers
  <2>3. ~(i = k /\ d = c)
    BY <2>1, <2>2 DEF gone
  <2>4. index'[i][d] = index[i][d]
    BY <1>1, <2>3 DEF IndexInv, Maps
  <2> QED BY <2>2, <2>4
<1> QED BY <1>2, <1>3 DEF IndexInv, IndexCovers

\* Wiping every unwatched list at once leaves the reverse index covering what is cached.
LEMMA WipingKeepsIndex ==
  ASSUME IndexInv, ForgetAll
  PROVE  IndexInv'
<1>1. /\ cache' = [cache EXCEPT !["unwatched"] = [p \in Profile |->
                     IF p \in Profile THEN NotCached ELSE cache["unwatched"][p]]]
      /\ index' = [index EXCEPT !["unwatched"] = [c \in Card |-> {}]]
  BY DEF ForgetAll, Dropped
<1>2. Maps(cache', index')
  BY <1>1 DEF IndexInv, Maps, Indexed, Kind
<1>3. /\ \A p \in Profile : cache'["unwatched"][p] = NotCached
      /\ cache'["watched"] = cache["watched"] /\ index'["watched"] = index["watched"]
  BY <1>1 DEF IndexInv, Maps, Indexed, Kind
<1> QED BY <1>2, <1>3 DEF IndexInv, IndexCovers, Indexed

\* The answer that a singleflight call stores is indexed under the same lock.
LEMMA StoringKeepsIndex ==
  ASSUME IndexInv, NEW k \in Kind, NEW q \in Profile, StoreEntry(k, q)
  PROVE  IndexInv'
<1>1. /\ cache' = [cache EXCEPT ![k][q] = fill[k][q]]
      /\ index' = [i \in Indexed |-> [c \in Card |->
           index[i][c] \cup (IF i = k /\ Lists(fill[k][q].rows, c) THEN {q} ELSE {})]]
  BY DEF StoreEntry
<1>2. Maps(cache', index')
  BY <1>1 DEF IndexInv, Maps
<1>3. ASSUME NEW i \in Indexed, NEW p \in Profile, NEW d \in Card,
             cache'[i][p] # NotCached, Lists(cache'[i][p].rows, d)
      PROVE  p \in index'[i][d]
  <2>1. CASE i = k /\ p = q
    <3>1. cache'[i][p] = fill[k][q]
      BY <1>1, <2>1 DEF IndexInv, Maps
    <3> QED BY <1>1, <1>3, <2>1, <3>1
  <2>2. CASE ~(i = k /\ p = q)
    <3>1. cache'[i][p] = cache[i][p]
      BY <1>1, <2>2 DEF IndexInv, Maps, Indexed, Kind
    <3>2. p \in index[i][d]
      BY <1>3, <3>1 DEF IndexInv, IndexCovers
    <3> QED BY <1>1, <3>2
  <2> QED BY <2>1, <2>2
<1> QED BY <1>2, <1>3 DEF IndexInv, IndexCovers

\* Restoring a snapshot rebuilds the reverse index for every entry it restores.
LEMMA RestoringKeepsIndex ==
  ASSUME IndexInv, LoadCacheSnapshot
  PROVE  IndexInv'
<1>1. /\ cache' = [k \in Kind |-> [p \in Profile |->
           IF \/ k = "watched" /\ \A c \in Replayed : p \notin Listing(k, c)
              \/ k = "unwatched" /\ Replayed = {}
             THEN Restored(k, p) ELSE NotCached]]
      /\ index' = [k \in Indexed |-> [c \in Card |->
           IF c \in Replayed \/ (k = "unwatched" /\ Replayed # {}) THEN {} ELSE Listing(k, c)]]
  BY DEF LoadCacheSnapshot
<1>2. Maps(cache', index')
  BY <1>1 DEF Maps
<1>3. ASSUME NEW i \in Indexed, NEW p \in Profile, NEW d \in Card,
             cache'[i][p] # NotCached, Lists(cache'[i][p].rows, d)
      PROVE  p \in index'[i][d]
  <2>1. /\ cache'[i][p] = Restored(i, p)
        /\ \/ i = "watched" /\ \A c \in Replayed : p \notin Listing(i, c)
           \/ i = "unwatched" /\ Replayed = {}
    BY <1>1, <1>3 DEF Indexed, Kind
  <2>2. p \in Listing(i, d)
    BY <1>3, <2>1 DEF Listing
  <2>3. index'[i][d] = Listing(i, d)
    BY <1>1, <2>1, <2>2
  <2> QED BY <2>2, <2>3
<1> QED BY <1>2, <1>3 DEF IndexInv, IndexCovers

LEMMA IndexFromTheStart == ASSUME Init PROVE IndexInv
BY DEF Init, IndexInv, Maps, IndexCovers, Indexed, Kind

\* Every step keeps the index covering the caches.
LEMMA IndexRemains == ASSUME IndexInv, [Next]_vars PROVE IndexInv'
<1>1. CASE UNCHANGED <<cache, index>>
  BY <1>1 DEF IndexInv, Maps, IndexCovers
<1>2. ASSUME NEW w \in Worker, Handle(w) PROVE IndexInv'
  <2>1. CASE DropProfiles(w)
    <3> PICK s : s = Head(jobs[w]) /\ Dropped(s.kind, s.who, s.who) /\ UNCHANGED index
      BY <2>1 DEF DropProfiles
    <3>1. cache' = [cache EXCEPT ![s.kind] = [p \in Profile |->
                      IF p \in s.who THEN NotCached ELSE cache[s.kind][p]]]
      BY DEF Dropped
    <3> QED BY <3>1, DroppingKeepsIndex DEF IndexInv, Maps, Indexed, Kind
  <2>2. CASE DropForCard(w)
    BY <2>2, ForgettingKeepsIndex DEF DropForCard
  <2>3. CASE DropAllUnwatched(w)
    BY <2>3, WipingKeepsIndex DEF DropAllUnwatched
  <2>4. CASE ~(DropProfiles(w) \/ DropForCard(w) \/ DropAllUnwatched(w))
    BY <1>1, <1>2, <2>4 DEF Handle, Start, WriteTimecode, EnsureImpliedStatus, WriteStatus,
       EraseCard, TrimToLimitCount, UpsertEpisodes, BackfillImpliedStatuses, volatile
  <2> QED BY <2>1, <2>2, <2>3, <2>4
<1>3. ASSUME NEW k \in Kind, NEW p \in Profile, ReadStore(k, p) \/ ReadFails(k, p)
      PROVE  IndexInv'
  BY <1>1, <1>3 DEF ReadStore, ReadFails
<1>4. CASE CrossDrop
  BY <1>4, ForgettingKeepsIndex, WipingKeepsIndex DEF CrossDrop
<1>5. CASE Tick \/ Poll \/ CrossDay \/ SaveCacheSnapshot
  BY <1>1, <1>5 DEF Tick, Poll, CrossDay, SaveCacheSnapshot, volatile
<1>6. CASE Shutdown \/ Crash
  <2>1. Cold
    BY <1>6 DEF Shutdown, Crash
  <2> QED BY <2>1 DEF Cold, IndexInv, Maps, IndexCovers, Indexed, Kind
<1>7. CASE LoadCacheSnapshot
  BY <1>7, RestoringKeepsIndex
<1>8. CASE UNCHANGED vars
  BY <1>1, <1>8 DEF vars
<1> QED BY <1>2, <1>3, <1>4, <1>5, <1>6, <1>7, <1>8, StoringKeepsIndex DEF Next

\* InvalidateWatchedForCard misses no cached answer that lists its card: the reverse
\* index covers the caches in every reachable state, whatever the write paths, the
\* events and the number of profiles, shows and handlers.
THEOREM IndexAlwaysCovers == Spec => []IndexCovers
<1>1. Init => IndexInv
  BY IndexFromTheStart
<1>2. IndexInv /\ [Next]_vars => IndexInv'
  BY IndexRemains
<1>3. IndexInv => IndexCovers
  BY DEF IndexInv
<1> QED BY <1>1, <1>2, <1>3, PTL DEF Spec

-----------------------------------------------------------------------------
\* Bounds of the remainder by the length of a day.
LEMMA DivMod ==
  ASSUME NEW t \in Nat
  PROVE  /\ Date(t) \in Nat
         /\ TicksPerDay * Date(t) <= t /\ t < TicksPerDay * Date(t) + TicksPerDay
<1>1. t % TicksPerDay \in 0 .. TicksPerDay - 1
  BY ConstantsAssumption
<1>2. t \div TicksPerDay \in Nat /\ t = TicksPerDay * (t \div TicksPerDay) + (t % TicksPerDay)
  BY ConstantsAssumption
<1> QED BY <1>1, <1>2, ConstantsAssumption DEF Date

\* A multiple of n past another one is at least n past it: the step of arithmetic the
\* solver does not find by itself.
LEMMA NextMultiple ==
  ASSUME NEW n \in Nat, NEW a \in Int, NEW b \in Int, a >= b + 1
  PROVE  n * a >= n * b + n
<1>1. n * (a - (b + 1)) >= 0
  OBVIOUS
<1> QED BY <1>1

\* The day of a tick is the only one that holds it.
LEMMA DayIsUnique ==
  ASSUME NEW t \in Nat, NEW d \in Nat, TicksPerDay * d <= t, t < TicksPerDay * d + TicksPerDay
  PROVE  Date(t) = d
<1>1. PICK q \in Nat : /\ q = Date(t)
                       /\ TicksPerDay * q <= t /\ t < TicksPerDay * q + TicksPerDay
  BY DivMod
<1>2. ~(q >= d + 1)
  <2> SUFFICES ASSUME q >= d + 1 PROVE FALSE
    OBVIOUS
  <2>1. TicksPerDay * q >= TicksPerDay * d + TicksPerDay
    BY NextMultiple, ConstantsAssumption
  <2> QED BY <1>1, <2>1, ConstantsAssumption
<1>3. ~(d >= q + 1)
  <2> SUFFICES ASSUME d >= q + 1 PROVE FALSE
    OBVIOUS
  <2>1. TicksPerDay * d >= TicksPerDay * q + TicksPerDay
    BY NextMultiple, ConstantsAssumption
  <2> QED BY <1>1, <2>1, ConstantsAssumption
<1> QED BY <1>1, <1>2, <1>3

\* A tick later it is the same day or the next, and the next only at its first tick.
LEMMA NextTick ==
  ASSUME NEW t \in Nat
  PROVE  \/ Date(t + 1) = Date(t)
         \/ Date(t + 1) = Date(t) + 1 /\ t + 1 = TicksPerDay * Date(t + 1)
<1>1. PICK q \in Nat : /\ q = Date(t)
                       /\ TicksPerDay * q <= t /\ t < TicksPerDay * q + TicksPerDay
  BY DivMod
<1>2. CASE t + 1 < TicksPerDay * q + TicksPerDay
  BY <1>1, <1>2, DayIsUnique, ConstantsAssumption
<1>3. CASE t + 1 = TicksPerDay * q + TicksPerDay
  <2>1. t + 1 = TicksPerDay * (q + 1)
    BY <1>3, ConstantsAssumption
  <2>2. Date(t + 1) = q + 1
    BY <2>1, DayIsUnique, ConstantsAssumption
  <2> QED BY <1>1, <2>1, <2>2
<1>4. t + 1 < TicksPerDay * q + TicksPerDay \/ t + 1 = TicksPerDay * q + TicksPerDay
  BY <1>1, ConstantsAssumption
<1> QED BY <1>2, <1>3, <1>4

\* When the cutoff lags by less than a day, the day that it crosses is the day of the
\* calendar at the tick of the crossing.
LEMMA CrossedDayIsToday ==
  ASSUME NEW t \in Nat, t >= Lag, Lag < TicksPerDay, Date(t + 1 - Lag) # Date(t - Lag)
  PROVE  Date(t + 1) = Date(t + 1 - Lag) /\ Date(t + 1 - Lag) = Date(t - Lag) + 1
<1> DEFINE s == t - Lag
<1>1. s \in Nat /\ s + 1 = t + 1 - Lag
  BY ConstantsAssumption
<1>2. PICK q \in Nat : q = Date(s + 1) /\ q = Date(s) + 1 /\ s + 1 = TicksPerDay * q
  <2>1. Date(s + 1) = Date(s) + 1 /\ s + 1 = TicksPerDay * Date(s + 1)
    BY <1>1, NextTick
  <2> QED BY <1>1, <2>1, DivMod
<1>3. t + 1 = TicksPerDay * q + Lag
  BY <1>1, <1>2, ConstantsAssumption
<1>4. Date(t + 1) = q
  BY <1>3, DayIsUnique, ConstantsAssumption
<1> QED BY <1>1, <1>2, <1>4

\* The replay at a start visits every day from that of the save to the last full one.
LEMMA ReplayReaches ==
  ASSUME NEW since \in Nat, clock \in Nat, NEW d \in Nat, Date(since) <= d, d < Date(clock)
  PROVE  d \in ReplayedDates(since)
<1>1. PICK a \in Nat : /\ a = Date(since)
                       /\ TicksPerDay * a <= since /\ since < TicksPerDay * a + TicksPerDay
  BY DivMod
<1>2. PICK b \in Nat : b = Date(clock) /\ TicksPerDay * b <= clock
  BY DivMod
<1> DEFINE n == d - a
           t == since + n * TicksPerDay
<1>3. n \in Nat /\ n * TicksPerDay \in Nat /\ n * TicksPerDay = TicksPerDay * d - TicksPerDay * a
  BY <1>1, ConstantsAssumption
<1>4. TicksPerDay * b >= TicksPerDay * d + TicksPerDay
  BY <1>2, NextMultiple, ConstantsAssumption
<1>5. t \in Nat /\ TicksPerDay * d <= t /\ t < TicksPerDay * d + TicksPerDay /\ t <= clock
  BY <1>1, <1>2, <1>3, <1>4, ConstantsAssumption
<1>6. Date(t) = d
  BY <1>5, DayIsUnique
<1>7. n <= n * TicksPerDay
  <2>1. CASE n = 0
    BY <2>1, ConstantsAssumption
  <2>2. CASE n >= 1
    <3>1. n * TicksPerDay >= n * 0 + n
      BY <1>3, NextMultiple, ConstantsAssumption
    <3> QED BY <1>3, <3>1
  <2> QED BY <1>3, <2>1, <2>2
<1>8. n \in 0 .. clock
  BY <1>1, <1>3, <1>5, <1>7
<1> HIDE DEF n
<1> QED BY <1>5, <1>6, <1>8 DEF ReplayedDates

-----------------------------------------------------------------------------
\* A finite set listed as a sequence: nothing is left out, nothing is added.
LEMMA ListedOnce ==
  ASSUME NEW S, IsFiniteSet(S)
  PROVE  /\ SetToSeq(S) \in Seq(S)
         /\ \A x \in S : \E n \in 1 .. Len(SetToSeq(S)) : SetToSeq(S)[n] = x
         /\ SetToSeq(S) = <<>> <=> S = {}
<1> DEFINE N == Cardinality(S)
           f == SetToSeq(S)
<1>1. N \in Nat /\ ExistsBijection(1 .. N, S)
  BY FS_CardinalityType
<1>2. \E g \in [1 .. N -> S] : IsInjective(g)
  BY <1>1 DEF ExistsBijection, Bijection, Injection, IsInjective
<1>3. f \in [1 .. N -> S] /\ IsInjective(f)
  BY <1>2 DEF SetToSeq
<1>4. f \in Injection(1 .. N, S)
  BY <1>3 DEF Injection, IsInjective
<1>5. IsFiniteSet(1 .. N) /\ Cardinality(1 .. N) = N
  BY <1>1, FS_Interval
<1>6. f \in Surjection(1 .. N, S)
  BY <1>4, <1>5, FS_Injection
<1>7. f \in Seq(S) /\ Len(f) = N
  BY <1>1, <1>3
<1>8. \A x \in S : \E n \in 1 .. N : f[n] = x
  BY <1>6 DEF Surjection
<1>9. f = <<>> <=> S = {}
  BY <1>1, <1>3, <1>7, <1>8, FS_EmptySet
<1> QED BY <1>7, <1>8, <1>9

\* As the catalogue is finite, so is what airs on a day.
LEMMA FewAirOnADay ==
  ASSUME NEW d
  PROVE  IsFiniteSet(CardIDsAiringOn(d))
<1> DEFINE S == {e \in Episode : airs[e] = d}
           f == [e \in S |-> CardOf[e]]
<1>1. IsFiniteSet(S)
  BY FS_Subset, ConstantsAssumption
<1>2. f \in Surjection(S, CardIDsAiringOn(d))
  BY DEF Surjection, CardIDsAiringOn
<1> QED BY <1>1, <1>2, FS_Surjection

\* Dropping cards one by one drops each of them from both caches.
LEMMA EveryCardIsDropped ==
  ASSUME NEW S, IsFiniteSet(S)
  PROVE  LET drops == InvalidateCards(SetToSeq(S)) IN
         /\ drops \in Seq({DropCard(k, c) : k \in Indexed, c \in S})
         /\ \A c \in S : \E n \in 1 .. Len(drops) : drops[n] = DropCard("watched", c)
<1> DEFINE cards == SetToSeq(S)
           drops == InvalidateCards(cards)
<1>1. /\ cards \in Seq(S)
      /\ \A x \in S : \E n \in 1 .. Len(cards) : cards[n] = x
  BY ListedOnce
<1> HIDE DEF cards
<1>2. ASSUME NEW n \in 1 .. 2 * Len(cards)
      PROVE  /\ (n + 1) \div 2 \in 1 .. Len(cards) /\ 2 - (n % 2) \in {1, 2}
             /\ drops[n] \in {DropCard(k, c) : k \in Indexed, c \in S}
  <2>1. (n + 1) \div 2 \in 1 .. Len(cards) /\ 2 - (n % 2) \in {1, 2}
    BY <1>1
  <2>2. cards[(n + 1) \div 2] \in S
    BY <1>1, <2>1
  <2>3. drops[n] = InvalidateWatchedForCard(cards[(n + 1) \div 2])[2 - (n % 2)]
    BY DEF InvalidateCards
  <2> QED BY <2>1, <2>2, <2>3 DEF InvalidateWatchedForCard, Indexed
<1>3. drops = [n \in 1 .. 2 * Len(cards) |-> drops[n]]
  BY DEF InvalidateCards
<1>4. drops \in Seq({DropCard(k, c) : k \in Indexed, c \in S}) /\ Len(drops) = 2 * Len(cards)
  BY <1>1, <1>2, <1>3
<1>5. ASSUME NEW c \in S PROVE \E n \in 1 .. Len(drops) : drops[n] = DropCard("watched", c)
  <2>1. PICK i \in 1 .. Len(cards) : cards[i] = c
    BY <1>1
  <2>2. /\ 2 * i - 1 \in 1 .. 2 * Len(cards)
        /\ ((2 * i - 1) + 1) \div 2 = i /\ 2 - ((2 * i - 1) % 2) = 1
    BY <1>1
  <2>3. drops[2 * i - 1] = InvalidateWatchedForCard(c)[1]
    BY <2>1, <2>2 DEF InvalidateCards
  <2> QED BY <1>4, <2>2, <2>3 DEF InvalidateWatchedForCard
<1> QED BY <1>4, <1>5 DEF cards

-----------------------------------------------------------------------------
(***************************************************************************)
(* What keeps the answers sound: the steps that are still to run           *)
(***************************************************************************)
\* The write paths under which cache k stays sound.
SafePaths(k) ==
  CASE k = "watched"   -> PathKinds \ {"save_and_trim", "tvmaze"}
    [] k = "unwatched" -> {"save", "delete", "status", "delete_card", "announce", "tvmaze"}
    [] k = "continues" -> PathKinds \ {"save_and_trim", "set"}

\* The steps of a handler that may change what the query of cache k answers, and the
\* hook that must follow each.
Disturbs(k, s) ==
  \/ s.do \in {"put", "erase", "trim"}
  \/ s.do \in {"imply", "status"} /\ k # "watched"
  \/ s.do = "learn" /\ (k = "watched" \/ (k = "unwatched" /\ s.path # "announce"))
  \/ s.do = "backfill" /\ k = "unwatched"

Settles(k, s, t) ==
  \/ s.do \in {"put", "erase", "imply", "status"} /\ t = Drop(k, s.who)
  \/ s.do = "learn" /\ k = "watched" /\ t = DropCard(k, s.card)
  \/ s.do = "learn" /\ k = "unwatched" /\ t = DropAll

Settled(k, job) ==
  \A n \in 1 .. Len(job) : Disturbs(k, job[n]) =>
    \E m \in n + 1 .. Len(job) : Settles(k, job[n], job[m])

IsSequence(s) == \E S : s \in Seq(S)

\* Episodes are learnt in the first step of a handler, or in none.
Orderly(k, job) ==
  IsSequence(job) /\ Settled(k, job) /\ \A n \in 2 .. Len(job) : job[n].do # "learn"

JobsInv(k) ==
  /\ jobs = [w \in Worker |-> jobs[w]]
  /\ \A w \in Worker : Orderly(k, jobs[w])

\* Step s is still to run.  A handler that has yet to learn something may end without
\* its hooks, and nothing rests on them.
InJobs(s) ==
  \E w \in Worker : \E n \in 1 .. Len(jobs[w]) : jobs[w][n] = s /\ jobs[w][1].do # "learn"

\* What kind of step each is, and whom it concerns.
LEMMA Fields ==
  /\ \A p, e, v : Put(p, e, v).do = "put" /\ Put(p, e, v).who = {p}
  /\ \A p, c : Imply(p, c).do = "imply" /\ Imply(p, c).who = {p}
  /\ \A p, c, s : SetStatus(p, c, s).do = "status" /\ SetStatus(p, c, s).who = {p}
  /\ \A c : Erase(c).do = "erase" /\ Erase(c).who = Profile /\ Erase(c).card = c
  /\ \A c, path : Learn(c, path).do = "learn" /\ Learn(c, path).card = c
                     /\ Learn(c, path).path = path
  /\ ImplyAll.do = "backfill"
  /\ \A k, who : Drop(k, who).do = "drop" /\ Drop(k, who).kind = k /\ Drop(k, who).who = who
  /\ \A k, c : DropCard(k, c).do = "drop_card" /\ DropCard(k, c).kind = k /\ DropCard(k, c).card = c
  /\ DropAll.do = "drop_all" /\ DropAll.kind = "unwatched"
  /\ \A d : Cross(d).do = "cross" /\ Cross(d).day = d
BY DEF Put, Imply, SetStatus, Erase, Learn, ImplyAll, Drop, DropCard, DropAll, Cross

\* Sequence st is s, then t.
Joins(st, s, t) ==
  /\ IsSequence(st) /\ Len(st) = Len(s) + Len(t) /\ Len(s) \in Nat /\ Len(t) \in Nat
  /\ \A n \in 1 .. Len(s) : st[n] = s[n]
  /\ \A n \in 1 .. Len(t) : st[Len(s) + n] = t[n]

\* Two sequences have a set of values in common.
LEMMA InCommon ==
  ASSUME NEW S, NEW T, NEW s \in Seq(S), NEW t \in Seq(T)
  PROVE  \E U : s \in Seq(U) /\ t \in Seq(U)
<1>1. s \in Seq(S \cup T) /\ t \in Seq(S \cup T)
  OBVIOUS
<1> QED BY <1>1

\* Concatenation, without the types of the elements.
LEMMA Joined ==
  ASSUME NEW s, NEW t, IsSequence(s), IsSequence(t)
  PROVE  Joins(s \o t, s, t)
<1>1. PICK U : s \in Seq(U) /\ t \in Seq(U)
  BY InCommon DEF IsSequence
<1>2. /\ s \o t \in Seq(U) /\ Len(s \o t) = Len(s) + Len(t) /\ Len(s) \in Nat /\ Len(t) \in Nat
  BY <1>1
<1>3. \A n \in 1 .. Len(s) : (s \o t)[n] = s[n]
  BY <1>1, <1>2
<1>4. \A n \in 1 .. Len(t) : (s \o t)[Len(s) + n] = t[n]
  BY <1>1, <1>2
<1> QED BY <1>2, <1>3, <1>4 DEF Joins, IsSequence

\* Writes that are followed by OnWatchedChanged for the profiles they concern are settled.
LEMMA HookedIsSettled ==
  ASSUME NEW k \in Kind, NEW who, NEW X, NEW writes \in Seq(X),
         \A n \in 1 .. Len(writes) : writes[n].do \in {"put", "erase", "imply", "status"}
                                     /\ writes[n].who = who,
         NEW job, job = writes \o OnWatchedChanged(who)
  PROVE  Orderly(k, job)
<1>1. PICK hooks : /\ job = writes \o hooks /\ Len(hooks) = 3 /\ IsSequence(hooks)
                   /\ hooks[1] = Drop("watched", who) /\ hooks[2] = Drop("unwatched", who)
                   /\ hooks[3] = Drop("continues", who)
  <2> DEFINE h == OnWatchedChanged(who)
  <2>1. /\ Len(h) = 3 /\ h \in Seq({Drop(kind, who) : kind \in Kind})
        /\ h[1] = Drop("watched", who) /\ h[2] = Drop("unwatched", who)
        /\ h[3] = Drop("continues", who)
    BY DEF OnWatchedChanged, Kind
  <2>2. job = writes \o h
    OBVIOUS
  <2> HIDE DEF h
  <2> QED BY <2>1, <2>2 DEF IsSequence
<1>2. Joins(job, writes, hooks)
  <2>1. IsSequence(hooks) /\ IsSequence(writes) /\ job = writes \o hooks
    BY <1>1 DEF IsSequence
  <2> QED BY <2>1, Joined
<1>3. /\ Len(job) = Len(writes) + 3 /\ Len(writes) \in Nat /\ IsSequence(job)
      /\ \A n \in 1 .. Len(writes) : job[n] = writes[n]
      /\ \A n \in 1 .. 3 : job[Len(writes) + n] = hooks[n]
  <2>1. Len(hooks) = 3
    BY <1>1
  <2> QED BY <1>2, <2>1 DEF Joins
<1>4. PICK i \in 1 .. 3 : hooks[i] = Drop(k, who)
  BY <1>1 DEF Kind
<1>5. ASSUME NEW n \in 1 .. Len(job), Disturbs(k, job[n])
      PROVE  \E m \in n + 1 .. Len(job) : Settles(k, job[n], job[m])
  <2>1. CASE n \in 1 .. Len(writes)
    <3>1. /\ Len(writes) + i \in n + 1 .. Len(job) /\ job[Len(writes) + i] = Drop(k, who)
          /\ job[n].do \in {"put", "erase", "imply", "status"} /\ job[n].who = who
      BY <1>3, <1>4, <2>1
    <3> QED BY <3>1 DEF Settles
  <2>2. CASE n \notin 1 .. Len(writes)
    <3>1. n - Len(writes) \in 1 .. 3 /\ job[n] = hooks[n - Len(writes)]
      BY <1>3, <2>2
    <3>2. PICK kind : job[n] = Drop(kind, who)
      BY <1>1, <3>1
    <3>3. job[n].do = "drop"
      BY <3>2, Fields
    <3> QED BY <1>5, <3>3 DEF Disturbs
  <2> QED BY <2>1, <2>2
<1>6. ASSUME NEW n \in 1 .. Len(job) PROVE job[n].do # "learn"
  <2>1. CASE n \in 1 .. Len(writes)
    BY <1>3, <2>1
  <2>2. CASE n \notin 1 .. Len(writes)
    <3>1. n - Len(writes) \in 1 .. 3 /\ job[n] = hooks[n - Len(writes)]
      BY <1>3, <2>2
    <3>2. PICK kind : job[n] = Drop(kind, who)
      BY <1>1, <3>1
    <3> QED BY <3>2, Fields
  <2> QED BY <2>1, <2>2
<1>7. \A n \in 2 .. Len(job) : n \in 1 .. Len(job)
  OBVIOUS
<1> QED BY <1>3, <1>5, <1>6, <1>7 DEF Orderly, Settled

\* Every write path that keeps cache k sound runs the hook after the write.
LEMMA ProgramsAreSettled ==
  ASSUME NEW k \in Kind, Paths \subseteq SafePaths(k), NEW program \in Programs
  PROVE  Orderly(k, program)
<1>1. PICK path \in Paths : program \in ProgramsOf(path)
  BY DEF Programs
<1>2. /\ path \in PathKinds /\ path # "save_and_trim"
      /\ path = "set" => k = "watched"
      /\ path = "tvmaze" => k # "watched"
      /\ path = "release" => k # "unwatched"
  BY ConstantsAssumption DEF SafePaths, Kind
<1>3. ASSUME NEW s, NEW who, s.do \in {"put", "erase", "status"}, s.who = who,
             program = <<s>> \o OnWatchedChanged(who)
      PROVE  Orderly(k, program)
  <2> DEFINE writes == <<s>>
  <2>1. /\ writes \in Seq({s})
        /\ \A n \in 1 .. Len(writes) : writes[n].do \in {"put", "erase", "imply", "status"}
                                       /\ writes[n].who = who
    BY <1>3
  <2>2. program = writes \o OnWatchedChanged(who)
    BY <1>3
  <2> HIDE DEF writes
  <2> QED BY <2>1, <2>2, HookedIsSettled
<1>4. CASE path = "save"
  <2>1. PICK p \in Profile, e \in Episode, v \in {"part", "done"} : program = UpsertTimecodes(p, e, v)
    BY <1>1, <1>4 DEF ProgramsOf
  <2> DEFINE writes == <<Put(p, e, v), Imply(p, CardOf[e])>>
  <2>2. /\ writes \in Seq({Put(p, e, v), Imply(p, CardOf[e])})
        /\ \A n \in 1 .. Len(writes) : writes[n].do \in {"put", "erase", "imply", "status"}
                                       /\ writes[n].who = {p}
    <3>1. /\ Put(p, e, v).do = "put" /\ Put(p, e, v).who = {p}
          /\ Imply(p, CardOf[e]).do = "imply" /\ Imply(p, CardOf[e]).who = {p}
      BY Fields
    <3> QED BY <3>1
  <2>3. program = writes \o OnWatchedChanged({p})
    BY <2>1 DEF UpsertTimecodes
  <2> HIDE DEF writes
  <2> QED BY <2>2, <2>3, HookedIsSettled
<1>5. CASE path = "set"
  <2>1. PICK p \in Profile, e \in Episode, v \in {"part", "done"} : program = SetCardTimecode(p, e, v)
    BY <1>1, <1>5 DEF ProgramsOf
  <2>2. /\ Len(program) = 5 /\ program[1] = Put(p, e, v) /\ program[2] = Drop("watched", {p})
        /\ program[3] = Drop("unwatched", {p}) /\ program[4] = Drop("continues", {p})
        /\ program[5] = Imply(p, CardOf[e])
        /\ program \in Seq({Put(p, e, v), Drop("watched", {p}), Drop("unwatched", {p}),
                            Drop("continues", {p}), Imply(p, CardOf[e])})
    BY <2>1 DEF SetCardTimecode, OnWatchedChanged
  <2>3. /\ program[1].do = "put" /\ program[1].who = {p}
        /\ program[2].do = "drop" /\ program[3].do = "drop" /\ program[4].do = "drop"
        /\ program[5].do = "imply" /\ k = "watched"
    BY <1>2, <1>5, <2>2, Fields
  <2>4. \A n \in 1 .. 5 : Disturbs(k, program[n]) => n = 1
    BY <2>3 DEF Disturbs
  <2>5. Settles(k, program[1], program[2])
    BY <2>2, <2>3 DEF Settles
  <2> QED BY <2>2, <2>3, <2>4, <2>5 DEF Orderly, Settled, IsSequence
<1>6. CASE path = "delete"
  <2>1. PICK p \in Profile, e \in Episode : program = DeleteTimecode(p, e)
    BY <1>1, <1>6 DEF ProgramsOf
  <2>2. program = <<Put(p, e, "none")>> \o OnWatchedChanged({p})
    BY <2>1 DEF DeleteTimecode
  <2> DEFINE s == Put(p, e, "none")
             who == {p}
  <2>3. s.do = "put" /\ s.who = who /\ program = <<s>> \o OnWatchedChanged(who)
    BY <2>2, Fields
  <2> HIDE DEF s, who
  <2> QED BY <1>3, <2>3
<1>7. CASE path = "status"
  <2>1. PICK p \in Profile, c \in Card, s \in Status : program = SetSubjectiveStatus(p, c, s)
    BY <1>1, <1>7 DEF ProgramsOf
  <2>2. program = <<SetStatus(p, c, s)>> \o OnWatchedChanged({p})
    BY <2>1 DEF SetSubjectiveStatus
  <2> DEFINE t == SetStatus(p, c, s)
             who == {p}
  <2>3. t.do = "status" /\ t.who = who /\ program = <<t>> \o OnWatchedChanged(who)
    BY <2>2, Fields
  <2> HIDE DEF t, who
  <2> QED BY <1>3, <2>3
<1>8. CASE path = "delete_card"
  <2>1. PICK c \in Card : program = DeleteCardTimecodes(c)
    BY <1>1, <1>8 DEF ProgramsOf
  <2>2. program = <<Erase(c)>> \o OnWatchedChanged(Profile)
    BY <2>1 DEF DeleteCardTimecodes
  <2>3. Erase(c).do = "erase" /\ Erase(c).who = Profile
    BY Fields
  <2> QED BY <1>3, <2>2, <2>3
<1>9. CASE path \in {"announce", "release"}
  <2>1. PICK c \in Card : program = SyncEpisodes(c, path)
    BY <1>1, <1>9 DEF ProgramsOf
  <2>2. /\ Len(program) = 3 /\ program[1] = Learn(c, path)
        /\ program[2] = DropCard("watched", c) /\ program[3] = DropCard("unwatched", c)
        /\ program \in Seq({Learn(c, path), DropCard("watched", c), DropCard("unwatched", c)})
    BY <2>1 DEF SyncEpisodes, InvalidateWatchedForCard
  <2>3. /\ program[1].do = "learn" /\ program[1].card = c /\ program[1].path = path
        /\ program[2].do = "drop_card" /\ program[3].do = "drop_card"
    BY <2>2, Fields
  <2>4. \A n \in 1 .. 3 : Disturbs(k, program[n]) => n = 1 /\ k = "watched"
    BY <1>2, <1>9, <2>3 DEF Disturbs
  <2>5. k = "watched" => Settles(k, program[1], program[2])
    BY <2>2, <2>3 DEF Settles
  <2> QED BY <2>2, <2>3, <2>4, <2>5 DEF Orderly, Settled, IsSequence
<1>10. CASE path = "tvmaze"
  <2>1. PICK c \in Card : program = bgRefreshEpisodes(c)
    BY <1>1, <1>10 DEF ProgramsOf
  <2>2. /\ Len(program) = 2 /\ program[1] = Learn(c, "tvmaze") /\ program[2] = DropAll
        /\ program \in Seq({Learn(c, "tvmaze"), DropAll})
    BY <2>1 DEF bgRefreshEpisodes, InvalidateAllUnwatched
  <2>3. program[1].do = "learn" /\ program[2].do = "drop_all"
    BY <2>2, Fields
  <2>4. \A n \in 1 .. 2 : Disturbs(k, program[n]) => n = 1 /\ k = "unwatched"
    BY <1>2, <1>10, <2>3 DEF Disturbs
  <2>5. k = "unwatched" => Settles(k, program[1], program[2])
    BY <2>2, <2>3 DEF Settles
  <2> QED BY <2>2, <2>3, <2>4, <2>5 DEF Orderly, Settled, IsSequence
<1>11. path # "backfill"
  <2>1. ProgramsOf("backfill") = {}
    BY DEF ProgramsOf
  <2> QED BY <1>1, <2>1
<1> QED BY <1>2, <1>4, <1>5, <1>6, <1>7, <1>8, <1>9, <1>10, <1>11 DEF PathKinds

\* A handler that has done a step keeps the others; that its first step is done puts
\* them among those that answers may rest on.
LEMMA StepsRemain ==
  ASSUME NEW k \in Kind, JobsInv(k), NEW w \in Worker, jobs[w] # <<>>, Advance(w)
  PROVE  /\ JobsInv(k)'
         /\ \A s : InJobs(s) /\ s # Head(jobs[w]) => InJobs(s)'
         /\ Disturbs(k, Head(jobs[w])) => \E t : Settles(k, Head(jobs[w]), t) /\ InJobs(t)'
<1> PICK S : jobs[w] \in Seq(S)
  BY DEF JobsInv, Orderly, IsSequence
<1>1. /\ Settled(k, jobs[w]) /\ jobs[w] # <<>>
      /\ \A n \in 2 .. Len(jobs[w]) : jobs[w][n].do # "learn"
      /\ jobs' = [jobs EXCEPT ![w] = Tail(jobs[w])]
  BY DEF JobsInv, Orderly, Advance
<1>2. /\ Tail(jobs[w]) \in Seq(S) /\ Len(Tail(jobs[w])) = Len(jobs[w]) - 1
      /\ Len(jobs[w]) \in Nat \ {0}
      /\ \A n \in 1 .. Len(jobs[w]) - 1 : Tail(jobs[w])[n] = jobs[w][n + 1]
      /\ Head(jobs[w]) = jobs[w][1]
  BY <1>1
<1>3. jobs'[w] = Tail(jobs[w]) /\ \A v \in Worker : v # w => jobs'[v] = jobs[v]
  BY <1>1 DEF JobsInv
<1>4. Orderly(k, Tail(jobs[w]))
  <2>1. ASSUME NEW n \in 1 .. Len(Tail(jobs[w])), Disturbs(k, Tail(jobs[w])[n])
        PROVE  \E m \in n + 1 .. Len(Tail(jobs[w])) : Settles(k, Tail(jobs[w])[n], Tail(jobs[w])[m])
    <3>1. n + 1 \in 1 .. Len(jobs[w]) /\ Tail(jobs[w])[n] = jobs[w][n + 1]
      BY <1>2
    <3>2. PICK m \in n + 2 .. Len(jobs[w]) : Settles(k, jobs[w][n + 1], jobs[w][m])
      BY <1>1, <2>1, <3>1 DEF Settled
    <3>3. m - 1 \in n + 1 .. Len(Tail(jobs[w])) /\ Tail(jobs[w])[m - 1] = jobs[w][m]
      BY <1>2, <3>2
    <3> QED BY <3>1, <3>2, <3>3
  <2>2. \A n \in 1 .. Len(Tail(jobs[w])) : Tail(jobs[w])[n].do # "learn"
    BY <1>1, <1>2
  <2>3. \A n \in 2 .. Len(Tail(jobs[w])) : n \in 1 .. Len(Tail(jobs[w]))
    OBVIOUS
  <2>4. IsSequence(Tail(jobs[w]))
    BY <1>2 DEF IsSequence
  <2> QED BY <2>1, <2>2, <2>3, <2>4 DEF Orderly, Settled
<1>5. JobsInv(k)'
  BY <1>1, <1>3, <1>4 DEF JobsInv
<1>6. ASSUME NEW m \in 2 .. Len(jobs[w]), NEW s, s = jobs[w][m] PROVE InJobs(s)'
  <2>1. m - 1 \in 1 .. Len(jobs'[w]) /\ jobs'[w][m - 1] = s
    BY <1>2, <1>3, <1>6
  <2>2. 2 \in 2 .. Len(jobs[w]) /\ jobs'[w][1] = jobs[w][2]
    BY <1>2, <1>3
  <2>3. jobs'[w][1].do # "learn"
    BY <1>1, <2>2
  <2> QED BY <2>1, <2>3 DEF InJobs
<1>7. ASSUME NEW s, InJobs(s), s # Head(jobs[w]) PROVE InJobs(s)'
  <2>1. PICK v \in Worker : \E n \in 1 .. Len(jobs[v]) : jobs[v][n] = s /\ jobs[v][1].do # "learn"
    BY <1>7 DEF InJobs
  <2>2. CASE v = w
    BY <1>2, <1>6, <1>7, <2>1, <2>2
  <2>3. CASE v # w
    BY <1>3, <2>1, <2>3 DEF InJobs
  <2> QED BY <2>2, <2>3
<1>8. ASSUME Disturbs(k, Head(jobs[w]))
      PROVE  \E t : Settles(k, Head(jobs[w]), t) /\ InJobs(t)'
  <2>1. PICK m \in 2 .. Len(jobs[w]) : Settles(k, jobs[w][1], jobs[w][m])
    BY <1>1, <1>2, <1>8 DEF Settled
  <2> QED BY <1>2, <1>6, <2>1
<1> QED BY <1>5, <1>7, <1>8

\* A handler that takes up a program, or ends before it has learnt anything, takes away
\* no step that an answer rests on.
LEMMA OneJobReplaced ==
  ASSUME NEW k \in Kind, JobsInv(k), NEW w \in Worker, NEW job, Orderly(k, job),
         jobs[w] = <<>> \/ jobs[w][1].do = "learn",
         jobs' = [jobs EXCEPT ![w] = job]
  PROVE  JobsInv(k)' /\ \A s : InJobs(s) => InJobs(s)'
<1>1. jobs'[w] = job /\ \A v \in Worker : v # w => jobs'[v] = jobs[v]
  BY DEF JobsInv
<1>2. JobsInv(k)'
  BY <1>1 DEF JobsInv
<1>3. ASSUME NEW s, InJobs(s) PROVE InJobs(s)'
  <2>1. PICK v \in Worker : \E n \in 1 .. Len(jobs[v]) : jobs[v][n] = s /\ jobs[v][1].do # "learn"
    BY <1>3 DEF InJobs
  <2>2. v # w
    <3>1. jobs[w] # <<>> \/ Len(jobs[w]) = 0
      OBVIOUS
    <3> QED BY <2>1, <3>1
  <2> QED BY <1>1, <2>1, <2>2 DEF InJobs
<1> QED BY <1>2, <1>3

-----------------------------------------------------------------------------
About(rows, c) == {r \in rows : r.card = c}

\* What profile p has seen and what has aired of card c decide what is said about it.
LEMMA SameAnswerAboutCard ==
  ASSUME NEW k \in Kind, NEW p, NEW c,
         Seen(p, c)' = Seen(p, c), AiredBy(CutoffDate, c)' = AiredBy(CutoffDate, c),
         status'[p][c] = status[p][c], timecodes'[p] = timecodes[p]
  PROVE  About(Fresh(k, p), c)' = About(Fresh(k, p), c)
<1>1. CASE k = "watched"
  <2>1. About(WatchedCardIDs(p), c)' = About(WatchedCardIDs(p), c)
    BY DEF About, WatchedCardIDs
  <2> QED BY <1>1, <2>1 DEF Fresh
<1>2. CASE k = "unwatched"
  <2>1. About(UnwatchedTVShows(p), c)' = About(UnwatchedTVShows(p), c)
    BY DEF About, UnwatchedTVShows
  <2> QED BY <1>2, <2>1 DEF Fresh
<1>3. CASE k = "continues"
  <2>1. About(ContinuesAggregate(p), c)' = About(ContinuesAggregate(p), c)
    BY DEF About, ContinuesAggregate
  <2> QED BY <1>3, <2>1 DEF Fresh
<1> QED BY <1>1, <1>2, <1>3 DEF Kind

\* Nothing that concerns profile p has changed.
LEMMA SameAnswer ==
  ASSUME NEW k \in Kind, NEW p, timecodes'[p] = timecodes[p], k # "watched" => status'[p] = status[p],
         airs' = airs, clock' = clock
  PROVE  Fresh(k, p)' = Fresh(k, p)
<1>1. \A c : Seen(p, c)' = Seen(p, c) /\ AiredBy(CutoffDate, c)' = AiredBy(CutoffDate, c)
  BY DEF Seen, AiredBy, CutoffDate, EpisodesOf
<1>2. CASE k = "watched"
  <2>1. WatchedCardIDs(p)' = WatchedCardIDs(p)
    BY <1>1 DEF WatchedCardIDs
  <2> QED BY <1>2, <2>1 DEF Fresh
<1>3. CASE k = "unwatched"
  <2>1. UnwatchedTVShows(p)' = UnwatchedTVShows(p)
    BY <1>1, <1>3 DEF UnwatchedTVShows
  <2> QED BY <1>3, <2>1 DEF Fresh
<1>4. CASE k = "continues"
  <2>1. ContinuesAggregate(p)' = ContinuesAggregate(p)
    BY <1>1, <1>4 DEF ContinuesAggregate
  <2> QED BY <1>4, <2>1 DEF Fresh
<1> QED BY <1>2, <1>3, <1>4 DEF Kind

\* The list to continue does not depend on the calendar, nor on a status that is
\* filled in where there was none.
LEMMA SameContinues ==
  ASSUME NEW p, timecodes'[p] = timecodes[p],
         \A c \in Card : status'[p][c] = "stopped" <=> status[p][c] = "stopped"
  PROVE  Fresh("continues", p)' = Fresh("continues", p)
<1>1. \A c : Seen(p, c)' = Seen(p, c)
  BY DEF Seen, EpisodesOf
<1>2. ContinuesAggregate(p)' = ContinuesAggregate(p)
  BY <1>1 DEF ContinuesAggregate
<1> QED BY <1>2 DEF Fresh

\* When more of a card has aired, an unwatched card does not become a watched one.
LEMMA AiringEndsWatched ==
  ASSUME NEW p, NEW c, NEW rows, Seen(p, c)' = Seen(p, c),
         AiredBy(CutoffDate, c) \subseteq AiredBy(CutoffDate, c)',
         About(rows, c) = About(Fresh("watched", p), c)
  PROVE  Lists(rows, c) \/ About(rows, c) = About(Fresh("watched", p), c)'
<1> SUFFICES ASSUME ~Lists(rows, c) PROVE About(rows, c) = About(Fresh("watched", p), c)'
  OBVIOUS
<1> DEFINE a == Cardinality(AiredBy(CutoffDate, c))
           b == Cardinality(AiredBy(CutoffDate, c)')
           s == Cardinality(Seen(p, c))
<1>1. /\ IsFiniteSet(AiredBy(CutoffDate, c)') /\ a \in Nat /\ b \in Nat /\ s \in Nat /\ a <= b
  <2>1. /\ AiredBy(CutoffDate, c) \subseteq Episode /\ Seen(p, c) \subseteq Episode
        /\ AiredBy(CutoffDate, c)' \subseteq Episode
    BY DEF AiredBy, Seen, EpisodesOf
  <2>2. /\ IsFiniteSet(AiredBy(CutoffDate, c)') /\ IsFiniteSet(AiredBy(CutoffDate, c))
        /\ IsFiniteSet(Seen(p, c))
    BY <2>1, FS_Subset, ConstantsAssumption
  <2> QED BY <2>2, FS_Subset, FS_CardinalityType
<1>2. About(rows, c) = {}
  BY DEF About, Lists
<1>3. ~(c \in Card /\ s >= (IF a = 0 THEN 1 ELSE a))
  <2>1. [card |-> c] \notin WatchedCardIDs(p)
    <3>1. [card |-> c].card = c
      OBVIOUS
    <3>2. About(WatchedCardIDs(p), c) = {}
      BY <1>2 DEF Fresh
    <3> QED BY <3>1, <3>2 DEF About
  <2> QED BY <2>1 DEF WatchedCardIDs
<1>4. ~(c \in Card /\ s >= (IF b = 0 THEN 1 ELSE b))
  BY <1>1, <1>3
<1>5. \A r \in WatchedCardIDs(p)' : r.card # c
  <2>1. Cardinality(Seen(p, c)') = s
    OBVIOUS
  <2> HIDE DEF a, b, s
  <2>2. ASSUME NEW d \in Card,
               Cardinality(Seen(p, d)') >= (IF Cardinality(AiredBy(CutoffDate, d)') = 0
                                             THEN 1 ELSE Cardinality(AiredBy(CutoffDate, d)'))
        PROVE  d # c
    BY <1>4, <2>1, <2>2 DEF b
  <2> QED BY <2>2 DEF WatchedCardIDs
<1>6. About(Fresh("watched", p), c)' = {}
  BY <1>5 DEF About, Fresh
<1> QED BY <1>2, <1>6

-----------------------------------------------------------------------------
Since == IF up THEN clock ELSE disk.at

\* Card c has an episode on a day that the poller, or the replay at the next start,
\* may still have to cross.
Crossing(c) == \E e \in EpisodesOf(c) : airs[e] \in Date(Since) .. CutoffDate

InPoll(s) == \E n \in 1 .. Len(poll) : poll[n] = s
PollerOwes(s) == ~up \/ last < CutoffDate \/ InPoll(Cross(CutoffDate)) \/ InPoll(s)

\* An answer of cache k may be wrong about card c because a step is still to come that
\* is not meant for one profile.
Due(k, c) == c \in Card /\
  \/ k = "watched" /\ InJobs(DropCard("watched", c))
  \/ k = "watched" /\ Crossing(c) /\ PollerOwes(DropCard("watched", c))
  \/ k = "unwatched" /\ InJobs(DropAll)
  \/ k = "unwatched" /\ Crossing(c) /\ PollerOwes(DropAll)

Agrees(k, p, rows) ==
  \A c : \/ About(rows, c) = About(Fresh(k, p), c)
         \/ Due(k, c) /\ (k = "watched" => Lists(rows, c))

\* The hook of a write is still to drop the answers of profile p.
Owes(k, p) == \E who : p \in who /\ InJobs(Drop(k, who))

\* The answers in memory, and those on disk while the process is down.
Held(k, p) ==
  {cache[k][p], fill[k][p]} \cup (IF ~up /\ k \in Indexed THEN {disk.entries[k][p]} ELSE {})

Sane(k, p) ==
  \A a \in Held(k, p) : a # NotCached => overtaken[k][p] \/ Owes(k, p) \/ Agrees(k, p, a.rows)

\* The shape of the maps, and a process that is down.
Shapes ==
  /\ cache = [k \in Kind |-> [p \in Profile |-> cache[k][p]]]
  /\ fill = [k \in Kind |-> [p \in Profile |-> fill[k][p]]]
  /\ overtaken = [k \in Kind |-> [p \in Profile |-> overtaken[k][p]]]
  /\ status = [p \in Profile |-> status[p]] /\ timecodes = [p \in Profile |-> timecodes[p]]
  /\ airs \in [Episode -> Int] /\ clock \in Nat /\ clock >= Lag
  /\ up \in BOOLEAN
  /\ ~up => /\ \A w \in Worker : jobs[w] = <<>>
            /\ \A k \in Kind, p \in Profile : cache[k][p] = NotCached /\ fill[k][p] = NotCached

\* The poller has looked at every day but the last, and the file is that of the stop.
ClockInv ==
  /\ IsSequence(poll)
  /\ up => \/ /\ last = CutoffDate
              /\ poll = <<Cross(last)>> \/ \A n \in 1 .. Len(poll) : poll[n].do # "cross"
           \/ last = CutoffDate - 1 /\ poll = <<>>
  /\ ~up => poll = <<>> /\ disk.saved = TRUE /\ disk.at \in Nat /\ disk.at <= clock

\* Nothing that an answer rests on has been lost.
LEMMA StillSane ==
  ASSUME NEW k, NEW p, Sane(k, p),
         \A a \in Held(k, p)' : a # NotCached => a \in Held(k, p),
         overtaken[k][p] => overtaken'[k][p],
         Owes(k, p) => Owes(k, p)',
         \A c : About(Fresh(k, p), c)' = About(Fresh(k, p), c),
         \A c : Due(k, c) => Due(k, c)'
  PROVE  Sane(k, p)'
<1> SUFFICES ASSUME NEW a \in Held(k, p)', a # NotCached, ~overtaken'[k][p], ~Owes(k, p)'
             PROVE  Agrees(k, p, a.rows)'
  BY DEF Sane
<1>1. Agrees(k, p, a.rows)
  BY DEF Sane
<1> QED BY <1>1 DEF Agrees

\* A profile whose answers are all about to be dropped.
LEMMA OwingIsSane ==
  ASSUME NEW k, NEW p, Owes(k, p)' PROVE Sane(k, p)'
BY DEF Sane

\* The answers of a profile do not change while the maps stay as they are.
LEMMA SameHeld ==
  ASSUME NEW k, NEW p, UNCHANGED <<cache, fill, up, disk>>
  PROVE  Held(k, p)' = Held(k, p)
BY DEF Held

\* What the poller owes, when neither it nor the clock nor the calendar moves.
LEMMA SameDue ==
  ASSUME NEW k, NEW c, UNCHANGED <<airs, rest>>,
         InJobs(DropCard("watched", c)) => InJobs(DropCard("watched", c))',
         InJobs(DropAll) => InJobs(DropAll)'
  PROVE  Due(k, c) => Due(k, c)'
<1>1. /\ Crossing(c)' <=> Crossing(c)
      /\ PollerOwes(DropCard("watched", c))' <=> PollerOwes(DropCard("watched", c))
      /\ PollerOwes(DropAll)' <=> PollerOwes(DropAll)
  BY DEF Crossing, PollerOwes, InPoll, Since, CutoffDate, EpisodesOf, rest, DropCard, DropAll, Cross
<1> QED BY <1>1 DEF Due

-----------------------------------------------------------------------------
\* A write to the store: the profiles it concerns have their hook to come, the others
\* see nothing of it.
LEMMA WriteIsSane ==
  ASSUME NEW k \in Kind, NEW p \in Profile, JobsInv(k), Sane(k, p), NEW w \in Worker,
         WriteTimecode(w) \/ EnsureImpliedStatus(w) \/ WriteStatus(w) \/ EraseCard(w)
  PROVE  Sane(k, p)'
<1> DEFINE s == Head(jobs[w])
<1>1. /\ jobs[w] # <<>> /\ Advance(w) /\ UNCHANGED <<airs, volatile, rest>>
      /\ s.do \in {"put", "imply", "status", "erase"}
  BY DEF WriteTimecode, EnsureImpliedStatus, WriteStatus, EraseCard, Next1
<1> HIDE DEF s
<1>2. /\ \A t : InJobs(t) /\ t # s => InJobs(t)'
      /\ Disturbs(k, s) => \E t : Settles(k, s, t) /\ InJobs(t)'
  BY <1>1, StepsRemain DEF s
<1>3. CASE Disturbs(k, s) /\ p \in s.who
  <2>1. PICK t : Settles(k, s, t) /\ InJobs(t)'
    BY <1>2, <1>3
  <2>2. t = Drop(k, s.who)
    BY <1>1, <2>1 DEF Settles
  <2>3. Owes(k, p)'
    BY <1>3, <2>1, <2>2 DEF Owes
  <2> QED BY <2>3, OwingIsSane
<1>4. CASE ~(Disturbs(k, s) /\ p \in s.who)
  <2>1. Fresh(k, p)' = Fresh(k, p)
    <3>1. timecodes'[p] = timecodes[p] /\ (k # "watched" => status'[p] = status[p])
      <4>1. CASE WriteTimecode(w)
        BY <1>4, <4>1 DEF WriteTimecode, Next1, s, Disturbs
      <4>2. CASE EnsureImpliedStatus(w)
        BY <1>4, <4>2 DEF EnsureImpliedStatus, Next1, s, Disturbs
      <4>3. CASE WriteStatus(w)
        BY <1>4, <4>3 DEF WriteStatus, Next1, s, Disturbs
      <4>4. CASE EraseCard(w)
        BY <1>4, <4>4 DEF EraseCard, Next1, s, Disturbs
      <4> QED BY <4>1, <4>2, <4>3, <4>4
    <3> QED BY <1>1, <3>1, SameAnswer DEF rest
  <2>2. \A t : t.do \in {"drop", "drop_card", "drop_all"} /\ InJobs(t) => InJobs(t)'
    BY <1>1, <1>2
  <2>3. Owes(k, p) => Owes(k, p)'
    BY <2>2, Fields DEF Owes
  <2>4. ASSUME NEW c PROVE Due(k, c) => Due(k, c)'
    BY <1>1, <2>2, Fields, SameDue
  <2>5. Held(k, p)' = Held(k, p) /\ overtaken' = overtaken
    BY <1>1, SameHeld DEF volatile, rest
  <2>6. \A c : About(Fresh(k, p), c)' = About(Fresh(k, p), c)
    BY <2>1 DEF About
  <2> QED BY <2>3, <2>4, <2>5, <2>6, StillSane
<1> QED BY <1>3, <1>4

-----------------------------------------------------------------------------
IsDrop(s) == s.do \in {"drop", "drop_card", "drop_all"}

\* A step that leaves the store, the clock and the poller alone, keeps every drop that
\* is to come and brings no new answer.
LEMMA QuietIsSane ==
  ASSUME NEW k \in Kind, NEW p, Sane(k, p), UNCHANGED <<store, rest>>,
         \A s : InJobs(s) /\ IsDrop(s) => InJobs(s)',
         \A a \in Held(k, p)' : a # NotCached => a \in Held(k, p),
         overtaken[k][p] => overtaken'[k][p]
  PROVE  Sane(k, p)'
<1>1. Fresh(k, p)' = Fresh(k, p)
  BY SameAnswer DEF store, rest
<1>2. \A c : About(Fresh(k, p), c)' = About(Fresh(k, p), c)
  BY <1>1 DEF About
<1>3. Owes(k, p) => Owes(k, p)'
  BY Fields DEF Owes, IsDrop
<1>4. ASSUME NEW c PROVE Due(k, c) => Due(k, c)'
  BY Fields, SameDue DEF store, IsDrop
<1> QED BY <1>2, <1>3, <1>4, StillSane

\* An answer that has just been read is the present one.
LEMMA ReadIsSane ==
  ASSUME NEW k \in Kind, NEW p \in Profile, Sane(k, p), Shapes,
         NEW i \in Kind, NEW q \in Profile, ReadStore(i, q)
  PROVE  Sane(k, p)'
<1>1. PICK answer :
        /\ answer = Cached(Fresh(i, q)) /\ fill' = [fill EXCEPT ![i][q] = answer]
        /\ overtaken' = [overtaken EXCEPT ![i][q] = FALSE]
        /\ up = TRUE /\ cache[i][q] = NotCached /\ UNCHANGED <<store, cache, index, jobs, rest>>
  BY DEF ReadStore, Shapes
<1>2. CASE k = i /\ p = q
  <2>1. fill'[k][p] = answer /\ cache'[k][p] = NotCached /\ up' = TRUE
    BY <1>1, <1>2 DEF Shapes, rest
  <2>2. Held(k, p)' = {NotCached, answer}
    BY <2>1 DEF Held
  <2>3. answer.rows = Fresh(k, p)
    BY <1>1, <1>2 DEF Cached
  <2>4. Fresh(k, p)' = Fresh(k, p)
    BY <1>1, SameAnswer DEF store, rest
  <2>5. Agrees(k, p, Fresh(k, p))'
    BY <2>4 DEF Agrees
  <2> QED BY <2>2, <2>3, <2>4, <2>5 DEF Sane
<1>3. CASE ~(k = i /\ p = q)
  <2>1. fill'[k][p] = fill[k][p] /\ overtaken'[k][p] = overtaken[k][p]
    <3>1. \A a \in Kind, b \in Profile : fill'[a][b] = IF a = i /\ b = q THEN answer ELSE fill[a][b]
      BY <1>1 DEF Shapes
    <3>2. \A a \in Kind, b \in Profile :
            overtaken'[a][b] = IF a = i /\ b = q THEN FALSE ELSE overtaken[a][b]
      BY <1>1 DEF Shapes
    <3> QED BY <1>3, <3>1, <3>2
  <2>2. Held(k, p)' = Held(k, p)
    BY <1>1, <2>1 DEF Held, rest
  <2>3. \A s : InJobs(s) => InJobs(s)'
    BY <1>1 DEF InJobs
  <2> QED BY <1>1, <2>1, <2>2, <2>3, QuietIsSane
<1> QED BY <1>2, <1>3

\* StoreEntry moves an answer from the call that read it to the cache.
LEMMA StoredIsSane ==
  ASSUME NEW k \in Kind, NEW p \in Profile, Sane(k, p), Shapes,
         NEW i \in Kind, NEW q \in Profile, StoreEntry(i, q)
  PROVE  Sane(k, p)'
<1>1. /\ cache' = [cache EXCEPT ![i][q] = fill[i][q]]
      /\ fill' = [fill EXCEPT ![i][q] = NoFill]
      /\ up = TRUE /\ UNCHANGED <<store, overtaken, jobs, rest>>
  BY DEF StoreEntry, Shapes
<1>2. /\ cache'[k][p] \in {cache[k][p], fill[k][p]}
      /\ fill'[k][p] \in {NotCached, fill[k][p]}
  <2>1. CASE k = i /\ p = q
    BY <1>1, <2>1 DEF Shapes, NoFill
  <2>2. CASE ~(k = i /\ p = q)
    BY <1>1, <2>2 DEF Shapes, NoFill
  <2> QED BY <2>1, <2>2
<1>3. \A a \in Held(k, p)' : a # NotCached => a \in Held(k, p)
  BY <1>1, <1>2 DEF Held, rest
<1>4. \A s : InJobs(s) => InJobs(s)'
  BY <1>1 DEF InJobs
<1> QED BY <1>1, <1>3, <1>4, QuietIsSane

\* What a drop takes away, and what it marks.
LEMMA DroppedFields ==
  ASSUME Shapes, NEW i, NEW gone, NEW missed, Dropped(i, gone, missed),
         NEW k \in Kind, NEW p \in Profile
  PROVE  /\ k # i => cache'[k][p] = cache[k][p] /\ overtaken'[k][p] = overtaken[k][p]
         /\ k = i => /\ cache'[k][p] = IF p \in gone THEN NotCached ELSE cache[k][p]
                     /\ overtaken[k][p] => overtaken'[k][p]
                     /\ p \in missed /\ fill[k][p] # NotCached => overtaken'[k][p]
BY DEF Dropped, Shapes, Reading, NoFill

\* The hook of a write.
LEMMA HookIsSane ==
  ASSUME NEW k \in Kind, NEW p \in Profile, Sane(k, p), Shapes, JobsInv(k),
         NEW w \in Worker, DropProfiles(w)
  PROVE  Sane(k, p)'
<1> PICK s : s = Head(jobs[w]) /\ Dropped(s.kind, s.who, s.who)
  BY DEF DropProfiles
<1>1. /\ jobs[w] # <<>> /\ Advance(w) /\ UNCHANGED <<store, index, fill, rest>>
      /\ s.do = "drop" /\ up = TRUE
  BY DEF DropProfiles, Next1, Shapes
<1>2. \A t : InJobs(t) /\ t # s => InJobs(t)'
  BY <1>1, StepsRemain
<1>3. up' = TRUE /\ fill' = fill
  BY <1>1 DEF rest
<1>4. CASE k = s.kind /\ p \in s.who
  <2>1. cache'[k][p] = NotCached /\ (fill[k][p] # NotCached => overtaken'[k][p])
    BY <1>4, DroppedFields
  <2>2. Held(k, p)' = {NotCached, fill[k][p]}
    BY <1>3, <2>1 DEF Held
  <2> QED BY <2>1, <2>2 DEF Sane
<1>5. CASE ~(k = s.kind /\ p \in s.who)
  <2>1. cache'[k][p] = cache[k][p] /\ (overtaken[k][p] => overtaken'[k][p])
    BY <1>5, DroppedFields
  <2>2. Held(k, p)' = Held(k, p)
    BY <1>1, <1>3, <2>1 DEF Held
  <2>3. Owes(k, p) => Owes(k, p)'
    <3>1. \A who : p \in who => Drop(k, who) # s
      BY <1>5, Fields
    <3> QED BY <1>2, <3>1 DEF Owes
  <2>4. ASSUME NEW c PROVE Due(k, c) => Due(k, c)'
    <3>1. DropCard("watched", c) # s /\ DropAll # s
      BY <1>1, Fields
    <3> QED BY <1>1, <1>2, <3>1, SameDue DEF store
  <2>5. Fresh(k, p)' = Fresh(k, p)
    BY <1>1, SameAnswer DEF store, rest
  <2>6. \A c : About(Fresh(k, p), c)' = About(Fresh(k, p), c)
    BY <2>5 DEF About
  <2> QED BY <2>1, <2>2, <2>3, <2>4, <2>6, StillSane
<1> QED BY <1>4, <1>5

\* Forgetting a card: no answer that lists it is left, and what is being read and lists
\* it is overtaken.
LEMMA ForgettingIsSane ==
  ASSUME NEW k \in Kind, NEW p \in Profile, Sane(k, p), Shapes, IndexCovers,
         NEW i, NEW c, ForgetCard(i, c), UNCHANGED <<store, fill, clock, up>>, up = TRUE,
         Owes(k, p) => Owes(k, p)',
         \A d : Due(k, d) => Due(k, d)' \/ (k = "watched" /\ i = "watched" /\ d = c)
  PROVE  Sane(k, p)'
<1>1. PICK gone, missed :
        /\ Dropped(i, gone, missed) /\ gone = index[i][c]
        /\ missed = {q \in Profile : Reading(i, q) /\ Lists(fill[i][q].rows, c)}
  BY DEF ForgetCard
<1>2. /\ cache'[k][p] \in {cache[k][p], NotCached} /\ (overtaken[k][p] => overtaken'[k][p])
      /\ k = i /\ p \in gone => cache'[k][p] = NotCached
      /\ k = i /\ p \in missed /\ fill[k][p] # NotCached => overtaken'[k][p]
  BY <1>1, DroppedFields
<1>3. Held(k, p)' = {cache'[k][p], fill[k][p]} /\ Held(k, p) = {cache[k][p], fill[k][p]}
  BY DEF Held
<1>4. Fresh(k, p)' = Fresh(k, p)
  BY SameAnswer DEF store
<1> SUFFICES ASSUME NEW a \in Held(k, p)', a # NotCached, ~overtaken'[k][p], ~Owes(k, p)'
             PROVE  Agrees(k, p, a.rows)'
  BY DEF Sane
<1>5. a \in Held(k, p) /\ Agrees(k, p, a.rows)
  BY <1>2, <1>3 DEF Sane
<1>6. ASSUME k = "watched", i = "watched", Due(k, c), Lists(a.rows, c) PROVE FALSE
  <2>1. c \in Card
    BY <1>6 DEF Due
  <2>2. CASE a = fill[k][p]
    <3>1. p \in missed
      BY <1>1, <1>6, <2>2 DEF Reading, NoFill
    <3> QED BY <1>2, <1>6, <2>2, <3>1
  <2>3. CASE a # fill[k][p]
    <3>1. a = cache[k][p] /\ a = cache'[k][p]
      BY <1>2, <1>3, <1>5, <2>3
    <3>2. p \in gone
      BY <1>1, <1>6, <2>1, <3>1 DEF IndexCovers, Indexed
    <3> QED BY <1>2, <1>6, <3>1, <3>2
  <2> QED BY <2>2, <2>3
<1> SUFFICES ASSUME NEW d
             PROVE  \/ About(a.rows, d) = About(Fresh(k, p), d)'
                    \/ Due(k, d)' /\ (k = "watched" => Lists(a.rows, d))
  BY DEF Agrees
<1>7. About(Fresh(k, p), d)' = About(Fresh(k, p), d)
  BY <1>4 DEF About
<1>8. \/ About(a.rows, d) = About(Fresh(k, p), d)
      \/ Due(k, d) /\ (k = "watched" => Lists(a.rows, d))
  BY <1>5 DEF Agrees
<1> QED BY <1>6, <1>7, <1>8

\* The whole unwatched cache is dropped.
LEMMA WipingIsSane ==
  ASSUME NEW k \in Kind, NEW p \in Profile, Sane(k, p), Shapes,
         ForgetAll, UNCHANGED <<store, fill, clock, up>>, up = TRUE,
         Owes(k, p) => Owes(k, p)',
         \A d : k # "unwatched" => (Due(k, d) => Due(k, d)')
  PROVE  Sane(k, p)'
<1>1. Dropped("unwatched", Profile, Profile)
  BY DEF ForgetAll
<1>2. Held(k, p)' = {cache'[k][p], fill[k][p]} /\ Held(k, p) = {cache[k][p], fill[k][p]}
  BY DEF Held
<1>3. CASE k = "unwatched"
  <2>1. cache'[k][p] = NotCached /\ (fill[k][p] # NotCached => overtaken'[k][p])
    BY <1>1, <1>3, DroppedFields
  <2> QED BY <1>2, <2>1 DEF Sane
<1>4. CASE k # "unwatched"
  <2>1. cache'[k][p] = cache[k][p] /\ overtaken'[k][p] = overtaken[k][p]
    BY <1>1, <1>4, DroppedFields
  <2>2. Fresh(k, p)' = Fresh(k, p)
    BY SameAnswer DEF store
  <2>3. \A c : About(Fresh(k, p), c)' = About(Fresh(k, p), c)
    BY <2>2 DEF About
  <2> QED BY <1>2, <1>4, <2>1, <2>3, StillSane
<1> QED BY <1>3, <1>4

-----------------------------------------------------------------------------
\* More has aired, because an episode was learnt or a day was crossed: a card of which
\* more has aired is due to be dropped.
LEMMA AiringIsSane ==
  ASSUME NEW k \in Kind, NEW p, Sane(k, p), UNCHANGED <<timecodes, status>>,
         \A a \in Held(k, p)' : a # NotCached => a \in Held(k, p),
         overtaken' = overtaken,
         Owes(k, p) => Owes(k, p)',
         \A c : Due(k, c) => Due(k, c)',
         \A c : AiredBy(CutoffDate, c) \subseteq AiredBy(CutoffDate, c)',
         k \in Indexed =>
           \A c : AiredBy(CutoffDate, c)' = AiredBy(CutoffDate, c) \/ Due(k, c)'
  PROVE  Sane(k, p)'
<1>1. CASE k = "continues"
  <2>1. Fresh(k, p)' = Fresh(k, p)
    BY <1>1, SameContinues
  <2>2. \A c : About(Fresh(k, p), c)' = About(Fresh(k, p), c)
    BY <2>1 DEF About
  <2> QED BY <2>2, StillSane
<1>2. CASE k \in Indexed
  <2> SUFFICES ASSUME NEW a \in Held(k, p)', a # NotCached, ~overtaken'[k][p], ~Owes(k, p)', NEW c
               PROVE  \/ About(a.rows, c) = About(Fresh(k, p), c)'
                      \/ Due(k, c)' /\ (k = "watched" => Lists(a.rows, c))
    BY DEF Sane, Agrees
  <2>1. \/ About(a.rows, c) = About(Fresh(k, p), c)
        \/ Due(k, c) /\ (k = "watched" => Lists(a.rows, c))
    BY DEF Sane, Agrees
  <2>2. Seen(p, c)' = Seen(p, c)
    BY DEF Seen, EpisodesOf
  <2>3. CASE AiredBy(CutoffDate, c)' = AiredBy(CutoffDate, c)
    <3>1. About(Fresh(k, p), c)' = About(Fresh(k, p), c)
      BY <2>2, <2>3, SameAnswerAboutCard
    <3> QED BY <2>1, <3>1
  <2>4. CASE Due(k, c)' /\ k = "watched"
    BY <2>1, <2>2, <2>4, AiringEndsWatched
  <2>5. CASE Due(k, c)' /\ k # "watched"
    BY <2>5
  <2> QED BY <1>2, <2>3, <2>4, <2>5
<1> QED BY <1>1, <1>2 DEF Kind, Indexed

\* MyShows or TVmaze tell of episodes: the hooks of the same handler are to come.
LEMMA LearningIsSane ==
  ASSUME NEW k \in Kind, NEW p \in Profile, Sane(k, p), JobsInv(k), Shapes,
         k \in Indexed => ClockInv,
         NEW w \in Worker, UpsertEpisodes(w)
  PROVE  Sane(k, p)'
<1> PICK s, c : s = Head(jobs[w]) /\ c = s.card
  OBVIOUS
<1>1. /\ jobs[w] # <<>> /\ s.do = "learn" /\ UNCHANGED <<timecodes, status, volatile, rest>>
      /\ \/ \E batch \in SUBSET EpisodesOf(c), day \in Day :
              /\ \A e \in batch : airs[e] = NotListed \/ airs[e] > CutoffDate
              /\ s.path = "announce" => day > CutoffDate
              /\ airs' = [e \in Episode |-> IF e \in batch THEN day ELSE airs[e]]
              /\ Advance(w)
         \/ UNCHANGED airs /\ jobs' = [jobs EXCEPT ![w] = <<>>]
  BY DEF UpsertEpisodes, Next1
<1>2. Held(k, p)' = Held(k, p) /\ overtaken' = overtaken
  BY <1>1, SameHeld DEF volatile, rest
<1>3. CASE UNCHANGED airs /\ jobs' = [jobs EXCEPT ![w] = <<>>]
  <2>1. Orderly(k, <<>>)
    <3>1. <<>> \in Seq({}) /\ Len(<<>>) = 0
      OBVIOUS
    <3> QED BY <3>1 DEF Orderly, Settled, IsSequence
  <2>2. jobs[w][1].do = "learn"
    <3>1. IsSequence(jobs[w])
      BY DEF JobsInv, Orderly
    <3> QED BY <1>1, <3>1 DEF IsSequence
  <2>3. \A t : InJobs(t) => InJobs(t)'
    BY <1>3, <2>1, <2>2, OneJobReplaced
  <2> QED BY <1>1, <1>2, <1>3, <2>3, QuietIsSane DEF store
<1>4. ASSUME NEW batch \in SUBSET EpisodesOf(c), NEW day \in Day,
             \A e \in batch : airs[e] = NotListed \/ airs[e] > CutoffDate,
             s.path = "announce" => day > CutoffDate,
             airs' = [e \in Episode |-> IF e \in batch THEN day ELSE airs[e]],
             Advance(w)
      PROVE  Sane(k, p)'
  <2>1. /\ \A t : InJobs(t) /\ IsDrop(t) => InJobs(t)'
        /\ Disturbs(k, s) => \E t : Settles(k, s, t) /\ InJobs(t)'
    BY <1>1, <1>4, StepsRemain DEF IsDrop
  <2>2. Owes(k, p) => Owes(k, p)'
    BY <2>1, Fields DEF Owes, IsDrop
  <2>3. CutoffDate' = CutoffDate /\ Since' = Since
    BY <1>1 DEF CutoffDate, Since, rest
  <2>0. CutoffDate \in Nat /\ airs \in [Episode -> Int] /\ day \in Int
    BY <1>4, DivMod, ConstantsAssumption DEF Shapes, CutoffDate, Day
  <2>4. ASSUME NEW d, NEW e \in AiredBy(CutoffDate, d) PROVE e \in AiredBy(CutoffDate, d)'
    <3>1. e \in EpisodesOf(d) /\ e \in Episode /\ airs[e] # NotListed /\ airs[e] <= CutoffDate
      BY DEF AiredBy, EpisodesOf
    <3>2. e \notin batch
      BY <1>4, <2>0, <3>1
    <3>3. airs'[e] = airs[e]
      BY <1>4, <3>1, <3>2
    <3> QED BY <2>3, <3>1, <3>3 DEF AiredBy, EpisodesOf
  <2>5. ASSUME k \in Indexed, NEW d PROVE Crossing(d) => Crossing(d)'
    <3>3. Date(Since) \in Nat
      BY <2>5, DivMod DEF ClockInv, Since, Shapes
    <3> SUFFICES ASSUME NEW e \in EpisodesOf(d), airs[e] \in Date(Since) .. CutoffDate
                 PROVE  airs'[e] = airs[e]
      BY <2>3 DEF Crossing, EpisodesOf
    <3>4. e \notin batch
      BY <1>4, <2>0, <3>3 DEF NotListed
    <3> QED BY <1>4, <3>4 DEF EpisodesOf
  <2>6. ASSUME NEW d PROVE Due(k, d) => Due(k, d)'
    <3>1. \A t : PollerOwes(t)' <=> PollerOwes(t)
      BY <1>1, <2>3 DEF PollerOwes, InPoll, rest, Cross
    <3>2. /\ InJobs(DropCard("watched", d)) => InJobs(DropCard("watched", d))'
          /\ InJobs(DropAll) => InJobs(DropAll)'
      BY <2>1, Fields DEF IsDrop
    <3>3. /\ PollerOwes(DropCard("watched", d)) => PollerOwes(DropCard("watched", d))'
          /\ PollerOwes(DropAll) => PollerOwes(DropAll)'
      BY <3>1 DEF DropCard, DropAll
    <3> QED BY <2>5, <3>2, <3>3 DEF Due, Indexed
  <2>7. ASSUME k \in Indexed, NEW d
        PROVE  AiredBy(CutoffDate, d)' = AiredBy(CutoffDate, d) \/ Due(k, d)'
    <3>1. CASE EpisodesOf(d) \cap batch = {}
      BY <1>4, <2>3, <3>1 DEF AiredBy, EpisodesOf
    <3>2. CASE k = "watched" /\ EpisodesOf(d) \cap batch # {}
      <4>1. d = c /\ d \in Card
        BY <1>4, <3>2, ConstantsAssumption DEF EpisodesOf
      <4>2. PICK t : Settles(k, s, t) /\ InJobs(t)'
        BY <1>1, <2>1, <3>2 DEF Disturbs
      <4>3. t = DropCard("watched", d)
        BY <1>1, <3>2, <4>1, <4>2 DEF Settles
      <4> QED BY <3>2, <4>1, <4>2, <4>3 DEF Due
    <3>3. CASE k = "unwatched" /\ s.path # "announce" /\ EpisodesOf(d) \cap batch # {}
      <4>1. d \in Card
        BY <3>3, ConstantsAssumption DEF EpisodesOf
      <4>2. PICK t : Settles(k, s, t) /\ InJobs(t)'
        BY <1>1, <2>1, <3>3 DEF Disturbs
      <4>3. t = DropAll
        BY <1>1, <3>3, <4>2 DEF Settles
      <4> QED BY <3>3, <4>1, <4>2, <4>3 DEF Due
    <3>4. CASE k = "unwatched" /\ s.path = "announce"
      <4>1. ASSUME NEW e \in AiredBy(CutoffDate, d)' PROVE e \in AiredBy(CutoffDate, d)
        <5>1. e \in EpisodesOf(d) /\ e \in Episode /\ airs'[e] # NotListed /\ airs'[e] <= CutoffDate
          BY <2>3 DEF AiredBy, EpisodesOf
        <5>2. e \notin batch
          BY <1>4, <2>0, <3>4, <5>1
        <5>3. airs'[e] = airs[e]
          BY <1>4, <5>1, <5>2
        <5> QED BY <5>1, <5>3 DEF AiredBy
      <4> QED BY <2>4, <4>1
    <3> QED BY <2>7, <3>1, <3>2, <3>3, <3>4 DEF Indexed
  <2> QED BY <1>1, <1>2, <2>2, <2>4, <2>6, <2>7, AiringIsSane
<1> QED BY <1>1, <1>3, <1>4

\* The statuses filled in at the start end no viewing, and begin none that the watched
\* cards or the list to continue depend on.
LEMMA BackfillIsSane ==
  ASSUME NEW k \in Kind, NEW p \in Profile, Sane(k, p), JobsInv(k),
         NEW w \in Worker, BackfillImpliedStatuses(w)
  PROVE  Sane(k, p)'
<1> PICK s : s = Head(jobs[w])
  OBVIOUS
<1>1. /\ jobs[w] # <<>> /\ Advance(w) /\ s.do = "backfill"
      /\ UNCHANGED <<timecodes, airs, volatile, rest>>
      /\ status' = [q \in Profile |-> [c \in Card |->
           IF status[q][c] = "none" /\ \E e \in EpisodesOf(c) : timecodes[q][e] # "none"
             THEN "watching" ELSE status[q][c]]]
  BY DEF BackfillImpliedStatuses, Next1
<1>2. /\ \A t : InJobs(t) /\ IsDrop(t) => InJobs(t)'
      /\ Disturbs(k, s) => \E t : Settles(k, s, t) /\ InJobs(t)'
  BY <1>1, StepsRemain DEF IsDrop
<1>3. k # "unwatched"
  BY <1>1, <1>2 DEF Disturbs, Settles
<1>4. Fresh(k, p)' = Fresh(k, p)
  <2>1. CASE k = "watched"
    BY <1>1, <2>1, SameAnswer DEF rest
  <2>2. CASE k = "continues"
    <3>1. \A c \in Card : status'[p][c] = "stopped" <=> status[p][c] = "stopped"
      BY <1>1
    <3> QED BY <1>1, <2>2, <3>1, SameContinues
  <2> QED BY <1>3, <2>1, <2>2 DEF Kind
<1>5. \A c : About(Fresh(k, p), c)' = About(Fresh(k, p), c)
  BY <1>4 DEF About
<1>6. Owes(k, p) => Owes(k, p)'
  BY <1>2, Fields DEF Owes, IsDrop
<1>7. ASSUME NEW c PROVE Due(k, c) => Due(k, c)'
  BY <1>1, <1>2, Fields, SameDue DEF IsDrop
<1>8. Held(k, p)' = Held(k, p) /\ overtaken' = overtaken
  BY <1>1, SameHeld DEF volatile, rest
<1> QED BY <1>5, <1>6, <1>7, <1>8, StillSane

\* Every step of a handler.
LEMMA HandlerIsSane ==
  ASSUME NEW k \in Kind, Paths \subseteq SafePaths(k), JobsInv(k), Shapes, IndexCovers,
         k \in Indexed => ClockInv,
         NEW w \in Worker, Handle(w)
  PROVE  JobsInv(k)' /\ \A p \in Profile : Sane(k, p) => Sane(k, p)'
<1>1. CASE Start(w)
  <2>1. PICK program \in Programs : jobs[w] = <<>> /\ jobs' = [jobs EXCEPT ![w] = program]
    BY <1>1 DEF Start
  <2>2. UNCHANGED <<store, volatile, rest>>
    BY <1>1 DEF Start
  <2>3. JobsInv(k)' /\ \A s : InJobs(s) => InJobs(s)'
    BY <2>1, OneJobReplaced, ProgramsAreSettled
  <2>4. \A p : Held(k, p)' = Held(k, p)
    BY <2>2, SameHeld DEF volatile, rest
  <2> QED BY <2>2, <2>3, <2>4, QuietIsSane DEF volatile
<1>2. CASE UpsertEpisodes(w) /\ ~Advance(w)
  <2>1. jobs' = [jobs EXCEPT ![w] = <<>>] /\ jobs[w] # <<>> /\ Head(jobs[w]).do = "learn"
    BY <1>2 DEF UpsertEpisodes, Next1
  <2>2. Orderly(k, <<>>)
    <3>1. <<>> \in Seq({}) /\ Len(<<>>) = 0
      OBVIOUS
    <3> QED BY <3>1 DEF Orderly, Settled, IsSequence
  <2>3. jobs[w][1].do = "learn"
    <3>1. IsSequence(jobs[w])
      BY DEF JobsInv, Orderly
    <3> QED BY <2>1, <3>1 DEF IsSequence
  <2>4. JobsInv(k)'
    BY <2>1, <2>2, <2>3, OneJobReplaced
  <2> QED BY <1>2, <2>4, LearningIsSane
<1>3. CASE ~Start(w) /\ Advance(w) /\ jobs[w] # <<>>
  <2>1. /\ JobsInv(k)'
        /\ \A s : InJobs(s) /\ s # Head(jobs[w]) => InJobs(s)'
        /\ Disturbs(k, Head(jobs[w])) => \E t : Settles(k, Head(jobs[w]), t) /\ InJobs(t)'
    BY <1>3, StepsRemain
  <2>2. ~TrimToLimitCount(w)
    BY <2>1 DEF TrimToLimitCount, Next1, Disturbs, Settles
  <2> SUFFICES ASSUME NEW p \in Profile, Sane(k, p) PROVE Sane(k, p)'
    BY <2>1
  <2>3. CASE DropForCard(w)
    <3> PICK s : s = Head(jobs[w])
      OBVIOUS
    <3>1. /\ s.do = "drop_card" /\ ForgetCard(s.kind, s.card) /\ up = TRUE
          /\ UNCHANGED <<store, fill, rest>>
      BY <2>3 DEF DropForCard, Next1, Shapes
    <3>2. Owes(k, p) => Owes(k, p)'
      BY <2>1, <3>1, Fields DEF Owes
    <3>3. ASSUME NEW d
          PROVE  Due(k, d) => Due(k, d)' \/ (k = "watched" /\ s.kind = "watched" /\ d = s.card)
      <4>1. DropAll # s /\ (s = DropCard("watched", d) => s.kind = "watched" /\ d = s.card)
        BY <3>1, Fields
      <4>2. /\ PollerOwes(DropCard("watched", d))' <=> PollerOwes(DropCard("watched", d))
            /\ PollerOwes(DropAll)' <=> PollerOwes(DropAll)
            /\ Crossing(d)' <=> Crossing(d)
        BY <3>1 DEF Crossing, PollerOwes, InPoll, Since, CutoffDate, EpisodesOf, rest, store,
                    DropCard, DropAll, Cross
      <4> QED BY <2>1, <4>1, <4>2 DEF Due
    <3> QED BY <3>1, <3>2, <3>3, ForgettingIsSane DEF rest
  <2>4. CASE DropAllUnwatched(w)
    <3> PICK s : s = Head(jobs[w])
      OBVIOUS
    <3>1. /\ s.do = "drop_all" /\ ForgetAll /\ up = TRUE /\ UNCHANGED <<store, fill, rest>>
      BY <2>4 DEF DropAllUnwatched, Next1, Shapes
    <3>2. Owes(k, p) => Owes(k, p)'
      BY <2>1, <3>1, Fields DEF Owes
    <3>3. ASSUME NEW d, k # "unwatched" PROVE Due(k, d) => Due(k, d)'
      <4>1. DropCard("watched", d) # s
        BY <3>1, Fields
      <4>2. /\ PollerOwes(DropCard("watched", d))' <=> PollerOwes(DropCard("watched", d))
            /\ Crossing(d)' <=> Crossing(d)
        BY <3>1 DEF Crossing, PollerOwes, InPoll, Since, CutoffDate, EpisodesOf, rest, store,
                    DropCard, Cross
      <4> QED BY <2>1, <3>3, <4>1, <4>2 DEF Due
    <3> QED BY <3>1, <3>2, <3>3, WipingIsSane DEF rest
  <2> QED BY <1>3, <2>2, <2>3, <2>4, WriteIsSane, LearningIsSane, BackfillIsSane,
            HookIsSane DEF Handle
<1>4. Start(w) \/ (UpsertEpisodes(w) /\ ~Advance(w)) \/ (Advance(w) /\ jobs[w] # <<>>)
  BY DEF Handle, WriteTimecode, EnsureImpliedStatus, WriteStatus, EraseCard, TrimToLimitCount,
         UpsertEpisodes, BackfillImpliedStatuses, DropProfiles, DropForCard, DropAllUnwatched, Next1
<1> QED BY <1>1, <1>2, <1>3, <1>4

-----------------------------------------------------------------------------
\* Days follow the clock.
LEMMA DatesGrow ==
  ASSUME NEW a \in Nat, NEW b \in Nat, a <= b
  PROVE  Date(a) <= Date(b)
<1>1. PICK q \in Nat : q = Date(a) /\ TicksPerDay * q <= a
  BY DivMod
<1>2. PICK r \in Nat : r = Date(b) /\ b < TicksPerDay * r + TicksPerDay
  BY DivMod
<1>3. ASSUME q >= r + 1 PROVE FALSE
  <2>1. TicksPerDay * q >= TicksPerDay * r + TicksPerDay
    BY <1>3, NextMultiple, ConstantsAssumption
  <2> QED BY <1>1, <1>2, <2>1, ConstantsAssumption
<1> QED BY <1>1, <1>2, <1>3

\* The poller runs every minute: it is done with a crossing before the next tick.
PollerInTime == Tick => ~up \/ (poll = <<>> /\ last = CutoffDate)

\* A tick: the cutoff stays or crosses one day, and only what airs on that day changes.
LEMMA TickMoves ==
  ASSUME Shapes, Tick
  PROVE  /\ clock' = clock + 1 /\ CutoffDate \in Nat
         /\ CutoffDate' = CutoffDate \/ CutoffDate' = CutoffDate + 1
         /\ Lag < TicksPerDay /\ CutoffDate' # CutoffDate => Date(clock') = CutoffDate'
         /\ \A c : AiredBy(CutoffDate, c) \subseteq AiredBy(CutoffDate, c)'
         /\ \A c : ~(\E e \in EpisodesOf(c) : airs[e] = CutoffDate')
                     => AiredBy(CutoffDate, c)' = AiredBy(CutoffDate, c)
<1> DEFINE t == clock - Lag
<1>1. t \in Nat /\ clock' = clock + 1 /\ clock' - Lag = t + 1 /\ clock \in Nat /\ clock >= Lag
      /\ airs' = airs /\ airs \in [Episode -> Int]
  BY ConstantsAssumption DEF Shapes, Tick, store
<1>2. CutoffDate = Date(t) /\ CutoffDate' = Date(t + 1)
  BY <1>1 DEF CutoffDate
<1>3. Date(t + 1) = Date(t) \/ Date(t + 1) = Date(t) + 1
  BY <1>1, NextTick
<1>4. Date(t) \in Nat
  BY <1>1, DivMod
<1>5. Lag < TicksPerDay /\ CutoffDate' # CutoffDate => Date(clock') = CutoffDate'
  <2> SUFFICES ASSUME Lag < TicksPerDay, CutoffDate' # CutoffDate PROVE Date(clock') = CutoffDate'
    OBVIOUS
  <2>0. clock' - Lag = clock + 1 - Lag
    BY <1>1, ConstantsAssumption
  <2>1. Date(clock + 1 - Lag) # Date(clock - Lag) /\ CutoffDate' = Date(clock + 1 - Lag)
    BY <2>0 DEF CutoffDate
  <2> QED BY <1>1, <2>0, <2>1, CrossedDayIsToday
<1>6. \A c : EpisodesOf(c)' = EpisodesOf(c) /\ EpisodesOf(c) \subseteq Episode
  BY DEF EpisodesOf
<1> HIDE DEF t
<1>7. PICK a, b \in Nat : a = CutoffDate /\ b = CutoffDate' /\ (b = a \/ b = a + 1)
  BY <1>2, <1>3, <1>4
<1>8. ASSUME NEW c
      PROVE  /\ AiredBy(CutoffDate, c) = {e \in EpisodesOf(c) : airs[e] # NotListed /\ airs[e] <= a}
             /\ AiredBy(CutoffDate, c)' = {e \in EpisodesOf(c) : airs[e] # NotListed /\ airs[e] <= b}
  BY <1>1, <1>6, <1>7 DEF AiredBy
<1>9. \A e \in Episode : airs[e] \in Int
  BY <1>1
<1>10. ASSUME NEW c PROVE AiredBy(CutoffDate, c) \subseteq AiredBy(CutoffDate, c)'
  BY <1>6, <1>7, <1>8, <1>9
<1>11. ASSUME NEW c, ~(\E e \in EpisodesOf(c) : airs[e] = b)
       PROVE  AiredBy(CutoffDate, c)' = AiredBy(CutoffDate, c)
  <2>1. \A e \in EpisodesOf(c) : airs[e] \in Int /\ airs[e] # b
    BY <1>6, <1>9, <1>11
  <2>2. \A e \in EpisodesOf(c) : airs[e] <= a <=> airs[e] <= b
    BY <1>7, <2>1
  <2> QED BY <1>8, <2>2
<1> QED BY <1>1, <1>5, <1>7, <1>10, <1>11

\* The clock: what airs on the day that is crossed is the poller's to drop.
LEMMA TickIsSane ==
  ASSUME NEW k \in Kind, NEW p \in Profile, Sane(k, p), Shapes,
         k \in Indexed => ClockInv /\ PollerInTime /\ Lag < TicksPerDay,
         Tick
  PROVE  Sane(k, p)'
<1>1. /\ UNCHANGED <<store, volatile, jobs, last, poll, disk, up>>
      /\ clock' = clock + 1
  BY DEF Tick
<1>2. /\ CutoffDate \in Nat /\ (CutoffDate' = CutoffDate \/ CutoffDate' = CutoffDate + 1)
      /\ Lag < TicksPerDay /\ CutoffDate' # CutoffDate => Date(clock') = CutoffDate'
      /\ \A c : AiredBy(CutoffDate, c) \subseteq AiredBy(CutoffDate, c)'
      /\ \A c : ~(\E e \in EpisodesOf(c) : airs[e] = CutoffDate')
                  => AiredBy(CutoffDate, c)' = AiredBy(CutoffDate, c)
  BY TickMoves
<1>3. Held(k, p)' = Held(k, p) /\ overtaken' = overtaken
  BY <1>1, SameHeld DEF volatile
<1>4. \A s : InJobs(s)' <=> InJobs(s)
  BY <1>1 DEF InJobs
<1>5. Owes(k, p) => Owes(k, p)'
  BY <1>4 DEF Owes, Drop
<1>6. ASSUME k \in Indexed, ~up, NEW c PROVE Crossing(c) => Crossing(c)'
  <2>1. Since' = Since /\ Date(Since) \in Nat
    BY <1>1, <1>6, DivMod DEF Since, ClockInv
  <2>2. \A e \in EpisodesOf(c) : airs'[e] = airs[e] /\ airs[e] \in Int
    BY <1>1 DEF Shapes, EpisodesOf, store
  <2>3. EpisodesOf(c)' = EpisodesOf(c)
    BY DEF EpisodesOf
  <2>4. PICK a, b, d \in Nat : /\ a = CutoffDate /\ b = CutoffDate' /\ d = Date(Since)
                               /\ d = Date(Since)' /\ a <= b
    BY <1>2, <2>1
  <2>5. \A i \in Int : i \in d .. a => i \in d .. b
    BY <2>4
  <2> QED BY <2>2, <2>3, <2>4, <2>5 DEF Crossing
<1>7. ASSUME NEW c PROVE Due(k, c) => Due(k, c)'
  <2>1. CASE k \in Indexed /\ up
    <3>1. poll = <<>> /\ last = CutoffDate
      BY <2>1 DEF PollerInTime
    <3>2. \A s : ~InPoll(s)
      BY <3>1 DEF InPoll
    <3>3. \A s : ~PollerOwes(s)
      BY <1>2, <2>1, <3>1, <3>2 DEF PollerOwes
    <3> QED BY <1>4, <3>3 DEF Due, DropCard, DropAll
  <2>2. CASE k \in Indexed /\ ~up
    <3>1. \A s : PollerOwes(s)'
      BY <1>1, <2>2 DEF PollerOwes
    <3>2. PollerOwes(DropCard("watched", c))' /\ PollerOwes(DropAll)'
      BY <3>1 DEF DropCard, DropAll
    <3> QED BY <1>4, <1>6, <2>2, <3>2 DEF Due, DropCard, DropAll
  <2>3. CASE k \notin Indexed
    BY <2>3 DEF Due, Indexed
  <2> QED BY <2>1, <2>2, <2>3
<1>8. ASSUME k \in Indexed, NEW c, AiredBy(CutoffDate, c)' # AiredBy(CutoffDate, c)
      PROVE  Due(k, c)'
  <2>1. PICK e \in EpisodesOf(c) : airs[e] = CutoffDate'
    BY <1>2, <1>8
  <2>2. CutoffDate' # CutoffDate
    BY <1>1, <1>8 DEF AiredBy, EpisodesOf, store
  <2>3. CutoffDate' = CutoffDate + 1 /\ Date(clock') = CutoffDate'
    BY <1>2, <1>8, <2>2
  <2>4. Date(Since') <= CutoffDate' /\ Date(Since') \in Nat
    <3>1. CASE up
      BY <1>1, <1>2, <2>3, <3>1 DEF Since
    <3>2. CASE ~up
      <4>1. Since' = disk.at /\ disk.at \in Nat /\ disk.at <= clock' /\ clock' \in Nat
        BY <1>1, <1>8, <3>2 DEF Since, ClockInv, Shapes
      <4> QED BY <2>3, <4>1, DatesGrow, DivMod
    <3> QED BY <3>1, <3>2
  <2>5. Crossing(c)'
    <3>1. CutoffDate' \in Date(Since') .. CutoffDate' /\ e \in EpisodesOf(c)' /\ airs'[e] = CutoffDate'
      BY <1>1, <1>2, <2>1, <2>3, <2>4 DEF EpisodesOf, store
    <3> QED BY <3>1 DEF Crossing
  <2>6. \A s : PollerOwes(s)'
    <3>1. CASE up
      <4>1. last' < CutoffDate'
        BY <1>1, <1>2, <1>8, <2>3, <3>1 DEF PollerInTime
      <4> QED BY <4>1 DEF PollerOwes
    <3>2. CASE ~up
      BY <1>1, <3>2 DEF PollerOwes
    <3> QED BY <3>1, <3>2
  <2>7. c \in Card
    BY <2>1, ConstantsAssumption DEF EpisodesOf
  <2>8. PollerOwes(DropCard("watched", c))' /\ PollerOwes(DropAll)'
    BY <2>6 DEF DropCard, DropAll
  <2> QED BY <1>8, <2>5, <2>7, <2>8 DEF Due, Indexed
<1> QED BY <1>1, <1>2, <1>3, <1>5, <1>7, <1>8, AiringIsSane DEF store

\* What the poller still has to do.
LEMMA PollRemains ==
  ASSUME IsSequence(poll), poll # <<>>, poll' = Tail(poll)
  PROVE  /\ IsSequence(poll') /\ Head(poll) = poll[1] /\ 1 \in 1 .. Len(poll)
         /\ \A n \in 1 .. Len(poll') : n + 1 \in 1 .. Len(poll) /\ poll'[n] = poll[n + 1]
         /\ \A s : InPoll(s) /\ s # Head(poll) => InPoll(s)'
<1> PICK S : poll \in Seq(S)
  BY DEF IsSequence
<1>1. /\ poll' \in Seq(S) /\ Len(poll') = Len(poll) - 1 /\ Len(poll) \in Nat \ {0}
      /\ Head(poll) = poll[1] /\ \A n \in 1 .. Len(poll) - 1 : poll'[n] = poll[n + 1]
  OBVIOUS
<1>2. ASSUME NEW s, InPoll(s), s # Head(poll) PROVE InPoll(s)'
  <2>1. PICK n \in 2 .. Len(poll) : poll[n] = s
    BY <1>1, <1>2 DEF InPoll
  <2>2. n - 1 \in 1 .. Len(poll') /\ poll'[n - 1] = s
    BY <1>1, <2>1
  <2> QED BY <2>2 DEF InPoll
<1> QED BY <1>1, <1>2 DEF IsSequence

\* A day crossed: the steps that it puts before the poller.
LEMMA CrossedDay ==
  ASSUME ClockInv, CrossDay
  PROVE  /\ last' = last /\ last = CutoffDate /\ IsSequence(poll')
         /\ \A n \in 1 .. Len(poll') : poll'[n].do # "cross"
         /\ \A c \in CardIDsAiringOn(CutoffDate) :
              InPoll(DropCard("watched", c))' /\ InPoll(DropAll)'
<1>1. up /\ poll # <<>> /\ Head(poll).do = "cross" /\ last' = last /\ IsSequence(poll)
  BY DEF CrossDay, ClockInv
<1>2. poll = <<Cross(last)>> /\ last = CutoffDate
  <2>1. Head(poll) = poll[1] /\ 1 \in 1 .. Len(poll)
    BY <1>1 DEF IsSequence
  <2> QED BY <1>1, <2>1 DEF ClockInv
<1> DEFINE S == CardIDsAiringOn(CutoffDate)
           wiped == S # {}
<1>3. PICK drops :
        /\ drops = InvalidateCards(SetToSeq(S)) /\ IsSequence(drops)
        /\ \A n \in 1 .. Len(drops) : drops[n].do = "drop_card"
        /\ \A c \in S : \E n \in 1 .. Len(drops) : drops[n] = DropCard("watched", c)
  <2> DEFINE d == InvalidateCards(SetToSeq(S))
  <2>1. /\ d \in Seq({DropCard(k, c) : k \in Indexed, c \in S})
        /\ \A c \in S : \E n \in 1 .. Len(d) : d[n] = DropCard("watched", c)
    BY EveryCardIsDropped, FewAirOnADay
  <2> HIDE DEF d
  <2>2. \A n \in 1 .. Len(d) : d[n] \in {DropCard(k, c) : k \in Indexed, c \in S}
    BY <2>1
  <2>3. \A n \in 1 .. Len(d) : d[n].do = "drop_card"
    BY <2>2, Fields
  <2>4. IsSequence(d)
    BY <2>1 DEF IsSequence
  <2> QED BY <2>1, <2>3, <2>4 DEF d
<1>4. PICK wipe :
        /\ poll' = (drops \o <<>>) \o wipe /\ IsSequence(wipe)
        /\ \A n \in 1 .. Len(wipe) : wipe[n] = DropAll
        /\ S # {} => Len(wipe) = 1
  <2>1. Head(poll).day = CutoffDate /\ Tail(poll) = <<>>
    <3>1. Head(poll) = Cross(CutoffDate) /\ Tail(poll) = <<>>
      BY <1>2
    <3> QED BY <3>1, Fields
  <2>2. SetToSeq(S) = <<>> <=> S = {}
    BY ListedOnce, FewAirOnADay
  <2>3. ~(\E n \in DOMAIN poll : poll[n] = DropAll)
    <3>1. DOMAIN poll = {1} /\ poll[1] = Cross(last)
      BY <1>2
    <3>2. Cross(last) # DropAll
      BY Fields
    <3> QED BY <3>1, <3>2
  <2> DEFINE wipe == IF S = {} THEN <<>> ELSE <<DropAll>>
  <2>4. poll' = (drops \o <<>>) \o wipe
    BY <1>3, <2>1, <2>2, <2>3 DEF CrossDay, InvalidateAllUnwatched
  <2>5. wipe \in Seq({DropAll}) /\ (S # {} => Len(wipe) = 1)
    OBVIOUS
  <2> HIDE DEF wipe
  <2>6. IsSequence(wipe) /\ \A n \in 1 .. Len(wipe) : wipe[n] = DropAll
    BY <2>5 DEF IsSequence
  <2> QED BY <2>4, <2>5, <2>6
<1> HIDE DEF S
<1>5. Joins(poll', drops, wipe)
  <2>1. <<>> \in Seq({}) /\ Len(<<>>) = 0
    OBVIOUS
  <2>2. Joins(drops \o <<>>, drops, <<>>)
    BY <1>3, <2>1, Joined DEF IsSequence
  <2> DEFINE st == drops \o <<>>
  <2>3. IsSequence(st) /\ Len(st) = Len(drops) /\ Len(drops) \in Nat
        /\ \A n \in 1 .. Len(drops) : st[n] = drops[n]
    BY <2>1, <2>2 DEF Joins
  <2>4. poll' = st \o wipe
    BY <1>4
  <2> HIDE DEF st
  <2>5. Joins(poll', st, wipe)
    BY <1>4, <2>3, <2>4, Joined
  <2> QED BY <2>3, <2>5 DEF Joins
<1>6. /\ Len(poll') = Len(drops) + Len(wipe) /\ Len(drops) \in Nat /\ Len(wipe) \in Nat
      /\ \A n \in 1 .. Len(drops) : poll'[n] = drops[n]
      /\ \A n \in 1 .. Len(wipe) : poll'[Len(drops) + n] = wipe[n]
      /\ IsSequence(poll')
  BY <1>5 DEF Joins
<1>7. ASSUME NEW n \in 1 .. Len(poll') PROVE poll'[n].do # "cross"
  <2>1. CASE n \in 1 .. Len(drops)
    BY <1>3, <1>6, <2>1
  <2>2. CASE n \notin 1 .. Len(drops)
    <3>1. n - Len(drops) \in 1 .. Len(wipe) /\ poll'[n] = wipe[n - Len(drops)]
      BY <1>6, <2>2
    <3> QED BY <1>4, <3>1, Fields
  <2> QED BY <2>1, <2>2
<1>8. ASSUME NEW c \in S PROVE InPoll(DropCard("watched", c))' /\ InPoll(DropAll)'
  <2>1. PICK n \in 1 .. Len(drops) : drops[n] = DropCard("watched", c)
    BY <1>3, <1>8
  <2>2. n \in 1 .. Len(poll') /\ poll'[n] = DropCard("watched", c)
    BY <1>6, <2>1
  <2>3. Len(drops) + 1 \in 1 .. Len(poll') /\ poll'[Len(drops) + 1] = DropAll
    BY <1>4, <1>6, <1>8
  <2>4. (\E m \in 1 .. Len(poll') : poll'[m] = DropCard("watched", c))
        /\ (\E m \in 1 .. Len(poll') : poll'[m] = DropAll)
    BY <2>2, <2>3
  <2> QED BY <2>4 DEF InPoll, DropCard, DropAll
<1> QED BY <1>1, <1>2, <1>6, <1>7, <1>8 DEF S

\* The poller: what is due because of the calendar passes from one of its steps to another.
LEMMA PollIsSane ==
  ASSUME NEW k \in Kind, NEW p \in Profile, Sane(k, p), Shapes, IndexCovers,
         k \in Indexed => ClockInv,
         Poll \/ CrossDay \/ CrossDrop
  PROVE  Sane(k, p)'
<1>1. /\ up = TRUE /\ up' = TRUE /\ UNCHANGED <<store, jobs, clock, disk>>
      /\ UNCHANGED fill
  BY DEF Poll, CrossDay, CrossDrop, Shapes, volatile, rest
<1>2. /\ CutoffDate' = CutoffDate /\ Since' = Since
      /\ \A c : Crossing(c)' <=> Crossing(c)
  BY <1>1 DEF CutoffDate, Since, Crossing, EpisodesOf, store
<1>3. \A s : InJobs(s)' <=> InJobs(s)
  BY <1>1 DEF InJobs
<1>4. Owes(k, p) => Owes(k, p)'
  BY <1>3 DEF Owes, Drop
<1>5. \A c : About(Fresh(k, p), c)' = About(Fresh(k, p), c)
  <2>1. Fresh(k, p)' = Fresh(k, p)
    BY <1>1, SameAnswer DEF store
  <2> QED BY <2>1 DEF About
<1>6. CutoffDate \in Nat
  <2>1. clock - Lag \in Nat
    BY ConstantsAssumption DEF Shapes
  <2> QED BY <2>1, DivMod DEF CutoffDate
<1>7. k \notin Indexed => \A c : ~Due(k, c)
  BY DEF Due, Indexed
<1>8. CASE Poll \/ CrossDay
  <2>1. Held(k, p)' = Held(k, p) /\ overtaken' = overtaken
    BY <1>1, <1>8 DEF Held, Poll, CrossDay, volatile
  <2>2. ASSUME k \in Indexed, NEW c, Crossing(c)
        PROVE  PollerOwes(DropCard("watched", c))' /\ PollerOwes(DropAll)'
    <3>1. CASE Poll
      <4>1. last = CutoffDate - 1
        BY <1>1, <1>6, <2>2, <3>1 DEF ClockInv, Poll
      <4>2. poll' = [n \in 1 .. 1 |-> Cross(last + n)]
        BY <1>6, <3>1, <4>1 DEF Poll
      <4>3. 1 \in 1 .. Len(poll') /\ poll'[1] = Cross(last + 1) /\ last + 1 = CutoffDate'
        BY <1>2, <1>6, <4>1, <4>2
      <4>4. poll'[1] = Cross(CutoffDate')
        BY <4>3
      <4>5. InPoll(Cross(CutoffDate))'
        BY <4>3, <4>4 DEF InPoll, Cross
      <4> QED BY <4>5 DEF PollerOwes
    <3>2. CASE CrossDay
      <4>1. PICK e \in EpisodesOf(c) : airs[e] \in Date(Since) .. CutoffDate
        BY <2>2 DEF Crossing
      <4>2. CutoffDate <= Date(clock) /\ Date(clock) \in Nat /\ Since = clock
        BY <1>1, DatesGrow, DivMod, ConstantsAssumption DEF Shapes, CutoffDate, Since
      <4>3. airs[e] = CutoffDate
        BY <1>6, <4>1, <4>2
      <4>4. c \in CardIDsAiringOn(CutoffDate)
        BY <4>1, <4>3 DEF CardIDsAiringOn, EpisodesOf
      <4>5. InPoll(DropCard("watched", c))' /\ InPoll(DropAll)'
        BY <2>2, <3>2, <4>4, CrossedDay
      <4> QED BY <4>5 DEF PollerOwes, DropCard, DropAll, InPoll
    <3> QED BY <1>8, <3>1, <3>2
  <2>3. ASSUME NEW c PROVE Due(k, c) => Due(k, c)'
    <3>1. CASE k \in Indexed
      BY <1>2, <1>3, <2>2, <3>1 DEF Due, DropCard, DropAll
    <3> QED BY <1>7, <3>1
  <2> QED BY <1>4, <1>5, <2>1, <2>3, StillSane
<1>9. CASE CrossDrop
  <2> PICK h : h = Head(poll)
    OBVIOUS
  <2>1. /\ poll # <<>> /\ poll' = Tail(poll) /\ last' = last
        /\ \/ h.do = "drop_card" /\ ForgetCard(h.kind, h.card)
           \/ h.do = "drop_all" /\ ForgetAll
    BY <1>9 DEF CrossDrop
  <2>2. ASSUME k \in Indexed, NEW s, s # h, PollerOwes(s) PROVE PollerOwes(s)'
    <3>1. \A t : InPoll(t) /\ t # h => InPoll(t)'
      BY <2>1, <2>2, PollRemains DEF ClockInv
    <3>2. Cross(CutoffDate) # h
      BY <2>1, Fields
    <3>3. InPoll(Cross(CutoffDate)) => InPoll(Cross(CutoffDate))'
      BY <1>2, <3>1, <3>2 DEF InPoll, Cross
    <3> QED BY <1>1, <1>2, <2>1, <2>2, <3>1, <3>3 DEF PollerOwes
  <2>3. CASE h.do = "drop_card" /\ ForgetCard(h.kind, h.card)
    <3>1. ASSUME NEW d
          PROVE  Due(k, d) => Due(k, d)' \/ (k = "watched" /\ h.kind = "watched" /\ d = h.card)
      <4>1. DropAll # h /\ (h = DropCard("watched", d) => h.kind = "watched" /\ d = h.card)
        BY <2>3, Fields
      <4>2. CASE k \in Indexed
        <5>1. /\ PollerOwes(DropAll) => PollerOwes(DropAll)'
              /\ \/ h = DropCard("watched", d)
                 \/ PollerOwes(DropCard("watched", d)) => PollerOwes(DropCard("watched", d))'
          BY <2>2, <4>1, <4>2 DEF DropAll, DropCard
        <5> QED BY <1>2, <1>3, <4>1, <5>1 DEF Due, DropCard, DropAll
      <4> QED BY <1>7, <4>2
    <3> QED BY <1>1, <1>4, <2>3, <3>1, ForgettingIsSane
  <2>4. CASE h.do = "drop_all" /\ ForgetAll
    <3>1. ASSUME NEW d, k # "unwatched" PROVE Due(k, d) => Due(k, d)'
      <4>1. DropCard("watched", d) # h
        BY <2>4, Fields
      <4>2. CASE k \in Indexed
        <5>1. PollerOwes(DropCard("watched", d)) => PollerOwes(DropCard("watched", d))'
          BY <2>2, <4>1, <4>2 DEF DropCard
        <5> QED BY <1>2, <1>3, <3>1, <5>1 DEF Due, DropCard
      <4> QED BY <1>7, <4>2
    <3> QED BY <1>1, <1>4, <2>4, <3>1, WipingIsSane
  <2> QED BY <2>1, <2>3, <2>4
<1> QED BY <1>8, <1>9

-----------------------------------------------------------------------------
\* A graceful stop: what the file keeps is what was in memory, and the days that the
\* process sleeps through are left to the next start.
LEMMA StoppedIsSane ==
  ASSUME NEW k \in Kind, NEW p \in Profile, Sane(k, p), Shapes, Shutdown
  PROVE  Sane(k, p)'
<1>1. /\ up = TRUE /\ up' = FALSE /\ \A w \in Worker : jobs[w] = <<>>
      /\ disk' = Snapshot /\ UNCHANGED <<store, clock, overtaken>>
      /\ cache' = [i \in Kind |-> [q \in Profile |-> NotCached]]
      /\ fill' = [i \in Kind |-> [q \in Profile |-> NoFill]]
  BY DEF Shutdown, Cold, Shapes
<1>2. \A s : ~InJobs(s)
  <2>1. Len(<<>>) = 0
    OBVIOUS
  <2> QED BY <1>1, <2>1 DEF InJobs
<1>3. disk'.at = clock /\ (k \in Indexed => disk'.entries[k][p] = cache[k][p])
  BY <1>1 DEF Snapshot
<1>4. \A a \in Held(k, p)' : a # NotCached => a \in Held(k, p)
  BY <1>1, <1>3 DEF Held, NoFill
<1>5. ~Owes(k, p)
  BY <1>2 DEF Owes
<1>6. \A c : About(Fresh(k, p), c)' = About(Fresh(k, p), c)
  <2>1. Fresh(k, p)' = Fresh(k, p)
    BY <1>1, SameAnswer DEF store
  <2> QED BY <2>1 DEF About
<1>7. ASSUME NEW c PROVE Due(k, c) => Due(k, c)'
  <2>1. Crossing(c)' <=> Crossing(c)
    BY <1>1, <1>3 DEF Crossing, Since, CutoffDate, EpisodesOf, store
  <2>2. PollerOwes(DropCard("watched", c))' /\ PollerOwes(DropAll)'
    BY <1>1 DEF PollerOwes
  <2> QED BY <1>2, <2>1, <2>2 DEF Due
<1> QED BY <1>1, <1>4, <1>5, <1>6, <1>7, StillSane

\* A start: the snapshot's answers about what has aired since are not restored, and what
\* airs today is left to the poller, which starts a day behind.
LEMMA StartedIsSane ==
  ASSUME NEW k \in Kind, NEW p \in Profile, Sane(k, p), Shapes, k \in Indexed => ClockInv,
         LoadCacheSnapshot
  PROVE  Sane(k, p)'
<1>1. /\ ~up /\ up' = TRUE /\ UNCHANGED <<store, fill, clock, disk, overtaken>>
      /\ last' = CutoffDate - 1
      /\ cache' = [i \in Kind |-> [q \in Profile |->
           IF \/ i = "watched" /\ \A c \in Replayed : q \notin Listing(i, c)
              \/ i = "unwatched" /\ Replayed = {}
             THEN Restored(i, q) ELSE NotCached]]
      /\ \A w \in Worker : jobs[w] = <<>>
  BY DEF LoadCacheSnapshot, Shapes
<1>2. \A s : ~InJobs(s)
  <2>1. Len(<<>>) = 0
    OBVIOUS
  <2> QED BY <1>1, <2>1 DEF InJobs
<1>3. Held(k, p)' = {cache'[k][p], NotCached}
  BY <1>1 DEF Held, Shapes
<1>4. CASE cache'[k][p] = NotCached
  BY <1>3, <1>4 DEF Sane
<1>5. CASE cache'[k][p] # NotCached
  <2> PICK a : a = cache'[k][p]
    OBVIOUS
  <2>1. /\ k \in Indexed /\ a = Restored(k, p)
        /\ \/ k = "watched" /\ \A c \in Replayed : p \notin Listing(k, c)
           \/ k = "unwatched" /\ Replayed = {}
    BY <1>1, <1>5 DEF Indexed, Kind
  <2>2. disk.saved = TRUE /\ disk.at \in Nat /\ disk.at <= clock
    BY <1>1, <2>1 DEF ClockInv
  <2>3. a = disk.entries[k][p] /\ a \in Held(k, p)
    BY <1>1, <2>1, <2>2 DEF Restored, Held
  <2>4. ~Owes(k, p)
    BY <1>2 DEF Owes
  <2> SUFFICES ASSUME ~overtaken[k][p], NEW c
               PROVE  \/ About(a.rows, c) = About(Fresh(k, p), c)'
                      \/ Due(k, c)' /\ (k = "watched" => Lists(a.rows, c))
    BY <1>1, <1>3 DEF Sane, Agrees
  <2>5. \/ About(a.rows, c) = About(Fresh(k, p), c)
        \/ Due(k, c) /\ (k = "watched" => Lists(a.rows, c))
    BY <1>5, <2>3, <2>4 DEF Sane, Agrees
  <2>6. CASE About(a.rows, c) = About(Fresh(k, p), c)
    <3>1. Fresh(k, p)' = Fresh(k, p)
      BY <1>1, SameAnswer DEF store
    <3> QED BY <2>6, <3>1 DEF About
  <2>7. CASE Due(k, c) /\ (k = "watched" => Lists(a.rows, c))
    <3>1. c \in Card /\ Crossing(c)
      BY <1>2, <2>7 DEF Due
    <3>2. PICK e \in EpisodesOf(c) : airs[e] \in Date(disk.at) .. CutoffDate
      BY <1>1, <3>1 DEF Crossing, Since
    <3>3. /\ CutoffDate \in Nat /\ Date(disk.at) \in Nat /\ Date(clock) \in Nat
          /\ airs[e] \in Nat
      <4>1. clock - Lag \in Nat
        BY ConstantsAssumption DEF Shapes
      <4>2. CutoffDate \in Nat /\ Date(disk.at) \in Nat /\ Date(clock) \in Nat
        BY <2>2, <4>1, DivMod DEF CutoffDate, Shapes
      <4> QED BY <3>2, <4>2
    <3>4. ~(airs[e] < Date(clock))
      <4> SUFFICES ASSUME airs[e] < Date(clock) PROVE FALSE
        OBVIOUS
      <4>1. airs[e] \in ReplayedDates(disk.at)
        BY <2>2, <3>2, <3>3, ReplayReaches DEF Shapes
      <4>2. c \in CardIDsAiringOn(airs[e])
        BY <3>2 DEF CardIDsAiringOn, EpisodesOf
      <4>3. c \in Replayed
        BY <2>2, <4>1, <4>2 DEF Replayed
      <4>4. k = "watched" => p \in Listing(k, c)
        BY <1>5, <2>1, <2>7 DEF Listing
      <4> QED BY <2>1, <4>3, <4>4
    <3>5. Crossing(c)'
      <4>1. CutoffDate' = CutoffDate /\ Since' = clock /\ airs' = airs /\ clock' = clock
        BY <1>1 DEF CutoffDate, Since, store
      <4>2. airs[e] \in Date(clock) .. CutoffDate
        BY <3>2, <3>3, <3>4
      <4> QED BY <3>2, <4>1, <4>2 DEF Crossing, EpisodesOf
    <3>6. last' < CutoffDate'
      BY <1>1, <3>3 DEF CutoffDate
    <3>7. PollerOwes(DropCard("watched", c))' /\ PollerOwes(DropAll)'
      BY <3>6 DEF PollerOwes
    <3> QED BY <2>1, <2>7, <3>1, <3>5, <3>7 DEF Due, Indexed
  <2> QED BY <2>5, <2>6, <2>7
<1> QED BY <1>4, <1>5

-----------------------------------------------------------------------------
\* The maps by cache and profile keep their shape through the ways they are changed.
IsMap(m) == m = [k \in Kind |-> [p \in Profile |-> m[k][p]]]

\* A row or a cell replaced.
LEMMA MapsStay ==
  ASSUME NEW m, NEW n, IsMap(m), NEW i
  PROVE  /\ \A f : f = [p \in Profile |-> f[p]] /\ n = [m EXCEPT ![i] = f] => IsMap(n)
         /\ \A q, v : i \in Kind /\ n = [m EXCEPT ![i][q] = v] => IsMap(n)
BY DEF IsMap

\* A drop replaces a row of the cache and of the history.
LEMMA DropsKeepMaps ==
  ASSUME Shapes, NEW i, NEW gone, NEW missed, Dropped(i, gone, missed)
  PROVE  IsMap(cache') /\ IsMap(overtaken')
<1>1. IsMap(cache) /\ IsMap(overtaken)
  BY DEF Shapes, IsMap
<1>2. PICK f : f = [p \in Profile |-> f[p]] /\ cache' = [cache EXCEPT ![i] = f]
  <2> DEFINE f == [p \in Profile |-> IF p \in gone THEN NotCached ELSE cache[i][p]]
  <2>1. cache' = [cache EXCEPT ![i] = f] /\ f = [p \in Profile |-> f[p]]
    BY DEF Dropped
  <2> HIDE DEF f
  <2> QED BY <2>1
<1>3. PICK g : g = [p \in Profile |-> g[p]] /\ overtaken' = [overtaken EXCEPT ![i] = g]
  <2> DEFINE g == [p \in Profile |-> overtaken[i][p] \/ (p \in missed /\ Reading(i, p))]
  <2>1. overtaken' = [overtaken EXCEPT ![i] = g] /\ g = [p \in Profile |-> g[p]]
    BY DEF Dropped
  <2> HIDE DEF g
  <2> QED BY <2>1
<1> QED BY <1>1, <1>2, <1>3, MapsStay

\* No step breaks the shape of the state.
LEMMA ShapesRemain ==
  ASSUME Shapes, [Next]_vars
  PROVE  Shapes'
<1>1. CASE \E w \in Worker : Handle(w)
  <2> PICK w \in Worker : Handle(w)
    BY <1>1
  <2>1. up = TRUE /\ UNCHANGED <<clock, up>>
    BY DEF Handle, Start, WriteTimecode, EnsureImpliedStatus, WriteStatus, EraseCard,
           TrimToLimitCount, UpsertEpisodes, BackfillImpliedStatuses, DropProfiles, DropForCard, DropAllUnwatched,
           Next1, rest, Shapes
  <2>2. airs' \in [Episode -> Int]
    <3>1. CASE UpsertEpisodes(w)
      BY <3>1 DEF UpsertEpisodes, Shapes, Day
    <3>2. CASE ~UpsertEpisodes(w)
      BY <3>2 DEF Handle, Start, WriteTimecode, EnsureImpliedStatus, WriteStatus, EraseCard,
             TrimToLimitCount, BackfillImpliedStatuses, DropProfiles, DropForCard, DropAllUnwatched,
             store, Shapes
    <3> QED BY <3>1, <3>2
  <2>3. /\ status' = [p \in Profile |-> status'[p]]
        /\ timecodes' = [p \in Profile |-> timecodes'[p]]
    <3>1. CASE Start(w) \/ UpsertEpisodes(w) \/ DropProfiles(w) \/ DropForCard(w) \/ DropAllUnwatched(w)
      BY <3>1 DEF Start, UpsertEpisodes, DropProfiles, DropForCard, DropAllUnwatched, store, Shapes
    <3>2. CASE WriteTimecode(w) \/ EraseCard(w)
      BY <3>2 DEF WriteTimecode, EraseCard, Shapes
    <3>3. CASE TrimToLimitCount(w)
      BY <3>3 DEF TrimToLimitCount, Shapes
    <3>4. CASE EnsureImpliedStatus(w) \/ WriteStatus(w) \/ BackfillImpliedStatuses(w)
      BY <3>4 DEF EnsureImpliedStatus, WriteStatus, BackfillImpliedStatuses, Shapes
    <3> QED BY <3>1, <3>2, <3>3, <3>4 DEF Handle
  <2>4. CASE UNCHANGED <<cache, fill, overtaken>>
    BY <2>1, <2>2, <2>3, <2>4 DEF Shapes
  <2>5. CASE UNCHANGED fill /\ \E i, gone, missed : Dropped(i, gone, missed)
    <3>1. IsMap(cache') /\ IsMap(overtaken')
      BY <2>5, DropsKeepMaps
    <3> QED BY <2>1, <2>2, <2>3, <2>5, <3>1 DEF Shapes, IsMap
  <2>6. \/ UNCHANGED <<cache, fill, overtaken>>
        \/ UNCHANGED fill /\ \E i, gone, missed : Dropped(i, gone, missed)
    <3>1. CASE DropProfiles(w) \/ DropForCard(w) \/ DropAllUnwatched(w)
      BY <3>1 DEF DropProfiles, DropForCard, DropAllUnwatched, ForgetCard, ForgetAll
    <3>2. CASE ~(DropProfiles(w) \/ DropForCard(w) \/ DropAllUnwatched(w))
      BY <3>2 DEF Handle, Start, WriteTimecode, EnsureImpliedStatus, WriteStatus, EraseCard,
             TrimToLimitCount, UpsertEpisodes, BackfillImpliedStatuses, volatile
    <3> QED BY <3>1, <3>2
  <2> QED BY <2>4, <2>5, <2>6
<1>2. ASSUME NEW k \in Kind, NEW p \in Profile, ReadStore(k, p) \/ ReadFails(k, p) \/ StoreEntry(k, p)
      PROVE  Shapes'
  <2>1. IsMap(cache) /\ IsMap(fill) /\ IsMap(overtaken) /\ up = TRUE
    BY <1>2 DEF Shapes, IsMap, ReadStore, ReadFails, StoreEntry
  <2>2. UNCHANGED <<store, jobs, clock, up>>
    BY <1>2 DEF ReadStore, ReadFails, StoreEntry, rest
  <2>3. PICK a, b, v : /\ cache' = cache \/ cache' = [cache EXCEPT ![k][p] = a]
                       /\ fill' = [fill EXCEPT ![k][p] = b]
                       /\ overtaken' = overtaken \/ overtaken' = [overtaken EXCEPT ![k][p] = v]
    BY <1>2 DEF ReadStore, ReadFails, StoreEntry
  <2>4. IsMap(cache') /\ IsMap(fill') /\ IsMap(overtaken')
    BY <2>1, <2>3, MapsStay
  <2> QED BY <2>1, <2>2, <2>4 DEF Shapes, IsMap, store
<1>3. CASE Tick \/ Poll \/ CrossDay \/ SaveCacheSnapshot
  <2>1. UNCHANGED <<store, volatile, jobs, up>> /\ (clock' = clock \/ clock' = clock + 1)
    BY <1>3 DEF Tick, Poll, CrossDay, SaveCacheSnapshot
  <2>2. clock' \in Nat /\ clock' >= Lag
    BY <2>1, ConstantsAssumption DEF Shapes
  <2> QED BY <2>1, <2>2 DEF Shapes, store, volatile
<1>4. CASE CrossDrop
  <2>1. PICK i, gone, missed : Dropped(i, gone, missed)
    BY <1>4 DEF CrossDrop, ForgetCard, ForgetAll
  <2>2. up = TRUE /\ UNCHANGED <<store, fill, jobs, clock, up>>
    BY <1>4 DEF CrossDrop, Shapes
  <2>3. IsMap(cache') /\ IsMap(overtaken')
    BY <2>1, DropsKeepMaps
  <2> QED BY <2>2, <2>3 DEF Shapes, IsMap, store
<1>5. CASE Shutdown \/ Crash
  <2>1. UNCHANGED <<store, clock, overtaken>> /\ Cold
    BY <1>5 DEF Shutdown, Crash
  <2>2. /\ cache' = [k \in Kind |-> [p \in Profile |-> NotCached]]
        /\ fill' = [k \in Kind |-> [p \in Profile |-> NotCached]]
        /\ up' = FALSE /\ \A w \in Worker : jobs'[w] = <<>>
    BY <2>1 DEF Cold, NoFill
  <2>3. /\ cache' = [k \in Kind |-> [p \in Profile |-> cache'[k][p]]]
        /\ fill' = [k \in Kind |-> [p \in Profile |-> fill'[k][p]]]
        /\ \A k \in Kind, p \in Profile : cache'[k][p] = NotCached /\ fill'[k][p] = NotCached
    BY <2>2
  <2> QED BY <2>1, <2>2, <2>3 DEF Shapes, store
<1>6. CASE LoadCacheSnapshot
  BY <1>6 DEF LoadCacheSnapshot, Shapes, store
<1>7. CASE UNCHANGED vars
  BY <1>7 DEF vars, Shapes
<1> QED BY <1>1, <1>2, <1>3, <1>4, <1>5, <1>6, <1>7 DEF Next

\* The poller stays at most a day behind, as long as the process runs.
LEMMA ClockRemains ==
  ASSUME Shapes, ClockInv, [Next]_vars, PollerInTime, Events \subseteq {"restart"}
  PROVE  ClockInv'
<1>0. CutoffDate \in Nat
  <2>1. clock - Lag \in Nat
    BY ConstantsAssumption DEF Shapes
  <2> QED BY <2>1, DivMod DEF CutoffDate
<1>1. CASE UNCHANGED <<clock, last, poll, disk, up>>
  BY <1>1 DEF ClockInv, CutoffDate
<1>2. CASE Tick
  <2>1. /\ clock' = clock + 1 /\ clock \in Nat /\ UNCHANGED <<last, poll, disk, up>>
        /\ CutoffDate' = CutoffDate \/ CutoffDate' = CutoffDate + 1
    BY <1>2, TickMoves DEF Tick, Shapes
  <2>2. CASE up
    <3>1. poll' = <<>> /\ last' = CutoffDate /\ up' /\ Len(<<>>) = 0 /\ IsSequence(poll')
      BY <1>2, <2>1, <2>2 DEF PollerInTime, ClockInv
    <3> QED BY <1>0, <2>1, <3>1 DEF ClockInv
  <2>3. CASE ~up
    BY <2>1, <2>3 DEF ClockInv
  <2> QED BY <2>2, <2>3
<1>3. CASE Poll
  <2>1. /\ last = CutoffDate - 1 /\ last' = CutoffDate /\ CutoffDate' = CutoffDate /\ up /\ up'
        /\ poll' = [n \in 1 .. CutoffDate - last |-> Cross(last + n)]
    BY <1>0, <1>3 DEF Poll, ClockInv, CutoffDate
  <2>2. poll' = [n \in 1 .. 1 |-> Cross(last')]
    BY <1>0, <2>1
  <2>3. poll' = <<Cross(last')>>
    BY <2>2
  <2>4. IsSequence(poll')
    <3>1. poll' \in Seq({Cross(last')})
      BY <2>3
    <3> QED BY <3>1 DEF IsSequence
  <2> QED BY <2>1, <2>3, <2>4 DEF ClockInv
<1>4. CASE CrossDay
  <2>1. CutoffDate' = CutoffDate /\ up /\ up'
    BY <1>4 DEF CrossDay, CutoffDate
  <2> QED BY <1>4, <2>1, CrossedDay DEF ClockInv
<1>5. CASE CrossDrop
  <2>1. /\ CutoffDate' = CutoffDate /\ up /\ up' /\ poll' = Tail(poll) /\ poll # <<>> /\ last' = last
        /\ Head(poll).do # "cross" /\ IsSequence(poll)
    BY <1>5 DEF CrossDrop, CutoffDate, ClockInv
  <2>2. /\ IsSequence(poll') /\ Head(poll) = poll[1]
        /\ \A n \in 1 .. Len(poll') : n + 1 \in 1 .. Len(poll) /\ poll'[n] = poll[n + 1]
    BY <2>1, PollRemains
  <2>3. poll # <<Cross(last)>>
    BY <2>1, Fields
  <2>4. last = CutoffDate /\ \A n \in 1 .. Len(poll) : poll[n].do # "cross"
    BY <2>1, <2>3 DEF ClockInv
  <2> QED BY <2>1, <2>2, <2>4 DEF ClockInv
<1>6. CASE SaveCacheSnapshot
  <2>1. up = TRUE /\ UNCHANGED <<clock, last, poll, up>>
    BY <1>6 DEF SaveCacheSnapshot, Shapes
  <2> QED BY <2>1 DEF ClockInv, CutoffDate
<1>7. CASE Shutdown
  <2>1. up' = FALSE /\ poll' = <<>> /\ disk' = Snapshot /\ clock' = clock /\ clock \in Nat
    BY <1>7 DEF Shutdown, Cold, Shapes
  <2>2. disk'.saved = TRUE /\ disk'.at = clock
    BY <2>1 DEF Snapshot
  <2>3. <<>> \in Seq({})
    OBVIOUS
  <2> QED BY <2>1, <2>2, <2>3 DEF ClockInv, IsSequence
<1>8. ~Crash
  BY DEF Crash
<1>9. CASE LoadCacheSnapshot
  <2>1. up' /\ last' = CutoffDate - 1 /\ CutoffDate' = CutoffDate /\ poll' = poll /\ poll = <<>>
    BY <1>9 DEF LoadCacheSnapshot, ClockInv, CutoffDate
  <2> QED BY <2>1 DEF ClockInv
<1>10. ASSUME ~(Tick \/ Poll \/ CrossDay \/ CrossDrop),
              ~(SaveCacheSnapshot \/ Shutdown \/ LoadCacheSnapshot)
       PROVE  UNCHANGED <<clock, last, poll, disk, up>>
  <2>1. CASE \E w \in Worker : Handle(w)
    BY <2>1 DEF Handle, Start, WriteTimecode, EnsureImpliedStatus, WriteStatus, EraseCard,
           TrimToLimitCount, UpsertEpisodes, BackfillImpliedStatuses, DropProfiles, DropForCard,
           DropAllUnwatched, rest
  <2>2. CASE \E k \in Kind, p \in Profile : ReadStore(k, p) \/ ReadFails(k, p) \/ StoreEntry(k, p)
    BY <2>2 DEF ReadStore, ReadFails, StoreEntry, rest
  <2>3. CASE UNCHANGED vars
    BY <2>3 DEF vars
  <2> QED BY <1>8, <1>10, <2>1, <2>2, <2>3 DEF Next
<1> QED BY <1>1, <1>2, <1>3, <1>4, <1>5, <1>6, <1>7, <1>9, <1>10

-----------------------------------------------------------------------------
\* The inductive invariant of cache k.
SoundInv(k) ==
  /\ Shapes /\ JobsInv(k)
  /\ k \in Indexed => ClockInv
  /\ \A p \in Profile : Sane(k, p)

\* When no hook is left to run, nothing is due, and every answer is the present one.
LEMMA SaneIsSound ==
  ASSUME NEW k \in Kind, SoundInv(k), IndexCovers
  PROVE  Sound(k)
<1> SUFFICES ASSUME NEW p \in Profile, ~overtaken[k][p], up, cache[k][p] # NotCached, ~Pending(k, p)
             PROVE  cache[k][p].rows = Fresh(k, p)
  BY DEF Sound, Current
<1> PICK rows : rows = cache[k][p].rows
  OBVIOUS
<1>1. ASSUME NEW s, InJobs(s) PROVE ~Reaches(s, k, p)
  <2>1. PICK w \in Worker : \E n \in 1 .. Len(jobs[w]) : jobs[w][n] = s
    BY <1>1 DEF InJobs
  <2>2. DOMAIN jobs[w] = 1 .. Len(jobs[w])
    <3>1. IsSequence(jobs[w])
      BY DEF SoundInv, JobsInv, Orderly
    <3> QED BY <3>1 DEF IsSequence
  <2> QED BY <2>1, <2>2 DEF Pending
<1>2. ASSUME k \in Indexed, NEW s, InPoll(s) PROVE ~Reaches(s, k, p)
  <2>1. DOMAIN poll = 1 .. Len(poll)
    BY <1>2 DEF SoundInv, ClockInv, IsSequence
  <2> QED BY <1>2, <2>1 DEF Pending, InPoll
<1>3. k \in Indexed => ~(last < CutoffDate)
  BY DEF Pending
<1>4. ~Owes(k, p)
  <2>1. \A who : p \in who => Reaches(Drop(k, who), k, p)
    BY Fields DEF Reaches
  <2> QED BY <1>1, <2>1 DEF Owes
<1>5. Agrees(k, p, rows)
  BY <1>4 DEF SoundInv, Sane, Held
<1>6. ASSUME NEW c, Due(k, c), k = "watched" => Lists(rows, c) PROVE FALSE
  <2>1. k \in Indexed /\ c \in Card
    BY <1>6 DEF Due, Indexed
  <2>2. k = "watched" => p \in index[k][c]
    BY <1>6, <2>1 DEF IndexCovers
  <2>3. /\ k = "watched" => Reaches(DropCard("watched", c), k, p)
        /\ k = "unwatched" => Reaches(DropAll, k, p)
        /\ Reaches(Cross(CutoffDate), k, p)
    BY <2>1, <2>2, Fields DEF Reaches
  <2> QED BY <1>1, <1>2, <1>3, <1>6, <2>1, <2>3 DEF Due, PollerOwes
<1>7. ASSUME NEW c PROVE About(rows, c) = About(Fresh(k, p), c)
  BY <1>5, <1>6 DEF Agrees
<1>8. \A r : r \in rows => r \in Fresh(k, p)
  <2> SUFFICES ASSUME NEW r, r \in rows PROVE r \in Fresh(k, p)
    OBVIOUS
  <2>1. r \in About(rows, r.card)
    BY DEF About
  <2>2. r \in About(Fresh(k, p), r.card)
    BY <1>7, <2>1
  <2> QED BY <2>2 DEF About
<1>9. \A r : r \in Fresh(k, p) => r \in rows
  <2> SUFFICES ASSUME NEW r, r \in Fresh(k, p) PROVE r \in rows
    OBVIOUS
  <2>1. r \in About(Fresh(k, p), r.card)
    BY DEF About
  <2>2. r \in About(rows, r.card)
    BY <1>7, <2>1
  <2> QED BY <2>2 DEF About
<1> QED BY <1>8, <1>9

\* Nothing is cached in the beginning.
LEMMA SoundFromTheStart ==
  ASSUME NEW k \in Kind, Init
  PROVE  SoundInv(k)
<1>1. /\ clock = Lag /\ last = -1 /\ poll = <<>> /\ up = TRUE /\ jobs = [w \in Worker |-> <<>>]
      /\ cache = [i \in Kind |-> [p \in Profile |-> NotCached]]
      /\ fill = [i \in Kind |-> [p \in Profile |-> NotCached]]
      /\ overtaken = [i \in Kind |-> [p \in Profile |-> FALSE]]
      /\ airs \in [Episode -> Int]
      /\ status = [p \in Profile |-> status[p]] /\ timecodes = [p \in Profile |-> timecodes[p]]
  BY DEF Init, NoFill, NotListed
<1>2. /\ cache = [i \in Kind |-> [p \in Profile |-> cache[i][p]]]
      /\ fill = [i \in Kind |-> [p \in Profile |-> fill[i][p]]]
      /\ overtaken = [i \in Kind |-> [p \in Profile |-> overtaken[i][p]]]
  BY <1>1
<1>3. Shapes
  BY <1>1, <1>2, ConstantsAssumption DEF Shapes
<1>4. <<>> \in Seq({}) /\ Len(<<>>) = 0
  OBVIOUS
<1>5. JobsInv(k)
  BY <1>1, <1>4 DEF JobsInv, Orderly, Settled, IsSequence
<1>6. ClockInv
  <2>1. CutoffDate = 0
    <3>1. clock - Lag = 0 /\ 0 \in Nat
      BY <1>1, ConstantsAssumption
    <3>2. Date(0) = 0
      BY <3>1, DayIsUnique, ConstantsAssumption
    <3> QED BY <3>1, <3>2 DEF CutoffDate
  <2> QED BY <1>1, <1>4, <2>1 DEF ClockInv, IsSequence
<1>7. ASSUME NEW p \in Profile PROVE Sane(k, p)
  <2>1. Held(k, p) = {NotCached}
    BY <1>1 DEF Held
  <2> QED BY <2>1 DEF Sane
<1> QED BY <1>3, <1>5, <1>6, <1>7 DEF SoundInv

\* One step, of any actor.  The list to continue rests on the hooks alone; the two other
\* caches on the poller too, and on the file that a graceful stop leaves.
LEMMA SoundRemains ==
  ASSUME NEW k \in Kind, SoundInv(k), IndexCovers, [Next]_vars,
         Paths \subseteq SafePaths(k), "read_fails" \notin Events,
         k \in Indexed => Events \subseteq {"restart"} /\ Lag < TicksPerDay /\ PollerInTime
  PROVE  SoundInv(k)'
<1>1. Shapes /\ JobsInv(k) /\ (k \in Indexed => ClockInv) /\ \A p \in Profile : Sane(k, p)
  BY DEF SoundInv
<1>2. Shapes' /\ (k \in Indexed => ClockInv')
  BY <1>1, ShapesRemain, ClockRemains
<1> SUFFICES JobsInv(k)' /\ \A p \in Profile : Sane(k, p)'
  BY <1>2 DEF SoundInv
<1>3. ASSUME NEW w \in Worker, Handle(w) PROVE JobsInv(k)' /\ \A p \in Profile : Sane(k, p)'
  BY <1>1, <1>3, HandlerIsSane
<1>4. ASSUME UNCHANGED jobs PROVE JobsInv(k)' /\ \A s : InJobs(s) => InJobs(s)'
  BY <1>1, <1>4 DEF JobsInv, InJobs
<1>5. ASSUME NEW i \in Kind, NEW q \in Profile, ReadStore(i, q) \/ ReadFails(i, q) \/ StoreEntry(i, q)
      PROVE  JobsInv(k)' /\ \A p \in Profile : Sane(k, p)'
  <2>1. ~ReadFails(i, q)
    BY DEF ReadFails
  <2>2. UNCHANGED jobs
    BY <1>5 DEF ReadStore, ReadFails, StoreEntry
  <2> QED BY <1>1, <1>4, <1>5, <2>1, <2>2, ReadIsSane, StoredIsSane
<1>6. CASE Tick \/ Poll \/ CrossDay \/ CrossDrop
  <2>1. UNCHANGED jobs
    BY <1>6 DEF Tick, Poll, CrossDay, CrossDrop
  <2> QED BY <1>1, <1>4, <1>6, <2>1, TickIsSane, PollIsSane
<1>7. CASE SaveCacheSnapshot
  <2>1. UNCHANGED <<store, volatile, jobs, last, poll, clock, up>> /\ up = TRUE
    BY <1>1, <1>7 DEF SaveCacheSnapshot, Shapes
  <2>2. ASSUME NEW p \in Profile PROVE Sane(k, p)'
    <3>1. Held(k, p)' = Held(k, p) /\ overtaken' = overtaken
      BY <2>1 DEF Held, volatile
    <3>2. \A c : Due(k, c)' <=> Due(k, c)
      BY <2>1 DEF Due, Crossing, PollerOwes, InPoll, InJobs, Since, CutoffDate, EpisodesOf, store,
                  DropCard, DropAll, Cross
    <3>3. Owes(k, p) => Owes(k, p)'
      BY <2>1 DEF Owes, InJobs, Drop
    <3>4. Fresh(k, p)' = Fresh(k, p)
      BY <2>1, SameAnswer DEF store
    <3>5. \A c : About(Fresh(k, p), c)' = About(Fresh(k, p), c)
      BY <3>4 DEF About
    <3> QED BY <1>1, <3>1, <3>2, <3>3, <3>5, StillSane
  <2> QED BY <1>4, <2>1, <2>2
<1>8. CASE Shutdown \/ Crash
  <2>1. JobsInv(k)'
    <3>1. jobs' = [w \in Worker |-> <<>>] /\ <<>> \in Seq({}) /\ Len(<<>>) = 0
      BY <1>8 DEF Shutdown, Crash, Cold
    <3> QED BY <3>1 DEF JobsInv, Orderly, Settled, IsSequence
  <2>2. CASE Shutdown
    BY <1>1, <2>1, <2>2, StoppedIsSane
  <2>3. CASE Crash
    <3>1. k \notin Indexed
      BY <2>3 DEF Crash
    <3>2. ASSUME NEW p \in Profile PROVE Held(k, p)' = {NotCached}
      BY <2>3, <3>1 DEF Crash, Cold, Held, NoFill
    <3> QED BY <2>1, <3>2 DEF Sane
  <2> QED BY <1>8, <2>2, <2>3
<1>9. CASE LoadCacheSnapshot
  <2>1. \A w \in Worker : jobs[w] = <<>>
    BY <1>1, <1>9 DEF LoadCacheSnapshot, Shapes
  <2>2. Orderly(k, <<>>)
    <3>1. <<>> \in Seq({}) /\ Len(<<>>) = 0
      OBVIOUS
    <3> QED BY <3>1 DEF Orderly, Settled, IsSequence
  <2>3. "backfill" \in Paths => Orderly(k, <<ImplyAll>>)
    <3> SUFFICES ASSUME "backfill" \in Paths PROVE Orderly(k, <<ImplyAll>>)
      OBVIOUS
    <3> PICK s : s = ImplyAll /\ s.do = "backfill"
      BY Fields
    <3>1. k # "unwatched"
      BY DEF SafePaths
    <3>2. ~Disturbs(k, s)
      BY <3>1 DEF Disturbs
    <3>3. <<s>> \in Seq({s}) /\ Len(<<s>>) = 1 /\ <<s>>[1] = s
      OBVIOUS
    <3>4. Settled(k, <<s>>)
      BY <3>2, <3>3 DEF Settled
    <3>5. Orderly(k, <<s>>)
      <4> DEFINE job == <<s>>
      <4>1. IsSequence(job)
        BY <3>3 DEF IsSequence
      <4>2. Len(job) = 1 /\ Settled(k, job)
        BY <3>3, <3>4
      <4> HIDE DEF job
      <4>3. Orderly(k, job)
        BY <4>1, <4>2 DEF Orderly
      <4> QED BY <4>3 DEF job
    <3> QED BY <3>5
  <2>4. JobsInv(k)'
    <3> PICK v, job : /\ jobs' = [jobs EXCEPT ![v] = job] \/ jobs' = jobs
                      /\ Orderly(k, job)
      BY <1>9, <2>2, <2>3 DEF LoadCacheSnapshot
    <3> QED BY <1>1, <2>2 DEF JobsInv
  <2> QED BY <1>1, <1>9, <2>4, StartedIsSane
<1>10. CASE UNCHANGED vars
  <2>1. UNCHANGED <<store, volatile, rest, jobs>>
    BY <1>10 DEF vars, store, volatile, rest
  <2>2. \A p \in Profile : Held(k, p)' = Held(k, p) /\ overtaken' = overtaken
    BY <2>1, SameHeld DEF volatile, rest
  <2> QED BY <1>1, <1>4, <2>1, <2>2, QuietIsSane
<1> QED BY <1>3, <1>5, <1>6, <1>7, <1>8, <1>9, <1>10 DEF Next

-----------------------------------------------------------------------------
\* The list to continue is never stale once the hooks have run: with every write path
\* but the trim of a role's limit, which calls no hook, and the mark of a card, which
\* sets the status after its hook, through any restarts and crashes and whatever the
\* poller does.
THEOREM ContinuesAlwaysSound ==
  ASSUME Paths \subseteq SafePaths("continues"), "read_fails" \notin Events
  PROVE  Spec => []ContinuesSound
<1>1. Init => SoundInv("continues")
  BY SoundFromTheStart DEF Kind
<1>2. SoundInv("continues") /\ IndexCovers /\ [Next]_vars => SoundInv("continues")'
  BY SoundRemains DEF Kind, Indexed
<1>3. SoundInv("continues") /\ IndexCovers => ContinuesSound
  BY SaneIsSound DEF Kind, ContinuesSound
<1> QED BY <1>1, <1>2, <1>3, IndexAlwaysCovers, PTL DEF Spec

\* A fully watched card is hidden, and one that is watched no more is shown again, once the
\* hooks have run and the poller is through: with every write path but the trim and the
\* background refresh from TVmaze (it drops the unwatched lists only), through graceful
\* restarts of any length, when the cutoff lags by less than a day, as it does by default,
\* and the poller is through with a crossing before the next tick.
THEOREM WatchedAlwaysSound ==
  ASSUME Paths \subseteq SafePaths("watched"), Events \subseteq {"restart"}, Lag < TicksPerDay
  PROVE  Spec /\ [][PollerInTime]_vars => []WatchedSound
<1>1. Init => SoundInv("watched")
  BY SoundFromTheStart DEF Kind
<1>2. SoundInv("watched") /\ IndexCovers /\ [Next]_vars /\ [PollerInTime]_vars
        => SoundInv("watched")'
  <2> SUFFICES ASSUME SoundInv("watched"), IndexCovers, [Next]_vars, [PollerInTime]_vars
               PROVE  SoundInv("watched")'
    OBVIOUS
  <2>1. PollerInTime
    BY ConstantsAssumption DEF PollerInTime, Tick, vars, SoundInv, Shapes
  <2> QED BY <2>1, SoundRemains DEF Kind
<1>3. SoundInv("watched") /\ IndexCovers => WatchedSound
  BY SaneIsSound DEF Kind, WatchedSound
<1> QED BY <1>1, <1>2, <1>3, IndexAlwaysCovers, PTL DEF Spec

\* The list of unwatched shows is never stale under the same conditions, with the write
\* paths that drop it after their last write: a save, a removal, a status, the removal of
\* a card, dates announced by MyShows, and the background refresh from TVmaze.
THEOREM UnwatchedAlwaysSound ==
  ASSUME Paths \subseteq SafePaths("unwatched"), Events \subseteq {"restart"}, Lag < TicksPerDay
  PROVE  Spec /\ [][PollerInTime]_vars => []UnwatchedSound
<1>1. Init => SoundInv("unwatched")
  BY SoundFromTheStart DEF Kind
<1>2. SoundInv("unwatched") /\ IndexCovers /\ [Next]_vars /\ [PollerInTime]_vars
        => SoundInv("unwatched")'
  <2> SUFFICES ASSUME SoundInv("unwatched"), IndexCovers, [Next]_vars, [PollerInTime]_vars
               PROVE  SoundInv("unwatched")'
    OBVIOUS
  <2>1. PollerInTime
    BY ConstantsAssumption DEF PollerInTime, Tick, vars, SoundInv, Shapes
  <2> QED BY <2>1, SoundRemains DEF Kind
<1>3. SoundInv("unwatched") /\ IndexCovers => UnwatchedSound
  BY SaneIsSound DEF Kind, UnwatchedSound
<1> QED BY <1>1, <1>2, <1>3, IndexAlwaysCovers, PTL DEF Spec

\* So it is in the part of the model with the calendar, beside the two others: the list of
\* unwatched shows is sound there while the write paths are the safe ones.
THEOREM UnwatchedAlwaysSoundInParts ==
  ASSUME Paths \subseteq SafePaths("unwatched"), Events \subseteq {"restart"}, Lag < TicksPerDay
  PROVE  PartsSpec /\ [][part = "calendar" => PollerInTime]_<<vars, part>> => []UnwatchedSoundInParts
<1> DEFINE I == part = "calendar" => SoundInv("unwatched") /\ IndexInv
<1>1. PartsInit => I
  <2>1. Init => SoundInv("unwatched") /\ IndexInv
    BY SoundFromTheStart, IndexFromTheStart DEF Kind
  <2> QED BY <2>1 DEF PartsInit
<1>2. I /\ [PartsNext]_<<vars, part>> /\ [part = "calendar" => PollerInTime]_<<vars, part>> => I'
  <2> SUFFICES ASSUME I, [PartsNext]_<<vars, part>>, [part = "calendar" => PollerInTime]_<<vars, part>>,
                      part' = "calendar"
               PROVE  SoundInv("unwatched")' /\ IndexInv'
    OBVIOUS
  <2>1. [Next]_vars /\ part = "calendar"
    BY DEF PartsNext
  <2>2. SoundInv("unwatched") /\ IndexInv /\ IndexCovers
    BY <2>1 DEF IndexInv
  <2>3. PollerInTime
    BY <2>1, <2>2, ConstantsAssumption DEF PollerInTime, Tick, vars, SoundInv, Shapes
  <2>4. SoundInv("unwatched")'
    BY <2>1, <2>2, <2>3, SoundRemains DEF Kind
  <2> QED BY <2>1, <2>2, <2>4, IndexRemains
<1>3. I => UnwatchedSoundInParts
  BY SaneIsSound DEF Kind, UnwatchedSound, UnwatchedSoundInParts, IndexInv
<1> QED BY <1>1, <1>2, <1>3, PTL DEF PartsSpec
=============================================================================
