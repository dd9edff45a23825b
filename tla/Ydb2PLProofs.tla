---------------------------- MODULE Ydb2PLProofs ----------------------------
(***************************************************************************)
(* Proofs about the ydb server with two-phase locking.                     *)
(*                                                                         *)
(* LockedInv is inductive as it stands.  For each step of the server three *)
(* things are shown: how it changes the roles (who has a key, takes it,    *)
(* follows its owner or has disowned it), that LockedInv survives, and what*)
(* becomes of Database.  On that rest serializability and, with the lock   *)
(* server's order of waiters, the agreement of lockInfos with the locks.   *)
(***************************************************************************)
EXTENDS Ydb2PL, TLAPS

USE KeysAssumption, NamesAssumption

\* A map of a std::map type is a function on some of the keys.
LEMMA PartialType ==
  ASSUME NEW S, NEW T, NEW f
  PROVE  f \in Partial(S, T) <=> \E D \in SUBSET S : f \in [D -> T]
BY DEF Partial

\* An empty map is one.
LEMMA PartialEmpty == ASSUME NEW S, NEW T PROVE <<>> \in Partial(S, T)
<1>1. {} \in SUBSET S /\ <<>> \in [{} -> T]
  OBVIOUS
<1>. QED BY <1>1, PartialType

\* Setting one key of a map gives a map.
LEMMA PartialExtended ==
  ASSUME NEW S, NEW T, NEW f \in Partial(S, T), NEW k \in S, NEW v \in T
  PROVE  Extend(f, k, v) \in Partial(S, T)
<1>1. PICK D \in SUBSET S : f \in [D -> T]
  BY PartialType
<1>2. D \cup {k} \in SUBSET S /\ Extend(f, k, v) \in [D \cup {k} -> T]
  BY <1>1 DEF Extend
<1>. QED BY <1>2, PartialType

\* The call of a transaction that has none is of the type of calls.
LEMMA NoCallType == NoCall \in [key : Keys, val : Values \cup {Read}]
BY DEF NoCall

\* The server starts with every lock free and no transaction.
LEMMA InitInv == Init => TwoPLInv
<1>. SUFFICES ASSUME Init PROVE TwoPLInv
  OBVIOUS
<1>. USE DEF Init
<1>1. TypeOK
  <2>1. DOMAIN tMap = {}
    OBVIOUS
  <2>2. got \in [Txns -> Partial(Keys, Values)]
    BY PartialEmpty
  <2>. QED BY <2>1, <2>2, NoCallType DEF TypeOK
<1>2. CallInv
  BY DEF CallInv, CallOf
<1>3. KeyInv
  BY DEF KeyInv, Holds, Follower
<1>4. ReadsStable
  BY DEF ReadsStable
<1>5. OwnerInv
  BY DEF OwnerInv, Holds, Taker
<1>6. LIInv
  BY DEF LIInv, HandOver
<1>. QED BY <1>1, <1>2, <1>3, <1>4, <1>5, <1>6 DEF TwoPLInv, LockedInv

-----------------------------------------------------------------------------
\* At most one commit is writing a key, and the database has for that key what
\* it writes; for every other key it has what is stored.
LEMMA DatabaseIs ==
  ASSUME CallInv, KeyInv, NEW k \in Keys
  PROVE  /\ \A t \in Txns : Writing(t, k) => Database[k] = tMap[t][k].val
         /\ (\A t \in Txns : ~ Writing(t, k)) => Database[k] = stored[k]
<1>1. ASSUME NEW t \in Txns, NEW u \in Txns, Writing(t, k), Writing(u, k) PROVE t = u
  <2>1. ASSUME NEW v \in Txns, Writing(v, k) PROVE Holds(v, k)
    <3>1. CallOf(v) /\ at[v] = "write" /\ k \in todo[v]
      BY <2>1 DEF CallInv, Writing
    <3>2. v \in DOMAIN tMap /\ k \in DOMAIN tMap[v]
      BY <3>1 DEF CallOf
    <3>. QED BY <3>1, <3>2 DEF Holds
  <2>2. Holds(t, k) /\ Holds(u, k)
    BY <1>1, <2>1
  <2>. QED BY <2>2 DEF KeyInv
<1>2. ASSUME NEW t \in Txns, Writing(t, k)
      PROVE  (CHOOSE u \in Txns : Writing(u, k)) = t
  BY <1>1, <1>2
<1>. QED BY <1>2 DEF Database

\* The same of the database after a step.
LEMMA DatabaseIsNext ==
  ASSUME CallInv', KeyInv', NEW k \in Keys
  PROVE  /\ \A t \in Txns : Writing(t, k)' => Database'[k] = tMap'[t][k].val
         /\ (\A t \in Txns : ~ Writing(t, k)') => Database'[k] = stored'[k]
<1>1. ASSUME NEW t \in Txns, NEW u \in Txns, Writing(t, k)', Writing(u, k)' PROVE t = u
  <2>1. ASSUME NEW v \in Txns, Writing(v, k)' PROVE Holds(v, k)'
    <3>1. CallOf(v)' /\ at'[v] = "write" /\ k \in todo'[v]
      BY <2>1 DEF CallInv, Writing
    <3>2. v \in DOMAIN tMap' /\ k \in DOMAIN tMap'[v]
      BY <3>1 DEF CallOf
    <3>. QED BY <3>1, <3>2 DEF Holds
  <2>2. Holds(t, k)' /\ Holds(u, k)'
    BY <1>1, <2>1
  <2>. QED BY <2>2 DEF KeyInv
<1>2. ASSUME NEW t \in Txns, Writing(t, k)'
      PROVE  (CHOOSE u \in Txns : Writing(u, k)') = t
  BY <1>1, <1>2
<1>. QED BY <1>2 DEF Database

\* A step that changes neither what is stored nor what is being written does
\* not change the database.
SameWrites ==
  /\ stored' = stored
  /\ \A t \in Txns, k \in Keys :
       /\ Writing(t, k)' <=> Writing(t, k)
       /\ Writing(t, k) => tMap'[t][k].val = tMap[t][k].val

\* The database that a commit under way defines stays the same when no write
\* starts, ends or changes.
LEMMA DatabaseKept ==
  ASSUME CallInv, KeyInv, CallInv', KeyInv', SameWrites
  PROVE  Database' = Database
<1>1. ASSUME NEW k \in Keys PROVE Database'[k] = Database[k]
  <2>1. CASE \E t \in Txns : Writing(t, k)
    BY <2>1, DatabaseIs, DatabaseIsNext DEF SameWrites
  <2>2. CASE \A t \in Txns : ~ Writing(t, k)
    BY <2>2, DatabaseIs, DatabaseIsNext DEF SameWrites
  <2>. QED BY <2>1, <2>2
<1>. QED BY <1>1 DEF Database

\* Reads stay stable if the step adds none.
LEMMA ReadsKept ==
  ASSUME LockedInv, CallInv', KeyInv', SameWrites,
         \A t \in Txns : outcome'[t] = "none" => outcome[t] = "none" /\ got'[t] = got[t]
  PROVE  ReadsStable'
BY DatabaseKept DEF ReadsStable, LockedInv

\* A step that leaves it as it is who has, takes, follows and disowned a key.
SameRoles ==
  \A t \in Txns, k \in Keys :
    /\ Holds(t, k)' <=> Holds(t, k)
    /\ Disowned(t, k)' <=> Disowned(t, k)
    /\ Taker(t, k)' <=> Taker(t, k)
    /\ Follower(t, k)' <=> Follower(t, k)

\* finishT is at one key at a time, the smallest that is left.
LEMMA FirstUnique ==
  ASSUME NEW t, NEW k \in Keys, NEW l \in Keys, First(t, k), First(t, l) PROVE k = l
<1>1. k \in Nat /\ l \in Nat /\ k <= l /\ l <= k
  BY DEF First
<1>. QED BY <1>1

\* What KeyInv says stays true when roles, owners, followers and the locks of
\* keys stay.
LEMMA KeysKept ==
  ASSUME TypeOK, KeyInv, SameRoles, UNCHANGED <<owner, followers>>,
         \A k \in Keys : k \in free' <=> k \in free
  PROVE  KeyInv'
<1>1. \A k \in Keys : owner[k] # None => owner[k] \in Txns
  BY DEF TypeOK
<1>. QED BY <1>1 DEF KeyInv, SameRoles


\* What a step needs to know of types.
LEMMA Shape ==
  ASSUME TypeOK
  PROVE  /\ DOMAIN at = Txns /\ DOMAIN want = Txns /\ DOMAIN todo = Txns
         /\ DOMAIN got = Txns /\ DOMAIN outcome = Txns
         /\ DOMAIN owner = Keys /\ DOMAIN followers = Keys /\ DOMAIN stored = Keys
         /\ DOMAIN tMap \subseteq Txns
         /\ \A t \in Txns : want[t].key \in Keys
         /\ \A k \in Keys : owner[k] # None => owner[k] \in DOMAIN tMap
         /\ \A t \in DOMAIN tMap : DOMAIN tMap[t] \subseteq Keys
<1>1. ASSUME NEW t \in DOMAIN tMap PROVE DOMAIN tMap[t] \subseteq Keys
  <2>1. tMap[t] \in Partial(Keys, Entries)
    BY DEF TypeOK
  <2>. QED BY <2>1, PartialType
<1>. QED BY <1>1 DEF TypeOK

\* What is known of a transaction that the step is not about stays true.
LEMMA CallKept ==
  ASSUME NEW t \in Txns, CallOf(t), t \in DOMAIN tMap' <=> t \in DOMAIN tMap,
         t \in DOMAIN tMap => tMap'[t] = tMap[t],
         at'[t] = at[t], want'[t] = want[t], todo'[t] = todo[t], got'[t] = got[t],
         outcome'[t] = outcome[t]
  PROVE  CallOf(t)'
BY DEF CallOf

-----------------------------------------------------------------------------
\* A transaction begins with no key.
LEMMA BeginKeeps ==
  ASSUME LockedInv, NEW t \in Txns, Begin(t) PROVE LockedInv' /\ SameRoles /\ SameWrites
<1>. USE DEF LockedInv, Begin, lockVars
<1>1. /\ DOMAIN tMap' = DOMAIN tMap \cup {t} /\ tMap'[t] = <<>>
      /\ \A u \in DOMAIN tMap : tMap'[u] = tMap[u]
  BY DEF Extend
<1>2. TypeOK'
  <2>1. tMap'[t] \in Partial(Keys, Entries)
    BY <1>1, PartialEmpty
  <2>2. \A u \in DOMAIN tMap' : tMap'[u] \in Partial(Keys, Entries)
    BY <2>1, <1>1 DEF TypeOK
  <2>3. DOMAIN tMap' \subseteq Txns
    BY <1>1 DEF TypeOK
  <2>. QED BY <1>1, <2>2, <2>3 DEF TypeOK
<1>3. at[t] = "idle" /\ got[t] = <<>> /\ outcome[t] = "none" /\ DOMAIN tMap'[t] = {}
  BY <1>1 DEF CallInv, CallOf
<1>4. CallInv'
  <2>1. CallOf(t)'
    BY <1>1, <1>3 DEF CallOf
  <2>2. ASSUME NEW u \in Txns, u # t PROVE CallOf(u)'
    BY <1>1, <2>2, CallKept DEF CallInv
  <2>. QED BY <2>1, <2>2 DEF CallInv
<1>5. SameRoles
  <2>1. \A u \in Txns, k \in Keys : Holds(u, k)' <=> Holds(u, k)
    BY <1>1, <1>3 DEF Holds
  <2>. QED BY <2>1 DEF SameRoles, Disowned, First, Taker, Follower
<1>6. SameWrites
  BY <1>1, <1>3 DEF SameWrites, Writing, CallInv, CallOf
<1>. QED BY <1>2, <1>4, <1>5, <1>6, KeysKept, ReadsKept

\* write of a key that is locked changes the entry only.
LEMMA WriteLocalKeeps ==
  ASSUME LockedInv, NEW t \in Txns, NEW k \in Keys, NEW v \in Values, WriteLocal(t, k, v)
  PROVE  LockedInv' /\ SameRoles /\ SameWrites
<1>. USE DEF LockedInv, WriteLocal, lockVars, Idle, Overwrite
<1>1. /\ t \in DOMAIN tMap /\ DOMAIN tMap' = DOMAIN tMap /\ DOMAIN tMap'[t] = DOMAIN tMap[t]
      /\ tMap'[t] = Extend(tMap[t], k, [val |-> v, status |-> "WRITE"])
      /\ \A u \in DOMAIN tMap : u # t => tMap'[u] = tMap[u]
  BY DEF SetEntry, Extend
<1>2. TypeOK'
  <2>1. tMap'[t] \in Partial(Keys, Entries)
    <3>1. tMap[t] \in Partial(Keys, Entries) /\ [val |-> v, status |-> "WRITE"] \in Entries
      BY <1>1 DEF TypeOK, Entries
    <3>. QED BY <1>1, <3>1, PartialExtended
  <2>. QED BY <1>1, <2>1 DEF TypeOK
<1>3. CallInv'
  <2>1. CallOf(t)'
    BY <1>1 DEF CallInv, CallOf, Extend
  <2>2. ASSUME NEW u \in Txns, u # t PROVE CallOf(u)'
    BY <1>1, <2>2, CallKept DEF CallInv
  <2>. QED BY <2>1, <2>2 DEF CallInv
<1>4. SameRoles
  BY <1>1 DEF SameRoles, Holds, Disowned, First, Taker, Follower
<1>5. SameWrites
  BY <1>1, Shape DEF SameWrites, Writing, CallInv, CallOf
<1>. QED BY <1>2, <1>3, <1>4, <1>5, KeysKept, ReadsKept

\* get or write of another key goes to checkAcquire.
LEMMA CallKeeps ==
  ASSUME LockedInv, NEW t \in Txns, NEW k \in Keys, NEW v \in Values \cup {Read}, Call(t, k, v)
  PROVE  LockedInv' /\ SameRoles /\ SameWrites
<1>. USE DEF LockedInv, Call, lockVars, Idle, GoTo
<1>1. TypeOK'
  BY DEF TypeOK
<1>2. CallInv'
  <2>1. CallOf(t)'
    BY Shape DEF CallInv, CallOf
  <2>2. ASSUME NEW u \in Txns, u # t PROVE CallOf(u)'
    BY <2>2, Shape, CallKept DEF CallInv
  <2>. QED BY <2>1, <2>2 DEF CallInv
<1>3. SameRoles
  BY Shape DEF SameRoles, Holds, Disowned, First, Taker, Follower
<1>4. SameWrites
  BY Shape DEF SameWrites, Writing
<1>. QED BY <1>1, <1>2, <1>3, <1>4, KeysKept, ReadsKept

\* How the other steps change the roles.
BecomesTaker(t) ==
  \A u \in Txns, k \in Keys :
    /\ Holds(u, k)' <=> Holds(u, k)
    /\ Disowned(u, k)' <=> Disowned(u, k)
    /\ Taker(u, k)' <=> Taker(u, k) \/ (u = t /\ k = want[t].key)
    /\ Follower(u, k)' <=> Follower(u, k)

\* t waits for its key behind the owner ...
BecomesFollower(t) ==
  \A u \in Txns, k \in Keys :
    /\ Holds(u, k)' <=> Holds(u, k)
    /\ Disowned(u, k)' <=> Disowned(u, k)
    /\ Taker(u, k)' <=> Taker(u, k)
    /\ Follower(u, k)' <=> Follower(u, k) \/ (u = t /\ k = want[t].key)

\* ... or gets it as taker ...
TakerHolds(t) ==
  \A u \in Txns, k \in Keys :
    /\ Holds(u, k)' <=> Holds(u, k) \/ (u = t /\ k = want[t].key)
    /\ Disowned(u, k)' <=> Disowned(u, k)
    /\ Taker(u, k)' <=> Taker(u, k) /\ u # t
    /\ Follower(u, k)' <=> Follower(u, k)

\* ... or as follower.
FollowerHolds(t) ==
  \A u \in Txns, k \in Keys :
    /\ Holds(u, k)' <=> Holds(u, k) \/ (u = t /\ k = want[t].key)
    /\ Disowned(u, k)' <=> Disowned(u, k)
    /\ Taker(u, k)' <=> Taker(u, k)
    /\ Follower(u, k)' <=> Follower(u, k) /\ u # t

\* finishT of t has cleared the owner of k ...
Disowns(t, k) ==
  \A u \in Txns, l \in Keys :
    /\ Holds(u, l)' <=> Holds(u, l)
    /\ Disowned(u, l)' <=> Disowned(u, l) \/ (u = t /\ l = k)
    /\ Taker(u, l)' <=> Taker(u, l)
    /\ Follower(u, l)' <=> Follower(u, l)

\* ... and has released the lock of k.
Drops(t, k) ==
  \A u \in Txns, l \in Keys :
    /\ Holds(u, l)' <=> Holds(u, l) /\ ~ (u = t /\ l = k)
    /\ Disowned(u, l)' <=> Disowned(u, l) /\ u # t
    /\ Taker(u, l)' <=> Taker(u, l)
    /\ Follower(u, l)' <=> Follower(u, l)

\* Without owner, the caller becomes the taker.
LEMMA FoundFreeRoles ==
  ASSUME LockedInv, NEW t \in Txns, FoundFree(t)
  PROVE  BecomesTaker(t)
<1>. USE DEF LockedInv, FoundFree, GoTo
<1>0. t \in DOMAIN tMap /\ want[t].key \in Keys
  BY Shape DEF CallInv, CallOf
<1>1. ASSUME NEW u \in Txns, NEW k \in Keys
      PROVE  /\ Holds(u, k)' <=> Holds(u, k)
             /\ Disowned(u, k)' <=> Disowned(u, k)
             /\ Taker(u, k)' <=> Taker(u, k) \/ (u = t /\ k = want[t].key)
             /\ Follower(u, k)' <=> Follower(u, k)
  <2>1. CASE u = t
    BY <1>0, <2>1, Shape DEF Holds, Disowned, First, Taker, Follower
  <2>2. CASE u # t
    BY <2>2, Shape DEF Holds, Disowned, First, Taker, Follower
  <2>. QED BY <2>1, <2>2
<1>. QED BY <1>1 DEF BecomesTaker

\* checkAcquire makes the caller the owner of a key that has none.
LEMMA FoundFreeKeeps ==
  ASSUME LockedInv, NEW t \in Txns, FoundFree(t) PROVE LockedInv' /\ SameWrites
<1>. USE DEF LockedInv, FoundFree, GoTo
<1>0. t \in DOMAIN tMap /\ want[t].key \in Keys /\ None # t
  BY Shape DEF CallInv, CallOf
<1>1. TypeOK'
  BY <1>0 DEF TypeOK
<1>2. CallInv'
  <2>1. CallOf(t)'
    BY Shape DEF CallInv, CallOf
  <2>2. ASSUME NEW u \in Txns, u # t PROVE CallOf(u)'
    BY <2>2, Shape, CallKept DEF CallInv
  <2>. QED BY <2>1, <2>2 DEF CallInv
<1>3. KeyInv'
  <2>5. BecomesTaker(t)
    BY FoundFreeRoles
  <2>. QED BY <1>0, Shape, <2>5 DEF KeyInv, BecomesTaker
<1>4. SameWrites
  BY Shape DEF SameWrites, Writing
<1>. QED BY <1>1, <1>2, <1>3, <1>4, ReadsKept

\* checkAcquire finds a deadlock: the caller keeps its keys until finishT.
LEMMA FoundDeadlockKeeps ==
  ASSUME LockedInv, NEW t \in Txns, FoundDeadlock(t) PROVE LockedInv' /\ SameRoles /\ SameWrites
<1>. USE DEF LockedInv, FoundDeadlock, GoTo
<1>0. t \in DOMAIN tMap /\ DOMAIN tMap[t] \subseteq Keys
  BY Shape DEF CallInv, CallOf
<1>1. TypeOK'
  BY <1>0 DEF TypeOK
<1>2. CallInv'
  <2>1. CallOf(t)'
    BY Shape DEF CallInv, CallOf
  <2>2. ASSUME NEW u \in Txns, u # t PROVE CallOf(u)'
    BY <2>2, Shape, CallKept DEF CallInv
  <2>. QED BY <2>1, <2>2 DEF CallInv
<1>3. SameRoles
  BY <1>0, Shape DEF SameRoles, Holds, Disowned, First, Taker, Follower
<1>4. SameWrites
  BY Shape DEF SameWrites, Writing
<1>5. KeyInv' /\ ReadsStable'
  BY <1>2, <1>3, <1>4, KeysKept, ReadsKept, Shape
<1>. QED BY <1>1, <1>2, <1>3, <1>4, <1>5

\* Behind an owner, the caller becomes a follower.
LEMMA FoundOwnerRoles ==
  ASSUME LockedInv, NEW t \in Txns, FoundOwner(t)
  PROVE  BecomesFollower(t)
<1>. USE DEF LockedInv, FoundOwner, GoTo
<1>0. t \in DOMAIN tMap /\ want[t].key \in Keys
  BY Shape DEF CallInv, CallOf
<1>1. ASSUME NEW u \in Txns, NEW k \in Keys
      PROVE  /\ Holds(u, k)' <=> Holds(u, k)
             /\ Disowned(u, k)' <=> Disowned(u, k)
             /\ Taker(u, k)' <=> Taker(u, k)
             /\ Follower(u, k)' <=> Follower(u, k) \/ (u = t /\ k = want[t].key)
  <2>1. CASE u = t
    BY <1>0, <2>1, Shape DEF Holds, Disowned, First, Taker, Follower
  <2>2. CASE u # t
    BY <2>2, Shape DEF Holds, Disowned, First, Taker, Follower
  <2>. QED BY <2>1, <2>2
<1>. QED BY <1>1 DEF BecomesFollower

\* checkAcquire adds the caller to the followers.
LEMMA FoundOwnerKeeps ==
  ASSUME LockedInv, NEW t \in Txns, FoundOwner(t) PROVE LockedInv' /\ SameWrites
<1>. USE DEF LockedInv, FoundOwner, GoTo
<1>0. t \in DOMAIN tMap /\ want[t].key \in Keys
  BY Shape DEF CallInv, CallOf
<1>1. TypeOK'
  BY <1>0 DEF TypeOK
<1>2. CallInv'
  <2>1. CallOf(t)'
    BY Shape DEF CallInv, CallOf
  <2>2. ASSUME NEW u \in Txns, u # t PROVE CallOf(u)'
    BY <2>2, Shape, CallKept DEF CallInv
  <2>. QED BY <2>1, <2>2 DEF CallInv
<1>3. KeyInv'
  <2>5. BecomesFollower(t)
    BY FoundOwnerRoles
  <2>. QED BY <1>0, Shape, <2>5 DEF KeyInv, BecomesFollower
<1>4. SameWrites
  BY Shape DEF SameWrites, Writing
<1>. QED BY <1>1, <1>2, <1>3, <1>4, ReadsKept

\* The taker gets the lock and has the key.
LEMMA TakenRoles ==
  ASSUME LockedInv, NEW t \in Txns, Taken(t)
  PROVE  TakerHolds(t)
<1>. USE DEF LockedInv, Taken, GoTo
<1>0. t \in DOMAIN tMap /\ want[t].key \in Keys
  BY Shape DEF CallInv, CallOf
<1>1. ASSUME NEW u \in Txns, NEW k \in Keys
      PROVE  /\ Holds(u, k)' <=> Holds(u, k) \/ (u = t /\ k = want[t].key)
             /\ Disowned(u, k)' <=> Disowned(u, k)
             /\ Taker(u, k)' <=> Taker(u, k) /\ u # t
             /\ Follower(u, k)' <=> Follower(u, k)
  <2>1. CASE u = t
    BY <1>0, <2>1, Shape DEF Holds, Disowned, First, Taker, Follower
  <2>2. CASE u # t
    BY <2>2, Shape DEF Holds, Disowned, First, Taker, Follower
  <2>. QED BY <2>1, <2>2
<1>. QED BY <1>1 DEF TakerHolds

\* The lock server gives the key to the taker.
LEMMA TakenKeeps ==
  ASSUME LockedInv, NEW t \in Txns, Taken(t) PROVE LockedInv' /\ SameWrites
<1>. USE DEF LockedInv, Taken, GoTo
<1>0. t \in DOMAIN tMap /\ want[t].key \in Keys
  BY Shape DEF CallInv, CallOf
<1>1. TypeOK'
  BY <1>0 DEF TypeOK
<1>2. CallInv'
  <2>1. CallOf(t)'
    BY Shape DEF CallInv, CallOf
  <2>2. ASSUME NEW u \in Txns, u # t PROVE CallOf(u)'
    BY <2>2, Shape, CallKept DEF CallInv
  <2>. QED BY <2>1, <2>2 DEF CallInv
<1>3. KeyInv'
  <2>3. \A k \in Keys : ~ Disowned(t, k) /\ (Taker(t, k) => k = want[t].key)
    BY DEF Disowned, Taker
  <2>5. TakerHolds(t)
    BY TakenRoles
  <2>6. ASSUME NEW k \in Keys PROVE (k \notin free <=> \E u \in Txns : Holds(u, k))'
    BY <1>0, <2>5 DEF KeyInv, TakerHolds
  <2>7. \A k \in Keys, u, v \in Txns : Holds(u, k)' /\ Holds(v, k)' => u = v
    BY <1>0, <2>5 DEF KeyInv, TakerHolds
  <2>8. ASSUME NEW k \in Keys, owner[k] # None
        PROVE  ((Holds(owner[k], k) /\ ~ Disowned(owner[k], k)) \/ Taker(owner[k], k))'
    BY <1>0, <2>3, <2>5, <2>8, Shape DEF KeyInv, TakerHolds
  <2>. QED BY <2>5, <2>6, <2>7, <2>8, Shape DEF KeyInv, TakerHolds
<1>4. SameWrites
  BY Shape DEF SameWrites, Writing
<1>. QED BY <1>1, <1>2, <1>3, <1>4, ReadsKept

\* The follower gets the lock and has the key.
LEMMA FollowedRoles ==
  ASSUME LockedInv, NEW t \in Txns, Followed(t)
  PROVE  FollowerHolds(t)
<1>. USE DEF LockedInv, Followed, GoTo
<1>0. t \in DOMAIN tMap /\ want[t].key \in Keys
  BY Shape DEF CallInv, CallOf
<1>1. ASSUME NEW u \in Txns, NEW k \in Keys
      PROVE  /\ Holds(u, k)' <=> Holds(u, k) \/ (u = t /\ k = want[t].key)
             /\ Disowned(u, k)' <=> Disowned(u, k)
             /\ Taker(u, k)' <=> Taker(u, k)
             /\ Follower(u, k)' <=> Follower(u, k) /\ u # t
  <2>1. CASE u = t
    BY <1>0, <2>1, Shape DEF Holds, Disowned, First, Taker, Follower
  <2>2. CASE u # t
    BY <2>2, Shape DEF Holds, Disowned, First, Taker, Follower
  <2>. QED BY <2>1, <2>2
<1>. QED BY <1>1 DEF FollowerHolds

\* The lock server gives the key to a follower, who becomes its owner.
LEMMA FollowedKeeps ==
  ASSUME LockedInv, NEW t \in Txns, Followed(t) PROVE LockedInv' /\ SameWrites
<1>. USE DEF LockedInv, Followed, GoTo
<1>0. t \in DOMAIN tMap /\ want[t].key \in Keys
  BY Shape DEF CallInv, CallOf
<1>1. TypeOK'
  BY <1>0 DEF TypeOK
<1>2. CallInv'
  <2>1. CallOf(t)'
    BY Shape DEF CallInv, CallOf
  <2>2. ASSUME NEW u \in Txns, u # t PROVE CallOf(u)'
    BY <2>2, Shape, CallKept DEF CallInv
  <2>. QED BY <2>1, <2>2 DEF CallInv
<1>3. KeyInv'
  <2>3. \A k \in Keys : ~ Disowned(t, k) /\ (Follower(t, k) => k = want[t].key) /\ k # LI
    BY DEF Disowned, Follower
  <2>5. FollowerHolds(t)
    BY FollowedRoles
  <2>. QED BY <1>0, <2>3, Shape, <2>5 DEF KeyInv, FollowerHolds
<1>4. SameWrites
  BY Shape DEF SameWrites, Writing
<1>. QED BY <1>1, <1>2, <1>3, <1>4, ReadsKept

\* The rest of get or write: what is stored is what the database holds, for
\* nobody else writes a key that the caller has.
LEMMA AccessKeeps ==
  ASSUME LockedInv, NEW t \in Txns, Access(t) PROVE LockedInv' /\ SameRoles /\ SameWrites
<1>. DEFINE k == want[t].key
<1>. USE DEF LockedInv, Access, GoTo, lockVars
<1>0. /\ t \in DOMAIN tMap /\ k \in Keys /\ k \notin DOMAIN tMap[t] /\ outcome[t] = "none"
      /\ k \notin DOMAIN got[t] /\ Holds(t, k)
  BY Shape DEF CallInv, CallOf, Holds
<1>1. PICK e \in Entries :
        /\ DOMAIN tMap' = DOMAIN tMap
        /\ tMap'[t] = Extend(tMap[t], k, e)
        /\ \A u \in DOMAIN tMap : u # t => tMap'[u] = tMap[u]
        /\ \/ e.status = "READ" /\ e.val = stored[k]
              /\ got' = [got EXCEPT ![t] = Extend(@, k, stored[k])]
           \/ e.status = "WRITE" /\ got' = got
  <2>1. CASE want[t].val = Read
    <3>1. [val |-> stored[k], status |-> "READ"] \in Entries
      BY <1>0 DEF TypeOK, Entries
    <3>. QED BY <1>0, <2>1, <3>1 DEF SetEntry
  <2>2. CASE want[t].val # Read
    <3>1. [val |-> want[t].val, status |-> "WRITE"] \in Entries
      BY <1>0, <2>2 DEF TypeOK, Entries
    <3>. QED BY <1>0, <2>2, <3>1 DEF SetEntry
  <2>. QED BY <2>1, <2>2
<1>2. TypeOK'
  <2>1. tMap'[t] \in Partial(Keys, Entries)
    <3>1. tMap[t] \in Partial(Keys, Entries)
      BY <1>0 DEF TypeOK
    <3>. QED BY <1>0, <1>1, <3>1, PartialExtended
  <2>2. got' \in [Txns -> Partial(Keys, Values)]
    <3>1. got[t] \in Partial(Keys, Values) /\ stored[k] \in Values
      BY <1>0 DEF TypeOK
    <3>2. Extend(got[t], k, stored[k]) \in Partial(Keys, Values)
      BY <1>0, <3>1, PartialExtended
    <3>. QED BY <1>1, <3>2 DEF TypeOK
  <2>. QED BY <1>1, <2>1, <2>2, NoCallType DEF TypeOK
<1>3. CallInv'
  <2>1. CallOf(t)'
    <3>1. /\ DOMAIN tMap'[t] = DOMAIN tMap[t] \cup {k} /\ tMap'[t][k] = e
          /\ \A l \in DOMAIN tMap[t] : tMap'[t][l] = tMap[t][l]
      BY <1>0, <1>1 DEF Extend
    <3>2. /\ e.status = "READ" => got'[t][k] = e.val /\ DOMAIN got'[t] = DOMAIN got[t] \cup {k}
          /\ e.status = "WRITE" => got'[t] = got[t]
          /\ \A l \in DOMAIN got[t] : got'[t][l] = got[t][l]
          /\ e.status \in {"READ", "WRITE"}
      BY <1>0, <1>1, Shape DEF Extend
    <3>. QED BY <1>0, <1>1, <3>1, <3>2, Shape DEF CallInv, CallOf
  <2>2. ASSUME NEW u \in Txns, u # t PROVE CallOf(u)'
    BY <1>1, <2>2, Shape, CallKept DEF CallInv
  <2>. QED BY <2>1, <2>2 DEF CallInv
<1>4. SameRoles
  <2>1. ASSUME NEW u \in Txns, NEW l \in Keys PROVE Holds(u, l)' <=> Holds(u, l)
    <3>1. CASE u = t
      BY <1>0, <1>1, <3>1, Shape DEF Holds, Extend
    <3>2. CASE u # t
      BY <1>1, <3>2, Shape DEF Holds
    <3>. QED BY <3>1, <3>2
  <2>. QED BY <2>1, Shape DEF SameRoles, Disowned, First, Taker, Follower
<1>5. SameWrites
  BY <1>1, Shape DEF SameWrites, Writing, CallInv, CallOf
<1>6. KeyInv'
  BY <1>2, <1>4, KeysKept
<1>7. Database' = Database
  BY <1>3, <1>5, <1>6, DatabaseKept
<1>8. Database[k] = stored[k]
  <2>1. ASSUME NEW u \in Txns, Writing(u, k) PROVE FALSE
    <3>1. Holds(u, k)
      BY <2>1 DEF Writing, CallInv, CallOf, Holds
    <3>2. u = t
      BY <1>0, <3>1 DEF KeyInv
    <3>. QED BY <2>1, <3>2 DEF Writing
  <2>. QED BY <1>0, <2>1, DatabaseIs
<1>9. ReadsStable'
  BY <1>0, <1>1, <1>7, <1>8, Shape DEF ReadsStable, Extend
<1>. QED BY <1>2, <1>3, <1>4, <1>5, <1>6, <1>9

\* The database changes in one step, when a commit starts to write.
LEMMA CommitKeeps ==
  ASSUME LockedInv, NEW t \in Txns, Commit(t)
  PROVE  /\ LockedInv' /\ SameRoles
         /\ Database' = [k \in Keys |-> IF k \in Written(t) THEN tMap[t][k].val ELSE Database[k]]
<1>. USE DEF LockedInv, Commit, GoTo, lockVars, Idle
<1>0. Written(t) \subseteq DOMAIN tMap[t] /\ Written(t) \subseteq Keys
  BY Shape DEF Written
<1>1. TypeOK'
  BY <1>0 DEF TypeOK
<1>2. CallInv'
  <2>1. CallOf(t)'
    BY <1>0, Shape DEF CallInv, CallOf
  <2>2. ASSUME NEW u \in Txns, u # t PROVE CallOf(u)'
    BY <2>2, Shape, CallKept DEF CallInv
  <2>. QED BY <2>1, <2>2 DEF CallInv
<1>3. SameRoles
  BY Shape DEF SameRoles, Holds, Disowned, First, Taker, Follower
<1>4. KeyInv'
  BY <1>1, <1>3, KeysKept
<1>5. ASSUME NEW k \in Keys
      PROVE  Database'[k] = IF k \in Written(t) THEN tMap[t][k].val ELSE Database[k]
  <2>1. \A u \in Txns : Writing(u, k)' <=> Writing(u, k) \/ (u = t /\ k \in Written(t))
    BY Shape DEF Writing
  <2>2. CASE k \in Written(t)
    BY <1>2, <1>4, <2>1, <2>2, DatabaseIsNext
  <2>3. CASE k \notin Written(t)
    BY <1>2, <1>4, <2>1, <2>3, DatabaseIs, DatabaseIsNext
  <2>. QED BY <2>2, <2>3
<1>6. ReadsStable'
  <2>. SUFFICES ASSUME NEW u \in Txns, NEW k \in DOMAIN got[u], outcome'[u] = "none"
                PROVE  got[u][k] = Database'[k]
    BY DEF ReadsStable
  <2>1. u # t /\ outcome[u] = "none" /\ u \in DOMAIN tMap /\ k \in DOMAIN tMap[u] /\ k \in Keys
    BY Shape DEF CallInv, CallOf
  <2>2. k \notin Written(t)
    BY <1>0, <2>1 DEF CallInv, CallOf, KeyInv, Holds
  <2>. QED BY <1>5, <2>1, <2>2 DEF ReadsStable
<1>7. Database' = [k \in Keys |-> IF k \in Written(t) THEN tMap[t][k].val ELSE Database[k]]
  BY <1>5 DEF Database
<1>. QED BY <1>1, <1>2, <1>3, <1>4, <1>6, <1>7

\* A put of a commit does not change the database.
LEMMA WriteBackKeeps ==
  ASSUME LockedInv, NEW t \in Txns, NEW k \in Keys, WriteBack(t, k)
  PROVE  LockedInv' /\ SameRoles /\ Database' = Database
<1>. USE DEF LockedInv, WriteBack, lockVars
<1>0. t \in DOMAIN tMap /\ k \in DOMAIN tMap[t] /\ Writing(t, k)
  BY Shape DEF CallInv, CallOf, Writing, First
<1>1. TypeOK'
  <2>1. tMap[t] \in Partial(Keys, Entries)
    BY <1>0 DEF TypeOK
  <2>2. tMap[t][k].val \in Values
    <3>1. tMap[t][k] \in Entries
      BY <1>0, <2>1, PartialType
    <3>. QED BY <3>1 DEF Entries
  <2>. QED BY <2>2 DEF TypeOK
<1>2. CallInv'
  <2>1. CallOf(t)'
    BY <1>0, Shape DEF CallInv, CallOf
  <2>2. ASSUME NEW u \in Txns, u # t PROVE CallOf(u)'
    BY <2>2, Shape, CallKept DEF CallInv
  <2>. QED BY <2>1, <2>2 DEF CallInv
<1>3. SameRoles
  BY Shape DEF SameRoles, Holds, Disowned, First, Taker, Follower
<1>4. KeyInv'
  BY <1>1, <1>3, KeysKept
<1>5. ASSUME NEW l \in Keys PROVE Database'[l] = Database[l]
  <2>1. \A u \in Txns : Writing(u, l)' <=> Writing(u, l) /\ ~ (u = t /\ l = k)
    BY Shape DEF Writing
  <2>2. CASE l = k
    <3>1. \A u \in Txns : Writing(u, l) => u = t
      <4>1. \A u \in Txns : Writing(u, l) => Holds(u, l)
        BY Shape DEF Writing, CallInv, CallOf, Holds
      <4>. QED BY <1>0, <2>2, <4>1 DEF KeyInv
    <3>2. Database'[l] = stored'[l]
      BY <1>2, <1>4, <2>1, <2>2, <3>1, DatabaseIsNext
    <3>. QED BY <1>0, <2>2, <3>2, Shape, DatabaseIs
  <2>3. CASE l # k
    BY <1>2, <1>4, <2>1, <2>3, Shape, DatabaseIs, DatabaseIsNext
  <2>. QED BY <2>2, <2>3
<1>6. Database' = Database
  BY <1>5 DEF Database
<1>7. ReadsStable'
  BY <1>6 DEF ReadsStable
<1>. QED BY <1>1, <1>2, <1>3, <1>4, <1>6, <1>7

\* When nothing is left to write, the database is what is stored.
LEMMA WritesDoneKeeps ==
  ASSUME LockedInv, NEW t \in Txns, WritesDone(t) PROVE LockedInv' /\ SameRoles /\ SameWrites
<1>. USE DEF LockedInv, WritesDone, GoTo, lockVars
<1>1. TypeOK'
  <2>1. DOMAIN tMap[t] \subseteq Keys
    BY Shape DEF CallInv, CallOf
  <2>. QED BY <2>1 DEF TypeOK
<1>2. CallInv'
  <2>1. CallOf(t)'
    BY Shape DEF CallInv, CallOf
  <2>2. ASSUME NEW u \in Txns, u # t PROVE CallOf(u)'
    BY <2>2, Shape, CallKept DEF CallInv
  <2>. QED BY <2>1, <2>2 DEF CallInv
<1>3. SameRoles
  BY Shape DEF SameRoles, Holds, Disowned, First, Taker, Follower
<1>4. SameWrites
  BY Shape DEF SameWrites, Writing
<1>5. KeyInv' /\ ReadsStable'
  BY <1>1, <1>2, <1>3, <1>4, KeysKept, ReadsKept
<1>. QED BY <1>1, <1>2, <1>3, <1>4, <1>5

\* transaction_abort writes nothing and goes to finishT.
LEMMA AbortKeeps ==
  ASSUME LockedInv, NEW t \in Txns, Abort(t) PROVE LockedInv' /\ SameRoles /\ SameWrites
<1>. USE DEF LockedInv, Abort, Idle, GoTo, lockVars
<1>1. TypeOK'
  BY Shape DEF TypeOK
<1>2. CallInv'
  <2>1. CallOf(t)'
    BY Shape DEF CallInv, CallOf
  <2>2. ASSUME NEW u \in Txns, u # t PROVE CallOf(u)'
    BY <2>2, Shape, CallKept DEF CallInv
  <2>. QED BY <2>1, <2>2 DEF CallInv
<1>3. SameRoles
  BY Shape DEF SameRoles, Holds, Disowned, First, Taker, Follower
<1>4. SameWrites
  BY Shape DEF SameWrites, Writing
<1>5. KeyInv' /\ ReadsStable'
  BY <1>1, <1>2, <1>3, <1>4, Shape, KeysKept, ReadsKept
<1>. QED BY <1>1, <1>2, <1>3, <1>4, <1>5

\* Clearing the owner is a change of roles for that key alone.
LEMMA DisownRoles ==
  ASSUME LockedInv, NEW t \in Txns, NEW k \in Keys, Disown(t, k)
  PROVE  Disowns(t, k)
<1>. USE DEF LockedInv, Disown, GoTo
<1>0. /\ t \in DOMAIN tMap /\ at[t] \in {"finish", "finish with LI"} /\ First(t, k)
      /\ Holds(t, k) /\ \A l \in Keys : First(t, l) => l = k
  <2>1. t \in DOMAIN tMap /\ at[t] \in {"finish", "finish with LI"} /\ First(t, k)
    BY DEF CallInv, CallOf
  <2>2. Holds(t, k)
    BY <2>1 DEF CallInv, CallOf, First, Holds
  <2>3. \A l \in Keys : First(t, l) => l = k
    BY <2>1, FirstUnique
  <2>. QED BY <2>1, <2>2, <2>3
<1>1. ASSUME NEW u \in Txns, NEW l \in Keys
      PROVE  /\ Holds(u, l)' <=> Holds(u, l)
             /\ Disowned(u, l)' <=> Disowned(u, l) \/ (u = t /\ l = k)
             /\ Taker(u, l)' <=> Taker(u, l)
             /\ Follower(u, l)' <=> Follower(u, l)
  <2>1. First(u, l)' <=> First(u, l)
    BY DEF First
  <2>2. CASE u = t
    BY <1>0, <2>1, <2>2, Shape DEF Holds, Disowned, Taker, Follower
  <2>3. CASE u # t
    BY <1>0, <2>1, <2>3, Shape DEF Holds, Disowned, Taker, Follower
  <2>. QED BY <2>2, <2>3
<1>. QED BY <1>1 DEF Disowns

\* finishT, for one key: the owner goes and the lock is still held ...
LEMMA DisownKeeps ==
  ASSUME LockedInv, NEW t \in Txns, NEW k \in Keys, Disown(t, k) PROVE LockedInv' /\ SameWrites
<1>. USE DEF LockedInv, Disown, GoTo
<1>0. /\ t \in DOMAIN tMap /\ at[t] \in {"finish", "finish with LI"} /\ First(t, k)
      /\ Holds(t, k) /\ \A l \in Keys : First(t, l) => l = k
  <2>1. t \in DOMAIN tMap /\ at[t] \in {"finish", "finish with LI"} /\ First(t, k)
    BY DEF CallInv, CallOf
  <2>2. Holds(t, k)
    BY <2>1 DEF CallInv, CallOf, First, Holds
  <2>3. \A l \in Keys : First(t, l) => l = k
    BY <2>1, FirstUnique
  <2>. QED BY <2>1, <2>2, <2>3
<1>1. TypeOK'
  BY DEF TypeOK
<1>2. CallInv'
  <2>1. CallOf(t)'
    BY <1>0, Shape DEF CallInv, CallOf
  <2>2. ASSUME NEW u \in Txns, u # t PROVE CallOf(u)'
    BY <2>2, Shape, CallKept DEF CallInv
  <2>. QED BY <2>1, <2>2 DEF CallInv
<1>4. KeyInv'
  <2>1. LI # k /\ \A l \in Keys : l \in free' <=> l \in free
    OBVIOUS
  <2>2. \A l \in Keys : owner'[l] = IF l = k THEN None ELSE owner[l]
    BY Shape
  <2>3. \A l \in Keys : l # k => owner[l] # t \/ Holds(t, l) \/ Taker(t, l)
    BY DEF KeyInv
  <2>4. followers' = followers
    OBVIOUS
  <2>5. Disowns(t, k)
    BY DisownRoles
  <2>6. TypeOK /\ KeyInv
    OBVIOUS
  <2>. HIDE DEF LockedInv, Disown
  <2>7. ASSUME NEW l \in Keys
        PROVE  /\ l \notin free' <=> \E u \in Txns : Holds(u, l)'
               /\ \A u, v \in Txns : Holds(u, l)' /\ Holds(v, l)' => u = v
               /\ followers'[l] = {u \in Txns : Follower(u, l)'}
    BY <2>1, <2>4, <2>5, <2>6 DEF KeyInv, Disowns
  <2>8. ASSUME NEW l \in Keys, owner'[l] # None
        PROVE  (Holds(owner[l], l)' /\ ~ Disowned(owner[l], l)') \/ Taker(owner[l], l)'
    <3>1. l # k /\ owner'[l] = owner[l] /\ owner[l] \in Txns
      BY <2>2, <2>6, <2>8 DEF TypeOK
    <3>. QED BY <2>5, <2>6, <3>1 DEF KeyInv, Disowns
  <2>. QED BY <2>2, <2>7, <2>8 DEF KeyInv
<1>5. SameWrites
  BY <1>0, Shape DEF SameWrites, Writing
<1>. QED BY <1>1, <1>2, <1>4, <1>5, ReadsKept

\* Releasing a key is a change of roles for that key alone.
LEMMA ReleaseKeyRoles ==
  ASSUME LockedInv, NEW t \in Txns, NEW k \in Keys, ReleaseKey(t, k)
  PROVE  Drops(t, k)
<1>. USE DEF LockedInv, ReleaseKey, Release, GoTo
<1>0. /\ t \in DOMAIN tMap /\ First(t, k) /\ Disowned(t, k)
      /\ Holds(t, k) /\ \A l \in Keys : First(t, l) => l = k
  BY Shape DEF CallInv, CallOf, First, Holds, Disowned
<1>1. ASSUME NEW u \in Txns, NEW l \in Keys
      PROVE  /\ Holds(u, l)' <=> Holds(u, l) /\ ~ (u = t /\ l = k)
             /\ Disowned(u, l)' <=> Disowned(u, l) /\ u # t
             /\ Taker(u, l)' <=> Taker(u, l)
             /\ Follower(u, l)' <=> Follower(u, l)
  <2>2. CASE u = t
    BY <1>0, <2>2, Shape DEF Holds, Disowned, Taker, Follower
  <2>3. CASE u # t
    <3>1. First(u, l)' <=> First(u, l)
      BY <2>3, Shape DEF First
    <3>. QED BY <1>0, <2>3, <3>1, Shape DEF Holds, Disowned, Taker, Follower
  <2>. QED BY <2>2, <2>3
<1>. QED BY <1>1 DEF Drops

\* ... and then the lock of the key goes.
LEMMA ReleaseKeyKeeps ==
  ASSUME LockedInv, NEW t \in Txns, NEW k \in Keys, ReleaseKey(t, k)
  PROVE  LockedInv' /\ SameWrites
<1>. USE DEF LockedInv, ReleaseKey, Release, GoTo
<1>0. /\ t \in DOMAIN tMap /\ First(t, k) /\ Disowned(t, k)
      /\ Holds(t, k) /\ \A l \in Keys : First(t, l) => l = k
  BY Shape DEF CallInv, CallOf, First, Holds, Disowned
<1>1. TypeOK'
  BY DEF TypeOK
<1>2. CallInv'
  <2>1. CallOf(t)'
    BY <1>0, Shape DEF CallInv, CallOf
  <2>2. ASSUME NEW u \in Txns, u # t PROVE CallOf(u)'
    BY <2>2, Shape, CallKept DEF CallInv
  <2>. QED BY <2>1, <2>2 DEF CallInv
<1>4. KeyInv'
  <2>1. \A l \in Keys : Disowned(t, l) => l = k
    BY <1>0 DEF Disowned
  <2>2. owner[k] # t
    BY <1>0, <2>1 DEF KeyInv, Taker, Disowned
  <2>5. Drops(t, k)
    BY ReleaseKeyRoles
  <2>. QED BY <1>0, <2>5, <2>1, <2>2, Shape DEF KeyInv, Drops
<1>5. SameWrites
  BY <1>0, Shape DEF SameWrites, Writing
<1>. QED BY <1>1, <1>2, <1>4, <1>5, ReadsKept

\* finishT removes the transaction, which has no key any more.
LEMMA EraseKeeps ==
  ASSUME LockedInv, NEW t \in Txns, Erase(t) PROVE LockedInv' /\ SameRoles /\ SameWrites
<1>. USE DEF LockedInv, Erase, GoTo, lockVars
<1>0. /\ t \in DOMAIN tMap /\ outcome[t] # "none"
      /\ DOMAIN tMap' = DOMAIN tMap \ {t} /\ \A u \in DOMAIN tMap' : tMap'[u] = tMap[u]
  BY DEF CallInv, CallOf, Restrict
<1>1. TypeOK'
  <2>1. owner \in [Keys -> DOMAIN tMap' \cup {None}]
    <3>1. ASSUME NEW k \in Keys, owner[k] = t PROVE FALSE
      <4>1. Holds(t, k) \/ Taker(t, k)
        BY <3>1 DEF KeyInv
      <4>. QED BY <4>1 DEF Holds, Taker
    <3>. QED BY <1>0, <3>1 DEF TypeOK
  <2>2. followers \in [Keys -> SUBSET DOMAIN tMap']
    <3>1. \A k \in Keys : t \notin followers[k]
      BY DEF KeyInv, Follower
    <3>2. followers \in [Keys -> SUBSET DOMAIN tMap]
      BY DEF TypeOK
    <3>3. \A k \in Keys : followers[k] \in SUBSET DOMAIN tMap'
      BY <1>0, <3>1, <3>2
    <3>. QED BY <3>2, <3>3
  <2>3. got' \in [Txns -> Partial(Keys, Values)]
    BY PartialEmpty DEF TypeOK
  <2>. QED BY <1>0, <2>1, <2>2, <2>3, NoCallType DEF TypeOK
<1>2. CallInv'
  <2>1. CallOf(t)'
    BY <1>0, Shape DEF CallInv, CallOf
  <2>2. ASSUME NEW u \in Txns, u # t PROVE CallOf(u)'
    BY <1>0, <2>2, Shape, CallKept DEF CallInv
  <2>. QED BY <2>1, <2>2 DEF CallInv
<1>3. SameRoles
  BY <1>0, Shape DEF SameRoles, Holds, Disowned, First, Taker, Follower
<1>4. SameWrites
  BY <1>0, Shape DEF SameWrites, Writing, CallInv, CallOf
<1>5. KeyInv' /\ ReadsStable'
  BY <1>0, <1>1, <1>2, <1>3, <1>4, Shape, KeysKept, ReadsKept
<1>. QED BY <1>1, <1>2, <1>3, <1>4, <1>5

-----------------------------------------------------------------------------
(* Everything together                                                     *)

\* Nothing changes while the server does nothing.
LEMMA StutterKeeps ==
  ASSUME LockedInv, UNCHANGED vars PROVE LockedInv' /\ SameRoles /\ SameWrites
<1>. USE DEF LockedInv, vars, lockVars
<1>1. TypeOK'
  BY DEF TypeOK
<1>2. CallInv'
  BY CallKept DEF CallInv
<1>3. SameRoles
  BY DEF SameRoles, Holds, Disowned, First, Taker, Follower
<1>4. SameWrites
  BY DEF SameWrites, Writing
<1>. QED BY <1>1, <1>2, <1>3, <1>4, KeysKept, ReadsKept

\* set and del write a value, get does not write.
LEMMA SetsValue ==
  \A t \in Txns, k \in Keys, v \in Values \cup {Read} : WriteLocal(t, k, v) => v \in Values
BY DEF WriteLocal

\* LockedInv is inductive: every step of the server keeps it.
LEMMA LockedNext == LockedInv /\ [Next]_vars => LockedInv'
<1>. SUFFICES ASSUME LockedInv, [Next]_vars PROVE LockedInv'
  OBVIOUS
<1>1. CASE UNCHANGED vars
  BY <1>1, StutterKeeps
<1>2. ASSUME NEW t \in Txns,
             \/ Begin(t) \/ Commit(t) \/ Abort(t) \/ Access(t) \/ WritesDone(t) \/ Erase(t)
             \/ FoundFree(t) \/ FoundDeadlock(t) \/ FoundOwner(t) \/ Taken(t) \/ Followed(t)
      PROVE  LockedInv'
  BY <1>2, BeginKeeps, CommitKeeps, AbortKeeps, AccessKeeps, WritesDoneKeeps, EraseKeeps,
     FoundFreeKeeps, FoundDeadlockKeeps, FoundOwnerKeeps, TakenKeeps, FollowedKeeps
<1>3. ASSUME NEW t \in Txns, NEW k \in Keys,
             \/ WriteBack(t, k) \/ Disown(t, k) \/ ReleaseKey(t, k)
             \/ \E v \in Values \cup {Read} : Call(t, k, v) \/ WriteLocal(t, k, v)
      PROVE  LockedInv'
  BY <1>3, SetsValue, WriteBackKeeps, DisownKeeps, ReleaseKeyKeeps, CallKeeps, WriteLocalKeeps
<1>. QED BY <1>1, <1>2, <1>3 DEF Next, Work

\* The keys in use are locked for one transaction each, and what was read stays
\* what the database holds, in whatever order the lock server serves waiters.
THEOREM LockedInvariant == Spec => []LockedInv
<1>1. Init => LockedInv
  BY InitInv DEF TwoPLInv
<1>. QED BY <1>1, LockedNext, PTL DEF Spec

-----------------------------------------------------------------------------
(* lockInfos and the lock server, if takers come first                     *)

\* t ends because of a deadlock, with LI.
Ending(t) == at[t] = "finish with LI"

\* A step that leaves roles, locks and owners alone.
LEMMA BooksKept ==
  ASSUME TwoPLInv, NeverReleasedTwice, SameRoles, UNCHANGED lockVars,
         \A t \in Txns : Ending(t)' <=> Ending(t)
  PROVE  OwnerInv' /\ LIInv' /\ NeverReleasedTwice'
<1>1. OwnerInv'
  BY DEF TwoPLInv, OwnerInv, SameRoles, lockVars
<1>2. LIInv'
  BY DEF TwoPLInv, LIInv, HandOver, Ending, lockVars
<1>. QED BY <1>1, <1>2 DEF NeverReleasedTwice, lockVars

\* What lockInfos and LI say agrees with the roles after the caller became
\* the owner and taker.
LEMMA FoundFreeBooks ==
  ASSUME TwoPLInv, NeverReleasedTwice, NEW t \in Txns, FoundFree(t)
  PROVE  OwnerInv' /\ LIInv' /\ NeverReleasedTwice'
<1>. USE DEF TwoPLInv, LockedInv, FoundFree, GoTo
<1>1. BecomesTaker(t) /\ want[t].key \in Keys
  BY FoundFreeRoles, Shape
<1>2. OwnerInv'
  BY <1>1, Shape DEF OwnerInv, BecomesTaker
<1>3. LIInv'
  BY <1>1, Shape DEF LIInv, HandOver
<1>. QED BY <1>2, <1>3 DEF NeverReleasedTwice

\* The caller that ends because of a deadlock takes LI with it.
LEMMA FoundDeadlockBooks ==
  ASSUME TwoPLInv, NeverReleasedTwice, NEW t \in Txns, FoundDeadlock(t)
  PROVE  OwnerInv' /\ LIInv' /\ NeverReleasedTwice'
<1>. USE DEF TwoPLInv, FoundDeadlock, GoTo
<1>1. SameRoles
  BY FoundDeadlockKeeps
<1>2. OwnerInv'
  BY <1>1 DEF OwnerInv, SameRoles
<1>3. LIInv'
  BY Shape DEF LockedInv, LIInv, HandOver
<1>. QED BY <1>2, <1>3 DEF NeverReleasedTwice

\* A follower is added while the key has an owner, so LI does not start to
\* change hands.
LEMMA FoundOwnerBooks ==
  ASSUME TwoPLInv, NeverReleasedTwice, NEW t \in Txns, FoundOwner(t)
  PROVE  OwnerInv' /\ LIInv' /\ NeverReleasedTwice'
<1>. USE DEF TwoPLInv, LockedInv, FoundOwner, GoTo
<1>1. BecomesFollower(t) /\ want[t].key \in Keys
  BY FoundOwnerRoles, Shape
<1>2. OwnerInv'
  BY <1>1, Shape DEF OwnerInv, BecomesFollower
<1>3. LIInv'
  <2>1. \A k \in Keys : HandOver(k)' <=> HandOver(k)
    BY <1>1, Shape DEF HandOver
  <2>. QED BY <2>1, Shape DEF LIInv
<1>. QED BY <1>2, <1>3 DEF NeverReleasedTwice

\* The taker is the owner already.
LEMMA TakenBooks ==
  ASSUME TwoPLInv, NeverReleasedTwice, NEW t \in Txns, Taken(t)
  PROVE  OwnerInv' /\ LIInv' /\ NeverReleasedTwice'
<1>. USE DEF TwoPLInv, LockedInv, Taken, GoTo
<1>1. TakerHolds(t) /\ want[t].key \in Keys /\ Taker(t, want[t].key)
  BY TakenRoles, Shape DEF Taker
<1>2. OwnerInv'
  BY <1>1, Shape DEF OwnerInv, TakerHolds
<1>3. LIInv'
  <2>1. LI \in free' <=> LI \in free
    BY <1>1
  <2>. QED BY <2>1, Shape DEF LIInv, HandOver
<1>. QED BY <1>2, <1>3 DEF NeverReleasedTwice

\* With takers first, the follower that gets the lock finds LI handed to it by
\* the one that released the key, and releases it once.
LEMMA FollowedBooks ==
  ASSUME TakersFirst, TwoPLInv, NeverReleasedTwice, NEW t \in Txns, Followed(t)
  PROVE  OwnerInv' /\ LIInv' /\ NeverReleasedTwice'
<1>. USE DEF TwoPLInv, LockedInv, Followed, GoTo
<1>. DEFINE k == want[t].key
<1>1. FollowerHolds(t) /\ k \in Keys /\ t \in followers[k]
  <2>1. FollowerHolds(t)
    BY FollowedRoles
  <2>2. k \in Keys /\ Follower(t, k)
    BY Shape DEF Follower
  <2>3. followers[k] = {u \in Txns : Follower(u, k)}
    BY <2>2 DEF KeyInv
  <2>. QED BY <2>1, <2>2, <2>3
<1>2. \A u \in Txns : ~ Holds(u, k) /\ ~ Taker(u, k)
  BY <1>1 DEF KeyInv, Taker
<1>3. HandOver(k)
  <2>1. owner[k] = None
    BY <1>1, <1>2, Shape DEF KeyInv
  <2>. QED BY <1>1, <2>1 DEF HandOver
<1>4. LI \notin free /\ \A u \in Txns : ~ Ending(u)
  BY <1>1, <1>3 DEF LIInv, Ending
<1>5. OwnerInv'
  BY <1>1, <1>2, Shape DEF OwnerInv, FollowerHolds
<1>6. LIInv'
  <2>1. \A l \in Keys : ~ HandOver(l)'
    BY <1>1, <1>3, Shape DEF HandOver, LIInv
  <2>2. \A u \in Txns : ~ Ending(u)'
    BY <1>4, Shape DEF Ending
  <2>3. LI \in free'
    OBVIOUS
  <2>. QED BY <2>1, <2>2, <2>3 DEF LIInv, Ending
<1>. QED BY <1>4, <1>5, <1>6 DEF NeverReleasedTwice

\* finishT releases LI, or keeps it for the followers of the key.
LEMMA DisownBooks ==
  ASSUME TwoPLInv, NeverReleasedTwice, NEW t \in Txns, NEW k \in Keys, Disown(t, k)
  PROVE  OwnerInv' /\ LIInv' /\ NeverReleasedTwice'
<1>. USE DEF TwoPLInv, LockedInv, Disown, GoTo, KeepsLI
<1>1. /\ Disowns(t, k) /\ Holds(t, k) /\ ~ Disowned(t, k)
      /\ owner[k] = t
  <2>1. Disowns(t, k)
    BY DisownRoles
  <2>2. Holds(t, k) /\ ~ Disowned(t, k)
    BY DEF CallInv, CallOf, First, Holds, Disowned
  <2>. QED BY <2>1, <2>2 DEF OwnerInv
<1>2. OwnerInv'
  <2>1. \A u \in Txns : Taker(u, k) \/ (Holds(u, k) /\ ~ Disowned(u, k)) => u = t
    BY <1>1 DEF OwnerInv
  <2>2. ~ Taker(t, k)
    BY DEF Taker
  <2>3. ASSUME NEW u \in Txns, NEW l \in Keys, (Taker(u, l) \/ (Holds(u, l) /\ ~ Disowned(u, l)))'
        PROVE  owner'[l] = u
    <3>1. l # k
      BY <1>1, <2>1, <2>2, <2>3 DEF Disowns
    <3>. QED BY <1>1, <2>3, <3>1, Shape DEF OwnerInv, Disowns
  <2>. QED BY <2>3 DEF OwnerInv
<1>3. \A l \in Keys : HandOver(l)' <=> IF l = k THEN KeepsLI(k) ELSE HandOver(l)
  BY Shape DEF HandOver
<1>4. \A l \in Keys : ~ HandOver(l)
  BY DEF LIInv
<1>5. \A u \in Txns : ~ Ending(u)'
  BY Shape DEF LIInv, Ending
<1>6. LIInv'
  BY <1>3, <1>4, <1>5 DEF LIInv, Ending
<1>. QED BY <1>2, <1>6 DEF NeverReleasedTwice, LIInv

\* The lock of the key is not free when finishT releases it.
LEMMA ReleaseKeyBooks ==
  ASSUME TwoPLInv, NeverReleasedTwice, NEW t \in Txns, NEW k \in Keys, ReleaseKey(t, k)
  PROVE  OwnerInv' /\ LIInv' /\ NeverReleasedTwice'
<1>. USE DEF TwoPLInv, LockedInv, ReleaseKey, Release, GoTo
<1>1. Drops(t, k) /\ Holds(t, k)
  BY ReleaseKeyRoles DEF CallInv, CallOf, First, Holds
<1>2. OwnerInv'
  <2>1. \A l \in Keys : Disowned(t, l) => l = k
    BY FirstUnique DEF Disowned
  <2>. QED BY <1>1, <2>1 DEF OwnerInv, Drops
<1>3. LIInv'
  <2>1. LI \in free' <=> LI \in free
    OBVIOUS
  <2>. QED BY <2>1, Shape DEF LIInv, HandOver
<1>. QED BY <1>1, <1>2, <1>3 DEF NeverReleasedTwice, KeyInv

\* TwoPLInv is inductive if takers come first, and such a server never releases
\* a lock that is free.
LEMMA TwoPLNext ==
  ASSUME TakersFirst, TwoPLInv, NeverReleasedTwice, [Next]_vars
  PROVE  TwoPLInv' /\ NeverReleasedTwice'
<1>0. LockedInv'
  BY LockedNext DEF TwoPLInv
<1>1. CASE UNCHANGED vars
  <2>1. SameRoles
    BY <1>1, StutterKeeps DEF TwoPLInv
  <2>. QED BY <1>0, <1>1, <2>1, BooksKept DEF vars, Ending, TwoPLInv
<1>2. ASSUME NEW t \in Txns,
             \/ Begin(t) \/ Commit(t) \/ Abort(t) \/ Access(t) \/ WritesDone(t) \/ Erase(t)
             \/ \E k \in Keys : WriteBack(t, k) \/ \E v \in Values \cup {Read} : Call(t, k, v)
             \/ \E k \in Keys, v \in Values : WriteLocal(t, k, v)
      PROVE  TwoPLInv' /\ NeverReleasedTwice'
  <2>1. SameRoles
    BY <1>2, BeginKeeps, CommitKeeps, AbortKeeps, AccessKeeps, WritesDoneKeeps, EraseKeeps,
       WriteBackKeeps, CallKeeps, WriteLocalKeeps DEF TwoPLInv
  <2>2. UNCHANGED lockVars
    BY <1>2 DEF Begin, Commit, Abort, Access, WritesDone, Erase, WriteBack, Call, WriteLocal
  <2>3. \A u \in Txns : Ending(u)' <=> Ending(u)
    BY <1>2, Shape DEF Begin, Commit, Abort, Access, WritesDone, Erase, WriteBack, Call,
       WriteLocal, GoTo, Idle, Ending, TwoPLInv, LockedInv
  <2>. QED BY <1>0, <2>1, <2>2, <2>3, BooksKept DEF TwoPLInv
<1>3. ASSUME NEW t \in Txns,
             \/ FoundFree(t) \/ FoundDeadlock(t) \/ FoundOwner(t) \/ Taken(t) \/ Followed(t)
             \/ \E k \in Keys : Disown(t, k) \/ ReleaseKey(t, k)
      PROVE  TwoPLInv' /\ NeverReleasedTwice'
  BY <1>0, <1>3, FoundFreeBooks, FoundDeadlockBooks, FoundOwnerBooks, TakenBooks, FollowedBooks,
     DisownBooks, ReleaseKeyBooks DEF TwoPLInv
<1>. QED BY <1>1, <1>2, <1>3, SetsValue DEF Next, Work

\* lockInfos agrees with the lock server, lockInfosLock is taken exactly while
\* it is handed over, and no lock is released that is free.
THEOREM TwoPLInvariant ==
  ASSUME TakersFirst PROVE Spec => [](TwoPLInv /\ NeverReleasedTwice)
<1>1. Init => TwoPLInv /\ NeverReleasedTwice
  BY InitInv DEF Init, NeverReleasedTwice
<1>2. (TwoPLInv /\ NeverReleasedTwice) /\ [Next]_vars => (TwoPLInv /\ NeverReleasedTwice)'
  BY TwoPLNext
<1>. QED BY <1>1, <1>2, PTL DEF Spec

\* In particular finishT and checkAcquire never release lockInfosLock, nor
\* finishT a key, that is free, which would end the process.
THEOREM NeverReleasedTwiceHolds ==
  ASSUME TakersFirst PROVE Spec => []NeverReleasedTwice
BY TwoPLInvariant, PTL

-----------------------------------------------------------------------------
(* No cycle of waiting transactions                                        *)

\* A step that only takes waiting edges away, or adds some that lead to a
\* transaction that does not wait.
LEMMA CycleKept ==
  ASSUME NoWaitCycle,
         \A t, u \in Txns : WaitsFor(t, u)' => WaitsFor(t, u) \/ (at'[u] # "follow")
  PROVE  NoWaitCycle'
<1>. SUFFICES ASSUME NEW S \in (SUBSET Txns) \ {{}}, \A t \in S : \E u \in S : WaitsFor(t, u)'
              PROVE  FALSE
  BY DEF NoWaitCycle
<1>1. \A t \in S : at'[t] = "follow"
  BY DEF WaitsFor, Follower
<1>2. \A t \in S : \E u \in S : WaitsFor(t, u)
  BY <1>1
<1>. QED BY <1>2 DEF NoWaitCycle

\* The follower that checkAcquire adds closes no cycle: whoever waits for it is
\* in a set that the owner of the key is not in.
LEMMA FoundOwnerCycle ==
  ASSUME TwoPLInv, NoWaitCycle, NEW t \in Txns, FoundOwner(t)
  PROVE  NoWaitCycle'
<1>. USE DEF TwoPLInv, LockedInv, FoundOwner, GoTo
<1>. DEFINE k == want[t].key
            o == owner[k]
<1>1. BecomesFollower(t) /\ k \in Keys /\ o \in DOMAIN tMap /\ t \in DOMAIN tMap
  BY FoundOwnerRoles, Shape DEF CallInv, CallOf
<1>2. PICK S \in SUBSET DOMAIN tMap :
        /\ t \in S /\ o \notin S
        /\ \A u \in S, w \in DOMAIN tMap : Follows(w, u) => w \in S
  BY DEF HasPath
<1>. SUFFICES ASSUME NEW C \in (SUBSET Txns) \ {{}}, \A u \in C : \E w \in C : WaitsFor(u, w)'
              PROVE  FALSE
  BY DEF NoWaitCycle
<1>3. \A u \in C : at'[u] = "follow"
  BY DEF WaitsFor, Follower
<1>4. \A u, w \in Txns : WaitsFor(u, w)' => WaitsFor(u, w) \/ (u = t /\ Holds(w, k))
  BY <1>1 DEF WaitsFor, BecomesFollower
<1>5. \A w \in C : Holds(w, k) => w = o
  BY <1>1, <1>3, Shape DEF OwnerInv, Disowned
<1>6. \A u \in C \ S : \E w \in C \ S : WaitsFor(u, w)
  <2>. SUFFICES ASSUME NEW u \in C \ S PROVE \E w \in C \ S : WaitsFor(u, w)
    OBVIOUS
  <2>1. PICK w \in C : WaitsFor(u, w)
    BY <1>2, <1>4
  <2>2. PICK l \in Keys : Follower(u, l) /\ Holds(w, l)
    BY <2>1 DEF WaitsFor
  <2>3. at[w] # "have" /\ w \in DOMAIN tMap
    BY <1>3, <2>2, Shape DEF Holds
  <2>4. l \in DOMAIN tMap[w] /\ u \in followers[l] /\ u \in DOMAIN tMap
    <3>1. l \in DOMAIN tMap[w]
      BY <2>2, <2>3 DEF Holds
    <3>2. u \in followers[l]
      BY <2>2 DEF KeyInv
    <3>3. u \in DOMAIN tMap
      BY <2>2 DEF Follower, CallInv, CallOf
    <3>. QED BY <3>1, <3>2, <3>3
  <2>5. w \notin S
    BY <1>2, <2>3, <2>4 DEF Follows
  <2>. QED BY <2>1, <2>5
<1>7. C \ S = {}
  BY <1>6 DEF NoWaitCycle
<1>8. CASE t \in C
  <2>1. PICK w \in C : WaitsFor(t, w)'
    BY <1>8
  <2>2. ~ WaitsFor(t, w)
    BY DEF WaitsFor, Follower
  <2>. QED BY <1>2, <1>4, <1>5, <1>7, <2>1, <2>2
<1>9. CASE t \notin C
  BY <1>4, <1>9 DEF NoWaitCycle
<1>. QED BY <1>8, <1>9

\* No step closes a cycle of transactions that wait for each other.
LEMMA CycleNext ==
  ASSUME TwoPLInv, NoWaitCycle, [Next]_vars PROVE NoWaitCycle'
<1>. USE DEF TwoPLInv
<1>1. CASE UNCHANGED vars
  BY <1>1, StutterKeeps, CycleKept DEF SameRoles, WaitsFor
<1>2. ASSUME NEW t \in Txns,
             \/ Begin(t) \/ Commit(t) \/ Abort(t) \/ Access(t) \/ WritesDone(t) \/ Erase(t)
             \/ FoundDeadlock(t)
             \/ \E k \in Keys : WriteBack(t, k) \/ \E v \in Values \cup {Read} : Call(t, k, v)
             \/ \E k \in Keys, v \in Values : WriteLocal(t, k, v)
      PROVE  NoWaitCycle'
  <2>1. SameRoles
    BY <1>2, BeginKeeps, CommitKeeps, AbortKeeps, AccessKeeps, WritesDoneKeeps, EraseKeeps,
       WriteBackKeeps, CallKeeps, WriteLocalKeeps, FoundDeadlockKeeps
  <2>. QED BY <2>1, CycleKept DEF SameRoles, WaitsFor
<1>3. ASSUME NEW t \in Txns, FoundFree(t) PROVE NoWaitCycle'
  <2>1. BecomesTaker(t)
    BY <1>3, FoundFreeRoles
  <2>. QED BY <2>1, CycleKept DEF BecomesTaker, WaitsFor
<1>4. ASSUME NEW t \in Txns, Taken(t) PROVE NoWaitCycle'
  <2>1. TakerHolds(t) /\ at'[t] # "follow"
    BY <1>4, TakenRoles, Shape DEF Taken, GoTo, LockedInv
  <2>. QED BY <2>1, CycleKept DEF TakerHolds, WaitsFor
<1>5. ASSUME NEW t \in Txns, Followed(t) PROVE NoWaitCycle'
  <2>1. FollowerHolds(t) /\ at'[t] # "follow"
    BY <1>5, FollowedRoles, Shape DEF Followed, GoTo, LockedInv
  <2>. QED BY <2>1, CycleKept DEF FollowerHolds, WaitsFor
<1>6. ASSUME NEW t \in Txns, NEW k \in Keys, Disown(t, k) PROVE NoWaitCycle'
  <2>1. Disowns(t, k)
    BY <1>6, DisownRoles
  <2>. QED BY <2>1, CycleKept DEF Disowns, WaitsFor
<1>7. ASSUME NEW t \in Txns, NEW k \in Keys, ReleaseKey(t, k) PROVE NoWaitCycle'
  <2>1. Drops(t, k)
    BY <1>7, ReleaseKeyRoles
  <2>. QED BY <2>1, CycleKept DEF Drops, WaitsFor
<1>. QED BY <1>1, <1>2, <1>3, <1>4, <1>5, <1>6, <1>7, FoundOwnerCycle, SetsValue DEF Next, Work

\* No transactions wait for one another in a cycle: hasPath, asked before each
\* of them waits, finds the cycle before it closes.
THEOREM NoWaitCycleHolds == ASSUME TakersFirst PROVE Spec => []NoWaitCycle
<1>1. Init => NoWaitCycle
  BY DEF Init, NoWaitCycle, WaitsFor, Follower
<1>2. TwoPLInv /\ NoWaitCycle /\ [Next]_vars => NoWaitCycle'
  BY CycleNext
<1>. QED BY <1>1, <1>2, TwoPLInvariant, PTL DEF Spec

-----------------------------------------------------------------------------
(* The committed transactions are serializable                             *)

\* The server starts as the abstract database does.
LEMMA SerialInit == Init => Serial!Init
<1>. SUFFICES ASSUME Init PROVE Serial!Init
  OBVIOUS
<1>. USE DEF Init
<1>1. Database = [k \in Keys |-> Empty]
  BY DEF Database, Writing
<1>2. Status = [t \in Txns |-> "new"]
  BY DEF Status
<1>3. Told = [t \in Txns |-> <<>>] /\ HasSet = [t \in Txns |-> <<>>]
  BY DEF Told, HasSet, Running
<1>. QED BY <1>1, <1>2, <1>3 DEF Serial!Init

\* Steps of the server that the abstract database does not see.
LEMMA SerialStutter ==
  ASSUME UNCHANGED <<tMap, got, outcome>>, Database' = Database
  PROVE  UNCHANGED Serial!vars
BY DEF Serial!vars, Status, Told, HasSet, Running, Set

\* finishT is over: the abstract transaction had ended before.
LEMMA SerialErase ==
  ASSUME LockedInv, NEW t \in Txns, Erase(t) PROVE UNCHANGED Serial!vars
<1>. USE DEF LockedInv, Erase
<1>1. /\ outcome[t] # "none" /\ DOMAIN tMap' = DOMAIN tMap \ {t}
      /\ \A u \in DOMAIN tMap' : tMap'[u] = tMap[u]
      /\ \A u \in Txns \ {t} : got'[u] = got[u]
  BY Shape DEF CallInv, CallOf, Restrict
<1>2. Database' = Database
  BY EraseKeeps, DatabaseKept
<1>3. outcome[t] \in {"OK", "ABORT"}
  BY <1>1 DEF TypeOK
<1>4. Status' = Status
  BY <1>1, <1>3 DEF Status
<1>5. \A u \in Txns : Running(u)' <=> Running(u)
  BY <1>1 DEF Running
<1>6. Told' = Told
  BY <1>1, <1>5 DEF Told, Running
<1>7. HasSet' = HasSet
  <2>1. \A u \in Txns : Running(u) => tMap'[u] = tMap[u] /\ got'[u] = got[u]
    BY <1>1 DEF Running
  <2>2. ASSUME NEW u \in Txns PROVE HasSet'[u] = HasSet[u]
    <3>1. CASE Running(u)
      <4>1. Set(u)' = Set(u)
        BY <2>1, <3>1 DEF Set
      <4>. QED BY <1>5, <2>1, <3>1, <4>1 DEF HasSet
    <3>2. CASE ~ Running(u)
      BY <1>5, <3>2 DEF HasSet
    <3>. QED BY <3>1, <3>2
  <2>. QED BY <2>2 DEF HasSet
<1>. QED BY <1>2, <1>4, <1>6, <1>7 DEF Serial!vars

\* transaction_begin begins the abstract transaction.
LEMMA SerialBegin ==
  ASSUME LockedInv, NEW t \in Txns, Begin(t) PROVE Serial!Begin(t)
<1>. USE DEF LockedInv, Begin, lockVars
<1>1. /\ DOMAIN tMap' = DOMAIN tMap \cup {t} /\ tMap'[t] = <<>>
      /\ \A u \in DOMAIN tMap : tMap'[u] = tMap[u]
  BY DEF Extend
<1>2. Database' = Database
  BY BeginKeeps, DatabaseKept
<1>3. Status[t] = "new" /\ Status' = [Status EXCEPT ![t] = "running"]
  BY <1>1, Shape DEF Status
<1>4. got[t] = <<>> /\ \A u \in Txns \ {t} : Running(u)' <=> Running(u)
  BY <1>1 DEF CallInv, CallOf, Running
<1>5. Told' = Told
  BY <1>4 DEF Told, Running
<1>6. HasSet' = HasSet
  <2>1. ASSUME NEW u \in Txns PROVE HasSet'[u] = HasSet[u]
    <3>1. CASE u = t
      BY <1>1, <3>1 DEF HasSet, Running, Set
    <3>2. CASE u # t
      BY <1>1, <1>4, <3>2 DEF HasSet, Running, Set
    <3>. QED BY <3>1, <3>2
  <2>. QED BY <2>1 DEF HasSet
<1>. QED BY <1>2, <1>3, <1>5, <1>6 DEF Serial!Begin

\* Setting a key that is locked sets it in the abstract transaction, or
\* changes nothing if it has that value.
LEMMA SerialPut ==
  ASSUME LockedInv, NEW t \in Txns, NEW k \in Keys, NEW v \in Values, WriteLocal(t, k, v)
  PROVE  Serial!Put(t, k, v)
<1>. USE DEF LockedInv, WriteLocal, lockVars, Idle, Overwrite
<1>1. /\ t \in DOMAIN tMap /\ DOMAIN tMap' = DOMAIN tMap /\ DOMAIN tMap'[t] = DOMAIN tMap[t]
      /\ tMap'[t] = Extend(tMap[t], k, [val |-> v, status |-> "WRITE"])
      /\ \A u \in DOMAIN tMap : u # t => tMap'[u] = tMap[u]
  BY DEF SetEntry, Extend
<1>2. Database' = Database
  BY WriteLocalKeeps, DatabaseKept
<1>3. Status[t] = "running" /\ Status' = Status
  BY <1>1 DEF Status
<1>4. Told' = Told
  BY <1>1 DEF Told, Running
<1>5. HasSet' = [HasSet EXCEPT ![t] = Serial!Extend(@, k, v)]
  <2>1. Set(t)' = Set(t) \cup {k}
    BY <1>1 DEF Set, Extend
  <2>2. \A l \in Set(t) \cup {k} : tMap'[t][l].val = IF l = k THEN v ELSE tMap[t][l].val
    BY <1>1 DEF Set, Extend
  <2>3. HasSet'[t] = Serial!Extend(HasSet[t], k, v)
    BY <1>1, <2>1, <2>2 DEF HasSet, Running, Serial!Extend
  <2>4. ASSUME NEW u \in Txns, u # t PROVE HasSet'[u] = HasSet[u]
    BY <1>1, <2>4 DEF HasSet, Running, Set
  <2>. QED BY <2>3, <2>4 DEF HasSet
<1>. QED BY <1>2, <1>3, <1>4, <1>5 DEF Serial!Put

\* Getting a new key reads the abstract database and setting one sets it.
LEMMA SerialAccess ==
  ASSUME LockedInv, NEW t \in Txns, Access(t)
  PROVE  \E k \in Keys, v \in Values : Serial!Get(t, k, v) \/ Serial!Put(t, k, v)
<1>. DEFINE k == want[t].key
            v == want[t].val
<1>. USE DEF LockedInv, Access, GoTo, lockVars
<1>0. /\ t \in DOMAIN tMap /\ k \in Keys /\ k \notin DOMAIN tMap[t] /\ outcome[t] = "none"
      /\ k \notin DOMAIN got[t] /\ k \notin Set(t)
  BY Shape DEF CallInv, CallOf, Set
<1>1. Database' = Database
  BY AccessKeeps, DatabaseKept
<1>2. DOMAIN tMap' = DOMAIN tMap /\ \A u \in DOMAIN tMap : u # t => tMap'[u] = tMap[u]
  BY <1>0 DEF SetEntry
<1>3. Status[t] = "running" /\ Status' = Status
  BY <1>0, <1>2 DEF Status
<1>4. Running(t) /\ \A u \in Txns : Running(u)' <=> Running(u)
  BY <1>0, <1>2 DEF Running
<1>5. CASE v = Read
  <2>1. /\ tMap'[t] = Extend(tMap[t], k, [val |-> stored[k], status |-> "READ"])
        /\ got' = [got EXCEPT ![t] = Extend(@, k, stored[k])]
    BY <1>0, <1>5 DEF SetEntry
  <2>2. stored[k] \in Values
    BY <1>0 DEF TypeOK
  <2>3. Told' = [Told EXCEPT ![t] = Serial!Extend(@, k, stored[k])]
    <3>1. Told'[t] = Serial!Extend(Told[t], k, stored[k])
      BY <1>0, <1>4, <2>1, Shape DEF Told, Extend, Serial!Extend
    <3>2. ASSUME NEW u \in Txns, u # t PROVE Told'[u] = Told[u]
      BY <1>4, <2>1, <3>2, Shape DEF Told
    <3>. QED BY <3>1, <3>2 DEF Told
  <2>4. HasSet' = HasSet
    <3>1. Set(t)' = Set(t)
      BY <1>0, <2>1, Shape DEF Set, Extend
    <3>2. \A l \in Set(t) : tMap'[t][l] = tMap[t][l]
      BY <1>0, <2>1 DEF Set, Extend
    <3>3. HasSet'[t] = HasSet[t]
      BY <1>4, <3>1, <3>2 DEF HasSet
    <3>4. ASSUME NEW u \in Txns, u # t PROVE HasSet'[u] = HasSet[u]
      BY <1>2, <1>4, <2>1, <3>4, Shape DEF HasSet, Set, Running
    <3>. QED BY <3>3, <3>4 DEF HasSet
  <2>5. k \notin DOMAIN Told[t] \cup DOMAIN HasSet[t]
    BY <1>0, <1>4 DEF Told, HasSet
  <2>6. Serial!Get(t, k, stored[k])
    BY <1>1, <1>3, <2>3, <2>4, <2>5 DEF Serial!Get
  <2>. QED BY <1>0, <2>2, <2>6
<1>6. CASE v # Read
  <2>1. tMap'[t] = Extend(tMap[t], k, [val |-> v, status |-> "WRITE"]) /\ got' = got
    BY <1>0, <1>6 DEF SetEntry
  <2>2. v \in Values
    BY <1>6 DEF TypeOK
  <2>3. Told' = Told
    BY <1>4, <2>1 DEF Told
  <2>4. HasSet' = [HasSet EXCEPT ![t] = Serial!Extend(@, k, v)]
    <3>1. Set(t)' = Set(t) \cup {k}
      BY <1>0, <2>1 DEF Set, Extend
    <3>2. \A l \in Set(t) \cup {k} : tMap'[t][l].val = IF l = k THEN v ELSE tMap[t][l].val
      BY <1>0, <2>1 DEF Set, Extend
    <3>3. HasSet'[t] = Serial!Extend(HasSet[t], k, v)
      BY <1>4, <3>1, <3>2 DEF HasSet, Serial!Extend
    <3>4. ASSUME NEW u \in Txns, u # t PROVE HasSet'[u] = HasSet[u]
      BY <1>2, <1>4, <2>1, <3>4 DEF HasSet, Set, Running
    <3>. QED BY <3>3, <3>4 DEF HasSet
  <2>5. Serial!Put(t, k, v)
    BY <1>1, <1>3, <2>3, <2>4 DEF Serial!Put
  <2>. QED BY <1>0, <2>2, <2>5
<1>. QED BY <1>5, <1>6

\* What a client has set is what its transaction writes.
LEMMA SetIsWritten ==
  ASSUME LockedInv, NEW t \in Txns, Idle(t) PROVE Set(t) = Written(t)
<1>. USE DEF LockedInv, Idle
<1>1. tMap[t] \in Partial(Keys, Entries)
  BY DEF TypeOK
<1>2. \A k \in DOMAIN tMap[t] : tMap[t][k] \in Entries
  BY <1>1, PartialType
<1>3. \A k \in DOMAIN tMap[t] :
        tMap[t][k].status = "READ" => k \in DOMAIN got[t] /\ got[t][k] = tMap[t][k].val
  BY DEF CallInv, CallOf
<1>. QED BY <1>2, <1>3 DEF Set, Written, Entries

\* The abstract transaction ends.
LEMMA SerialEnd ==
  ASSUME LockedInv, NEW t \in Txns, t \in DOMAIN tMap, outcome[t] = "none",
         NEW how \in {"OK", "ABORT"}, outcome' = [outcome EXCEPT ![t] = how],
         UNCHANGED <<tMap, got>>
  PROVE  Serial!End(t, IF how = "OK" THEN "committed" ELSE "aborted")
<1>. USE DEF LockedInv
<1>1. /\ Status[t] = "running"
      /\ Status' = [Status EXCEPT ![t] = IF how = "OK" THEN "committed" ELSE "aborted"]
  BY Shape DEF Status
<1>2. ~ Running(t)' /\ \A u \in Txns \ {t} : Running(u)' <=> Running(u)
  BY Shape DEF Running
<1>3. Told' = [Told EXCEPT ![t] = <<>>] /\ HasSet' = [HasSet EXCEPT ![t] = <<>>]
  BY <1>2 DEF Told, HasSet, Set
<1>. QED BY <1>1, <1>3 DEF Serial!End

\* The abstract transaction commits when the server starts to write: what it
\* has read is what the database then holds.
LEMMA SerialCommit ==
  ASSUME LockedInv, NEW t \in Txns, Commit(t) PROVE Serial!Commit(t)
<1>. USE DEF LockedInv, Commit, Idle
<1>1. Running(t)
  BY DEF Running
<1>2. \A k \in DOMAIN Told[t] : Told[t][k] = Database[k]
  BY <1>1 DEF Told, ReadsStable
<1>3. Serial!End(t, "committed")
  BY SerialEnd
<1>4. Database' = [k \in Keys |-> IF k \in DOMAIN HasSet[t] THEN HasSet[t][k] ELSE Database[k]]
  <2>1. DOMAIN HasSet[t] = Written(t) /\ \A k \in Written(t) : HasSet[t][k] = tMap[t][k].val
    BY <1>1, SetIsWritten DEF HasSet
  <2>2. Database' = [k \in Keys |-> IF k \in Written(t) THEN tMap[t][k].val ELSE Database[k]]
    BY CommitKeeps
  <2>. HIDE DEF LockedInv, Commit, Idle
  <2>. QED BY <2>1, <2>2
<1>. QED BY <1>2, <1>3, <1>4 DEF Serial!Commit

\* transaction_abort, or a deadlock, ends the abstract transaction.
LEMMA SerialAbort ==
  ASSUME LockedInv, NEW t \in Txns, Abort(t) \/ FoundDeadlock(t) PROVE Serial!Abort(t)
<1>. USE DEF LockedInv
<1>1. t \in DOMAIN tMap /\ outcome[t] = "none"
  BY DEF Abort, Idle, FoundDeadlock, CallInv, CallOf
<1>2. Serial!End(t, "aborted")
  BY <1>1, SerialEnd DEF Abort, FoundDeadlock, lockVars
<1>3. Database' = Database
  BY AbortKeeps, FoundDeadlockKeeps, DatabaseKept
<1>. QED BY <1>2, <1>3 DEF Serial!Abort

\* Every step of the server is a step of the abstract database or none.
LEMMA SerialNext == LockedInv /\ [Next]_vars => [Serial!Next]_Serial!vars
<1>. SUFFICES ASSUME LockedInv, [Next]_vars PROVE [Serial!Next]_Serial!vars
  OBVIOUS
<1>. USE DEF LockedInv
<1>1. CASE UNCHANGED vars
  BY <1>1, StutterKeeps, DatabaseKept, SerialStutter DEF vars
<1>2. ASSUME NEW t \in Txns, \/ FoundFree(t) \/ FoundOwner(t) \/ Taken(t) \/ Followed(t)
                             \/ WritesDone(t)
      PROVE  UNCHANGED Serial!vars
  <2>1. SameWrites /\ CallInv' /\ KeyInv'
    BY <1>2, FoundFreeKeeps, FoundOwnerKeeps, TakenKeeps, FollowedKeeps, WritesDoneKeeps
  <2>2. UNCHANGED <<tMap, got, outcome>>
    BY <1>2 DEF FoundFree, FoundOwner, Taken, Followed, WritesDone
  <2>. QED BY <2>1, <2>2, DatabaseKept, SerialStutter
<1>3. ASSUME NEW t \in Txns, NEW k \in Keys,
             Disown(t, k) \/ ReleaseKey(t, k) \/ \E v \in Values \cup {Read} : Call(t, k, v)
      PROVE  UNCHANGED Serial!vars
  <2>1. SameWrites /\ CallInv' /\ KeyInv'
    BY <1>3, DisownKeeps, ReleaseKeyKeeps, CallKeeps
  <2>2. UNCHANGED <<tMap, got, outcome>>
    BY <1>3 DEF Disown, ReleaseKey, Call
  <2>. QED BY <2>1, <2>2, DatabaseKept, SerialStutter
<1>4. ASSUME NEW t \in Txns, NEW k \in Keys, WriteBack(t, k) PROVE UNCHANGED Serial!vars
  BY <1>4, WriteBackKeeps, SerialStutter DEF WriteBack
<1>5. ASSUME NEW t \in Txns, Begin(t) \/ Commit(t) \/ Abort(t) \/ FoundDeadlock(t) \/ Access(t)
      PROVE  Serial!Next
  BY <1>5, SerialBegin, SerialCommit, SerialAbort, SerialAccess DEF Serial!Next
<1>6. ASSUME NEW t \in Txns, NEW k \in Keys, NEW v \in Values, WriteLocal(t, k, v)
      PROVE  Serial!Next
  BY <1>6, SerialPut DEF Serial!Next
<1>7. ASSUME NEW t \in Txns, Erase(t) PROVE UNCHANGED Serial!vars
  BY <1>7, SerialErase
<1>. QED BY <1>1, <1>2, <1>3, <1>4, <1>5, <1>6, <1>7, SetsValue DEF Next, Work

\* Transactions that commit are serializable in the order of their commits,
\* in whatever order the lock server serves waiters.
THEOREM Serializable == Spec => ImplementsSerialSpec
BY SerialInit, SerialNext, LockedInvariant, PTL DEF Spec, ImplementsSerialSpec, Serial!Spec
=============================================================================
