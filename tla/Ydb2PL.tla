------------------------------- MODULE Ydb2PL -------------------------------
(***************************************************************************)
(* The ydb server with two-phase locking (lab3/ydb_server_2pl.cc) on top   *)
(* of the lock server (lab3/lock_server.cc) and an extent server that keeps*)
(* what is put.  del is not in the model: the extent server does not keep  *)
(* that a file was removed (see YdbOCC).                                   *)
(*                                                                         *)
(* The whole server process is one client of the lock server: any thread   *)
(* may release what another one acquired, and the server uses that to hand *)
(* lockInfosLock (here LI) from the transaction that ends to one that      *)
(* follows it.  A release of a lock that is free fails and ends the        *)
(* process (VERIFY in lock_client).  The lock of tMap guards single        *)
(* accesses, so it is not a variable; a call on a key the transaction has  *)
(* already is one step, and a get of such a key changes nothing at all.    *)
(* A client makes one call at a time; the thread pools are large enough.   *)
(***************************************************************************)
EXTENDS Naturals, Functions, PartialMaps

CONSTANTS
  Keys,           \* keys; hash() makes inode numbers and lock ids of them
  Txns,           \* transactions
  Values,         \* values of keys, the empty one included
  Empty,          \* the value of a key that was never set
  None,           \* tMap.end(), the owner of a lock nobody has
  LI,             \* lockInfosLock
  Read,           \* what a get asks for, in place of a value to set
  Program,        \* the <<t, k, v>> such that transaction t may set k to v, or
                  \* get k if v is Read
  TakersFirst     \* the lock server prefers who found the lock without owner

ASSUME FlagAssumption == TakersFirst \in BOOLEAN
ASSUME ProgramAssumption ==
  Program \subseteq Txns \X Keys \X ((Values \ {Empty}) \cup {Read})
ASSUME KeysAssumption == Keys \subseteq Nat /\ Keys # {}
ASSUME NamesAssumption ==
  Empty \in Values /\ Read \notin Values /\ None \notin Txns /\ LI \notin Keys

VARIABLES
  stored,         \* what the extent server has for each key
  tMap,           \* the transactions, with the keys they have locked
  owner,          \* LockInfo::owner of each key
  followers,      \* LockInfo::followers of each key
  free,           \* locks of the lock server that are free
  at,             \* where the call of a transaction is
  want,           \* key and value of that call
  todo,           \* keys that it has yet to write, or to release
  got,            \* what clients were told of keys they had not set
  outcome,        \* how a transaction ends
  crashed         \* a lock was released that was free

lockVars == <<owner, followers, free, crashed>>
vars == <<stored, lockVars, tMap, at, want, todo, got, outcome>>

Entries == [val : Values, status : {"READ", "WRITE"}]

TypeOK ==
  /\ stored \in [Keys -> Values]
  /\ DOMAIN tMap \subseteq Txns
  /\ \A t \in DOMAIN tMap : tMap[t] \in Partial(Keys, Entries)
  /\ owner \in [Keys -> DOMAIN tMap \cup {None}]
  /\ followers \in [Keys -> SUBSET DOMAIN tMap]
  /\ free \subseteq Keys \cup {LI}
  /\ at \in [Txns -> {"idle", "check", "take", "follow", "have",
                      "write", "finish", "finish with LI", "release"}]
  /\ want \in [Txns -> [key : Keys, val : Values \cup {Read}]]
  /\ todo \in [Txns -> SUBSET Keys]
  /\ got \in [Txns -> Partial(Keys, Values)]
  /\ outcome \in [Txns -> {"none", "OK", "ABORT"}]
  /\ crashed \in BOOLEAN

NoCall == [key |-> CHOOSE k \in Keys : TRUE, val |-> Read]

Init ==
  /\ stored = [k \in Keys |-> Empty]
  /\ tMap = <<>>
  /\ owner = [k \in Keys |-> None] /\ followers = [k \in Keys |-> {}]
  /\ free = Keys \cup {LI} /\ crashed = FALSE
  /\ at = [t \in Txns |-> "idle"] /\ want = [t \in Txns |-> NoCall]
  /\ todo = [t \in Txns |-> {}]
  /\ got = [t \in Txns |-> <<>>]
  /\ outcome = [t \in Txns |-> "none"]

-----------------------------------------------------------------------------
\* lc->release of a lock, which another thread may have taken.
Release(l) == free' = free \cup {l} /\ crashed' = (crashed \/ l \in free)

GoTo(t, place) == at' = [at EXCEPT ![t] = place]
SetEntry(t, k, e) == tMap' = [tMap EXCEPT ![t] = Extend(@, k, e)]

Idle(t) == t \in DOMAIN tMap /\ at[t] = "idle" /\ outcome[t] = "none"

\* transaction_begin
Begin(t) ==
  /\ t \notin DOMAIN tMap /\ outcome[t] = "none"
  /\ tMap' = Extend(tMap, t, <<>>)
  /\ UNCHANGED <<stored, lockVars, at, want, todo, got, outcome>>

\* write of a key that is locked; the mutant leaves the status alone.
MutantOverwrite(e, v) == [e EXCEPT !.val = v]
Overwrite(e, v) == [val |-> v, status |-> "WRITE"]
WriteLocal(t, k, v) ==
  /\ Idle(t) /\ k \in DOMAIN tMap[t] /\ v # Read
  /\ SetEntry(t, k, Overwrite(tMap[t][k], v))
  /\ UNCHANGED <<stored, lockVars, at, want, todo, got, outcome>>

\* get or write of another key calls checkAcquire.
Call(t, k, v) ==
  /\ Idle(t) /\ k \notin DOMAIN tMap[t]
  /\ want' = [want EXCEPT ![t] = [key |-> k, val |-> v]]
  /\ GoTo(t, "check")
  /\ UNCHANGED <<stored, lockVars, tMap, todo, got, outcome>>

\* hasPath: end is in every set that has start in it and, with a transaction,
\* those that follow it on a key.  The mutant looks one step far.
Follows(u, t) == \E k \in DOMAIN tMap[t] : u \in followers[k]
MutantHasPath(start, end) == start = end \/ Follows(end, start)
HasPath(start, end) ==
  \A S \in SUBSET DOMAIN tMap :
    start \in S /\ (\A t \in S, u \in DOMAIN tMap : Follows(u, t) => u \in S) => end \in S

\* checkAcquire, with LI: nobody owns the key, ...
FoundFree(t) ==
  /\ at[t] = "check" /\ LI \in free
  /\ owner[want[t].key] = None
  /\ owner' = [owner EXCEPT ![want[t].key] = t]
  /\ GoTo(t, "take")
  /\ UNCHANGED <<stored, followers, free, crashed, tMap, want, todo, got, outcome>>

\* ... or its owner waits for this transaction, which then ends with LI, ...
FoundDeadlock(t) ==
  LET o == owner[want[t].key] IN
  /\ at[t] = "check" /\ LI \in free
  /\ o # None /\ HasPath(t, o)
  /\ free' = free \ {LI}
  /\ GoTo(t, "finish with LI")
  /\ todo' = [todo EXCEPT ![t] = DOMAIN tMap[t]]
  /\ outcome' = [outcome EXCEPT ![t] = "ABORT"]
  /\ UNCHANGED <<stored, owner, followers, crashed, tMap, want, got>>

\* ... or not.
FoundOwner(t) ==
  LET o == owner[want[t].key] IN
  /\ at[t] = "check" /\ LI \in free
  /\ o # None /\ ~ HasPath(t, o)
  /\ followers' = [followers EXCEPT ![want[t].key] = @ \cup {t}]
  /\ GoTo(t, "follow")
  /\ UNCHANGED <<stored, owner, free, crashed, tMap, want, todo, got, outcome>>

\* lc->acquire of who found the key without an owner
Taken(t) ==
  /\ at[t] = "take" /\ want[t].key \in free
  /\ free' = free \ {want[t].key}
  /\ GoTo(t, "have")
  /\ UNCHANGED <<stored, owner, followers, crashed, tMap, want, todo, got, outcome>>

\* lc->acquire of a follower, who then has LI from the thread that released
\* the key, becomes the owner and releases LI.
Followed(t) ==
  LET k == want[t].key IN
  /\ at[t] = "follow" /\ k \in free
  /\ TakersFirst => \A u \in Txns : at[u] = "take" => want[u].key # k
  /\ owner' = [owner EXCEPT ![k] = t]
  /\ followers' = [followers EXCEPT ![k] = @ \ {t}]
  /\ free' = (free \ {k}) \cup {LI} /\ crashed' = (crashed \/ LI \in free)
  /\ GoTo(t, "have")
  /\ UNCHANGED <<stored, tMap, want, todo, got, outcome>>

\* The rest of get or write, with the key.
Access(t) ==
  LET k == want[t].key
      read == want[t].val = Read IN
  /\ at[t] = "have"
  /\ IF read THEN /\ SetEntry(t, k, [val |-> stored[k], status |-> "READ"])
                  /\ got' = [got EXCEPT ![t] = Extend(@, k, stored[k])]
             ELSE /\ SetEntry(t, k, [val |-> want[t].val, status |-> "WRITE"])
                  /\ UNCHANGED got
  /\ GoTo(t, "idle")
  /\ want' = [want EXCEPT ![t] = NoCall]
  /\ UNCHANGED <<stored, lockVars, todo, outcome>>

\* transaction_commit writes one key after the other, in the order of the map,
Written(t) == {k \in DOMAIN tMap[t] : tMap[t][k].status = "WRITE"}
Commit(t) ==
  /\ Idle(t)
  /\ GoTo(t, "write")
  /\ todo' = [todo EXCEPT ![t] = Written(t)]
  /\ outcome' = [outcome EXCEPT ![t] = "OK"]
  /\ UNCHANGED <<stored, lockVars, tMap, want, got>>

First(t, k) == k \in todo[t] /\ \A l \in todo[t] : k <= l
WriteBack(t, k) ==
  /\ at[t] = "write" /\ First(t, k)
  /\ stored' = [stored EXCEPT ![k] = tMap[t][k].val]
  /\ todo' = [todo EXCEPT ![t] = @ \ {k}]
  /\ UNCHANGED <<lockVars, tMap, at, want, got, outcome>>

\* and calls finishT,
WritesDone(t) ==
  /\ at[t] = "write" /\ todo[t] = {}
  /\ GoTo(t, "finish")
  /\ todo' = [todo EXCEPT ![t] = DOMAIN tMap[t]]
  /\ UNCHANGED <<stored, lockVars, tMap, want, got, outcome>>

\* as transaction_abort does at once.
Abort(t) ==
  /\ Idle(t)
  /\ GoTo(t, "finish")
  /\ todo' = [todo EXCEPT ![t] = DOMAIN tMap[t]]
  /\ outcome' = [outcome EXCEPT ![t] = "ABORT"]
  /\ UNCHANGED <<stored, lockVars, tMap, want, got>>

\* finishT, for one key: the owner goes; LI stays taken if somebody follows.
\* The mutant always releases LI.
MutantKeepsLI(k) == FALSE
KeepsLI(k) == followers[k] # {}
Disown(t, k) ==
  /\ First(t, k)
  /\ \/ at[t] = "finish with LI"
     \/ at[t] = "finish" /\ LI \in free
  /\ owner' = [owner EXCEPT ![k] = None]
  /\ free' = IF KeepsLI(k) THEN free \ {LI} ELSE free \cup {LI}
  /\ crashed' = (crashed \/ (at[t] # "finish" /\ ~ KeepsLI(k) /\ LI \in free))
  /\ GoTo(t, "release")
  /\ UNCHANGED <<stored, followers, tMap, want, todo, got, outcome>>

ReleaseKey(t, k) ==
  /\ at[t] = "release" /\ First(t, k)
  /\ Release(k)
  /\ todo' = [todo EXCEPT ![t] = @ \ {k}]
  /\ GoTo(t, "finish")
  /\ UNCHANGED <<stored, owner, followers, tMap, want, got, outcome>>

\* finishT ends the transaction, and the client gets its answer.
Erase(t) ==
  /\ at[t] = "finish" /\ todo[t] = {}
  /\ tMap' = Restrict(tMap, DOMAIN tMap \ {t})
  /\ got' = [got EXCEPT ![t] = <<>>]
  /\ GoTo(t, "idle")
  /\ want' = [want EXCEPT ![t] = NoCall]
  /\ UNCHANGED <<stored, lockVars, todo, outcome>>

\* What the thread of a call does by itself.
Work(t) ==
  \/ FoundFree(t) \/ FoundDeadlock(t) \/ FoundOwner(t) \/ Taken(t) \/ Followed(t)
  \/ Access(t) \/ WritesDone(t) \/ Erase(t)
  \/ \E k \in Keys : WriteBack(t, k) \/ Disown(t, k) \/ ReleaseKey(t, k)

Next ==
  \E t \in Txns :
    \/ Begin(t) \/ Commit(t) \/ Abort(t) \/ Work(t)
    \/ \E k \in Keys, v \in Values \cup {Read} :
         /\ <<t, k, v>> \in Program
         /\ Call(t, k, v) \/ WriteLocal(t, k, v)

Spec == Init /\ [][Next]_vars

\* Threads of the server run and a lock that is free is given to somebody who
\* waits; a client ends the transaction that it has begun.
Fairness == \A t \in Txns : WF_vars(Work(t)) /\ WF_vars(Commit(t))

FairSpec == Spec /\ Fairness

-----------------------------------------------------------------------------
(* Properties                                                              *)

\* t holds the lock of k at the lock server.
Holds(t, k) ==
  /\ t \in DOMAIN tMap
  /\ \/ k \in DOMAIN tMap[t] /\ (at[t] \in {"finish", "finish with LI", "release"} => k \in todo[t])
     \/ at[t] = "have" /\ k = want[t].key

Disowned(t, k) == at[t] = "release" /\ First(t, k)

\* t found k without an owner, or follows its owner, and waits for the lock.
Taker(t, k) == at[t] = "take" /\ want[t].key = k
Follower(t, k) == at[t] = "follow" /\ want[t].key = k

\* What is known of a transaction from the place of its call: a key it waits
\* for is new to it, what it has yet to write or to release is its own, and what
\* it has read and not set is as its client was told.
CallOf(t) ==
  /\ t \notin DOMAIN tMap => at[t] = "idle" /\ got[t] = <<>>
  /\ t \in DOMAIN tMap =>
       /\ outcome[t] = "none" <=> at[t] \in {"idle", "check", "take", "follow", "have"}
       /\ at[t] \in {"check", "take", "follow", "have"} => want[t].key \notin DOMAIN tMap[t]
       /\ outcome[t] # "none" => todo[t] \subseteq DOMAIN tMap[t]
       /\ DOMAIN got[t] \subseteq DOMAIN tMap[t]
       /\ \A k \in DOMAIN tMap[t] :
            tMap[t][k].status = "READ" => k \in DOMAIN got[t] /\ got[t][k] = tMap[t][k].val

CallInv == \A t \in Txns : CallOf(t)

\* A key is locked for one transaction at most; an owner has the key, or it
\* found the key without owner and is taking it; followers are those who wait.
KeyInv ==
  \A k \in Keys :
    /\ k \notin free <=> \E t \in Txns : Holds(t, k)
    /\ \A t, u \in Txns : Holds(t, k) /\ Holds(u, k) => t = u
    /\ owner[k] # None =>
         (Holds(owner[k], k) /\ ~ Disowned(owner[k], k)) \/ Taker(owner[k], k)
    /\ followers[k] = {t \in Txns : Follower(t, k)}

\* lockInfos says who has or takes a key, except between the halves of finishT.
OwnerInv ==
  \A k \in Keys, t \in Txns :
    Taker(t, k) \/ (Holds(t, k) /\ ~ Disowned(t, k)) => owner[k] = t

\* LI is taken exactly while a transaction ends because of a deadlock or while
\* it is on its way to a follower, and never on two such ways.
HandOver(k) == owner[k] = None /\ followers[k] # {}
LIInv ==
  /\ LI \notin free <=>
       (\E t \in Txns : at[t] = "finish with LI") \/ (\E k \in Keys : HandOver(k))
  /\ \A t \in Txns, k \in Keys : ~ (at[t] = "finish with LI" /\ HandOver(k))
  /\ \A t, u \in Txns : at[t] = "finish with LI" /\ at[u] = "finish with LI" => t = u
  /\ \A k, l \in Keys : HandOver(k) /\ HandOver(l) => k = l

\* The database as it is when the commit under way is through.
Writing(t, k) == at[t] = "write" /\ k \in todo[t]
Database == [k \in Keys |->
  IF \E t \in Txns : Writing(t, k) THEN tMap[CHOOSE t \in Txns : Writing(t, k)][k].val
  ELSE stored[k]]

\* What a transaction has read stays what is in the database until it ends.
ReadsStable ==
  \A t \in Txns : \A k \in DOMAIN got[t] :
    outcome[t] = "none" => got[t][k] = Database[k]

\* Whatever the order in which the lock server serves waiters: the keys in use
\* are locked, and what was read stays locked, hence as it was.
LockedInv == TypeOK /\ CallInv /\ KeyInv /\ ReadsStable

\* If takers come first, lockInfos agrees with the lock server although the two
\* are changed one after the other and lockInfosLock changes hands.
TwoPLInv == LockedInv /\ OwnerInv /\ LIInv

\* finishT releases lockInfosLock or leaves it to the follower it wakes: it is
\* never released twice.
NeverReleasedTwice == ~ crashed

\* No set of transactions waits for one another: checkAcquire finds every cycle
\* before the last of them follows.
WaitsFor(t, u) == \E k \in Keys : Follower(t, k) /\ Holds(u, k)
NoWaitCycle ==
  \A S \in (SUBSET Txns) \ {{}} : \E t \in S : \A u \in S : ~ WaitsFor(t, u)

\* The transactions that commit are serializable in the order of their commits.
\* What a client has set is what differs from what it was told, or has the
\* status WRITE.
Running(t) == t \in DOMAIN tMap /\ outcome[t] = "none"
Set(t) == {k \in DOMAIN tMap[t] :
             k \notin DOMAIN got[t] \/ tMap[t][k].status = "WRITE" \/ tMap[t][k].val # got[t][k]}

Status == [t \in Txns |->
  IF outcome[t] = "OK" THEN "committed"
  ELSE IF outcome[t] = "ABORT" THEN "aborted"
  ELSE IF t \in DOMAIN tMap THEN "running" ELSE "new"]
Told == [t \in Txns |-> IF Running(t) THEN got[t] ELSE <<>>]
HasSet == [t \in Txns |->
  IF Running(t) THEN [k \in Set(t) |-> tMap[t][k].val] ELSE <<>>]

Serial == INSTANCE SerialSpec WITH
  db <- Database, status <- Status, got <- Told, put <- HasSet

\* Whoever commits has read what the database holds at that moment, and what
\* it wrote is in the database from then on.
ImplementsSerialSpec == Serial!Spec

\* Every transaction ends: nobody waits for ever for a key or for LI.
EveryTxnEnds == \A t \in Txns : t \in DOMAIN tMap ~> t \notin DOMAIN tMap
=============================================================================
