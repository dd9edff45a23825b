----------------------------- MODULE LockCache ------------------------------
(***************************************************************************)
(* The caching lock service: lock_server_cache.cc and                      *)
(* lock_client_cache.cc.                                                   *)
(*                                                                         *)
(* A client keeps a lock after its threads released it, until the server   *)
(* revokes it.  All four RPCs (acquire and release to the server, revoke   *)
(* and retry to a client) are synchronous and nested: an application       *)
(* thread in acquire() waits for the server's acquire handler, which may   *)
(* wait for a revoke handler in the client that has the lock, which may    *)
(* wait for the server's release handler, which may wait for a retry       *)
(* handler in the next client.  A chain has one active end, so pc[t] says  *)
(* how far the call made by thread t got, whoever executes it.  Each       *)
(* section run under a lockMapMutex is one step; the mutex is never held   *)
(* over one of these RPCs.                                                 *)
(***************************************************************************)
EXTENDS Naturals, Sequences, FiniteSets

CONSTANTS
  Clients,        \* lock_client_cache objects, named by their callback address
  Threads,        \* application threads
  Owner,          \* Owner[t]: the client object thread t calls
  Locks,          \* lock ids
  Before,         \* <<h, l>>: a thread that holds h may ask for l
  NoClient,       \* acquiredId = ""
  ServerPool,     \* dispatch threads of the lock server's rpcs (10 in rpc.cc)
  ClientPool      \* dispatch threads of each client's rpcs (10 in rpc.cc)

ASSUME OwnerAssumption == Owner \in [Threads -> Clients]
ASSUME LocksAssumption == Locks # {}
ASSUME BeforeAssumption == Before \subseteq {p \in Locks \X Locks : p[1] # p[2]}
ASSUME NoClientAssumption == NoClient \notin Clients
ASSUME PoolAssumption == ServerPool \in Nat /\ ClientPool \in Nat

VARIABLES
  sstate,         \* server, per lock: FREE, USED, TOREVOKE
  acquiredId,     \* server, per lock: the client it was granted to
  waitingIds,     \* server, per lock: clients answered RETRY, oldest first
  cstate,         \* client, per lock: NONE, FREE, ACQUIRING, USED, RELEASING
  toRevoke,       \* client, per lock: a revoke arrived before the grant
  toRetry,        \* client, per lock: a retry arrived
  held,           \* per thread: locks acquire() returned and not yet released
  pc,             \* per thread: where its current call is
  lk,             \* per thread: the lock of the current (or last) call
  ret,            \* per thread: reply of the server's acquire handler
  victim,         \* per thread: client the acquire handler sent revoke to
  next            \* per thread: client a release handler sent retry to

serverVars == <<sstate, acquiredId, waitingIds>>
clientVars == <<cstate, toRevoke, toRetry>>
threadVars == <<held, pc, lk, ret, victim, next>>
vars == <<serverVars, clientVars, threadVars>>

PCs == {"user",           \* in application code
        "lockWait",       \* in pthread_cond_wait(lockCond)
        "lockWoken",      \* signalled, has to take the mutex again
        "acquireRPC",     \* acquire sent to the server
        "revokeRPC",      \* the acquire handler sent revoke to victim
        "revokeRelease",  \* victim's revoke handler sent release
        "revokeRetry",    \* that release handler sent retry to next
        "revokeReturn",   \* that release is done, victim's handler goes on
        "acquireReply",   \* the acquire handler returned ret
        "retryWait",      \* in pthread_cond_wait(retryCond)
        "retryWoken",
        "releaseRPC",     \* release sent to the server
        "releaseRetry",   \* the release handler sent retry to next
        "releaseReply"}   \* release is done

TypeOK ==
  /\ sstate \in [Locks -> {"FREE", "USED", "TOREVOKE"}]
  /\ acquiredId \in [Locks -> Clients \cup {NoClient}]
  /\ waitingIds \in [Locks -> Seq(Clients)]
  /\ cstate \in [Clients -> [Locks ->
                   {"NONE", "FREE", "ACQUIRING", "USED", "RELEASING"}]]
  /\ toRevoke \in [Clients -> [Locks -> BOOLEAN]]
  /\ toRetry \in [Clients -> [Locks -> BOOLEAN]]
  /\ held \in [Threads -> SUBSET Locks]
  /\ pc \in [Threads -> PCs]
  /\ lk \in [Threads -> Locks]
  /\ ret \in [Threads -> {"NONE", "OK", "RETRY"}]
  /\ victim \in [Threads -> Clients \cup {NoClient}]
  /\ next \in [Threads -> Clients \cup {NoClient}]

Init ==
  /\ sstate = [l \in Locks |-> "FREE"]
  /\ acquiredId = [l \in Locks |-> NoClient]
  /\ waitingIds = [l \in Locks |-> <<>>]
  /\ cstate = [c \in Clients |-> [l \in Locks |-> "NONE"]]
  /\ toRevoke = [c \in Clients |-> [l \in Locks |-> FALSE]]
  /\ toRetry = [c \in Clients |-> [l \in Locks |-> FALSE]]
  /\ held = [t \in Threads |-> {}]
  /\ pc = [t \in Threads |-> "user"]
  /\ lk = [t \in Threads |-> CHOOSE l \in Locks : TRUE]
  /\ ret = [t \in Threads |-> "NONE"]
  /\ victim = [t \in Threads |-> NoClient]
  /\ next = [t \in Threads |-> NoClient]

-----------------------------------------------------------------------------
(* Dispatch pools: a handler keeps its thread while its nested call runs.  *)

ServerThreadsInUse ==
  Cardinality({t \in Threads : pc[t] \in {"revokeRPC", "revokeRelease",
                 "revokeRetry", "revokeReturn", "releaseRetry"}})
  + Cardinality({t \in Threads : pc[t] = "revokeRetry"})

ClientThreadsInUse(c) ==
  Cardinality({t \in Threads : victim[t] = c /\
                 pc[t] \in {"revokeRelease", "revokeRetry", "revokeReturn"}})

ServerDispatches == ServerThreadsInUse < ServerPool
ClientDispatches(c) == ClientThreadsInUse(c) < ClientPool

(* Condition variables: pthread_cond_signal wakes one waiter, if any.      *)
LockWaiters(c, l) ==
  {t \in Threads : pc[t] = "lockWait" /\ lk[t] = l /\ Owner[t] = c}

RetryWaiters(c, l) ==
  {t \in Threads : pc[t] = "retryWait" /\ lk[t] = l /\ Owner[t] = c}

\* The possible values of pc after one of W is signalled and t goes to p.
Signalled(W, woken, t, p) ==
  IF W = {} THEN {[pc EXCEPT ![t] = p]}
            ELSE {[pc EXCEPT ![t] = p, ![w] = woken] : w \in W}

-----------------------------------------------------------------------------
(* lock_client_cache::acquire, up to the RPC                               *)

GoTo(t, p) == pc' = [pc EXCEPT ![t] = p]
SetClientState(c, l, s) == cstate' = [cstate EXCEPT ![c][l] = s]

\* The switch on info->state, and the while loop around lockCond: NONE makes
\* this thread the one that asks the server, FREE is a cache hit.
Contend(t, l) ==
  LET c == Owner[t] IN
  /\ \/ /\ cstate[c][l] = "NONE"
        /\ SetClientState(c, l, "ACQUIRING")
        /\ GoTo(t, "acquireRPC")
        /\ held' = held
     \/ /\ cstate[c][l] = "FREE"
        /\ SetClientState(c, l, "USED")
        /\ GoTo(t, "user")
        /\ held' = [held EXCEPT ![t] = @ \cup {l}]
     \/ /\ cstate[c][l] \notin {"NONE", "FREE"}
        /\ GoTo(t, "lockWait")
        /\ UNCHANGED <<cstate, held>>
  /\ UNCHANGED <<serverVars, toRevoke, toRetry, ret, victim, next>>

\* The locks a thread holds and asks for are its caller's choice: yfs_client
\* goes from a directory to its entry, the 2PL transactions take any order.
ClientAcquire(t, l) ==
  /\ pc[t] = "user"
  /\ \A h \in held[t] : <<h, l>> \in Before
  /\ lk' = [lk EXCEPT ![t] = l]
  /\ Contend(t, l)

LockWake(t) ==
  /\ pc[t] = "lockWoken"
  /\ Contend(t, lk[t])
  /\ UNCHANGED lk

-----------------------------------------------------------------------------
(* lock_server_cache::acquire                                              *)

\* The handler ends (replying r) or first sends revoke to the holder.
ServerReply(t, r) ==
  /\ ret' = [ret EXCEPT ![t] = r]
  /\ GoTo(t, "acquireReply")
  /\ UNCHANGED victim

SendRevoke(t, r, c) ==
  /\ ret' = [ret EXCEPT ![t] = r]
  /\ victim' = [victim EXCEPT ![t] = c]
  /\ GoTo(t, "revokeRPC")

GrantFree(t, l) ==
  /\ sstate[l] = "FREE"
  /\ sstate' = [sstate EXCEPT ![l] = "USED"]
  /\ acquiredId' = [acquiredId EXCEPT ![l] = Owner[t]]
  /\ UNCHANGED waitingIds
  /\ ServerReply(t, "OK")

RevokeHolder(t, l) ==
  /\ sstate[l] = "USED"
  /\ sstate' = [sstate EXCEPT ![l] = "TOREVOKE"]
  /\ waitingIds' = [waitingIds EXCEPT ![l] = Append(@, Owner[t])]
  /\ UNCHANGED acquiredId
  /\ SendRevoke(t, "RETRY", acquiredId[l])

\* The comparison with *waitingIds.begin(); the mutant forgets it.
MutantFrontIs(c, l) == TRUE
FrontIs(c, l) == Head(waitingIds[l]) = c

\* The client at the front came back after a retry.  If others wait, it is
\* sent a revoke before its own grant is answered.
GrantFront(t, l) ==
  /\ sstate[l] = "TOREVOKE"
  /\ FrontIs(Owner[t], l)
  /\ acquiredId' = [acquiredId EXCEPT ![l] = Owner[t]]
  /\ waitingIds' = [waitingIds EXCEPT ![l] = Tail(@)]
  /\ IF Tail(waitingIds[l]) = <<>>
     THEN /\ sstate' = [sstate EXCEPT ![l] = "USED"]
          /\ ServerReply(t, "OK")
     ELSE /\ UNCHANGED sstate
          /\ SendRevoke(t, "OK", Owner[t])

Enqueue(t, l) ==
  /\ sstate[l] = "TOREVOKE"
  /\ ~ FrontIs(Owner[t], l)
  /\ waitingIds' = [waitingIds EXCEPT ![l] = Append(@, Owner[t])]
  /\ UNCHANGED <<sstate, acquiredId>>
  /\ ServerReply(t, "RETRY")

ServerAcquire(t) ==
  /\ pc[t] = "acquireRPC"
  /\ ServerDispatches
  /\ \/ GrantFree(t, lk[t])
     \/ RevokeHolder(t, lk[t])
     \/ GrantFront(t, lk[t])
     \/ Enqueue(t, lk[t])
  /\ UNCHANGED <<clientVars, held, lk, next>>

-----------------------------------------------------------------------------
(* lock_client_cache::acquire, after the RPC                               *)

\* info->toRetry = false after the wait; the mutant leaves the flag set.
MutantConsumeRetry(c, l) == UNCHANGED toRetry
ConsumeRetry(c, l) == toRetry' = [toRetry EXCEPT ![c][l] = FALSE]

\* The while (!info->toRetry) loop around retryCond.
AwaitRetry(t) ==
  LET c == Owner[t]  l == lk[t] IN
  /\ IF toRetry[c][l]
     THEN /\ ConsumeRetry(c, l)
          /\ GoTo(t, "acquireRPC")
     ELSE /\ UNCHANGED toRetry
          /\ GoTo(t, "retryWait")
  /\ UNCHANGED <<serverVars, cstate, toRevoke, held, lk, victim, next>>

AcquireDone(t) ==
  LET c == Owner[t]  l == lk[t] IN
  /\ SetClientState(c, l, "USED")
  /\ held' = [held EXCEPT ![t] = @ \cup {l}]
  /\ GoTo(t, "user")
  /\ UNCHANGED <<serverVars, toRevoke, toRetry, lk, victim, next>>

AcquireReturns(t) ==
  /\ pc[t] = "acquireReply"
  /\ ret' = [ret EXCEPT ![t] = "NONE"]
  /\ \/ ret[t] = "OK" /\ AcquireDone(t)
     \/ ret[t] = "RETRY" /\ AwaitRetry(t)

RetryWake(t) ==
  /\ pc[t] = "retryWoken"
  /\ AwaitRetry(t)
  /\ UNCHANGED ret

-----------------------------------------------------------------------------
(* lock_client_cache::revoke_handler, in client victim[t]                  *)

\* A revoke that finds no lock to give back is remembered; the mutant drops it.
MutantRememberRevoke(c, l) == UNCHANGED toRevoke
RememberRevoke(c, l) == toRevoke' = [toRevoke EXCEPT ![c][l] = TRUE]

RevokeHandler(t) ==
  LET c == victim[t]  l == lk[t] IN
  /\ pc[t] = "revokeRPC"
  /\ ClientDispatches(c)
  /\ \/ /\ cstate[c][l] = "FREE"
        /\ SetClientState(c, l, "RELEASING")
        /\ GoTo(t, "revokeRelease")
        /\ UNCHANGED <<toRevoke, victim>>
     \/ /\ cstate[c][l] = "USED"
        /\ SetClientState(c, l, "RELEASING")
        /\ GoTo(t, "acquireReply")
        /\ victim' = [victim EXCEPT ![t] = NoClient]
        /\ UNCHANGED toRevoke
     \/ /\ cstate[c][l] \notin {"FREE", "USED"}
        /\ RememberRevoke(c, l)
        /\ GoTo(t, "acquireReply")
        /\ victim' = [victim EXCEPT ![t] = NoClient]
        /\ UNCHANGED cstate
  /\ UNCHANGED <<serverVars, toRetry, held, lk, ret, next>>

\* The lock is back at the server; the mutant keeps it in the cache.
MutantGivenBack(c, l) == SetClientState(c, l, "FREE")
GivenBack(c, l) == SetClientState(c, l, "NONE")

\* The mutant does not signal lockCond.
MutantRevokeReturns(t) ==
  /\ pc[t] = "revokeReturn"
  /\ GivenBack(victim[t], lk[t])
  /\ GoTo(t, "acquireReply")
  /\ victim' = [victim EXCEPT ![t] = NoClient]
  /\ UNCHANGED <<serverVars, toRevoke, toRetry, held, lk, ret, next>>

\* Its nested release returned: the entry becomes NONE and a waiter may ask.
RevokeReturns(t) ==
  LET c == victim[t]  l == lk[t] IN
  /\ pc[t] = "revokeReturn"
  /\ GivenBack(c, l)
  /\ pc' \in Signalled(LockWaiters(c, l), "lockWoken", t, "acquireReply")
  /\ victim' = [victim EXCEPT ![t] = NoClient]
  /\ UNCHANGED <<serverVars, toRevoke, toRetry, held, lk, ret, next>>

-----------------------------------------------------------------------------
(* lock_client_cache::release                                              *)

\* The mutant forgets revokes that overtook the grant.
MutantMustGiveBack(c, l) == cstate[c][l] = "RELEASING"
MustGiveBack(c, l) == toRevoke[c][l] \/ cstate[c][l] = "RELEASING"

ReleaseToServer(t, l) ==
  LET c == Owner[t] IN
  /\ MustGiveBack(c, l)
  /\ toRevoke' = [toRevoke EXCEPT ![c][l] = FALSE]
  /\ GoTo(t, "releaseRPC")
  /\ UNCHANGED cstate

ReleaseToCache(t, l) ==
  LET c == Owner[t] IN
  /\ ~ MustGiveBack(c, l)
  /\ cstate' = IF cstate[c][l] = "USED"
               THEN [cstate EXCEPT ![c][l] = "FREE"] ELSE cstate
  /\ pc' \in Signalled(LockWaiters(c, l), "lockWoken", t, "user")
  /\ UNCHANGED toRevoke

ClientRelease(t, l) ==
  /\ pc[t] = "user"
  /\ l \in held[t]
  /\ held' = [held EXCEPT ![t] = @ \ {l}]
  /\ lk' = [lk EXCEPT ![t] = l]
  /\ ReleaseToServer(t, l) \/ ReleaseToCache(t, l)
  /\ UNCHANGED <<serverVars, toRetry, ret, victim, next>>

ReleaseReturns(t) ==
  LET c == Owner[t]  l == lk[t] IN
  /\ pc[t] = "releaseReply"
  /\ GivenBack(c, l)
  /\ pc' \in Signalled(LockWaiters(c, l), "lockWoken", t, "user")
  /\ UNCHANGED <<serverVars, toRevoke, toRetry, held, lk, ret, victim, next>>

-----------------------------------------------------------------------------
(* lock_server_cache::release, called by release or by a revoke handler    *)

\* Where the chain continues after the handler and after its nested retry.
AfterRelease(t) == IF pc[t] \in {"releaseRPC", "releaseRetry"}
                   THEN "releaseReply" ELSE "revokeReturn"

\* The handler does not compare its id argument with acquiredId.  FREE is
\* left alone; a lock somebody waits for stays TOREVOKE and is kept for the
\* front of the queue, which is told to retry.
ServerRelease(t) ==
  LET l == lk[t] IN
  /\ pc[t] \in {"releaseRPC", "revokeRelease"}
  /\ ServerDispatches
  /\ acquiredId' = IF sstate[l] = "FREE" THEN acquiredId
                   ELSE [acquiredId EXCEPT ![l] = NoClient]
  /\ sstate' = IF sstate[l] = "USED" THEN [sstate EXCEPT ![l] = "FREE"]
               ELSE sstate
  /\ IF sstate[l] = "TOREVOKE"
     THEN /\ next' = [next EXCEPT ![t] = Head(waitingIds[l])]
          /\ GoTo(t, IF pc[t] = "releaseRPC" THEN "releaseRetry"
                                             ELSE "revokeRetry")
     ELSE /\ GoTo(t, AfterRelease(t))
          /\ UNCHANGED next
  /\ UNCHANGED <<waitingIds, clientVars, held, lk, ret, victim>>

\* lock_client_cache::retry_handler, in client next[t]
RetryHandler(t) ==
  LET c == next[t]  l == lk[t] IN
  /\ pc[t] \in {"releaseRetry", "revokeRetry"}
  /\ ClientDispatches(c)
  /\ toRetry' = [toRetry EXCEPT ![c][l] = TRUE]
  /\ pc' \in Signalled(RetryWaiters(c, l), "retryWoken", t, AfterRelease(t))
  /\ next' = [next EXCEPT ![t] = NoClient]
  /\ UNCHANGED <<serverVars, cstate, toRevoke, held, lk, ret, victim>>

-----------------------------------------------------------------------------
\* pthread_cond_wait may return without a signal.
SpuriousWake(t) ==
  /\ \/ pc[t] = "lockWait" /\ GoTo(t, "lockWoken")
     \/ pc[t] = "retryWait" /\ GoTo(t, "retryWoken")
  /\ UNCHANGED <<serverVars, clientVars, held, lk, ret, victim, next>>

\* The steps of a call under way.
Continue(t) ==
  \/ LockWake(t) \/ ServerAcquire(t) \/ AcquireReturns(t) \/ RetryWake(t)
  \/ RevokeHandler(t) \/ RevokeReturns(t)
  \/ ServerRelease(t) \/ RetryHandler(t) \/ ReleaseReturns(t)

Next ==
  \E t \in Threads :
    \/ Continue(t)
    \/ SpuriousWake(t)
    \/ \E l \in Locks : ClientAcquire(t, l) \/ ClientRelease(t, l)

Spec == Init /\ [][Next]_vars

\* Dispatch queues are FIFO, so a request that finds a free dispatch thread
\* again and again is executed; every other step of a call stays enabled until
\* it is taken.  A holder eventually releases, also one that keeps taking and
\* releasing other locks meanwhile.
Fairness ==
  /\ \A t \in Threads : SF_vars(Continue(t))
  /\ \A t \in Threads, l \in Locks : SF_vars(ClientRelease(t, l))

FairSpec == Spec /\ Fairness

-----------------------------------------------------------------------------
(* Vocabulary of the properties                                            *)

InAcquire(t, l) ==
  lk[t] = l /\ pc[t] \in {"acquireRPC", "revokeRPC", "revokeRelease",
     "revokeRetry", "revokeReturn", "acquireReply", "retryWait", "retryWoken"}

InRelease(t, l) ==
  lk[t] = l /\ pc[t] \in {"releaseRPC", "releaseRetry", "releaseReply"}

\* t is the thread that acts on l for its client.
Engaged(t, l) == l \in held[t] \/ InAcquire(t, l) \/ InRelease(t, l)

At(t, l, p) == pc[t] = p /\ lk[t] = l

InSeq(c, s) == \E i \in 1..Len(s) : s[i] = c
NoDuplicate(s) == \A i, j \in 1..Len(s) : s[i] = s[j] => i = j

-----------------------------------------------------------------------------
(* Properties                                                              *)

\* Two threads never hold the same lock, be they of one client or of two
\* (check_grant in lock_tester.cc: "server granted %016llx twice").
MutualExclusion ==
  \A t, u \in Threads, l \in Locks : l \in held[t] /\ l \in held[u] => t = u

\* A lock that a client's thread holds, or that the client may hand out from
\* its cache without asking (FREE), is a lock the server booked to it.
CacheMatchesServer ==
  \A l \in Locks :
    /\ \A t \in Threads : l \in held[t] => acquiredId[l] = Owner[t]
    /\ \A c \in Clients : cstate[c][l] = "FREE" => acquiredId[l] = c

\* acquire and release read *waitingIds.begin() without testing for an empty
\* deque: there is a waiter exactly while the lock is TOREVOKE, none waits
\* twice, and the holder is not among them.
QueueSound ==
  \A l \in Locks :
    /\ sstate[l] = "TOREVOKE" <=> waitingIds[l] # <<>>
    /\ NoDuplicate(waitingIds[l])
    /\ acquiredId[l] # NoClient => ~ InSeq(acquiredId[l], waitingIds[l])

\* While clients wait, somebody is on the way to serve them: the holder has
\* been or is being told to give the lock back, or it was given back and the
\* first waiter has been or is being told to retry.  No callback is lost when
\* it arrives before the reply it refers to.
CallbackPending ==
  \A l \in Locks : sstate[l] = "TOREVOKE" =>
    LET h == acquiredId[l]  f == Head(waitingIds[l]) IN
    IF h # NoClient
    THEN \/ toRevoke[h][l] \/ cstate[h][l] = "RELEASING"
         \/ \E t \in Threads : At(t, l, "revokeRPC") \/ At(t, l, "releaseRPC")
    ELSE \/ toRetry[f][l]
         \/ \E t \in Threads :
              \/ At(t, l, "releaseRetry") \/ At(t, l, "revokeRetry")
              \/ At(t, l, "acquireRPC") /\ Owner[t] = f

\* lockCond is signalled, never broadcast: a thread sleeping on it while the
\* lock is free for this client means another sleeper was woken and will run.
NoLostWakeup ==
  \A t \in Threads :
    pc[t] = "lockWait" /\ cstate[Owner[t]][lk[t]] \in {"FREE", "NONE"} =>
      \E u \in Threads : At(u, lk[t], "lockWoken") /\ Owner[u] = Owner[t]

\* Once a revoke has reached a client the lock is not handed to another of
\* its threads: the only thread still to get it is the one whose acquire RPC
\* the server granted.
RevokedNotReused ==
  [][\A t \in Threads, l \in Locks :
       /\ toRevoke[Owner[t]][l] \/ cstate[Owner[t]][l] = "RELEASING"
       /\ l \in held'[t]
       => l \in held[t] \/ At(t, l, "acquireReply")]_vars

\* The service implements the abstract lock.
Abstract == INSTANCE LockSpec
ImplementsLockSpec == Abstract!Spec

\* A client that asks the server for a lock gets it, whatever the others do:
\* the queue is FIFO and every holder is revoked.
RequestGranted ==
  \A t \in Threads, l \in Locks : At(t, l, "acquireRPC") ~> l \in held[t]

\* Threads queued behind a thread of their own client are not forgotten: one
\* of the client's threads gets the lock again.
WaitersServed ==
  \A t \in Threads, l \in Locks :
    At(t, l, "lockWait") ~>
      \E u \in Threads : Owner[u] = Owner[t] /\ l \in held[u]

-----------------------------------------------------------------------------
(* The inductive invariant behind MutualExclusion                          *)

\* At most one thread acts on a lock for its client.
EngagedOnce ==
  \A t, u \in Threads, l \in Locks :
    Owner[t] = Owner[u] /\ Engaged(t, l) /\ Engaged(u, l) => t = u

\* What the client's entry says while a thread is engaged.
EngagedState ==
  \A t \in Threads, l \in Locks :
    /\ InAcquire(t, l) => l \notin held[t] /\ cstate[Owner[t]][l] = "ACQUIRING"
    /\ InRelease(t, l) => l \notin held[t]
                           /\ cstate[Owner[t]][l] \in {"USED", "RELEASING"}
    /\ l \in held[t] => cstate[Owner[t]][l] \in {"USED", "RELEASING"}

\* A revoke handler that gives a cached lock back acts alone for its client.
Handling(t, l) ==
  lk[t] = l /\ pc[t] \in {"revokeRelease", "revokeRetry", "revokeReturn"}

HandlerInv ==
  \A t \in Threads, l \in Locks : Handling(t, l) =>
    /\ victim[t] \in Clients
    /\ cstate[victim[t]][l] = "RELEASING"
    /\ ret[t] = "RETRY"
    /\ \A u \in Threads : Owner[u] = victim[t] => ~ Engaged(u, l)
    /\ \A u \in Threads : Handling(u, l) /\ victim[u] = victim[t] => u = t

\* t waits for the server's retry.
Waiting(t, l) == lk[t] = l /\ pc[t] \in {"retryWait", "retryWoken"}

\* Which threads act for the client the server booked the lock to.
ThreadTenure ==
  \A t \in Threads, l \in Locks :
    /\ l \in held[t] => acquiredId[l] = Owner[t]
    /\ ret[t] # "NONE" => InAcquire(t, lk[t])
    /\ InAcquire(t, l) => (acquiredId[l] = Owner[t] <=> ret[t] = "OK")
    /\ InAcquire(t, l) => (ret[t] = "NONE" <=>
                             At(t, l, "acquireRPC") \/ Waiting(t, l))
    /\ InRelease(t, l) => (acquiredId[l] = Owner[t] <=> At(t, l, "releaseRPC"))
    /\ Handling(t, l) => (acquiredId[l] = victim[t] <=> At(t, l, "revokeRelease"))

\* The client's entry and the server's booking.
EntryTenure ==
  \A l \in Locks :
    /\ sstate[l] = "FREE" => acquiredId[l] = NoClient
    /\ sstate[l] = "USED" => acquiredId[l] # NoClient
    /\ \A c \in Clients :
         /\ cstate[c][l] = "FREE" => acquiredId[l] = c
         /\ acquiredId[l] = c => cstate[c][l] # "NONE"
         /\ acquiredId[l] = c /\ cstate[c][l] = "RELEASING" => sstate[l] = "TOREVOKE"

\* A revoke is sent once per tenure and the holder gives the lock back only
\* after it arrived.
RevokeSent ==
  \A t \in Threads, l \in Locks :
    /\ At(t, l, "releaseRPC") => sstate[l] = "TOREVOKE"
    /\ At(t, l, "revokeRelease") => sstate[l] = "TOREVOKE"
    /\ At(t, l, "revokeRPC") =>
         /\ victim[t] \in Clients
         /\ acquiredId[l] = victim[t]
         /\ sstate[l] = "TOREVOKE"
         /\ cstate[victim[t]][l] \in {"ACQUIRING", "USED", "FREE"}
         /\ ~ toRevoke[victim[t]][l]
         /\ \A u \in Threads : Owner[u] = victim[t] => ~ InRelease(u, l)
         /\ \A u \in Threads : At(u, l, "revokeRPC") => u = t

RevokeNoted ==
  \A c \in Clients, l \in Locks : toRevoke[c][l] =>
    /\ acquiredId[l] = c
    /\ sstate[l] = "TOREVOKE"
    /\ cstate[c][l] \in {"ACQUIRING", "USED"}
    /\ \A u \in Threads : Owner[u] = c => ~ InRelease(u, l)

\* The front of the queue is told once to retry, while nobody has the lock.
Retrying(t, l) == At(t, l, "releaseRetry") \/ At(t, l, "revokeRetry")

IsFront(c, l) ==
  acquiredId[l] = NoClient /\ sstate[l] = "TOREVOKE" /\ c = Head(waitingIds[l])

RetryQueued ==
  \A t \in Threads, l \in Locks :
    InAcquire(t, l) /\ (ret[t] = "RETRY" \/ Waiting(t, l)) =>
      InSeq(Owner[t], waitingIds[l])

QueuedAcquires ==
  \A c \in Clients, l \in Locks :
    InSeq(c, waitingIds[l]) => cstate[c][l] = "ACQUIRING"

RetryAgain ==
  \A t \in Threads, l \in Locks :
    At(t, l, "acquireRPC") /\ InSeq(Owner[t], waitingIds[l]) =>
      /\ IsFront(Owner[t], l)
      /\ ~ toRetry[Owner[t]][l]
      /\ \A u \in Threads : ~ Retrying(u, l)

RetrySent ==
  \A t \in Threads, l \in Locks : Retrying(t, l) =>
    /\ next[t] \in Clients /\ IsFront(next[t], l)
    /\ ~ toRetry[next[t]][l]
    /\ \A u \in Threads : Retrying(u, l) => u = t

RetryNoted ==
  \A c \in Clients, l \in Locks : toRetry[c][l] => IsFront(c, l)

\* The inductive invariant: while MutualExclusion holds in every state, it is
\* preserved by a step only if engagement, tenure, revokes and retries agree.
IndInv ==
  /\ TypeOK
  /\ QueueSound
  /\ EngagedOnce /\ EngagedState /\ HandlerInv
  /\ ThreadTenure /\ EntryTenure
  /\ RevokeSent /\ RevokeNoted
  /\ RetryQueued /\ QueuedAcquires
  /\ RetryAgain /\ RetrySent /\ RetryNoted
=============================================================================
