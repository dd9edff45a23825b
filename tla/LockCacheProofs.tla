-------------------------- MODULE LockCacheProofs ---------------------------
(***************************************************************************)
(* The theorems about the caching lock service: type correctness, the      *)
(* facts about queues and condition variables that the proofs use, the     *)
(* inductive step for IndInv, one lemma per action of LockCache and per    *)
(* case of an action, and what follows from IndInv.                        *)
(*                                                                         *)
(* MutualExclusion is not inductive: that no two threads hold a lock follows *)
(* from what the two sides record about it.  IndInv joins both: one thread *)
(* acts on a lock for each client (EngagedOnce, EngagedState, HandlerInv), the *)
(* server books the lock to the client whose thread has it (ThreadTenure,  *)
(* EntryTenure), a revoke is sent once per tenure (RevokeSent, RevokeNoted), *)
(* and a retry goes only to the front of the queue while nobody has the lock *)
(* (RetryQueued, RetryAgain, RetrySent, RetryNoted).  CallbackPending and  *)
(* NoLostWakeup are then preserved lock by lock: a step of a thread        *)
(* concerns one lock (StepOn).                                             *)
(*                                                                         *)
(* The lemmas of the step have one layout.  <1>e lists what it does to the *)
(* variables, <1>o says that the other threads stay where the invariant sees *)
(* them, <1>t where the stepping thread t was and is.  The positions of    *)
(* threads (InAcquire, InRelease, Handling, At...) stay unexpanded, so that *)
(* each conjunct of IndInv follows from these facts and from the conjuncts *)
(* it depends on.  The conjuncts about data the step leaves alone come first. *)
(***************************************************************************)
EXTENDS LockCache, TLAPS


-----------------------------------------------------------------------------
(* The queue of waiting clients as a duplicate-free sequence               *)

\* push_back adds its argument at the end and keeps the front.
LEMMA PushBack ==
  ASSUME NEW s \in Seq(Clients), NEW c \in Clients
  PROVE  /\ Append(s, c) \in Seq(Clients)
         /\ Append(s, c) # <<>>
         /\ \A d : InSeq(d, Append(s, c)) <=> InSeq(d, s) \/ d = c
         /\ NoDuplicate(s) /\ ~ InSeq(c, s) => NoDuplicate(Append(s, c))
         /\ s # <<>> => Head(Append(s, c)) = Head(s)
         /\ s = <<>> => Head(Append(s, c)) = c
  BY DEF InSeq, NoDuplicate

\* pop_front takes exactly the front element off.
LEMMA PopFront ==
  ASSUME NEW s \in Seq(Clients), s # <<>>, NoDuplicate(s)
  PROVE  /\ Tail(s) \in Seq(Clients)
         /\ Head(s) \in Clients
         /\ InSeq(Head(s), s)
         /\ NoDuplicate(Tail(s))
         /\ \A d : InSeq(d, Tail(s)) <=> InSeq(d, s) /\ d # Head(s)
  <1>1. /\ Len(s) \in Nat \ {0}
        /\ Head(s) = s[1]
        /\ Tail(s) \in Seq(Clients)
        /\ Len(Tail(s)) = Len(s) - 1
        /\ \A i \in 1..Len(Tail(s)) : Tail(s)[i] = s[i + 1]
    OBVIOUS
  <1>2. Head(s) \in Clients /\ InSeq(Head(s), s)
    BY <1>1 DEF InSeq
  <1>3. NoDuplicate(Tail(s))
    <2> SUFFICES ASSUME NEW i \in 1..Len(Tail(s)), NEW j \in 1..Len(Tail(s)),
                        Tail(s)[i] = Tail(s)[j]
                 PROVE  i = j
      BY DEF NoDuplicate
    <2>1. i + 1 \in 1..Len(s) /\ j + 1 \in 1..Len(s) /\ s[i + 1] = s[j + 1]
      BY <1>1
    <2> QED BY <2>1 DEF NoDuplicate
  <1>4. ASSUME NEW d, InSeq(d, Tail(s))
        PROVE  InSeq(d, s) /\ d # Head(s)
    <2>1. PICK i \in 1..Len(Tail(s)) : Tail(s)[i] = d
      BY <1>4 DEF InSeq
    <2>2. i + 1 \in 1..Len(s) /\ 1 \in 1..Len(s) /\ s[i + 1] = d /\ i + 1 # 1
      BY <1>1, <2>1
    <2> QED BY <1>1, <2>2 DEF InSeq, NoDuplicate
  <1>5. ASSUME NEW d, InSeq(d, s), d # Head(s)
        PROVE  InSeq(d, Tail(s))
    <2>1. PICK i \in 1..Len(s) : s[i] = d
      BY <1>5 DEF InSeq
    <2>2. i - 1 \in 1..Len(Tail(s)) /\ Tail(s)[i - 1] = d
      BY <1>1, <1>5, <2>1
    <2> QED BY <2>2 DEF InSeq
  <1> QED BY <1>1, <1>2, <1>3, <1>4, <1>5

\* Nobody is in an empty queue.
LEMMA EmptyQueue == ASSUME NEW d PROVE ~ InSeq(d, <<>>) /\ NoDuplicate(<<>>)
  BY DEF InSeq, NoDuplicate

-----------------------------------------------------------------------------
\* Assigning one field of one entry of the clients' lock maps.
LEMMA SetEntry ==
  ASSUME NEW D, NEW E, NEW S, NEW f \in [D -> [E -> S]],
         NEW c \in D, NEW l \in E, NEW s \in S
  PROVE  /\ [f EXCEPT ![c][l] = s] \in [D -> [E -> S]]
         /\ [f EXCEPT ![c][l] = s][c][l] = s
         /\ \A d \in D, e \in E : d # c \/ e # l =>
              [f EXCEPT ![c][l] = s][d][e] = f[d][e]
  <1>1. [f[c] EXCEPT ![l] = s] \in [E -> S]
   OBVIOUS
  <1>2. [f EXCEPT ![c][l] = s] = [f EXCEPT ![c] = [f[c] EXCEPT ![l] = s]]
   OBVIOUS
  <1>3. [f EXCEPT ![c] = [f[c] EXCEPT ![l] = s]] \in [D -> [E -> S]]
    <2> DEFINE g == [f[c] EXCEPT ![l] = s]
    <2>1. g \in [E -> S] BY <1>1
    <2> HIDE DEF g
    <2>2. [f EXCEPT ![c] = g] \in [D -> [E -> S]] BY <2>1
    <2> QED BY <2>2 DEF g
  <1>4. /\ [f EXCEPT ![c][l] = s][c][l] = s
        /\ \A d \in D, e \in E : d # c \/ e # l =>
              [f EXCEPT ![c][l] = s][d][e] = f[d][e]
   BY <1>1
  <1> QED BY <1>2, <1>3, <1>4

\* One waiter at most is woken; every other thread stays where it was.
LEMMA SignalEffect ==
  ASSUME NEW W \in SUBSET Threads, NEW woken \in PCs, NEW p \in PCs,
         NEW t \in Threads \ W, pc \in [Threads -> PCs],
         pc' \in Signalled(W, woken, t, p)
  PROVE  /\ pc' \in [Threads -> PCs]
         /\ pc'[t] = p
         /\ \A u \in Threads \ {t} :
              pc'[u] = pc[u] \/ (u \in W /\ pc'[u] = woken)
  BY DEF Signalled

\* After pthread_cond_signal(lockCond) at most one sleeper became lockWoken.
LEMMA LockSignal ==
  ASSUME NEW c, NEW l, NEW t \in Threads, NEW p \in PCs, pc[t] # "lockWait",
         pc \in [Threads -> PCs],
         pc' \in Signalled(LockWaiters(c, l), "lockWoken", t, p)
  PROVE  /\ pc' \in [Threads -> PCs]
         /\ pc'[t] = p
         /\ \A u \in Threads \ {t} :
              pc'[u] = pc[u] \/ (pc[u] = "lockWait" /\ pc'[u] = "lockWoken")
  <1>1. /\ LockWaiters(c, l) \in SUBSET Threads
        /\ t \in Threads \ LockWaiters(c, l)
        /\ \A u \in LockWaiters(c, l) : pc[u] = "lockWait"
    BY DEF LockWaiters
  <1>2. "lockWoken" \in PCs
    BY DEF PCs
  <1> QED BY <1>1, <1>2, SignalEffect

\* After pthread_cond_signal(retryCond) at most one sleeper became retryWoken.
LEMMA RetrySignal ==
  ASSUME NEW c, NEW l, NEW t \in Threads, NEW p \in PCs, pc[t] # "retryWait",
         pc \in [Threads -> PCs],
         pc' \in Signalled(RetryWaiters(c, l), "retryWoken", t, p)
  PROVE  /\ pc' \in [Threads -> PCs]
         /\ pc'[t] = p
         /\ \A u \in Threads \ {t} :
              pc'[u] = pc[u] \/ (pc[u] = "retryWait" /\ pc'[u] = "retryWoken")
  <1>1. /\ RetryWaiters(c, l) \in SUBSET Threads
        /\ t \in Threads \ RetryWaiters(c, l)
        /\ \A u \in RetryWaiters(c, l) : pc[u] = "retryWait"
    BY DEF RetryWaiters
  <1>2. "retryWoken" \in PCs
    BY DEF PCs
  <1> QED BY <1>1, <1>2, SignalEffect

-----------------------------------------------------------------------------
(* Type correctness.  release() stores the front of the queue, so the      *)
(* proof needs that a TOREVOKE lock has waiters.                           *)

ClientStates == {"NONE", "FREE", "ACQUIRING", "USED", "RELEASING"}

WaitersInv ==
  \A l \in Locks : sstate[l] = "TOREVOKE" <=> waitingIds[l] # <<>>

TypeInv == TypeOK /\ WaitersInv

\* The switch in acquire() keeps every variable in its type.
LEMMA TypeContend ==
  ASSUME TypeInv, NEW t \in Threads, NEW l \in Locks, Contend(t, l)
  PROVE  /\ UNCHANGED <<sstate, acquiredId, waitingIds, toRevoke, toRetry,
                        ret, victim, next>>
         /\ cstate' \in [Clients -> [Locks -> ClientStates]]
         /\ held' \in [Threads -> SUBSET Locks]
         /\ pc' \in [Threads -> PCs]
  <1>1. Owner[t] \in Clients BY OwnerAssumption
  <1>2. cstate \in [Clients -> [Locks -> ClientStates]]
    BY DEF TypeInv, TypeOK, ClientStates
  <1>3. "ACQUIRING" \in ClientStates /\ "USED" \in ClientStates
    BY DEF ClientStates
  <1>4. \A s \in ClientStates :
          [cstate EXCEPT ![Owner[t]][l] = s] \in [Clients -> [Locks -> ClientStates]]
    BY <1>1, <1>2, SetEntry
  <1>5. cstate' \in [Clients -> [Locks -> ClientStates]]
    BY <1>2, <1>3, <1>4 DEF Contend, SetClientState
  <1>6. held' \in [Threads -> SUBSET Locks]
    BY DEF TypeInv, TypeOK, Contend
  <1>7. pc' \in [Threads -> PCs]
    BY DEF TypeInv, TypeOK, PCs, Contend, GoTo
  <1> QED BY <1>5, <1>6, <1>7 DEF Contend, serverVars

\* The server's acquire handler keeps types, and TOREVOKE means waiters.
LEMMA TypeServerAcquire ==
  ASSUME TypeInv, NEW t \in Threads, ServerAcquire(t)
  PROVE  TypeInv'
  <1> DEFINE l == lk[t]
  <1>1. Owner[t] \in Clients /\ l \in Locks
    BY OwnerAssumption DEF TypeInv, TypeOK
  <1>2. UNCHANGED <<cstate, toRevoke, toRetry, held, lk, next>>
    BY DEF ServerAcquire, clientVars
  <1>3. /\ sstate \in [Locks -> {"FREE", "USED", "TOREVOKE"}]
        /\ acquiredId \in [Locks -> Clients \cup {NoClient}]
        /\ waitingIds \in [Locks -> Seq(Clients)]
        /\ WaitersInv
    BY DEF TypeInv, TypeOK
  <1>4. /\ pc' \in [Threads -> PCs]
        /\ ret' \in [Threads -> {"NONE", "OK", "RETRY"}]
        /\ victim' \in [Threads -> Clients \cup {NoClient}]
    <2>1. ASSUME NEW r \in {"OK", "RETRY"}, ServerReply(t, r)
          PROVE  /\ pc' \in [Threads -> PCs]
                 /\ ret' \in [Threads -> {"NONE", "OK", "RETRY"}]
                 /\ victim' \in [Threads -> Clients \cup {NoClient}]
      BY <2>1 DEF TypeInv, TypeOK, PCs, ServerReply, GoTo
    <2>2. ASSUME NEW r \in {"OK", "RETRY"}, NEW c \in Clients \cup {NoClient},
                 SendRevoke(t, r, c)
          PROVE  /\ pc' \in [Threads -> PCs]
                 /\ ret' \in [Threads -> {"NONE", "OK", "RETRY"}]
                 /\ victim' \in [Threads -> Clients \cup {NoClient}]
      BY <2>2 DEF TypeInv, TypeOK, PCs, SendRevoke, GoTo
    <2> QED BY <1>1, <1>3, <2>1, <2>2
            DEF ServerAcquire, GrantFree, RevokeHolder, GrantFront, Enqueue
  <1>5. /\ sstate' \in [Locks -> {"FREE", "USED", "TOREVOKE"}]
        /\ acquiredId' \in [Locks -> Clients \cup {NoClient}]
    BY <1>1, <1>3 DEF ServerAcquire, GrantFree, RevokeHolder, GrantFront, Enqueue
  <1>6. waitingIds' \in [Locks -> Seq(Clients)] /\ WaitersInv'
    <2> DEFINE q == waitingIds[l]
    <2>1. Append(q, Owner[t]) \in Seq(Clients) /\ Append(q, Owner[t]) # <<>>
      BY <1>1, <1>3, PushBack
    <2>2. q # <<>> => Tail(q) \in Seq(Clients)
      BY <1>1, <1>3
    <2>3. CASE GrantFree(t, l)
      BY <1>1, <1>3, <2>3 DEF GrantFree, WaitersInv
    <2>4. CASE RevokeHolder(t, l)
      BY <1>1, <1>3, <2>1, <2>4 DEF RevokeHolder, WaitersInv
    <2>5. CASE GrantFront(t, l)
      BY <1>1, <1>3, <2>2, <2>5 DEF GrantFront, WaitersInv
    <2>6. CASE Enqueue(t, l)
      BY <1>1, <1>3, <2>1, <2>6 DEF Enqueue, WaitersInv
    <2> QED BY <2>3, <2>4, <2>5, <2>6 DEF ServerAcquire
  <1> QED BY <1>2, <1>4, <1>5, <1>6 DEF TypeInv, TypeOK

\* Waiting for the retry keeps types.
LEMMA TypeAwaitRetry ==
  ASSUME TypeInv, NEW t \in Threads, AwaitRetry(t),
         ret' \in [Threads -> {"NONE", "OK", "RETRY"}]
  PROVE  TypeInv'
  <1>1. Owner[t] \in Clients /\ lk[t] \in Locks
    BY OwnerAssumption DEF TypeInv, TypeOK
  <1>2. toRetry' \in [Clients -> [Locks -> BOOLEAN]]
    <2>1. toRetry \in [Clients -> [Locks -> BOOLEAN]] /\ FALSE \in BOOLEAN
      BY DEF TypeInv, TypeOK
    <2>2. [toRetry EXCEPT ![Owner[t]][lk[t]] = FALSE]
             \in [Clients -> [Locks -> BOOLEAN]]
      BY <1>1, <2>1, SetEntry
    <2> QED BY <2>1, <2>2 DEF AwaitRetry, ConsumeRetry
  <1>3. pc' \in [Threads -> PCs]
    BY DEF TypeInv, TypeOK, PCs, AwaitRetry, GoTo
  <1>4. UNCHANGED <<sstate, acquiredId, waitingIds, cstate, toRevoke, held, lk,
                    victim, next>>
    BY DEF AwaitRetry, serverVars
  <1> QED BY <1>2, <1>3, <1>4 DEF TypeInv, TypeOK, WaitersInv

\* The end of the acquire RPC keeps types.
LEMMA TypeAcquireReturns ==
  ASSUME TypeInv, NEW t \in Threads, AcquireReturns(t)
  PROVE  TypeInv'
  <1>1. Owner[t] \in Clients /\ lk[t] \in Locks
    BY OwnerAssumption DEF TypeInv, TypeOK
  <1>2. ret' \in [Threads -> {"NONE", "OK", "RETRY"}]
    BY DEF TypeInv, TypeOK, AcquireReturns
  <1>3. CASE AcquireDone(t)
    <2>1. cstate \in [Clients -> [Locks -> ClientStates]] /\ "USED" \in ClientStates
      BY DEF TypeInv, TypeOK, ClientStates
    <2>2. cstate' \in [Clients -> [Locks -> ClientStates]]
      BY <1>1, <1>3, <2>1, SetEntry DEF AcquireDone, SetClientState
    <2>3. held' \in [Threads -> SUBSET Locks] /\ pc' \in [Threads -> PCs]
      BY <1>1, <1>3 DEF TypeInv, TypeOK, PCs, AcquireDone, GoTo
    <2>4. UNCHANGED <<sstate, acquiredId, waitingIds, toRevoke, toRetry, lk,
                      victim, next>>
      BY <1>3 DEF AcquireDone, serverVars
    <2> QED BY <1>2, <2>2, <2>3, <2>4 DEF TypeInv, TypeOK, WaitersInv, ClientStates
  <1>4. CASE AwaitRetry(t)
    BY <1>2, <1>4, TypeAwaitRetry
  <1> QED BY <1>3, <1>4 DEF AcquireReturns

\* The revoke handler keeps types.
LEMMA TypeRevokeHandler ==
  ASSUME TypeInv, NEW t \in Threads, RevokeHandler(t)
  PROVE  TypeInv'
  <1> DEFINE c == victim[t]
             l == lk[t]
  <1>1. l \in Locks
    BY DEF TypeInv, TypeOK
  <1>2. /\ cstate \in [Clients -> [Locks -> ClientStates]]
        /\ toRevoke \in [Clients -> [Locks -> BOOLEAN]]
        /\ "RELEASING" \in ClientStates /\ TRUE \in BOOLEAN
    BY DEF TypeInv, TypeOK, ClientStates
  <1>3. ASSUME c \notin Clients
        PROVE  /\ [cstate EXCEPT ![c][l] = "RELEASING"] = cstate
               /\ [toRevoke EXCEPT ![c][l] = TRUE] = toRevoke
    BY <1>2, <1>3
  <1>4. ASSUME c \in Clients
        PROVE  /\ [cstate EXCEPT ![c][l] = "RELEASING"]
                     \in [Clients -> [Locks -> ClientStates]]
               /\ [toRevoke EXCEPT ![c][l] = TRUE]
                     \in [Clients -> [Locks -> BOOLEAN]]
    BY <1>1, <1>2, <1>4, SetEntry
  <1>5. /\ cstate' \in [Clients -> [Locks -> ClientStates]]
        /\ toRevoke' \in [Clients -> [Locks -> BOOLEAN]]
    <2>1. \/ cstate' = [cstate EXCEPT ![c][l] = "RELEASING"] \/ cstate' = cstate
      BY DEF RevokeHandler, SetClientState
    <2>2. \/ toRevoke' = [toRevoke EXCEPT ![c][l] = TRUE] \/ toRevoke' = toRevoke
      BY DEF RevokeHandler, RememberRevoke
    <2>3. cstate' \in [Clients -> [Locks -> ClientStates]]
      BY <1>2, <1>3, <1>4, <2>1
    <2>4. toRevoke' \in [Clients -> [Locks -> BOOLEAN]]
      BY <1>2, <1>3, <1>4, <2>2
    <2> QED BY <2>3, <2>4
  <1>6. /\ pc' \in [Threads -> PCs]
        /\ victim' \in [Threads -> Clients \cup {NoClient}]
    BY DEF TypeInv, TypeOK, PCs, RevokeHandler, GoTo
  <1>7. UNCHANGED <<sstate, acquiredId, waitingIds, toRetry, held, lk, ret, next>>
    BY DEF RevokeHandler, serverVars
  <1> QED BY <1>5, <1>6, <1>7 DEF TypeInv, TypeOK, WaitersInv, ClientStates

\* The end of the revoke handler keeps types.
LEMMA TypeRevokeReturns ==
  ASSUME TypeInv, NEW t \in Threads, RevokeReturns(t)
  PROVE  TypeInv'
  <1> DEFINE c == victim[t]
             l == lk[t]
  <1>1. /\ l \in Locks
        /\ cstate \in [Clients -> [Locks -> ClientStates]]
        /\ "NONE" \in ClientStates
    BY DEF TypeInv, TypeOK, ClientStates
  <1>2. c \notin Clients => [cstate EXCEPT ![c][l] = "NONE"] = cstate
    BY <1>1
  <1>3. c \in Clients => [cstate EXCEPT ![c][l] = "NONE"]
                            \in [Clients -> [Locks -> ClientStates]]
    BY <1>1, SetEntry
  <1>4. cstate' \in [Clients -> [Locks -> ClientStates]]
    BY <1>1, <1>2, <1>3 DEF RevokeReturns, GivenBack, SetClientState
  <1>5. pc' \in [Threads -> PCs]
    <2>1. "acquireReply" \in PCs /\ pc \in [Threads -> PCs]
      BY DEF TypeInv, TypeOK, PCs
    <2> QED BY <2>1, LockSignal DEF RevokeReturns
  <1>6. victim' \in [Threads -> Clients \cup {NoClient}]
    BY DEF TypeInv, TypeOK, RevokeReturns
  <1>7. UNCHANGED <<sstate, acquiredId, waitingIds, toRevoke, toRetry, held, lk,
                    ret, next>>
    BY DEF RevokeReturns, serverVars
  <1> QED BY <1>4, <1>5, <1>6, <1>7 DEF TypeInv, TypeOK, WaitersInv, ClientStates

\* release() keeps types.
LEMMA TypeClientRelease ==
  ASSUME TypeInv, NEW t \in Threads, NEW l \in Locks, ClientRelease(t, l)
  PROVE  TypeInv'
  <1>1. /\ Owner[t] \in Clients
        /\ cstate \in [Clients -> [Locks -> ClientStates]]
        /\ toRevoke \in [Clients -> [Locks -> BOOLEAN]]
        /\ "FREE" \in ClientStates /\ FALSE \in BOOLEAN
    BY OwnerAssumption DEF TypeInv, TypeOK, ClientStates
  <1>2. /\ [cstate EXCEPT ![Owner[t]][l] = "FREE"]
              \in [Clients -> [Locks -> ClientStates]]
        /\ [toRevoke EXCEPT ![Owner[t]][l] = FALSE]
              \in [Clients -> [Locks -> BOOLEAN]]
    BY <1>1, SetEntry
  <1>3. /\ cstate' \in [Clients -> [Locks -> ClientStates]]
        /\ toRevoke' \in [Clients -> [Locks -> BOOLEAN]]
    BY <1>1, <1>2 DEF ClientRelease, ReleaseToServer, ReleaseToCache
  <1>4. pc' \in [Threads -> PCs]
    <2>1. CASE ReleaseToServer(t, l)
      BY <2>1 DEF TypeInv, TypeOK, PCs, ReleaseToServer, GoTo
    <2>2. CASE ReleaseToCache(t, l)
      <3>1. "user" \in PCs /\ pc \in [Threads -> PCs]
        BY DEF TypeInv, TypeOK, PCs
      <3> QED BY <2>2, <3>1, LockSignal DEF ClientRelease, ReleaseToCache
    <2> QED BY <2>1, <2>2 DEF ClientRelease
  <1>5. held' \in [Threads -> SUBSET Locks] /\ lk' \in [Threads -> Locks]
    BY DEF TypeInv, TypeOK, ClientRelease
  <1>6. UNCHANGED <<sstate, acquiredId, waitingIds, toRetry, ret, victim, next>>
    BY DEF ClientRelease, serverVars
  <1> QED BY <1>3, <1>4, <1>5, <1>6 DEF TypeInv, TypeOK, WaitersInv, ClientStates

\* The end of the release RPC keeps types.
LEMMA TypeReleaseReturns ==
  ASSUME TypeInv, NEW t \in Threads, ReleaseReturns(t)
  PROVE  TypeInv'
  <1>1. /\ Owner[t] \in Clients /\ lk[t] \in Locks
        /\ cstate \in [Clients -> [Locks -> ClientStates]]
        /\ "NONE" \in ClientStates
    BY OwnerAssumption DEF TypeInv, TypeOK, ClientStates
  <1>2. cstate' \in [Clients -> [Locks -> ClientStates]]
    BY <1>1, SetEntry DEF ReleaseReturns, GivenBack, SetClientState
  <1>3. pc' \in [Threads -> PCs]
    <2>1. "user" \in PCs /\ pc \in [Threads -> PCs]
      BY DEF TypeInv, TypeOK, PCs
    <2> QED BY <2>1, LockSignal DEF ReleaseReturns
  <1>4. UNCHANGED <<sstate, acquiredId, waitingIds, toRevoke, toRetry, held, lk,
                    ret, victim, next>>
    BY DEF ReleaseReturns, serverVars
  <1> QED BY <1>2, <1>3, <1>4 DEF TypeInv, TypeOK, WaitersInv, ClientStates

\* The server's release handler keeps types: the front it reads exists.
LEMMA TypeServerRelease ==
  ASSUME TypeInv, NEW t \in Threads, ServerRelease(t)
  PROVE  TypeInv'
  <1> DEFINE l == lk[t]
  <1>1. /\ l \in Locks
        /\ sstate \in [Locks -> {"FREE", "USED", "TOREVOKE"}]
        /\ acquiredId \in [Locks -> Clients \cup {NoClient}]
        /\ waitingIds \in [Locks -> Seq(Clients)]
        /\ WaitersInv
    BY DEF TypeInv, TypeOK
  <1>2. /\ sstate' \in [Locks -> {"FREE", "USED", "TOREVOKE"}]
        /\ acquiredId' \in [Locks -> Clients \cup {NoClient}]
    BY <1>1 DEF ServerRelease
  <1>3. pc' \in [Threads -> PCs]
    <2>1. pc \in [Threads -> PCs]
      BY DEF TypeInv, TypeOK
    <2>2. \E p \in PCs : pc' = [pc EXCEPT ![t] = p]
      BY DEF PCs, ServerRelease, AfterRelease, GoTo
    <2> QED BY <2>1, <2>2
  <1>4. next' \in [Threads -> Clients \cup {NoClient}]
    <2>1. sstate[l] = "TOREVOKE" => Head(waitingIds[l]) \in Clients
      BY <1>1 DEF WaitersInv
    <2>2. next \in [Threads -> Clients \cup {NoClient}]
      BY DEF TypeInv, TypeOK
    <2> QED BY <2>1, <2>2 DEF ServerRelease
  <1>5. WaitersInv'
    BY <1>1 DEF ServerRelease, WaitersInv
  <1>6. UNCHANGED <<waitingIds, cstate, toRevoke, toRetry, held, lk, ret, victim>>
    BY DEF ServerRelease, clientVars
  <1> QED BY <1>1, <1>2, <1>3, <1>4, <1>5, <1>6 DEF TypeInv, TypeOK

\* The retry handler keeps types.
LEMMA TypeRetryHandler ==
  ASSUME TypeInv, NEW t \in Threads, RetryHandler(t)
  PROVE  TypeInv'
  <1> DEFINE c == next[t]
             l == lk[t]
  <1>1. /\ l \in Locks
        /\ toRetry \in [Clients -> [Locks -> BOOLEAN]] /\ TRUE \in BOOLEAN
    BY DEF TypeInv, TypeOK
  <1>2. c \notin Clients => [toRetry EXCEPT ![c][l] = TRUE] = toRetry
    BY <1>1
  <1>3. c \in Clients => [toRetry EXCEPT ![c][l] = TRUE]
                            \in [Clients -> [Locks -> BOOLEAN]]
    BY <1>1, SetEntry
  <1>4. toRetry' \in [Clients -> [Locks -> BOOLEAN]]
    BY <1>1, <1>2, <1>3 DEF RetryHandler
  <1>5. pc' \in [Threads -> PCs]
    <2>1. AfterRelease(t) \in PCs /\ pc \in [Threads -> PCs]
      BY DEF TypeInv, TypeOK, PCs, AfterRelease
    <2> QED BY <2>1, RetrySignal DEF RetryHandler
  <1>6. next' \in [Threads -> Clients \cup {NoClient}]
    BY DEF TypeInv, TypeOK, RetryHandler
  <1>7. UNCHANGED <<sstate, acquiredId, waitingIds, cstate, toRevoke, held, lk,
                    ret, victim>>
    BY DEF RetryHandler, serverVars
  <1> QED BY <1>4, <1>5, <1>6, <1>7 DEF TypeInv, TypeOK, WaitersInv

\* Every step keeps types.
LEMMA TypeNext ==
  ASSUME TypeInv, [Next]_vars
  PROVE  TypeInv'
  <1>1. CASE UNCHANGED vars
    BY <1>1 DEF TypeInv, TypeOK, WaitersInv, vars, serverVars, clientVars,
                threadVars
  <1>2. ASSUME NEW t \in Threads, NEW l \in Locks, ClientAcquire(t, l)
        PROVE  TypeInv'
    <2>1. lk' \in [Threads -> Locks]
      BY <1>2 DEF TypeInv, TypeOK, ClientAcquire
    <2> QED BY <1>2, <2>1, TypeContend
            DEF ClientAcquire, TypeInv, TypeOK, WaitersInv, ClientStates
  <1>3. ASSUME NEW t \in Threads, LockWake(t)
        PROVE  TypeInv'
    <2>1. lk[t] \in Locks /\ UNCHANGED lk
      BY <1>3 DEF TypeInv, TypeOK, LockWake
    <2> QED BY <1>3, <2>1, TypeContend
            DEF LockWake, TypeInv, TypeOK, WaitersInv, ClientStates
  <1>4. ASSUME NEW t \in Threads, SpuriousWake(t)
        PROVE  TypeInv'
    <2>1. pc' \in [Threads -> PCs]
      <3>1. pc \in [Threads -> PCs]
        BY DEF TypeInv, TypeOK
      <3>2. \E p \in PCs : pc' = [pc EXCEPT ![t] = p]
        BY <1>4 DEF PCs, SpuriousWake, GoTo
      <3> QED BY <3>1, <3>2
    <2> QED BY <1>4, <2>1 DEF SpuriousWake, TypeInv, TypeOK, WaitersInv,
                              serverVars, clientVars
  <1>5. ASSUME NEW t \in Threads, RetryWake(t)
        PROVE  TypeInv'
    BY <1>5, TypeAwaitRetry DEF RetryWake, TypeInv, TypeOK
  <1> QED BY <1>1, <1>2, <1>3, <1>4, <1>5, TypeServerAcquire,
             TypeAcquireReturns, TypeRevokeHandler, TypeRevokeReturns,
             TypeClientRelease, TypeReleaseReturns, TypeServerRelease,
             TypeRetryHandler DEF Next, Continue

\* Every reachable state is well typed, and the server never reads the front
\* of an empty queue: a TOREVOKE lock has waiters.
THEOREM TypeCorrect == Spec => [](TypeOK /\ WaitersInv)
  <1>1. Init => TypeInv
    <2> SUFFICES ASSUME Init PROVE TypeInv
      OBVIOUS
    <2>1. WaitersInv /\ waitingIds \in [Locks -> Seq(Clients)]
      BY DEF Init, WaitersInv
    <2>2. lk \in [Threads -> Locks]
      BY LocksAssumption DEF Init
    <2> QED BY <2>1, <2>2 DEF Init, TypeInv, TypeOK, PCs
  <1>2. TypeInv /\ [Next]_vars => TypeInv'
    BY TypeNext
  <1> QED BY <1>1, <1>2, PTL DEF Spec, TypeInv

-----------------------------------------------------------------------------
(* The step of IndInv                                                      *)

\* What push_back and pop_front do to the queue of a lock.
LEMMA QueueFacts ==
  ASSUME TypeOK, QueueSound, NEW l \in Locks
  PROVE  LET q == waitingIds[l] IN
         /\ q \in Seq(Clients) /\ NoDuplicate(q)
         /\ q = <<>> => \A d : ~ InSeq(d, q)
         /\ q # <<>> =>
              /\ InSeq(Head(q), q) /\ Head(q) \in Clients
              /\ NoDuplicate(Tail(q))
              /\ \A d : InSeq(d, Tail(q)) <=> InSeq(d, q) /\ d # Head(q)
         /\ \A c \in Clients :
              /\ Append(q, c) # <<>>
              /\ \A d : InSeq(d, Append(q, c)) <=> InSeq(d, q) \/ d = c
              /\ ~ InSeq(c, q) => NoDuplicate(Append(q, c))
              /\ Head(Append(q, c)) = IF q = <<>> THEN c ELSE Head(q)
  <1>1. waitingIds[l] \in Seq(Clients) /\ NoDuplicate(waitingIds[l])
    BY DEF TypeOK, QueueSound
  <1> QED BY <1>1, PushBack, PopFront, EmptyQueue

-----------------------------------------------------------------------------
(* A step of thread t leaves every other thread where the invariant sees   *)
(* it: at most one sleeper is woken, inside the same phase of its call.    *)

OthersKeep(t) ==
  \A u \in Threads : u # t =>
    /\ lk'[u] = lk[u] /\ held'[u] = held[u] /\ ret'[u] = ret[u]
    /\ victim'[u] = victim[u] /\ next'[u] = next[u]
    /\ \A k \in Locks :
         /\ InAcquire(u, k)' <=> InAcquire(u, k)
         /\ InRelease(u, k)' <=> InRelease(u, k)
         /\ Handling(u, k)' <=> Handling(u, k)
         /\ Retrying(u, k)' <=> Retrying(u, k)
         /\ Waiting(u, k)' <=> Waiting(u, k)
         /\ At(u, k, "acquireRPC")' <=> At(u, k, "acquireRPC")
         /\ At(u, k, "revokeRPC")' <=> At(u, k, "revokeRPC")
         /\ At(u, k, "releaseRPC")' <=> At(u, k, "releaseRPC")
         /\ At(u, k, "revokeRelease")' <=> At(u, k, "revokeRelease")

\* A step that changes only its own thread, and wakes sleepers, keeps the rest.
LEMMA Others ==
  ASSUME NEW t \in Threads,
         \A u \in Threads : u # t =>
           /\ lk'[u] = lk[u] /\ held'[u] = held[u] /\ ret'[u] = ret[u]
           /\ victim'[u] = victim[u] /\ next'[u] = next[u]
           /\ \/ pc'[u] = pc[u]
              \/ pc[u] = "lockWait" /\ pc'[u] = "lockWoken"
              \/ pc[u] = "retryWait" /\ pc'[u] = "retryWoken"
  PROVE  OthersKeep(t)
  BY DEF OthersKeep, InAcquire, InRelease, Handling, Retrying, Waiting, At

\* What the invariant says of thread t depends on its lock l and position p.
IsAt(t, l, p) ==
  \A k \in Locks :
    /\ InAcquire(t, k) <=> k = l /\ p \in {"acquireRPC", "revokeRPC",
         "revokeRelease", "revokeRetry", "revokeReturn", "acquireReply",
         "retryWait", "retryWoken"}
    /\ InRelease(t, k) <=> k = l /\ p \in {"releaseRPC", "releaseRetry",
                                            "releaseReply"}
    /\ Handling(t, k) <=> k = l /\ p \in {"revokeRelease", "revokeRetry",
                                           "revokeReturn"}
    /\ Retrying(t, k) <=> k = l /\ p \in {"releaseRetry", "revokeRetry"}
    /\ Waiting(t, k) <=> k = l /\ p \in {"retryWait", "retryWoken"}
    /\ At(t, k, "acquireRPC") <=> k = l /\ p = "acquireRPC"
    /\ At(t, k, "revokeRPC") <=> k = l /\ p = "revokeRPC"
    /\ At(t, k, "releaseRPC") <=> k = l /\ p = "releaseRPC"
    /\ At(t, k, "revokeRelease") <=> k = l /\ p = "revokeRelease"

\* Where t is now and after its step.
LEMMA Position ==
  ASSUME NEW t \in Threads
  PROVE  /\ IsAt(t, lk[t], pc[t])
         /\ \A l, p : lk'[t] = l /\ pc'[t] = p => IsAt(t, l, p)'
  BY DEF IsAt, InAcquire, InRelease, Handling, Retrying, Waiting, At

\* How the positions that the invariant names are nested.
LEMMA Phases ==
  ASSUME NEW u \in Threads, NEW k \in Locks
  PROVE  /\ At(u, k, "acquireRPC") => InAcquire(u, k)
         /\ At(u, k, "releaseRPC") => InRelease(u, k)
         /\ At(u, k, "revokeRelease") => Handling(u, k)
         /\ At(u, k, "revokeRPC") => InAcquire(u, k)
         /\ Handling(u, k) => InAcquire(u, k)
  BY DEF InAcquire, InRelease, Handling, At

\* acquire() finds no lock: this thread asks the server.
LEMMA ContendNoneStep ==
  ASSUME IndInv, TypeOK', NEW t \in Threads, NEW l \in Locks,
         pc[t] \in {"user", "lockWoken"}, lk' = [lk EXCEPT ![t] = l],
         cstate[Owner[t]][l] = "NONE", Contend(t, l)
  PROVE  IndInv'
  <1>0. /\ TypeOK /\ QueueSound /\ EngagedOnce /\ EngagedState /\ HandlerInv
        /\ ThreadTenure /\ EntryTenure /\ RevokeSent /\ RevokeNoted
        /\ RetryQueued /\ RetryAgain /\ RetrySent /\ RetryNoted
        /\ QueuedAcquires
    BY DEF IndInv
  <1>y. /\ l \in Locks /\ NoClient \notin Clients
        /\ \A u \in Threads : Owner[u] \in Clients
        /\ \A u \in Threads : lk[u] \in Locks /\ ret[u] \in {"NONE", "OK", "RETRY"}
        /\ \A k \in Locks : acquiredId[k] \in Clients \cup {NoClient}
    BY <1>0, OwnerAssumption, NoClientAssumption DEF TypeOK
  <1>e. /\ UNCHANGED <<sstate, acquiredId, waitingIds, toRevoke, toRetry>>
        /\ cstate'[Owner[t]][l] = "ACQUIRING"
        /\ \A c \in Clients, k \in Locks : c # Owner[t] \/ k # l =>
             (cstate'[c][k] = cstate[c][k])
        /\ held'[t] = held[t] /\ ret'[t] = ret[t] /\ victim'[t] = victim[t] /\ next'[t] = next[t] /\ lk'[t] = l
    <2>1. cstate' = [cstate EXCEPT ![Owner[t]][l] = "ACQUIRING"]
      BY <1>0 DEF Contend, GoTo, SetClientState
    <2> QED BY <1>0, <1>y, <2>1 DEF TypeOK, serverVars, clientVars,
                Contend, GoTo, SetClientState
  <1>o. OthersKeep(t)
    BY <1>0, Others DEF TypeOK, serverVars, clientVars, Contend, GoTo,
       SetClientState
  <1>t. IsAt(t, lk[t], pc[t]) /\ IsAt(t, l, "acquireRPC")'
    BY <1>0, <1>y, Position DEF TypeOK, serverVars, clientVars, Contend, GoTo,
       SetClientState
  <1>1. QueueSound' /\ EntryTenure' /\ RetryNoted' /\ QueuedAcquires'
    BY <1>0, <1>y, <1>e DEF QueueSound, EntryTenure, RetryNoted, IsFront,
       QueuedAcquires
  <1>2. EngagedState' /\ HandlerInv' /\ RevokeSent' /\ RevokeNoted' /\
        RetrySent'
    <2>1. EngagedState'
      BY <1>0, <1>y, <1>e, <1>o, <1>t DEF EngagedState, OthersKeep, IsAt,
         Engaged, IsFront
    <2>2. HandlerInv'
      BY <1>0, <1>y, <1>e, <1>o, <1>t DEF HandlerInv, OthersKeep, IsAt,
         Engaged, IsFront
    <2>3. RevokeSent'
      BY <1>0, <1>y, <1>e, <1>o, <1>t DEF RevokeSent, OthersKeep, IsAt,
         Engaged, IsFront
    <2>4. RevokeNoted'
      BY <1>0, <1>y, <1>e, <1>o, <1>t DEF RevokeNoted, OthersKeep, IsAt,
         Engaged, IsFront
    <2>5. RetrySent'
      BY <1>0, <1>y, <1>e, <1>o, <1>t DEF RetrySent, OthersKeep, IsAt, Engaged,
         IsFront
    <2>. QED BY <2>1, <2>2, <2>3, <2>4, <2>5
  <1>3. EngagedOnce'
    BY <1>0, <1>y, <1>e, <1>o, <1>t DEF EngagedOnce, EngagedState, OthersKeep,
       IsAt, Engaged
  <1>4. ThreadTenure'
    BY <1>0, <1>y, <1>e, <1>o, <1>t DEF ThreadTenure, EngagedOnce,
       EngagedState, HandlerInv, EntryTenure, RevokeSent, OthersKeep, IsAt,
       Engaged
  <1>5. RetryQueued'
    BY <1>0, <1>y, <1>e, <1>o, <1>t DEF RetryQueued, EngagedOnce,
       ThreadTenure, OthersKeep, IsAt, Engaged
  <1>6. RetryAgain'
    BY <1>0, <1>y, <1>e, <1>o, <1>t DEF RetryAgain, RetrySent, RetryNoted,
       ThreadTenure, RetryQueued, EntryTenure, QueuedAcquires, HandlerInv,
       OthersKeep, IsAt, Engaged, IsFront
  <1> QED BY <1>1, <1>2, <1>3, <1>4, <1>5, <1>6 DEF IndInv

\* acquire() finds a cached lock.
LEMMA ContendFreeStep ==
  ASSUME IndInv, TypeOK', NEW t \in Threads, NEW l \in Locks,
         pc[t] \in {"user", "lockWoken"}, lk' = [lk EXCEPT ![t] = l],
         cstate[Owner[t]][l] = "FREE", Contend(t, l)
  PROVE  IndInv'
  <1>0. /\ TypeOK /\ QueueSound /\ EngagedOnce /\ EngagedState /\ HandlerInv
        /\ ThreadTenure /\ EntryTenure /\ RevokeSent /\ RevokeNoted
        /\ RetryQueued /\ RetryAgain /\ RetrySent /\ RetryNoted
        /\ QueuedAcquires
    BY DEF IndInv
  <1>y. /\ l \in Locks /\ NoClient \notin Clients
        /\ \A u \in Threads : Owner[u] \in Clients
        /\ \A u \in Threads : lk[u] \in Locks /\ ret[u] \in {"NONE", "OK", "RETRY"}
        /\ \A k \in Locks : acquiredId[k] \in Clients \cup {NoClient}
    BY <1>0, OwnerAssumption, NoClientAssumption DEF TypeOK
  <1>e. /\ UNCHANGED <<sstate, acquiredId, waitingIds, toRevoke, toRetry>>
        /\ cstate'[Owner[t]][l] = "USED"
        /\ \A c \in Clients, k \in Locks : c # Owner[t] \/ k # l =>
             (cstate'[c][k] = cstate[c][k])
        /\ held'[t] = held[t] \cup {l} /\ ret'[t] = ret[t] /\ victim'[t] = victim[t] /\ lk'[t] = l
    <2>1. cstate' = [cstate EXCEPT ![Owner[t]][l] = "USED"]
      BY <1>0 DEF Contend, GoTo, SetClientState
    <2> QED BY <1>0, <1>y, <2>1 DEF TypeOK, serverVars, clientVars,
                Contend, GoTo, SetClientState
  <1>o. OthersKeep(t)
    BY <1>0, Others DEF TypeOK, serverVars, clientVars, Contend, GoTo,
       SetClientState
  <1>t. IsAt(t, lk[t], pc[t]) /\ IsAt(t, l, "user")'
    BY <1>0, <1>y, Position DEF TypeOK, serverVars, clientVars, Contend, GoTo,
       SetClientState
  <1>1. QueueSound' /\ EntryTenure' /\ RetryNoted' /\ QueuedAcquires'
    BY <1>0, <1>y, <1>e DEF QueueSound, EntryTenure, RetryNoted, IsFront,
       QueuedAcquires
  <1>2. EngagedState' /\ HandlerInv' /\ RevokeSent' /\ RevokeNoted' /\
        RetryQueued' /\ RetryAgain' /\ RetrySent'
    <2>1. EngagedState'
      BY <1>0, <1>y, <1>e, <1>o, <1>t DEF EngagedState, OthersKeep, IsAt,
         Engaged, IsFront
    <2>2. HandlerInv'
      BY <1>0, <1>y, <1>e, <1>o, <1>t DEF HandlerInv, OthersKeep, IsAt,
         Engaged, IsFront
    <2>3. RevokeSent'
      BY <1>0, <1>y, <1>e, <1>o, <1>t DEF RevokeSent, OthersKeep, IsAt,
         Engaged, IsFront
    <2>4. RevokeNoted'
      BY <1>0, <1>y, <1>e, <1>o, <1>t DEF RevokeNoted, OthersKeep, IsAt,
         Engaged, IsFront
    <2>5. RetryQueued'
      BY <1>0, <1>y, <1>e, <1>o, <1>t DEF RetryQueued, OthersKeep, IsAt,
         Engaged, IsFront
    <2>6. RetryAgain'
      BY <1>0, <1>y, <1>e, <1>o, <1>t DEF RetryAgain, OthersKeep, IsAt,
         Engaged, IsFront
    <2>7. RetrySent'
      BY <1>0, <1>y, <1>e, <1>o, <1>t DEF RetrySent, OthersKeep, IsAt, Engaged,
         IsFront
    <2>. QED BY <2>1, <2>2, <2>3, <2>4, <2>5, <2>6, <2>7
  <1>3. EngagedOnce'
    BY <1>0, <1>y, <1>e, <1>o, <1>t DEF EngagedOnce, EngagedState, OthersKeep,
       IsAt, Engaged
  <1>4. ThreadTenure'
    BY <1>0, <1>y, <1>e, <1>o, <1>t DEF ThreadTenure, EngagedOnce,
       EngagedState, HandlerInv, EntryTenure, RevokeSent, OthersKeep, IsAt,
       Engaged
  <1> QED BY <1>1, <1>2, <1>3, <1>4 DEF IndInv

\* acquire() sleeps behind another thread of its client.
LEMMA ContendWaitStep ==
  ASSUME IndInv, TypeOK', NEW t \in Threads, NEW l \in Locks,
         pc[t] \in {"user", "lockWoken"}, lk' = [lk EXCEPT ![t] = l],
         cstate[Owner[t]][l] \notin {"NONE", "FREE"}, Contend(t, l)
  PROVE  IndInv'
  <1>0. /\ TypeOK /\ QueueSound /\ EngagedOnce /\ EngagedState /\ HandlerInv
        /\ ThreadTenure /\ EntryTenure /\ RevokeSent /\ RevokeNoted
        /\ RetryQueued /\ RetryAgain /\ RetrySent /\ RetryNoted
        /\ QueuedAcquires
    BY DEF IndInv
  <1>y. /\ l \in Locks /\ NoClient \notin Clients
        /\ \A u \in Threads : Owner[u] \in Clients
        /\ \A u \in Threads : lk[u] \in Locks /\ ret[u] \in {"NONE", "OK", "RETRY"}
        /\ \A k \in Locks : acquiredId[k] \in Clients \cup {NoClient}
    BY <1>0, OwnerAssumption, NoClientAssumption DEF TypeOK
  <1>e. /\ UNCHANGED <<sstate, acquiredId, waitingIds, cstate, toRevoke, toRetry>>
        /\ ret'[t] = ret[t] /\ held'[t] = held[t] /\ lk'[t] = l
    BY <1>0, <1>y DEF TypeOK, serverVars, clientVars, Contend, GoTo
  <1>o. OthersKeep(t)
    BY <1>0, Others DEF TypeOK, serverVars, clientVars, Contend, GoTo
  <1>t. IsAt(t, lk[t], pc[t]) /\ IsAt(t, l, "lockWait")'
    BY <1>0, <1>y, Position DEF TypeOK, serverVars, clientVars, Contend, GoTo
  <1>1. QueueSound' /\ EntryTenure' /\ RetryNoted' /\ QueuedAcquires'
    BY <1>0, <1>y, <1>e DEF QueueSound, EntryTenure, RetryNoted, IsFront,
       QueuedAcquires
  <1>2. EngagedState' /\ HandlerInv' /\ ThreadTenure' /\ RevokeSent' /\
        RevokeNoted' /\ RetryQueued' /\ RetryAgain' /\ RetrySent'
    BY <1>0, <1>y, <1>e, <1>o, <1>t DEF EngagedState, OthersKeep, IsAt,
       HandlerInv, Engaged, ThreadTenure, RevokeSent, RevokeNoted,
       RetryQueued, RetryAgain, IsFront, RetrySent
  <1>3. EngagedOnce'
    BY <1>0, <1>y, <1>e, <1>o, <1>t DEF EngagedOnce, EngagedState, OthersKeep,
       IsAt, Engaged
  <1> QED BY <1>1, <1>2, <1>3 DEF IndInv

\* The server grants a lock nobody has.
LEMMA GrantFreeStep ==
  ASSUME IndInv, TypeOK', NEW t \in Threads, NEW l \in Locks, lk[t] = l,
         pc[t] = "acquireRPC", UNCHANGED <<clientVars, held, lk, next>>,
         GrantFree(t, lk[t])
  PROVE  IndInv'
  <1>0. /\ TypeOK /\ QueueSound /\ EngagedOnce /\ EngagedState /\ HandlerInv
        /\ ThreadTenure /\ EntryTenure /\ RevokeSent /\ RevokeNoted
        /\ RetryQueued /\ RetryAgain /\ RetrySent /\ RetryNoted
        /\ QueuedAcquires
    BY DEF IndInv
  <1>y. /\ l \in Locks /\ NoClient \notin Clients
        /\ \A u \in Threads : Owner[u] \in Clients
        /\ \A u \in Threads : lk[u] \in Locks /\ ret[u] \in {"NONE", "OK", "RETRY"}
        /\ \A k \in Locks : acquiredId[k] \in Clients \cup {NoClient}
    BY <1>0, OwnerAssumption, NoClientAssumption DEF TypeOK
  <1>e. /\ UNCHANGED <<waitingIds, cstate, toRevoke, toRetry>>
        /\ sstate'[l] = "USED"
        /\ \A k \in Locks : k # l => sstate'[k] = sstate[k]
        /\ acquiredId'[l] = Owner[t]
        /\ \A k \in Locks : k # l => acquiredId'[k] = acquiredId[k]
        /\ held'[t] = held[t] /\ ret'[t] = "OK" /\ lk'[t] = l
    BY <1>0, <1>y DEF TypeOK, serverVars, clientVars, GrantFree, GoTo,
       ServerReply
  <1>o. OthersKeep(t)
    BY <1>0, Others DEF TypeOK, serverVars, clientVars, GrantFree, GoTo,
       ServerReply
  <1>t. IsAt(t, lk[t], pc[t]) /\ IsAt(t, l, "acquireReply")'
    BY <1>0, <1>y, Position DEF TypeOK, serverVars, clientVars, GrantFree,
       GoTo, ServerReply
  <1>f. sstate[l] = "FREE"
    BY DEF GrantFree
  <1>1. QueuedAcquires'
    BY <1>0, <1>y, <1>e DEF QueuedAcquires
  <1>2. EngagedState' /\ HandlerInv' /\ RevokeSent' /\ RevokeNoted' /\
        RetryQueued' /\ RetryAgain' /\ RetrySent'
    <2>1. EngagedState'
      BY <1>0, <1>y, <1>e, <1>o, <1>t, <1>f DEF EngagedState, OthersKeep, IsAt,
         Engaged, IsFront
    <2>2. HandlerInv'
      BY <1>0, <1>y, <1>e, <1>o, <1>t, <1>f DEF HandlerInv, OthersKeep, IsAt,
         Engaged, IsFront
    <2>3. RevokeSent'
      BY <1>0, <1>y, <1>e, <1>o, <1>t, <1>f DEF RevokeSent, OthersKeep, IsAt,
         Engaged, IsFront
    <2>4. RevokeNoted'
      BY <1>0, <1>y, <1>e, <1>o, <1>t, <1>f DEF RevokeNoted, OthersKeep, IsAt,
         Engaged, IsFront
    <2>5. RetryQueued'
      BY <1>0, <1>y, <1>e, <1>o, <1>t, <1>f DEF RetryQueued, OthersKeep, IsAt,
         Engaged, IsFront
    <2>6. RetryAgain'
      BY <1>0, <1>y, <1>e, <1>o, <1>t, <1>f DEF RetryAgain, OthersKeep, IsAt,
         Engaged, IsFront
    <2>7. RetrySent'
      BY <1>0, <1>y, <1>e, <1>o, <1>t, <1>f DEF RetrySent, OthersKeep, IsAt,
         Engaged, IsFront
    <2>. QED BY <2>1, <2>2, <2>3, <2>4, <2>5, <2>6, <2>7
  <1>3. QueueSound'
    BY <1>0, <1>y, <1>e, <1>o, <1>t, <1>f DEF QueueSound, EntryTenure,
       ThreadTenure, RetryAgain, OthersKeep, IsAt, IsFront
  <1>4. EngagedOnce'
    BY <1>0, <1>y, <1>e, <1>o, <1>t, <1>f DEF EngagedOnce, EngagedState,
       OthersKeep, IsAt, Engaged
  <1>5. ThreadTenure'
    BY <1>0, <1>y, <1>e, <1>o, <1>t, <1>f DEF ThreadTenure, EngagedOnce,
       EngagedState, HandlerInv, EntryTenure, RevokeSent, OthersKeep, IsAt,
       Engaged
  <1>6. EntryTenure'
    BY <1>0, <1>y, <1>e, <1>o, <1>t, <1>f DEF EntryTenure, ThreadTenure,
       EngagedState, HandlerInv, RevokeSent, RevokeNoted, RetryAgain,
       QueueSound, OthersKeep, IsAt, Engaged, IsFront
  <1>7. RetryNoted'
    BY <1>0, <1>y, <1>e, <1>o, <1>t, <1>f DEF RetryNoted, RetryAgain,
       RetrySent, ThreadTenure, EngagedOnce, RetryQueued, OthersKeep, IsAt,
       Engaged, IsFront
  <1> QED BY <1>1, <1>2, <1>3, <1>4, <1>5, <1>6, <1>7 DEF IndInv

\* The first client that wants a lock in use is queued, the holder revoked.
LEMMA RevokeHolderStep ==
  ASSUME IndInv, TypeOK', NEW t \in Threads, NEW l \in Locks, lk[t] = l,
         pc[t] = "acquireRPC", UNCHANGED <<clientVars, held, lk, next>>,
         RevokeHolder(t, lk[t])
  PROVE  IndInv'
  <1>0. /\ TypeOK /\ QueueSound /\ EngagedOnce /\ EngagedState /\ HandlerInv
        /\ ThreadTenure /\ EntryTenure /\ RevokeSent /\ RevokeNoted
        /\ RetryQueued /\ RetryAgain /\ RetrySent /\ RetryNoted
        /\ QueuedAcquires
    BY DEF IndInv
  <1>y. /\ l \in Locks /\ NoClient \notin Clients
        /\ \A u \in Threads : Owner[u] \in Clients
        /\ \A u \in Threads : lk[u] \in Locks /\ ret[u] \in {"NONE", "OK", "RETRY"}
        /\ \A k \in Locks : acquiredId[k] \in Clients \cup {NoClient}
    BY <1>0, OwnerAssumption, NoClientAssumption DEF TypeOK
  <1>e. /\ UNCHANGED <<acquiredId, cstate, toRevoke, toRetry>>
        /\ sstate'[l] = "TOREVOKE"
        /\ \A k \in Locks : k # l => sstate'[k] = sstate[k]
        /\ \A k \in Locks : k # l => waitingIds'[k] = waitingIds[k]
        /\ held'[t] = held[t] /\ ret'[t] = "RETRY" /\ victim'[t] = acquiredId[l] /\ lk'[t] = l
    BY <1>0, <1>y DEF TypeOK, serverVars, clientVars, RevokeHolder, GoTo,
       SendRevoke
  <1>o. OthersKeep(t)
    BY <1>0, Others DEF TypeOK, serverVars, clientVars, RevokeHolder, GoTo,
       SendRevoke
  <1>t. IsAt(t, lk[t], pc[t]) /\ IsAt(t, l, "revokeRPC")'
    BY <1>0, <1>y, Position DEF TypeOK, serverVars, clientVars, RevokeHolder,
       GoTo, SendRevoke
  <1>f. sstate[l] = "USED"
    BY DEF RevokeHolder
  <1>a. waitingIds'[l] = Append(waitingIds[l], Owner[t])
    BY <1>0, <1>y DEF TypeOK, RevokeHolder
  <1>q. /\ waitingIds'[l] # <<>> /\ NoDuplicate(waitingIds'[l])
        /\ ~ InSeq(Owner[t], waitingIds[l])
        /\ \A c \in Clients : InSeq(c, waitingIds'[l]) <=>
                              InSeq(c, waitingIds[l]) \/ c = Owner[t]
        /\ \A c \in Clients : ~ InSeq(c, waitingIds[l])
    <2>1. ~ InSeq(Owner[t], waitingIds[l])
      BY <1>0, <1>y, <1>f, <1>t, QueueFacts DEF RetryAgain, IsFront, IsAt,
         QueueSound
    <2>2. LET q == waitingIds[l] IN
          /\ Append(q, Owner[t]) # <<>>
          /\ \A c : InSeq(c, Append(q, Owner[t])) <=> InSeq(c, q) \/ c = Owner[t]
          /\ ~ InSeq(Owner[t], q) => NoDuplicate(Append(q, Owner[t]))
          /\ Head(Append(q, Owner[t])) = IF q = <<>> THEN Owner[t] ELSE Head(q)
      BY <1>0, <1>y, QueueFacts, ZenonT(30)
    <2> QED BY <1>0, <1>y, <1>f, QueueFacts, <1>a, <2>1, <2>2 DEF QueueSound
  <1>v. \A c \in Clients :
          cstate[c][l] \in {"NONE", "FREE", "ACQUIRING", "USED", "RELEASING"}
    BY <1>0, <1>y DEF TypeOK
  <1>1. EntryTenure'
    BY <1>0, <1>y, <1>e, <1>q DEF EntryTenure
  <1>2. EngagedState' /\ HandlerInv' /\ ThreadTenure' /\ RevokeNoted' /\
        RetryQueued' /\ RetrySent'
    BY <1>0, <1>y, <1>e, <1>o, <1>t, <1>f, <1>q DEF EngagedState, OthersKeep,
       IsAt, HandlerInv, Engaged, ThreadTenure, RevokeNoted, RetryQueued,
       RetrySent, IsFront
  <1>3. QueueSound'
    BY <1>0, <1>y, <1>e, <1>o, <1>t, <1>f, <1>q DEF QueueSound, EntryTenure,
       ThreadTenure, RetryAgain, OthersKeep, IsAt, IsFront
  <1>4. EngagedOnce'
    BY <1>0, <1>y, <1>e, <1>o, <1>t, <1>f, <1>q DEF EngagedOnce, EngagedState,
       OthersKeep, IsAt, Engaged
  <1>5. RevokeSent'
    BY <1>0, <1>y, <1>e, <1>o, <1>t, <1>f, <1>q, Phases, <1>v DEF RevokeSent,
       RevokeNoted, ThreadTenure, EntryTenure, EngagedOnce, EngagedState,
       HandlerInv, RetryAgain, QueueSound, OthersKeep, IsAt, Engaged, IsFront
  <1>6. RetryAgain'
    BY <1>0, <1>y, <1>e, <1>o, <1>t, <1>f, <1>q, Phases DEF RetryAgain,
       RetrySent, RetryNoted, ThreadTenure, RetryQueued, EntryTenure,
       QueuedAcquires, HandlerInv, EngagedOnce, OthersKeep, IsAt, Engaged,
       IsFront
  <1>7. RetryNoted'
    BY <1>0, <1>y, <1>e, <1>o, <1>t, <1>f, <1>q DEF RetryNoted, RetryAgain,
       RetrySent, ThreadTenure, EngagedOnce, RetryQueued, OthersKeep, IsAt,
       Engaged, IsFront
  <1>8. QueuedAcquires'
    BY <1>0, <1>y, <1>e, <1>o, <1>t, <1>f, <1>q DEF QueuedAcquires,
       EngagedState, ThreadTenure, RetryQueued, HandlerInv, RevokeSent,
       QueueSound, OthersKeep, IsAt, Engaged
  <1> QED BY <1>1, <1>2, <1>3, <1>4, <1>5, <1>6, <1>7, <1>8 DEF IndInv

\* A further client is queued behind others.
LEMMA EnqueueStep ==
  ASSUME IndInv, TypeOK', NEW t \in Threads, NEW l \in Locks, lk[t] = l,
         pc[t] = "acquireRPC", UNCHANGED <<clientVars, held, lk, next>>,
         Enqueue(t, lk[t])
  PROVE  IndInv'
  <1>0. /\ TypeOK /\ QueueSound /\ EngagedOnce /\ EngagedState /\ HandlerInv
        /\ ThreadTenure /\ EntryTenure /\ RevokeSent /\ RevokeNoted
        /\ RetryQueued /\ RetryAgain /\ RetrySent /\ RetryNoted
        /\ QueuedAcquires
    BY DEF IndInv
  <1>y. /\ l \in Locks /\ NoClient \notin Clients
        /\ \A u \in Threads : Owner[u] \in Clients
        /\ \A u \in Threads : lk[u] \in Locks /\ ret[u] \in {"NONE", "OK", "RETRY"}
        /\ \A k \in Locks : acquiredId[k] \in Clients \cup {NoClient}
    BY <1>0, OwnerAssumption, NoClientAssumption DEF TypeOK
  <1>e. /\ UNCHANGED <<sstate, acquiredId, cstate, toRevoke, toRetry>>
        /\ \A k \in Locks : k # l => waitingIds'[k] = waitingIds[k]
        /\ held'[t] = held[t] /\ ret'[t] = "RETRY" /\ lk'[t] = l
    BY <1>0, <1>y DEF TypeOK, serverVars, clientVars, Enqueue, GoTo,
       ServerReply, FrontIs
  <1>o. OthersKeep(t)
    BY <1>0, Others DEF TypeOK, serverVars, clientVars, Enqueue, GoTo,
       ServerReply, FrontIs
  <1>t. IsAt(t, lk[t], pc[t]) /\ IsAt(t, l, "acquireReply")'
    BY <1>0, <1>y, Position DEF TypeOK, serverVars, clientVars, Enqueue, GoTo,
       ServerReply, FrontIs
  <1>f. sstate[l] = "TOREVOKE" /\ ~ (Head(waitingIds[l]) = Owner[t])
    BY DEF Enqueue, FrontIs
  <1>a. waitingIds'[l] = Append(waitingIds[l], Owner[t])
    BY <1>0, <1>y DEF TypeOK, Enqueue
  <1>q. /\ waitingIds'[l] # <<>> /\ NoDuplicate(waitingIds'[l])
        /\ ~ InSeq(Owner[t], waitingIds[l])
        /\ \A c \in Clients : InSeq(c, waitingIds'[l]) <=>
                              InSeq(c, waitingIds[l]) \/ c = Owner[t]
        /\ Head(waitingIds'[l]) = Head(waitingIds[l])
    <2>1. ~ InSeq(Owner[t], waitingIds[l])
      BY <1>0, <1>y, <1>f, <1>t, QueueFacts DEF RetryAgain, IsFront, IsAt,
         QueueSound
    <2>2. LET q == waitingIds[l] IN
          /\ Append(q, Owner[t]) # <<>>
          /\ \A c : InSeq(c, Append(q, Owner[t])) <=> InSeq(c, q) \/ c = Owner[t]
          /\ ~ InSeq(Owner[t], q) => NoDuplicate(Append(q, Owner[t]))
          /\ Head(Append(q, Owner[t])) = IF q = <<>> THEN Owner[t] ELSE Head(q)
      BY <1>0, <1>y, QueueFacts, ZenonT(30)
    <2> QED BY <1>0, <1>f, <1>a, <2>1, <2>2 DEF QueueSound
  <1>1. EntryTenure' /\ RetryNoted'
    BY <1>0, <1>y, <1>e, <1>q DEF EntryTenure, RetryNoted, IsFront
  <1>2. EngagedState' /\ HandlerInv' /\ ThreadTenure' /\ RevokeSent' /\
        RevokeNoted' /\ RetryQueued' /\ RetrySent'
    BY <1>0, <1>y, <1>e, <1>o, <1>t, <1>f, <1>q DEF EngagedState, OthersKeep,
       IsAt, HandlerInv, Engaged, ThreadTenure, RevokeSent, RevokeNoted,
       RetryQueued, RetrySent, IsFront
  <1>3. QueueSound'
    BY <1>0, <1>y, <1>e, <1>o, <1>t, <1>f, <1>q DEF QueueSound, EntryTenure,
       ThreadTenure, RetryAgain, OthersKeep, IsAt, IsFront
  <1>4. EngagedOnce'
    BY <1>0, <1>y, <1>e, <1>o, <1>t, <1>f, <1>q DEF EngagedOnce, EngagedState,
       OthersKeep, IsAt, Engaged
  <1>5. RetryAgain'
    BY <1>0, <1>y, <1>e, <1>o, <1>t, <1>f, <1>q, Phases DEF RetryAgain,
       RetrySent, RetryNoted, ThreadTenure, RetryQueued, EntryTenure,
       QueuedAcquires, HandlerInv, EngagedOnce, OthersKeep, IsAt, Engaged,
       IsFront
  <1>6. QueuedAcquires'
    BY <1>0, <1>y, <1>e, <1>o, <1>t, <1>f, <1>q DEF QueuedAcquires,
       EngagedState, ThreadTenure, RetryQueued, HandlerInv, RevokeSent,
       QueueSound, OthersKeep, IsAt, Engaged
  <1> QED BY <1>1, <1>2, <1>3, <1>4, <1>5, <1>6 DEF IndInv

\* The only waiter came back and gets the lock.
LEMMA GrantFrontLastStep ==
  ASSUME IndInv, TypeOK', NEW t \in Threads, NEW l \in Locks, lk[t] = l,
         pc[t] = "acquireRPC", UNCHANGED <<clientVars, held, lk, next>>,
         Tail(waitingIds[lk[t]]) = <<>>, GrantFront(t, lk[t])
  PROVE  IndInv'
  <1>0. /\ TypeOK /\ QueueSound /\ EngagedOnce /\ EngagedState /\ HandlerInv
        /\ ThreadTenure /\ EntryTenure /\ RevokeSent /\ RevokeNoted
        /\ RetryQueued /\ RetryAgain /\ RetrySent /\ RetryNoted
        /\ QueuedAcquires
    BY DEF IndInv
  <1>y. /\ l \in Locks /\ NoClient \notin Clients
        /\ \A u \in Threads : Owner[u] \in Clients
        /\ \A u \in Threads : lk[u] \in Locks /\ ret[u] \in {"NONE", "OK", "RETRY"}
        /\ \A k \in Locks : acquiredId[k] \in Clients \cup {NoClient}
    BY <1>0, OwnerAssumption, NoClientAssumption DEF TypeOK
  <1>e. /\ UNCHANGED <<cstate, toRevoke, toRetry>>
        /\ sstate'[l] = "USED"
        /\ \A k \in Locks : k # l => sstate'[k] = sstate[k]
        /\ acquiredId'[l] = Owner[t]
        /\ \A k \in Locks : k # l => acquiredId'[k] = acquiredId[k]
        /\ \A k \in Locks : k # l => waitingIds'[k] = waitingIds[k]
        /\ held'[t] = held[t] /\ ret'[t] = "OK" /\ lk'[t] = l
    BY <1>0, <1>y DEF TypeOK, serverVars, clientVars, GrantFront, GoTo,
       ServerReply, FrontIs
  <1>o. OthersKeep(t)
    BY <1>0, Others DEF TypeOK, serverVars, clientVars, GrantFront, GoTo,
       ServerReply, FrontIs
  <1>t. IsAt(t, lk[t], pc[t]) /\ IsAt(t, l, "acquireReply")'
    BY <1>0, <1>y, Position DEF TypeOK, serverVars, clientVars, GrantFront,
       GoTo, ServerReply, FrontIs
  <1>f. sstate[l] = "TOREVOKE" /\ Head(waitingIds[l]) = Owner[t]
    BY DEF GrantFront, FrontIs
  <1>a. waitingIds'[l] = Tail(waitingIds[l])
    BY <1>0, <1>y DEF TypeOK, GrantFront
  <1>d. Tail(waitingIds[l]) = <<>>
    OBVIOUS
  <1>q. /\ InSeq(Owner[t], waitingIds[l]) /\ NoDuplicate(waitingIds'[l])
        /\ \A c \in Clients : InSeq(c, waitingIds'[l]) <=>
                              InSeq(c, waitingIds[l]) /\ c # Owner[t]
        /\ waitingIds'[l] = <<>>
    <2>1. waitingIds[l] # <<>>
      BY <1>0, <1>y, <1>f DEF QueueSound
    <2>2. LET q == waitingIds[l] IN
          /\ InSeq(Head(q), q) /\ NoDuplicate(Tail(q))
          /\ \A c : InSeq(c, Tail(q)) <=> InSeq(c, q) /\ c # Head(q)
      BY <1>0, <1>y, <2>1, QueueFacts, ZenonT(30)
    <2> QED BY <1>a, <1>f, <1>d, <2>2
  <1>g. /\ acquiredId[l] = NoClient /\ ~ toRetry[Owner[t]][l]
        /\ \A u \in Threads : ~ Retrying(u, l)
    BY <1>0, <1>y, <1>t, <1>q DEF RetryAgain, IsFront, IsAt
  <1>1. QueueSound' /\ QueuedAcquires'
    BY <1>0, <1>y, <1>e, <1>q DEF QueueSound, QueuedAcquires
  <1>2. EngagedState' /\ HandlerInv' /\ RevokeNoted' /\ RetryAgain' /\
        RetrySent'
    BY <1>0, <1>y, <1>e, <1>o, <1>t, <1>f, <1>q, <1>g DEF EngagedState,
       OthersKeep, IsAt, HandlerInv, Engaged, RevokeNoted, RetryAgain,
       IsFront, RetrySent
  <1>3. EngagedOnce'
    BY <1>0, <1>y, <1>e, <1>o, <1>t, <1>f, <1>q, <1>g DEF EngagedOnce,
       EngagedState, OthersKeep, IsAt, Engaged
  <1>4. ThreadTenure'
    BY <1>0, <1>y, <1>e, <1>o, <1>t, <1>f, <1>q, <1>g DEF ThreadTenure,
       EngagedOnce, EngagedState, HandlerInv, EntryTenure, RevokeSent,
       OthersKeep, IsAt, Engaged
  <1>5. EntryTenure'
    BY <1>0, <1>y, <1>e, <1>o, <1>t, <1>f, <1>q, <1>g DEF EntryTenure,
       ThreadTenure, EngagedState, HandlerInv, RevokeSent, RevokeNoted,
       RetryAgain, QueueSound, OthersKeep, IsAt, Engaged, IsFront
  <1>6. RevokeSent'
    BY <1>0, <1>y, <1>e, <1>o, <1>t, <1>f, <1>q, <1>g, Phases DEF RevokeSent,
       RevokeNoted, ThreadTenure, EntryTenure, EngagedOnce, EngagedState,
       HandlerInv, RetryAgain, QueueSound, OthersKeep, IsAt, Engaged, IsFront
  <1>7. RetryQueued'
    BY <1>0, <1>y, <1>e, <1>o, <1>t, <1>f, <1>q, <1>g DEF RetryQueued,
       EngagedOnce, ThreadTenure, OthersKeep, IsAt, Engaged
  <1>8. RetryNoted'
    BY <1>0, <1>y, <1>e, <1>o, <1>t, <1>f, <1>q, <1>g DEF RetryNoted,
       RetryAgain, RetrySent, ThreadTenure, EngagedOnce, RetryQueued,
       OthersKeep, IsAt, Engaged, IsFront
  <1> QED BY <1>1, <1>2, <1>3, <1>4, <1>5, <1>6, <1>7, <1>8 DEF IndInv

\* The first of several waiters gets the lock and is revoked at once.
LEMMA GrantFrontMoreStep ==
  ASSUME IndInv, TypeOK', NEW t \in Threads, NEW l \in Locks, lk[t] = l,
         pc[t] = "acquireRPC", UNCHANGED <<clientVars, held, lk, next>>,
         Tail(waitingIds[lk[t]]) # <<>>, GrantFront(t, lk[t])
  PROVE  IndInv'
  <1>0. /\ TypeOK /\ QueueSound /\ EngagedOnce /\ EngagedState /\ HandlerInv
        /\ ThreadTenure /\ EntryTenure /\ RevokeSent /\ RevokeNoted
        /\ RetryQueued /\ RetryAgain /\ RetrySent /\ RetryNoted
        /\ QueuedAcquires
    BY DEF IndInv
  <1>y. /\ l \in Locks /\ NoClient \notin Clients
        /\ \A u \in Threads : Owner[u] \in Clients
        /\ \A u \in Threads : lk[u] \in Locks /\ ret[u] \in {"NONE", "OK", "RETRY"}
        /\ \A k \in Locks : acquiredId[k] \in Clients \cup {NoClient}
    BY <1>0, OwnerAssumption, NoClientAssumption DEF TypeOK
  <1>e. /\ UNCHANGED <<sstate, cstate, toRevoke, toRetry>>
        /\ acquiredId'[l] = Owner[t]
        /\ \A k \in Locks : k # l => acquiredId'[k] = acquiredId[k]
        /\ \A k \in Locks : k # l => waitingIds'[k] = waitingIds[k]
        /\ held'[t] = held[t] /\ ret'[t] = "OK" /\ victim'[t] = Owner[t] /\ lk'[t] = l
    BY <1>0, <1>y DEF TypeOK, serverVars, clientVars, GrantFront, GoTo,
       SendRevoke, FrontIs
  <1>o. OthersKeep(t)
    BY <1>0, Others DEF TypeOK, serverVars, clientVars, GrantFront, GoTo,
       SendRevoke, FrontIs
  <1>t. IsAt(t, lk[t], pc[t]) /\ IsAt(t, l, "revokeRPC")'
    BY <1>0, <1>y, Position DEF TypeOK, serverVars, clientVars, GrantFront,
       GoTo, SendRevoke, FrontIs
  <1>f. sstate[l] = "TOREVOKE" /\ Head(waitingIds[l]) = Owner[t]
    BY DEF GrantFront, FrontIs
  <1>a. waitingIds'[l] = Tail(waitingIds[l])
    BY <1>0, <1>y DEF TypeOK, GrantFront
  <1>d. Tail(waitingIds[l]) # <<>>
    OBVIOUS
  <1>q. /\ InSeq(Owner[t], waitingIds[l]) /\ NoDuplicate(waitingIds'[l])
        /\ \A c \in Clients : InSeq(c, waitingIds'[l]) <=>
                              InSeq(c, waitingIds[l]) /\ c # Owner[t]
        /\ waitingIds'[l] # <<>>
    <2>1. waitingIds[l] # <<>>
      BY <1>0, <1>y, <1>f DEF QueueSound
    <2>2. LET q == waitingIds[l] IN
          /\ InSeq(Head(q), q) /\ NoDuplicate(Tail(q))
          /\ \A c : InSeq(c, Tail(q)) <=> InSeq(c, q) /\ c # Head(q)
      BY <1>0, <1>y, <2>1, QueueFacts, ZenonT(30)
    <2> QED BY <1>a, <1>f, <1>d, <2>2
  <1>g. /\ acquiredId[l] = NoClient /\ ~ toRetry[Owner[t]][l]
        /\ \A u \in Threads : ~ Retrying(u, l)
    BY <1>0, <1>y, <1>t, <1>q DEF RetryAgain, IsFront, IsAt
  <1>1. QueueSound' /\ QueuedAcquires'
    BY <1>0, <1>y, <1>e, <1>q DEF QueueSound, QueuedAcquires
  <1>2. EngagedState' /\ HandlerInv' /\ RevokeNoted' /\ RetryAgain' /\
        RetrySent'
    BY <1>0, <1>y, <1>e, <1>o, <1>t, <1>f, <1>q, <1>g DEF EngagedState,
       OthersKeep, IsAt, HandlerInv, Engaged, RevokeNoted, RetryAgain,
       IsFront, RetrySent
  <1>3. EngagedOnce'
    BY <1>0, <1>y, <1>e, <1>o, <1>t, <1>f, <1>q, <1>g DEF EngagedOnce,
       EngagedState, OthersKeep, IsAt, Engaged
  <1>4. ThreadTenure'
    BY <1>0, <1>y, <1>e, <1>o, <1>t, <1>f, <1>q, <1>g DEF ThreadTenure,
       EngagedOnce, EngagedState, HandlerInv, EntryTenure, RevokeSent,
       OthersKeep, IsAt, Engaged
  <1>5. EntryTenure'
    BY <1>0, <1>y, <1>e, <1>o, <1>t, <1>f, <1>q, <1>g DEF EntryTenure,
       ThreadTenure, EngagedState, HandlerInv, RevokeSent, RevokeNoted,
       RetryAgain, QueueSound, OthersKeep, IsAt, Engaged, IsFront
  <1>6. RevokeSent'
    BY <1>0, <1>y, <1>e, <1>o, <1>t, <1>f, <1>q, <1>g DEF RevokeSent,
       RevokeNoted, ThreadTenure, EntryTenure, EngagedOnce, EngagedState,
       HandlerInv, RetryAgain, QueueSound, OthersKeep, IsAt, Engaged, IsFront
  <1>7. RetryQueued'
    BY <1>0, <1>y, <1>e, <1>o, <1>t, <1>f, <1>q, <1>g DEF RetryQueued,
       EngagedOnce, ThreadTenure, OthersKeep, IsAt, Engaged
  <1>8. RetryNoted'
    BY <1>0, <1>y, <1>e, <1>o, <1>t, <1>f, <1>q, <1>g DEF RetryNoted,
       RetryAgain, RetrySent, ThreadTenure, EngagedOnce, RetryQueued,
       OthersKeep, IsAt, Engaged, IsFront
  <1> QED BY <1>1, <1>2, <1>3, <1>4, <1>5, <1>6, <1>7, <1>8 DEF IndInv

\* acquire() got OK from the server.
LEMMA AcquireDoneStep ==
  ASSUME IndInv, TypeOK', NEW t \in Threads, NEW l \in Locks, lk[t] = l,
         pc[t] = "acquireReply", ret[t] = "OK",
         ret' = [ret EXCEPT ![t] = "NONE"], AcquireDone(t)
  PROVE  IndInv'
  <1>0. /\ TypeOK /\ QueueSound /\ EngagedOnce /\ EngagedState /\ HandlerInv
        /\ ThreadTenure /\ EntryTenure /\ RevokeSent /\ RevokeNoted
        /\ RetryQueued /\ RetryAgain /\ RetrySent /\ RetryNoted
        /\ QueuedAcquires
    BY DEF IndInv
  <1>y. /\ l \in Locks /\ NoClient \notin Clients
        /\ \A u \in Threads : Owner[u] \in Clients
        /\ \A u \in Threads : lk[u] \in Locks /\ ret[u] \in {"NONE", "OK", "RETRY"}
        /\ \A k \in Locks : acquiredId[k] \in Clients \cup {NoClient}
    BY <1>0, OwnerAssumption, NoClientAssumption DEF TypeOK
  <1>e. /\ UNCHANGED <<sstate, acquiredId, waitingIds, toRevoke, toRetry>>
        /\ cstate'[Owner[t]][l] = "USED"
        /\ \A c \in Clients, k \in Locks : c # Owner[t] \/ k # l =>
             (cstate'[c][k] = cstate[c][k])
        /\ ret'[t] = "NONE" /\ held'[t] = held[t] \cup {l} /\ lk'[t] = l
    <2>1. cstate' = [cstate EXCEPT ![Owner[t]][l] = "USED"]
      BY <1>0 DEF AcquireDone, GoTo, SetClientState
    <2> QED BY <1>0, <1>y, <2>1 DEF TypeOK, serverVars, clientVars,
                AcquireDone, GoTo, SetClientState
  <1>o. OthersKeep(t)
    BY <1>0, Others DEF TypeOK, serverVars, clientVars, AcquireDone, GoTo,
       SetClientState
  <1>t. IsAt(t, lk[t], pc[t]) /\ IsAt(t, l, "user")'
    BY <1>0, <1>y, Position DEF TypeOK, serverVars, clientVars, AcquireDone,
       GoTo, SetClientState
  <1>1. QueueSound' /\ EntryTenure' /\ RetryNoted'
    BY <1>0, <1>y, <1>e DEF QueueSound, EntryTenure, RetryNoted, IsFront
  <1>2. HandlerInv' /\ ThreadTenure' /\ RevokeSent' /\ RevokeNoted' /\
        RetryQueued' /\ RetryAgain' /\ RetrySent'
    BY <1>0, <1>y, <1>e, <1>o, <1>t DEF HandlerInv, OthersKeep, IsAt, Engaged,
       ThreadTenure, RevokeSent, RevokeNoted, RetryQueued, RetryAgain,
       IsFront, RetrySent
  <1>3. EngagedOnce'
    BY <1>0, <1>y, <1>e, <1>o, <1>t DEF EngagedOnce, EngagedState, OthersKeep,
       IsAt, Engaged
  <1>4. EngagedState'
    BY <1>0, <1>y, <1>e, <1>o, <1>t DEF EngagedState, EngagedOnce, HandlerInv,
       RevokeSent, OthersKeep, IsAt, Engaged
  <1>5. QueuedAcquires'
    BY <1>0, <1>y, <1>e, <1>o, <1>t DEF QueuedAcquires, EngagedState,
       ThreadTenure, RetryQueued, HandlerInv, RevokeSent, QueueSound,
       OthersKeep, IsAt, Engaged
  <1> QED BY <1>1, <1>2, <1>3, <1>4, <1>5 DEF IndInv

\* acquire() got RETRY and its retry is already there.
LEMMA AwaitRetryGoStep ==
  ASSUME IndInv, TypeOK', NEW t \in Threads, NEW l \in Locks, lk[t] = l,
         pc[t] = "retryWoken" \/ (pc[t] = "acquireReply" /\ ret[t] = "RETRY"),
         ret' = [ret EXCEPT ![t] = "NONE"], toRetry[Owner[t]][lk[t]],
         AwaitRetry(t)
  PROVE  IndInv'
  <1>0. /\ TypeOK /\ QueueSound /\ EngagedOnce /\ EngagedState /\ HandlerInv
        /\ ThreadTenure /\ EntryTenure /\ RevokeSent /\ RevokeNoted
        /\ RetryQueued /\ RetryAgain /\ RetrySent /\ RetryNoted
        /\ QueuedAcquires
    BY DEF IndInv
  <1>y. /\ l \in Locks /\ NoClient \notin Clients
        /\ \A u \in Threads : Owner[u] \in Clients
        /\ \A u \in Threads : lk[u] \in Locks /\ ret[u] \in {"NONE", "OK", "RETRY"}
        /\ \A k \in Locks : acquiredId[k] \in Clients \cup {NoClient}
    BY <1>0, OwnerAssumption, NoClientAssumption DEF TypeOK
  <1>e. /\ UNCHANGED <<sstate, acquiredId, waitingIds, cstate, toRevoke>>
        /\ toRetry'[Owner[t]][l] <=> FALSE
        /\ \A c \in Clients, k \in Locks : c # Owner[t] \/ k # l =>
             (toRetry'[c][k] <=> toRetry[c][k])
        /\ held'[t] = held[t] /\ ret'[t] = "NONE" /\ lk'[t] = l
    <2>1. toRetry' = [toRetry EXCEPT ![Owner[t]][l] = FALSE]
      BY <1>0 DEF AwaitRetry, GoTo, ConsumeRetry
    <2> QED BY <1>0, <1>y, <2>1 DEF TypeOK, serverVars, clientVars,
                AwaitRetry, GoTo, ConsumeRetry
  <1>o. OthersKeep(t)
    BY <1>0, Others DEF TypeOK, serverVars, clientVars, AwaitRetry, GoTo,
       ConsumeRetry
  <1>t. IsAt(t, lk[t], pc[t]) /\ IsAt(t, l, "acquireRPC")'
    BY <1>0, <1>y, Position DEF TypeOK, serverVars, clientVars, AwaitRetry,
       GoTo, ConsumeRetry
  <1>1. QueueSound' /\ EntryTenure' /\ RetryNoted' /\ QueuedAcquires'
    BY <1>0, <1>y, <1>e DEF QueueSound, EntryTenure, RetryNoted, IsFront,
       QueuedAcquires
  <1>2. EngagedState' /\ HandlerInv' /\ ThreadTenure' /\ RevokeSent' /\
        RevokeNoted' /\ RetryQueued' /\ RetrySent'
    BY <1>0, <1>y, <1>e, <1>o, <1>t DEF EngagedState, OthersKeep, IsAt,
       HandlerInv, Engaged, ThreadTenure, RevokeSent, RevokeNoted,
       RetryQueued, RetrySent, IsFront
  <1>3. EngagedOnce'
    BY <1>0, <1>y, <1>e, <1>o, <1>t DEF EngagedOnce, EngagedState, OthersKeep,
       IsAt, Engaged
  <1>4. RetryAgain'
    BY <1>0, <1>y, <1>e, <1>o, <1>t DEF RetryAgain, RetrySent, RetryNoted,
       ThreadTenure, RetryQueued, EntryTenure, QueuedAcquires, HandlerInv,
       OthersKeep, IsAt, Engaged, IsFront
  <1> QED BY <1>1, <1>2, <1>3, <1>4 DEF IndInv

\* acquire() got RETRY and sleeps until it is told to retry.
LEMMA AwaitRetryWaitStep ==
  ASSUME IndInv, TypeOK', NEW t \in Threads, NEW l \in Locks, lk[t] = l,
         pc[t] = "retryWoken" \/ (pc[t] = "acquireReply" /\ ret[t] = "RETRY"),
         ret' = [ret EXCEPT ![t] = "NONE"], ~ toRetry[Owner[t]][lk[t]],
         AwaitRetry(t)
  PROVE  IndInv'
  <1>0. /\ TypeOK /\ QueueSound /\ EngagedOnce /\ EngagedState /\ HandlerInv
        /\ ThreadTenure /\ EntryTenure /\ RevokeSent /\ RevokeNoted
        /\ RetryQueued /\ RetryAgain /\ RetrySent /\ RetryNoted
        /\ QueuedAcquires
    BY DEF IndInv
  <1>y. /\ l \in Locks /\ NoClient \notin Clients
        /\ \A u \in Threads : Owner[u] \in Clients
        /\ \A u \in Threads : lk[u] \in Locks /\ ret[u] \in {"NONE", "OK", "RETRY"}
        /\ \A k \in Locks : acquiredId[k] \in Clients \cup {NoClient}
    BY <1>0, OwnerAssumption, NoClientAssumption DEF TypeOK
  <1>e. /\ UNCHANGED <<sstate, acquiredId, waitingIds, cstate, toRevoke, toRetry>>
        /\ held'[t] = held[t] /\ ret'[t] = "NONE" /\ lk'[t] = l
    BY <1>0, <1>y DEF TypeOK, serverVars, clientVars, AwaitRetry, GoTo
  <1>o. OthersKeep(t)
    BY <1>0, Others DEF TypeOK, serverVars, clientVars, AwaitRetry, GoTo
  <1>t. IsAt(t, lk[t], pc[t]) /\ IsAt(t, l, "retryWait")'
    BY <1>0, <1>y, Position DEF TypeOK, serverVars, clientVars, AwaitRetry,
       GoTo
  <1>1. QueueSound' /\ EntryTenure' /\ RetryNoted' /\ QueuedAcquires'
    BY <1>0, <1>y, <1>e DEF QueueSound, EntryTenure, RetryNoted, IsFront,
       QueuedAcquires
  <1>2. EngagedState' /\ HandlerInv' /\ ThreadTenure' /\ RevokeSent' /\
        RevokeNoted' /\ RetryQueued' /\ RetryAgain' /\ RetrySent'
    <2>1. EngagedState'
      BY <1>0, <1>y, <1>e, <1>o, <1>t DEF EngagedState, OthersKeep, IsAt,
         Engaged, IsFront
    <2>2. HandlerInv'
      BY <1>0, <1>y, <1>e, <1>o, <1>t DEF HandlerInv, OthersKeep, IsAt,
         Engaged, IsFront
    <2>3. ThreadTenure'
      BY <1>0, <1>y, <1>e, <1>o, <1>t DEF ThreadTenure, OthersKeep, IsAt,
         Engaged, IsFront
    <2>4. RevokeSent'
      BY <1>0, <1>y, <1>e, <1>o, <1>t DEF RevokeSent, OthersKeep, IsAt,
         Engaged, IsFront
    <2>5. RevokeNoted'
      BY <1>0, <1>y, <1>e, <1>o, <1>t DEF RevokeNoted, OthersKeep, IsAt,
         Engaged, IsFront
    <2>6. RetryQueued'
      BY <1>0, <1>y, <1>e, <1>o, <1>t DEF RetryQueued, OthersKeep, IsAt,
         Engaged, IsFront
    <2>7. RetryAgain'
      BY <1>0, <1>y, <1>e, <1>o, <1>t DEF RetryAgain, OthersKeep, IsAt,
         Engaged, IsFront
    <2>8. RetrySent'
      BY <1>0, <1>y, <1>e, <1>o, <1>t DEF RetrySent, OthersKeep, IsAt, Engaged,
         IsFront
    <2>. QED BY <2>1, <2>2, <2>3, <2>4, <2>5, <2>6, <2>7, <2>8
  <1>3. EngagedOnce'
    BY <1>0, <1>y, <1>e, <1>o, <1>t DEF EngagedOnce, EngagedState, OthersKeep,
       IsAt, Engaged
  <1> QED BY <1>1, <1>2, <1>3 DEF IndInv

\* A revoke finds the lock cached: the handler gives it back.
LEMMA RevokeFreeStep ==
  ASSUME IndInv, TypeOK', NEW t \in Threads, NEW l \in Locks, lk[t] = l,
         cstate[victim[t]][lk[t]] = "FREE", RevokeHandler(t)
  PROVE  IndInv'
  <1>0. /\ TypeOK /\ QueueSound /\ EngagedOnce /\ EngagedState /\ HandlerInv
        /\ ThreadTenure /\ EntryTenure /\ RevokeSent /\ RevokeNoted
        /\ RetryQueued /\ RetryAgain /\ RetrySent /\ RetryNoted
        /\ QueuedAcquires
    BY DEF IndInv
  <1>y. /\ l \in Locks /\ NoClient \notin Clients /\ victim[t] \in Clients
        /\ \A u \in Threads : Owner[u] \in Clients
        /\ \A u \in Threads : lk[u] \in Locks /\ ret[u] \in {"NONE", "OK", "RETRY"}
        /\ \A k \in Locks : acquiredId[k] \in Clients \cup {NoClient}
    <2>1. /\ l \in Locks /\ NoClient \notin Clients
          /\ \A u \in Threads : Owner[u] \in Clients
          /\ \A u \in Threads : lk[u] \in Locks /\ ret[u] \in {"NONE", "OK", "RETRY"}
          /\ \A k \in Locks : acquiredId[k] \in Clients \cup {NoClient}
      BY <1>0, OwnerAssumption, NoClientAssumption DEF TypeOK
    <2>2. victim[t] \in Clients
      BY <1>0, <2>1 DEF RevokeSent, At, RevokeHandler
    <2> QED BY <2>1, <2>2
  <1>e. /\ UNCHANGED <<sstate, acquiredId, waitingIds, toRevoke, toRetry>>
        /\ cstate'[victim[t]][l] = "RELEASING"
        /\ \A c \in Clients, k \in Locks : c # victim[t] \/ k # l =>
             (cstate'[c][k] = cstate[c][k])
        /\ held'[t] = held[t] /\ ret'[t] = ret[t] /\ victim'[t] = victim[t] /\ lk'[t] = l
    <2>1. cstate' = [cstate EXCEPT ![victim[t]][l] = "RELEASING"]
      BY <1>0 DEF RevokeHandler, GoTo, SetClientState
    <2> QED BY <1>0, <1>y, <2>1 DEF TypeOK, serverVars, clientVars,
                RevokeHandler, GoTo, SetClientState
  <1>o. OthersKeep(t)
    BY <1>0, Others DEF TypeOK, serverVars, clientVars, RevokeHandler, GoTo,
       SetClientState
  <1>t. IsAt(t, lk[t], pc[t]) /\ IsAt(t, l, "revokeRelease")'
    BY <1>0, <1>y, Position DEF TypeOK, serverVars, clientVars, RevokeHandler,
       GoTo, SetClientState
  <1>w. pc[t] = "revokeRPC"
    BY DEF RevokeHandler
  <1>1. QueueSound' /\ RetryNoted' /\ QueuedAcquires'
    BY <1>0, <1>y, <1>e DEF QueueSound, RetryNoted, IsFront, QueuedAcquires
  <1>2. EngagedState' /\ RevokeSent' /\ RevokeNoted' /\ RetryQueued' /\
        RetryAgain' /\ RetrySent'
    <2>1. EngagedState'
      BY <1>0, <1>y, <1>e, <1>o, <1>t, <1>w DEF EngagedState, OthersKeep, IsAt,
         IsFront
    <2>2. RevokeSent'
      BY <1>0, <1>y, <1>e, <1>o, <1>t, <1>w DEF RevokeSent, OthersKeep, IsAt,
         IsFront
    <2>3. RevokeNoted'
      BY <1>0, <1>y, <1>e, <1>o, <1>t, <1>w DEF RevokeNoted, OthersKeep, IsAt,
         IsFront
    <2>4. RetryQueued'
      BY <1>0, <1>y, <1>e, <1>o, <1>t, <1>w DEF RetryQueued, OthersKeep, IsAt,
         IsFront
    <2>5. RetryAgain'
      BY <1>0, <1>y, <1>e, <1>o, <1>t, <1>w DEF RetryAgain, OthersKeep, IsAt,
         IsFront
    <2>6. RetrySent'
      BY <1>0, <1>y, <1>e, <1>o, <1>t, <1>w DEF RetrySent, OthersKeep, IsAt,
         IsFront
    <2>. QED BY <2>1, <2>2, <2>3, <2>4, <2>5, <2>6
  <1>3. EngagedOnce'
    BY <1>0, <1>y, <1>e, <1>o, <1>t, <1>w DEF EngagedOnce, EngagedState,
       OthersKeep, IsAt, Engaged
  <1>4. HandlerInv'
    BY <1>0, <1>y, <1>e, <1>o, <1>t, <1>w DEF HandlerInv, EngagedState,
       EntryTenure, RevokeSent, ThreadTenure, OthersKeep, IsAt, Engaged
  <1>5. ThreadTenure'
    BY <1>0, <1>y, <1>e, <1>o, <1>t, <1>w DEF ThreadTenure, EngagedOnce,
       EngagedState, HandlerInv, EntryTenure, RevokeSent, OthersKeep, IsAt,
       Engaged
  <1>6. EntryTenure'
    BY <1>0, <1>y, <1>e, <1>o, <1>t, <1>w DEF EntryTenure, ThreadTenure,
       EngagedState, HandlerInv, RevokeSent, RevokeNoted, RetryAgain,
       QueueSound, OthersKeep, IsAt, Engaged, IsFront
  <1> QED BY <1>1, <1>2, <1>3, <1>4, <1>5, <1>6 DEF IndInv

\* A revoke finds the lock in use: its holder will give it back.
LEMMA RevokeUsedStep ==
  ASSUME IndInv, TypeOK', NEW t \in Threads, NEW l \in Locks, lk[t] = l,
         cstate[victim[t]][lk[t]] = "USED", RevokeHandler(t)
  PROVE  IndInv'
  <1>0. /\ TypeOK /\ QueueSound /\ EngagedOnce /\ EngagedState /\ HandlerInv
        /\ ThreadTenure /\ EntryTenure /\ RevokeSent /\ RevokeNoted
        /\ RetryQueued /\ RetryAgain /\ RetrySent /\ RetryNoted
        /\ QueuedAcquires
    BY DEF IndInv
  <1>y. /\ l \in Locks /\ NoClient \notin Clients /\ victim[t] \in Clients
        /\ \A u \in Threads : Owner[u] \in Clients
        /\ \A u \in Threads : lk[u] \in Locks /\ ret[u] \in {"NONE", "OK", "RETRY"}
        /\ \A k \in Locks : acquiredId[k] \in Clients \cup {NoClient}
    <2>1. /\ l \in Locks /\ NoClient \notin Clients
          /\ \A u \in Threads : Owner[u] \in Clients
          /\ \A u \in Threads : lk[u] \in Locks /\ ret[u] \in {"NONE", "OK", "RETRY"}
          /\ \A k \in Locks : acquiredId[k] \in Clients \cup {NoClient}
      BY <1>0, OwnerAssumption, NoClientAssumption DEF TypeOK
    <2>2. victim[t] \in Clients
      BY <1>0, <2>1 DEF RevokeSent, At, RevokeHandler
    <2> QED BY <2>1, <2>2
  <1>e. /\ UNCHANGED <<sstate, acquiredId, waitingIds, toRevoke, toRetry>>
        /\ cstate'[victim[t]][l] = "RELEASING"
        /\ \A c \in Clients, k \in Locks : c # victim[t] \/ k # l =>
             (cstate'[c][k] = cstate[c][k])
        /\ held'[t] = held[t] /\ ret'[t] = ret[t] /\ lk'[t] = l
    <2>1. cstate' = [cstate EXCEPT ![victim[t]][l] = "RELEASING"]
      BY <1>0 DEF RevokeHandler, GoTo, SetClientState
    <2> QED BY <1>0, <1>y, <2>1 DEF TypeOK, serverVars, clientVars,
                RevokeHandler, GoTo, SetClientState
  <1>o. OthersKeep(t)
    BY <1>0, Others DEF TypeOK, serverVars, clientVars, RevokeHandler, GoTo,
       SetClientState
  <1>t. IsAt(t, lk[t], pc[t]) /\ IsAt(t, l, "acquireReply")'
    BY <1>0, <1>y, Position DEF TypeOK, serverVars, clientVars, RevokeHandler,
       GoTo, SetClientState
  <1>w. pc[t] = "revokeRPC"
    BY DEF RevokeHandler
  <1>1. QueueSound' /\ RetryNoted' /\ QueuedAcquires'
    BY <1>0, <1>y, <1>e DEF QueueSound, RetryNoted, IsFront, QueuedAcquires
  <1>2. EngagedState' /\ HandlerInv' /\ ThreadTenure' /\ RevokeSent' /\
        RetryQueued' /\ RetryAgain' /\ RetrySent'
    <2>1. EngagedState'
      BY <1>0, <1>y, <1>e, <1>o, <1>t, <1>w DEF EngagedState, OthersKeep, IsAt,
         Engaged, IsFront
    <2>2. HandlerInv'
      BY <1>0, <1>y, <1>e, <1>o, <1>t, <1>w DEF HandlerInv, OthersKeep, IsAt,
         Engaged, IsFront
    <2>3. ThreadTenure'
      BY <1>0, <1>y, <1>e, <1>o, <1>t, <1>w DEF ThreadTenure, OthersKeep, IsAt,
         Engaged, IsFront
    <2>4. RevokeSent'
      BY <1>0, <1>y, <1>e, <1>o, <1>t, <1>w DEF RevokeSent, OthersKeep, IsAt,
         Engaged, IsFront
    <2>5. RetryQueued'
      BY <1>0, <1>y, <1>e, <1>o, <1>t, <1>w DEF RetryQueued, OthersKeep, IsAt,
         Engaged, IsFront
    <2>6. RetryAgain'
      BY <1>0, <1>y, <1>e, <1>o, <1>t, <1>w DEF RetryAgain, OthersKeep, IsAt,
         Engaged, IsFront
    <2>7. RetrySent'
      BY <1>0, <1>y, <1>e, <1>o, <1>t, <1>w DEF RetrySent, OthersKeep, IsAt,
         Engaged, IsFront
    <2>. QED BY <2>1, <2>2, <2>3, <2>4, <2>5, <2>6, <2>7
  <1>3. EngagedOnce'
    BY <1>0, <1>y, <1>e, <1>o, <1>t, <1>w DEF EngagedOnce, EngagedState,
       OthersKeep, IsAt, Engaged
  <1>4. EntryTenure'
    BY <1>0, <1>y, <1>e, <1>o, <1>t, <1>w DEF EntryTenure, ThreadTenure,
       EngagedState, HandlerInv, RevokeSent, RevokeNoted, RetryAgain,
       QueueSound, OthersKeep, IsAt, Engaged, IsFront
  <1>5. RevokeNoted'
    BY <1>0, <1>y, <1>e, <1>o, <1>t, <1>w DEF RevokeNoted, RevokeSent,
       ThreadTenure, EngagedOnce, EngagedState, HandlerInv, RetryAgain,
       QueueSound, OthersKeep, IsAt, Engaged, IsFront
  <1> QED BY <1>1, <1>2, <1>3, <1>4, <1>5 DEF IndInv

\* A revoke overtakes the grant it refers to and is remembered.
LEMMA RevokeEarlyStep ==
  ASSUME IndInv, TypeOK', NEW t \in Threads, NEW l \in Locks, lk[t] = l,
         cstate[victim[t]][lk[t]] \notin {"FREE", "USED"}, RevokeHandler(t)
  PROVE  IndInv'
  <1>0. /\ TypeOK /\ QueueSound /\ EngagedOnce /\ EngagedState /\ HandlerInv
        /\ ThreadTenure /\ EntryTenure /\ RevokeSent /\ RevokeNoted
        /\ RetryQueued /\ RetryAgain /\ RetrySent /\ RetryNoted
        /\ QueuedAcquires
    BY DEF IndInv
  <1>y. /\ l \in Locks /\ NoClient \notin Clients /\ victim[t] \in Clients
        /\ \A u \in Threads : Owner[u] \in Clients
        /\ \A u \in Threads : lk[u] \in Locks /\ ret[u] \in {"NONE", "OK", "RETRY"}
        /\ \A k \in Locks : acquiredId[k] \in Clients \cup {NoClient}
    <2>1. /\ l \in Locks /\ NoClient \notin Clients
          /\ \A u \in Threads : Owner[u] \in Clients
          /\ \A u \in Threads : lk[u] \in Locks /\ ret[u] \in {"NONE", "OK", "RETRY"}
          /\ \A k \in Locks : acquiredId[k] \in Clients \cup {NoClient}
      BY <1>0, OwnerAssumption, NoClientAssumption DEF TypeOK
    <2>2. victim[t] \in Clients
      BY <1>0, <2>1 DEF RevokeSent, At, RevokeHandler
    <2> QED BY <2>1, <2>2
  <1>e. /\ UNCHANGED <<sstate, acquiredId, waitingIds, cstate, toRetry>>
        /\ toRevoke'[victim[t]][l] <=> TRUE
        /\ \A c \in Clients, k \in Locks : c # victim[t] \/ k # l =>
             (toRevoke'[c][k] <=> toRevoke[c][k])
        /\ held'[t] = held[t] /\ ret'[t] = ret[t] /\ lk'[t] = l
    <2>1. toRevoke' = [toRevoke EXCEPT ![victim[t]][l] = TRUE]
      BY <1>0 DEF RevokeHandler, GoTo, RememberRevoke
    <2> QED BY <1>0, <1>y, <2>1 DEF TypeOK, serverVars, clientVars,
                RevokeHandler, GoTo, RememberRevoke
  <1>o. OthersKeep(t)
    BY <1>0, Others DEF TypeOK, serverVars, clientVars, RevokeHandler, GoTo,
       RememberRevoke
  <1>t. IsAt(t, lk[t], pc[t]) /\ IsAt(t, l, "acquireReply")'
    BY <1>0, <1>y, Position DEF TypeOK, serverVars, clientVars, RevokeHandler,
       GoTo, RememberRevoke
  <1>w. pc[t] = "revokeRPC"
    BY DEF RevokeHandler
  <1>1. QueueSound' /\ EntryTenure' /\ RetryNoted' /\ QueuedAcquires'
    BY <1>0, <1>y, <1>e DEF QueueSound, EntryTenure, RetryNoted, IsFront,
       QueuedAcquires
  <1>2. EngagedState' /\ HandlerInv' /\ ThreadTenure' /\ RevokeSent' /\
        RetryQueued' /\ RetryAgain' /\ RetrySent'
    <2>1. EngagedState'
      BY <1>0, <1>y, <1>e, <1>o, <1>t, <1>w DEF EngagedState, OthersKeep, IsAt,
         Engaged, IsFront
    <2>2. HandlerInv'
      BY <1>0, <1>y, <1>e, <1>o, <1>t, <1>w DEF HandlerInv, OthersKeep, IsAt,
         Engaged, IsFront
    <2>3. ThreadTenure'
      BY <1>0, <1>y, <1>e, <1>o, <1>t, <1>w DEF ThreadTenure, OthersKeep, IsAt,
         Engaged, IsFront
    <2>4. RevokeSent'
      BY <1>0, <1>y, <1>e, <1>o, <1>t, <1>w DEF RevokeSent, OthersKeep, IsAt,
         Engaged, IsFront
    <2>5. RetryQueued'
      BY <1>0, <1>y, <1>e, <1>o, <1>t, <1>w DEF RetryQueued, OthersKeep, IsAt,
         Engaged, IsFront
    <2>6. RetryAgain'
      BY <1>0, <1>y, <1>e, <1>o, <1>t, <1>w DEF RetryAgain, OthersKeep, IsAt,
         Engaged, IsFront
    <2>7. RetrySent'
      BY <1>0, <1>y, <1>e, <1>o, <1>t, <1>w DEF RetrySent, OthersKeep, IsAt,
         Engaged, IsFront
    <2>. QED BY <2>1, <2>2, <2>3, <2>4, <2>5, <2>6, <2>7
  <1>3. EngagedOnce'
    BY <1>0, <1>y, <1>e, <1>o, <1>t, <1>w DEF EngagedOnce, EngagedState,
       OthersKeep, IsAt, Engaged
  <1>4. RevokeNoted'
    BY <1>0, <1>y, <1>e, <1>o, <1>t, <1>w DEF RevokeNoted, RevokeSent,
       ThreadTenure, EngagedOnce, EngagedState, HandlerInv, RetryAgain,
       QueueSound, OthersKeep, IsAt, Engaged, IsFront
  <1> QED BY <1>1, <1>2, <1>3, <1>4 DEF IndInv

\* The revoke handler has given the lock back.
LEMMA RevokeReturnsStep ==
  ASSUME IndInv, TypeOK', NEW t \in Threads, NEW l \in Locks, lk[t] = l,
         RevokeReturns(t)
  PROVE  IndInv'
  <1>0. /\ TypeOK /\ QueueSound /\ EngagedOnce /\ EngagedState /\ HandlerInv
        /\ ThreadTenure /\ EntryTenure /\ RevokeSent /\ RevokeNoted
        /\ RetryQueued /\ RetryAgain /\ RetrySent /\ RetryNoted
        /\ QueuedAcquires
    BY DEF IndInv
  <1>y. /\ l \in Locks /\ NoClient \notin Clients /\ victim[t] \in Clients
        /\ \A u \in Threads : Owner[u] \in Clients
        /\ \A u \in Threads : lk[u] \in Locks /\ ret[u] \in {"NONE", "OK", "RETRY"}
        /\ \A k \in Locks : acquiredId[k] \in Clients \cup {NoClient}
    <2>1. /\ l \in Locks /\ NoClient \notin Clients
          /\ \A u \in Threads : Owner[u] \in Clients
          /\ \A u \in Threads : lk[u] \in Locks /\ ret[u] \in {"NONE", "OK", "RETRY"}
          /\ \A k \in Locks : acquiredId[k] \in Clients \cup {NoClient}
      BY <1>0, OwnerAssumption, NoClientAssumption DEF TypeOK
    <2>2. victim[t] \in Clients
      BY <1>0, <2>1 DEF HandlerInv, Handling, RevokeReturns
    <2> QED BY <2>1, <2>2
  <1>p. /\ pc'[t] = "acquireReply"
        /\ \A u \in Threads : u # t =>
             pc'[u] = pc[u] \/ (pc[u] = "lockWait" /\ pc'[u] = "lockWoken")
    <2>1. "acquireReply" \in PCs /\ pc \in [Threads -> PCs]
      BY <1>0 DEF TypeOK, PCs, AfterRelease
    <2> QED BY <2>1, LockSignal DEF RevokeReturns
  <1>e. /\ UNCHANGED <<sstate, acquiredId, waitingIds, toRevoke, toRetry>>
        /\ cstate'[victim[t]][l] = "NONE"
        /\ \A c \in Clients, k \in Locks : c # victim[t] \/ k # l =>
             (cstate'[c][k] = cstate[c][k])
        /\ held'[t] = held[t] /\ ret'[t] = ret[t] /\ lk'[t] = l
    <2>1. cstate' = [cstate EXCEPT ![victim[t]][l] = "NONE"]
      BY <1>0 DEF RevokeReturns, GivenBack, SetClientState
    <2> QED BY <1>0, <1>y, <2>1 DEF TypeOK, serverVars, clientVars,
                RevokeReturns, GivenBack, SetClientState
  <1>o. OthersKeep(t)
    BY <1>0, Others, <1>p DEF TypeOK, serverVars, clientVars, RevokeReturns,
       GivenBack, SetClientState
  <1>t. IsAt(t, lk[t], pc[t]) /\ IsAt(t, l, "acquireReply")'
    BY <1>0, <1>y, Position, <1>p DEF TypeOK, serverVars, clientVars,
       RevokeReturns, GivenBack, SetClientState
  <1>w. pc[t] = "revokeReturn"
    BY DEF RevokeReturns
  <1>1. QueueSound' /\ RetryNoted'
    BY <1>0, <1>y, <1>e DEF QueueSound, RetryNoted, IsFront
  <1>2. HandlerInv' /\ ThreadTenure' /\ RetryQueued' /\ RetryAgain' /\
        RetrySent'
    BY <1>0, <1>y, <1>e, <1>o, <1>t, <1>w DEF HandlerInv, OthersKeep, IsAt,
       Engaged, ThreadTenure, RetryQueued, RetryAgain, IsFront, RetrySent
  <1>3. EngagedOnce'
    BY <1>0, <1>y, <1>e, <1>o, <1>t, <1>w DEF EngagedOnce, EngagedState,
       OthersKeep, IsAt, Engaged
  <1>4. EngagedState'
    BY <1>0, <1>y, <1>e, <1>o, <1>t, <1>w DEF EngagedState, EngagedOnce,
       HandlerInv, RevokeSent, OthersKeep, IsAt, Engaged
  <1>5. EntryTenure'
    BY <1>0, <1>y, <1>e, <1>o, <1>t, <1>w DEF EntryTenure, ThreadTenure,
       EngagedState, HandlerInv, RevokeSent, RevokeNoted, RetryAgain,
       QueueSound, OthersKeep, IsAt, Engaged, IsFront
  <1>6. RevokeSent'
    BY <1>0, <1>y, <1>e, <1>o, <1>t, <1>w DEF RevokeSent, RevokeNoted,
       ThreadTenure, EntryTenure, EngagedOnce, EngagedState, HandlerInv,
       RetryAgain, QueueSound, OthersKeep, IsAt, Engaged, IsFront
  <1>7. RevokeNoted'
    BY <1>0, <1>y, <1>e, <1>o, <1>t, <1>w DEF RevokeNoted, RevokeSent,
       ThreadTenure, EngagedOnce, EngagedState, HandlerInv, RetryAgain,
       QueueSound, OthersKeep, IsAt, Engaged, IsFront
  <1>8. QueuedAcquires'
    BY <1>0, <1>y, <1>e, <1>o, <1>t, <1>w DEF QueuedAcquires, EngagedState,
       ThreadTenure, RetryQueued, HandlerInv, RevokeSent, QueueSound,
       OthersKeep, IsAt, Engaged
  <1> QED BY <1>1, <1>2, <1>3, <1>4, <1>5, <1>6, <1>7, <1>8 DEF IndInv

\* release() of a revoked lock gives it back.
LEMMA ReleaseToServerStep ==
  ASSUME IndInv, TypeOK', NEW t \in Threads, NEW l \in Locks, pc[t] = "user",
         l \in held[t], held' = [held EXCEPT ![t] = @ \ {l}],
         lk' = [lk EXCEPT ![t] = l],
         UNCHANGED <<serverVars, toRetry, ret, victim, next>>,
         ReleaseToServer(t, l)
  PROVE  IndInv'
  <1>0. /\ TypeOK /\ QueueSound /\ EngagedOnce /\ EngagedState /\ HandlerInv
        /\ ThreadTenure /\ EntryTenure /\ RevokeSent /\ RevokeNoted
        /\ RetryQueued /\ RetryAgain /\ RetrySent /\ RetryNoted
        /\ QueuedAcquires
    BY DEF IndInv
  <1>y. /\ l \in Locks /\ NoClient \notin Clients
        /\ \A u \in Threads : Owner[u] \in Clients
        /\ \A u \in Threads : lk[u] \in Locks /\ ret[u] \in {"NONE", "OK", "RETRY"}
        /\ \A k \in Locks : acquiredId[k] \in Clients \cup {NoClient}
    BY <1>0, OwnerAssumption, NoClientAssumption DEF TypeOK
  <1>e. /\ UNCHANGED <<sstate, acquiredId, waitingIds, cstate, toRetry>>
        /\ toRevoke'[Owner[t]][l] <=> FALSE
        /\ \A c \in Clients, k \in Locks : c # Owner[t] \/ k # l =>
             (toRevoke'[c][k] <=> toRevoke[c][k])
        /\ ret'[t] = ret[t] /\ held'[t] = held[t] \ {l} /\ lk'[t] = l
    <2>1. toRevoke' = [toRevoke EXCEPT ![Owner[t]][l] = FALSE]
      BY <1>0 DEF ReleaseToServer, MustGiveBack, GoTo
    <2> QED BY <1>0, <1>y, <2>1 DEF TypeOK, serverVars, clientVars,
                ReleaseToServer, MustGiveBack, GoTo
  <1>o. OthersKeep(t)
    BY <1>0, Others DEF TypeOK, serverVars, clientVars, ReleaseToServer,
       MustGiveBack, GoTo
  <1>t. IsAt(t, lk[t], pc[t]) /\ IsAt(t, l, "releaseRPC")'
    BY <1>0, <1>y, Position DEF TypeOK, serverVars, clientVars,
       ReleaseToServer, MustGiveBack, GoTo
  <1>f. toRevoke[Owner[t]][l] \/ cstate[Owner[t]][l] = "RELEASING"
    BY DEF ReleaseToServer, MustGiveBack
  <1>1. QueueSound' /\ EntryTenure' /\ RetryNoted' /\ QueuedAcquires'
    BY <1>0, <1>y, <1>e DEF QueueSound, EntryTenure, RetryNoted, IsFront,
       QueuedAcquires
  <1>2. EngagedState' /\ HandlerInv' /\ ThreadTenure' /\ RevokeNoted' /\
        RetryQueued' /\ RetryAgain' /\ RetrySent'
    BY <1>0, <1>y, <1>e, <1>o, <1>t, <1>f DEF EngagedState, OthersKeep, IsAt,
       HandlerInv, Engaged, ThreadTenure, RevokeNoted, RetryQueued,
       RetryAgain, IsFront, RetrySent
  <1>3. EngagedOnce'
    BY <1>0, <1>y, <1>e, <1>o, <1>t, <1>f DEF EngagedOnce, EngagedState,
       OthersKeep, IsAt, Engaged
  <1>4. RevokeSent'
    BY <1>0, <1>y, <1>e, <1>o, <1>t, <1>f DEF RevokeSent, RevokeNoted,
       ThreadTenure, EntryTenure, EngagedOnce, EngagedState, HandlerInv,
       RetryAgain, QueueSound, OthersKeep, IsAt, Engaged, IsFront
  <1> QED BY <1>1, <1>2, <1>3, <1>4 DEF IndInv

\* release() of a lock nobody asked for keeps it in the cache.
LEMMA ReleaseToCacheStep ==
  ASSUME IndInv, TypeOK', NEW t \in Threads, NEW l \in Locks, pc[t] = "user",
         l \in held[t], held' = [held EXCEPT ![t] = @ \ {l}],
         lk' = [lk EXCEPT ![t] = l],
         UNCHANGED <<serverVars, toRetry, ret, victim, next>>,
         ReleaseToCache(t, l)
  PROVE  IndInv'
  <1>0. /\ TypeOK /\ QueueSound /\ EngagedOnce /\ EngagedState /\ HandlerInv
        /\ ThreadTenure /\ EntryTenure /\ RevokeSent /\ RevokeNoted
        /\ RetryQueued /\ RetryAgain /\ RetrySent /\ RetryNoted
        /\ QueuedAcquires
    BY DEF IndInv
  <1>y. /\ l \in Locks /\ NoClient \notin Clients
        /\ \A u \in Threads : Owner[u] \in Clients
        /\ \A u \in Threads : lk[u] \in Locks /\ ret[u] \in {"NONE", "OK", "RETRY"}
        /\ \A k \in Locks : acquiredId[k] \in Clients \cup {NoClient}
    BY <1>0, OwnerAssumption, NoClientAssumption DEF TypeOK
  <1>p. /\ pc'[t] = "user"
        /\ \A u \in Threads : u # t =>
             pc'[u] = pc[u] \/ (pc[u] = "lockWait" /\ pc'[u] = "lockWoken")
    <2>1. "user" \in PCs /\ pc \in [Threads -> PCs]
      BY <1>0 DEF TypeOK, PCs, AfterRelease
    <2> QED BY <2>1, LockSignal DEF ReleaseToCache
  <1>e. /\ UNCHANGED <<sstate, acquiredId, waitingIds, toRevoke, toRetry>>
        /\ cstate'[Owner[t]][l] = "FREE"
        /\ \A c \in Clients, k \in Locks : c # Owner[t] \/ k # l =>
             (cstate'[c][k] = cstate[c][k])
        /\ ret'[t] = ret[t] /\ held'[t] = held[t] \ {l} /\ lk'[t] = l
    <2>1. cstate' = [cstate EXCEPT ![Owner[t]][l] = "FREE"]
      BY <1>0 DEF EngagedState, ReleaseToCache, MustGiveBack
    <2> QED BY <1>0, <1>y, <2>1 DEF TypeOK, serverVars, clientVars,
                ReleaseToCache, MustGiveBack
  <1>o. OthersKeep(t)
    BY <1>0, Others, <1>p DEF TypeOK, serverVars, clientVars, ReleaseToCache,
       MustGiveBack
  <1>t. IsAt(t, lk[t], pc[t]) /\ IsAt(t, l, "user")'
    BY <1>0, <1>y, Position, <1>p DEF TypeOK, serverVars, clientVars,
       ReleaseToCache, MustGiveBack
  <1>f. ~ toRevoke[Owner[t]][l] /\ cstate[Owner[t]][l] # "RELEASING"
    BY DEF ReleaseToCache, MustGiveBack
  <1>1. QueueSound' /\ RetryNoted'
    BY <1>0, <1>y, <1>e DEF QueueSound, RetryNoted, IsFront
  <1>2. HandlerInv' /\ ThreadTenure' /\ RevokeSent' /\ RevokeNoted' /\
        RetryQueued' /\ RetryAgain' /\ RetrySent'
    BY <1>0, <1>y, <1>e, <1>o, <1>t, <1>f DEF HandlerInv, OthersKeep, IsAt,
       Engaged, ThreadTenure, RevokeSent, RevokeNoted, RetryQueued,
       RetryAgain, IsFront, RetrySent
  <1>3. EngagedOnce'
    BY <1>0, <1>y, <1>e, <1>o, <1>t, <1>f DEF EngagedOnce, EngagedState,
       OthersKeep, IsAt, Engaged
  <1>4. EngagedState'
    BY <1>0, <1>y, <1>e, <1>o, <1>t, <1>f DEF EngagedState, EngagedOnce,
       HandlerInv, RevokeSent, OthersKeep, IsAt, Engaged
  <1>5. EntryTenure'
    BY <1>0, <1>y, <1>e, <1>o, <1>t, <1>f DEF EntryTenure, ThreadTenure,
       EngagedState, HandlerInv, RevokeSent, RevokeNoted, RetryAgain,
       QueueSound, OthersKeep, IsAt, Engaged, IsFront
  <1>6. QueuedAcquires'
    BY <1>0, <1>y, <1>e, <1>o, <1>t, <1>f DEF QueuedAcquires, EngagedState,
       ThreadTenure, RetryQueued, HandlerInv, RevokeSent, QueueSound,
       OthersKeep, IsAt, Engaged
  <1> QED BY <1>1, <1>2, <1>3, <1>4, <1>5, <1>6 DEF IndInv

\* release() has given the lock back.
LEMMA ReleaseReturnsStep ==
  ASSUME IndInv, TypeOK', NEW t \in Threads, NEW l \in Locks, lk[t] = l,
         ReleaseReturns(t)
  PROVE  IndInv'
  <1>0. /\ TypeOK /\ QueueSound /\ EngagedOnce /\ EngagedState /\ HandlerInv
        /\ ThreadTenure /\ EntryTenure /\ RevokeSent /\ RevokeNoted
        /\ RetryQueued /\ RetryAgain /\ RetrySent /\ RetryNoted
        /\ QueuedAcquires
    BY DEF IndInv
  <1>y. /\ l \in Locks /\ NoClient \notin Clients
        /\ \A u \in Threads : Owner[u] \in Clients
        /\ \A u \in Threads : lk[u] \in Locks /\ ret[u] \in {"NONE", "OK", "RETRY"}
        /\ \A k \in Locks : acquiredId[k] \in Clients \cup {NoClient}
    BY <1>0, OwnerAssumption, NoClientAssumption DEF TypeOK
  <1>p. /\ pc'[t] = "user"
        /\ \A u \in Threads : u # t =>
             pc'[u] = pc[u] \/ (pc[u] = "lockWait" /\ pc'[u] = "lockWoken")
    <2>1. "user" \in PCs /\ pc \in [Threads -> PCs]
      BY <1>0 DEF TypeOK, PCs, AfterRelease
    <2> QED BY <2>1, LockSignal DEF ReleaseReturns
  <1>e. /\ UNCHANGED <<sstate, acquiredId, waitingIds, toRevoke, toRetry>>
        /\ cstate'[Owner[t]][l] = "NONE"
        /\ \A c \in Clients, k \in Locks : c # Owner[t] \/ k # l =>
             (cstate'[c][k] = cstate[c][k])
        /\ ret'[t] = ret[t] /\ held'[t] = held[t] /\ lk'[t] = l
    <2>1. cstate' = [cstate EXCEPT ![Owner[t]][l] = "NONE"]
      BY <1>0 DEF ReleaseReturns, GivenBack, SetClientState
    <2> QED BY <1>0, <1>y, <2>1 DEF TypeOK, serverVars, clientVars,
                ReleaseReturns, GivenBack, SetClientState
  <1>o. OthersKeep(t)
    BY <1>0, Others, <1>p DEF TypeOK, serverVars, clientVars, ReleaseReturns,
       GivenBack, SetClientState
  <1>t. IsAt(t, lk[t], pc[t]) /\ IsAt(t, l, "user")'
    BY <1>0, <1>y, Position, <1>p DEF TypeOK, serverVars, clientVars,
       ReleaseReturns, GivenBack, SetClientState
  <1>w. pc[t] = "releaseReply"
    BY DEF ReleaseReturns
  <1>1. QueueSound' /\ RetryNoted'
    BY <1>0, <1>y, <1>e DEF QueueSound, RetryNoted, IsFront
  <1>2. HandlerInv' /\ ThreadTenure' /\ RevokeSent' /\ RevokeNoted' /\
        RetryQueued' /\ RetryAgain' /\ RetrySent'
    <2>1. HandlerInv'
      BY <1>0, <1>y, <1>e, <1>o, <1>t, <1>w DEF HandlerInv, OthersKeep, IsAt,
         Engaged, IsFront
    <2>2. ThreadTenure'
      BY <1>0, <1>y, <1>e, <1>o, <1>t, <1>w DEF ThreadTenure, OthersKeep, IsAt,
         Engaged, IsFront
    <2>3. RevokeSent'
      BY <1>0, <1>y, <1>e, <1>o, <1>t, <1>w DEF RevokeSent, OthersKeep, IsAt,
         Engaged, IsFront
    <2>4. RevokeNoted'
      BY <1>0, <1>y, <1>e, <1>o, <1>t, <1>w DEF RevokeNoted, OthersKeep, IsAt,
         Engaged, IsFront
    <2>5. RetryQueued'
      BY <1>0, <1>y, <1>e, <1>o, <1>t, <1>w DEF RetryQueued, OthersKeep, IsAt,
         Engaged, IsFront
    <2>6. RetryAgain'
      BY <1>0, <1>y, <1>e, <1>o, <1>t, <1>w DEF RetryAgain, OthersKeep, IsAt,
         Engaged, IsFront
    <2>7. RetrySent'
      BY <1>0, <1>y, <1>e, <1>o, <1>t, <1>w DEF RetrySent, OthersKeep, IsAt,
         Engaged, IsFront
    <2>. QED BY <2>1, <2>2, <2>3, <2>4, <2>5, <2>6, <2>7
  <1>3. EngagedOnce'
    BY <1>0, <1>y, <1>e, <1>o, <1>t, <1>w DEF EngagedOnce, EngagedState,
       OthersKeep, IsAt, Engaged
  <1>4. EngagedState'
    BY <1>0, <1>y, <1>e, <1>o, <1>t, <1>w DEF EngagedState, EngagedOnce,
       HandlerInv, RevokeSent, OthersKeep, IsAt, Engaged
  <1>5. EntryTenure'
    BY <1>0, <1>y, <1>e, <1>o, <1>t, <1>w DEF EntryTenure, ThreadTenure,
       EngagedState, HandlerInv, RevokeSent, RevokeNoted, RetryAgain,
       QueueSound, OthersKeep, IsAt, Engaged, IsFront
  <1>6. QueuedAcquires'
    BY <1>0, <1>y, <1>e, <1>o, <1>t, <1>w DEF QueuedAcquires, EngagedState,
       ThreadTenure, RetryQueued, HandlerInv, RevokeSent, QueueSound,
       OthersKeep, IsAt, Engaged
  <1> QED BY <1>1, <1>2, <1>3, <1>4, <1>5, <1>6 DEF IndInv

\* The server takes a lock back from release() and tells the next client.
LEMMA ServerReleaseOwnStep ==
  ASSUME IndInv, TypeOK', NEW t \in Threads, NEW l \in Locks, lk[t] = l,
         pc[t] = "releaseRPC", ServerRelease(t)
  PROVE  IndInv'
  <1>0. /\ TypeOK /\ QueueSound /\ EngagedOnce /\ EngagedState /\ HandlerInv
        /\ ThreadTenure /\ EntryTenure /\ RevokeSent /\ RevokeNoted
        /\ RetryQueued /\ RetryAgain /\ RetrySent /\ RetryNoted
        /\ QueuedAcquires
    BY DEF IndInv
  <1>y. /\ l \in Locks /\ NoClient \notin Clients
        /\ \A u \in Threads : Owner[u] \in Clients
        /\ \A u \in Threads : lk[u] \in Locks /\ ret[u] \in {"NONE", "OK", "RETRY"}
        /\ \A k \in Locks : acquiredId[k] \in Clients \cup {NoClient}
    BY <1>0, OwnerAssumption, NoClientAssumption DEF TypeOK
  <1>s. sstate[l] = "TOREVOKE"
    BY <1>0, <1>y DEF RevokeSent, At, ServerRelease
  <1>e. /\ UNCHANGED <<sstate, waitingIds, cstate, toRevoke, toRetry>>
        /\ acquiredId'[l] = NoClient
        /\ \A k \in Locks : k # l => acquiredId'[k] = acquiredId[k]
        /\ ret'[t] = ret[t] /\ held'[t] = held[t] /\ next'[t] = Head(waitingIds[l]) /\ lk'[t] = l
    BY <1>0, <1>y, <1>s DEF TypeOK, serverVars, clientVars, ServerRelease,
       AfterRelease, GoTo
  <1>o. OthersKeep(t)
    BY <1>0, Others, <1>s DEF TypeOK, serverVars, clientVars, ServerRelease,
       AfterRelease, GoTo
  <1>t. IsAt(t, lk[t], pc[t]) /\ IsAt(t, l, "releaseRetry")'
    BY <1>0, <1>y, Position, <1>s DEF TypeOK, serverVars, clientVars,
       ServerRelease, AfterRelease, GoTo
  <1>q. /\ waitingIds[l] # <<>> /\ Head(waitingIds[l]) \in Clients
        /\ InSeq(Head(waitingIds[l]), waitingIds[l])
    BY <1>0, <1>y, <1>s, QueueFacts DEF QueueSound
  <1>1. QueueSound' /\ RetryNoted' /\ QueuedAcquires'
    BY <1>0, <1>y, <1>e, <1>q DEF QueueSound, RetryNoted, IsFront,
       QueuedAcquires
  <1>2. EngagedState' /\ HandlerInv' /\ RetryQueued'
    BY <1>0, <1>y, <1>s, <1>e, <1>o, <1>t, <1>q DEF EngagedState, OthersKeep,
       IsAt, HandlerInv, Engaged, RetryQueued
  <1>3. EngagedOnce'
    BY <1>0, <1>y, <1>s, <1>e, <1>o, <1>t, <1>q DEF EngagedOnce, EngagedState,
       OthersKeep, IsAt, Engaged
  <1>4. ThreadTenure'
    BY <1>0, <1>y, <1>s, <1>e, <1>o, <1>t, <1>q DEF ThreadTenure, EngagedOnce,
       EngagedState, HandlerInv, EntryTenure, RevokeSent, OthersKeep, IsAt,
       Engaged
  <1>5. EntryTenure'
    BY <1>0, <1>y, <1>s, <1>e, <1>o, <1>t, <1>q DEF EntryTenure, ThreadTenure,
       EngagedState, HandlerInv, RevokeSent, RevokeNoted, RetryAgain,
       QueueSound, OthersKeep, IsAt, Engaged, IsFront
  <1>6. RevokeSent'
    BY <1>0, <1>y, <1>s, <1>e, <1>o, <1>t, <1>q DEF RevokeSent, RevokeNoted,
       ThreadTenure, EntryTenure, EngagedOnce, EngagedState, HandlerInv,
       RetryAgain, QueueSound, OthersKeep, IsAt, Engaged, IsFront
  <1>7. RevokeNoted'
    BY <1>0, <1>y, <1>s, <1>e, <1>o, <1>t, <1>q DEF RevokeNoted, RevokeSent,
       ThreadTenure, EngagedOnce, EngagedState, HandlerInv, RetryAgain,
       QueueSound, OthersKeep, IsAt, Engaged, IsFront
  <1>8. RetryAgain'
    BY <1>0, <1>y, <1>s, <1>e, <1>o, <1>t, <1>q DEF RetryAgain, RetrySent,
       RetryNoted, ThreadTenure, RetryQueued, EntryTenure, QueuedAcquires,
       HandlerInv, OthersKeep, IsAt, Engaged, IsFront
  <1>9. RetrySent'
    BY <1>0, <1>y, <1>s, <1>e, <1>o, <1>t, <1>q DEF RetrySent, RetryAgain,
       RetryNoted, ThreadTenure, HandlerInv, OthersKeep, IsAt, Engaged,
       IsFront
  <1> QED BY <1>1, <1>2, <1>3, <1>4, <1>5, <1>6, <1>7, <1>8, <1>9 DEF IndInv

\* The server takes a lock back from a revoke handler.
LEMMA ServerReleaseRevokedStep ==
  ASSUME IndInv, TypeOK', NEW t \in Threads, NEW l \in Locks, lk[t] = l,
         pc[t] = "revokeRelease", ServerRelease(t)
  PROVE  IndInv'
  <1>0. /\ TypeOK /\ QueueSound /\ EngagedOnce /\ EngagedState /\ HandlerInv
        /\ ThreadTenure /\ EntryTenure /\ RevokeSent /\ RevokeNoted
        /\ RetryQueued /\ RetryAgain /\ RetrySent /\ RetryNoted
        /\ QueuedAcquires
    BY DEF IndInv
  <1>y. /\ l \in Locks /\ NoClient \notin Clients
        /\ \A u \in Threads : Owner[u] \in Clients
        /\ \A u \in Threads : lk[u] \in Locks /\ ret[u] \in {"NONE", "OK", "RETRY"}
        /\ \A k \in Locks : acquiredId[k] \in Clients \cup {NoClient}
    BY <1>0, OwnerAssumption, NoClientAssumption DEF TypeOK
  <1>s. sstate[l] = "TOREVOKE"
    BY <1>0, <1>y DEF RevokeSent, At, ServerRelease
  <1>e. /\ UNCHANGED <<sstate, waitingIds, cstate, toRevoke, toRetry>>
        /\ acquiredId'[l] = NoClient
        /\ \A k \in Locks : k # l => acquiredId'[k] = acquiredId[k]
        /\ held'[t] = held[t] /\ ret'[t] = ret[t] /\ victim'[t] = victim[t] /\ next'[t] = Head(waitingIds[l]) /\ lk'[t] = l
    BY <1>0, <1>y, <1>s DEF TypeOK, serverVars, clientVars, ServerRelease,
       AfterRelease, GoTo
  <1>o. OthersKeep(t)
    BY <1>0, Others, <1>s DEF TypeOK, serverVars, clientVars, ServerRelease,
       AfterRelease, GoTo
  <1>t. IsAt(t, lk[t], pc[t]) /\ IsAt(t, l, "revokeRetry")'
    BY <1>0, <1>y, Position, <1>s DEF TypeOK, serverVars, clientVars,
       ServerRelease, AfterRelease, GoTo
  <1>q. /\ waitingIds[l] # <<>> /\ Head(waitingIds[l]) \in Clients
        /\ InSeq(Head(waitingIds[l]), waitingIds[l])
    BY <1>0, <1>y, <1>s, QueueFacts DEF QueueSound
  <1>1. QueueSound' /\ RetryNoted' /\ QueuedAcquires'
    BY <1>0, <1>y, <1>e, <1>q DEF QueueSound, RetryNoted, IsFront,
       QueuedAcquires
  <1>2. EngagedState' /\ HandlerInv' /\ RetryQueued'
    BY <1>0, <1>y, <1>s, <1>e, <1>o, <1>t, <1>q DEF EngagedState, OthersKeep,
       IsAt, HandlerInv, Engaged, RetryQueued
  <1>3. EngagedOnce'
    BY <1>0, <1>y, <1>s, <1>e, <1>o, <1>t, <1>q DEF EngagedOnce, EngagedState,
       OthersKeep, IsAt, Engaged
  <1>4. ThreadTenure'
    BY <1>0, <1>y, <1>s, <1>e, <1>o, <1>t, <1>q DEF ThreadTenure, EngagedOnce,
       EngagedState, HandlerInv, EntryTenure, RevokeSent, OthersKeep, IsAt,
       Engaged
  <1>5. EntryTenure'
    BY <1>0, <1>y, <1>s, <1>e, <1>o, <1>t, <1>q DEF EntryTenure, ThreadTenure,
       EngagedState, HandlerInv, RevokeSent, RevokeNoted, RetryAgain,
       QueueSound, OthersKeep, IsAt, Engaged, IsFront
  <1>6. RevokeSent'
    BY <1>0, <1>y, <1>s, <1>e, <1>o, <1>t, <1>q DEF RevokeSent, RevokeNoted,
       ThreadTenure, EntryTenure, EngagedOnce, EngagedState, HandlerInv,
       RetryAgain, QueueSound, OthersKeep, IsAt, Engaged, IsFront
  <1>7. RevokeNoted'
    BY <1>0, <1>y, <1>s, <1>e, <1>o, <1>t, <1>q DEF RevokeNoted, RevokeSent,
       ThreadTenure, EngagedOnce, EngagedState, HandlerInv, RetryAgain,
       QueueSound, OthersKeep, IsAt, Engaged, IsFront
  <1>8. RetryAgain'
    BY <1>0, <1>y, <1>s, <1>e, <1>o, <1>t, <1>q DEF RetryAgain, RetrySent,
       RetryNoted, ThreadTenure, RetryQueued, EntryTenure, QueuedAcquires,
       HandlerInv, OthersKeep, IsAt, Engaged, IsFront
  <1>9. RetrySent'
    BY <1>0, <1>y, <1>s, <1>e, <1>o, <1>t, <1>q DEF RetrySent, RetryAgain,
       RetryNoted, ThreadTenure, HandlerInv, OthersKeep, IsAt, Engaged,
       IsFront
  <1> QED BY <1>1, <1>2, <1>3, <1>4, <1>5, <1>6, <1>7, <1>8, <1>9 DEF IndInv

\* The retry sent during a release() arrives.
LEMMA RetryHandlerOwnStep ==
  ASSUME IndInv, TypeOK', NEW t \in Threads, NEW l \in Locks, lk[t] = l,
         pc[t] = "releaseRetry", RetryHandler(t)
  PROVE  IndInv'
  <1>0. /\ TypeOK /\ QueueSound /\ EngagedOnce /\ EngagedState /\ HandlerInv
        /\ ThreadTenure /\ EntryTenure /\ RevokeSent /\ RevokeNoted
        /\ RetryQueued /\ RetryAgain /\ RetrySent /\ RetryNoted
        /\ QueuedAcquires
    BY DEF IndInv
  <1>y. /\ l \in Locks /\ NoClient \notin Clients /\ next[t] \in Clients
        /\ \A u \in Threads : Owner[u] \in Clients
        /\ \A u \in Threads : lk[u] \in Locks /\ ret[u] \in {"NONE", "OK", "RETRY"}
        /\ \A k \in Locks : acquiredId[k] \in Clients \cup {NoClient}
    <2>1. /\ l \in Locks /\ NoClient \notin Clients
          /\ \A u \in Threads : Owner[u] \in Clients
          /\ \A u \in Threads : lk[u] \in Locks /\ ret[u] \in {"NONE", "OK", "RETRY"}
          /\ \A k \in Locks : acquiredId[k] \in Clients \cup {NoClient}
      BY <1>0, OwnerAssumption, NoClientAssumption DEF TypeOK
    <2>2. next[t] \in Clients
      BY <1>0, <2>1 DEF RetrySent, Retrying, At
    <2> QED BY <2>1, <2>2
  <1>p. /\ pc'[t] = AfterRelease(t)
        /\ \A u \in Threads : u # t =>
             pc'[u] = pc[u] \/ (pc[u] = "retryWait" /\ pc'[u] = "retryWoken")
    <2>1. AfterRelease(t) \in PCs /\ pc \in [Threads -> PCs]
      BY <1>0 DEF TypeOK, PCs, AfterRelease
    <2> QED BY <2>1, RetrySignal DEF RetryHandler
  <1>e. /\ UNCHANGED <<sstate, acquiredId, waitingIds, cstate, toRevoke>>
        /\ toRetry'[next[t]][l] <=> TRUE
        /\ \A c \in Clients, k \in Locks : c # next[t] \/ k # l =>
             (toRetry'[c][k] <=> toRetry[c][k])
        /\ ret'[t] = ret[t] /\ held'[t] = held[t] /\ lk'[t] = l
    <2>1. toRetry' = [toRetry EXCEPT ![next[t]][l] = TRUE]
      BY <1>0 DEF RetryHandler, AfterRelease
    <2> QED BY <1>0, <1>y, <2>1 DEF TypeOK, serverVars, clientVars,
                RetryHandler, AfterRelease
  <1>o. OthersKeep(t)
    BY <1>0, Others, <1>p DEF TypeOK, serverVars, clientVars, RetryHandler,
       AfterRelease
  <1>t. IsAt(t, lk[t], pc[t]) /\ IsAt(t, l, "releaseReply")'
    BY <1>0, <1>y, Position, <1>p DEF TypeOK, serverVars, clientVars,
       RetryHandler, AfterRelease
  <1>1. QueueSound' /\ EntryTenure' /\ QueuedAcquires'
    BY <1>0, <1>y, <1>e DEF QueueSound, EntryTenure, QueuedAcquires
  <1>2. EngagedState' /\ HandlerInv' /\ ThreadTenure' /\ RevokeSent' /\
        RevokeNoted' /\ RetryQueued' /\ RetryAgain' /\ RetrySent'
    <2>1. EngagedState'
      BY <1>0, <1>y, <1>e, <1>o, <1>t DEF EngagedState, OthersKeep, IsAt,
         Engaged, IsFront
    <2>2. HandlerInv'
      BY <1>0, <1>y, <1>e, <1>o, <1>t DEF HandlerInv, OthersKeep, IsAt,
         Engaged, IsFront
    <2>3. ThreadTenure'
      BY <1>0, <1>y, <1>e, <1>o, <1>t DEF ThreadTenure, OthersKeep, IsAt,
         Engaged, IsFront
    <2>4. RevokeSent'
      BY <1>0, <1>y, <1>e, <1>o, <1>t DEF RevokeSent, OthersKeep, IsAt,
         Engaged, IsFront
    <2>5. RevokeNoted'
      BY <1>0, <1>y, <1>e, <1>o, <1>t DEF RevokeNoted, OthersKeep, IsAt,
         Engaged, IsFront
    <2>6. RetryQueued'
      BY <1>0, <1>y, <1>e, <1>o, <1>t DEF RetryQueued, OthersKeep, IsAt,
         Engaged, IsFront
    <2>7. RetryAgain'
      BY <1>0, <1>y, <1>e, <1>o, <1>t DEF RetryAgain, OthersKeep, IsAt,
         Engaged, IsFront
    <2>8. RetrySent'
      BY <1>0, <1>y, <1>e, <1>o, <1>t DEF RetrySent, OthersKeep, IsAt, Engaged,
         IsFront
    <2>. QED BY <2>1, <2>2, <2>3, <2>4, <2>5, <2>6, <2>7, <2>8
  <1>3. EngagedOnce'
    BY <1>0, <1>y, <1>e, <1>o, <1>t DEF EngagedOnce, EngagedState, OthersKeep,
       IsAt, Engaged
  <1>4. RetryNoted'
    BY <1>0, <1>y, <1>e, <1>o, <1>t DEF RetryNoted, RetryAgain, RetrySent,
       ThreadTenure, EngagedOnce, RetryQueued, OthersKeep, IsAt, Engaged,
       IsFront
  <1> QED BY <1>1, <1>2, <1>3, <1>4 DEF IndInv

\* The retry sent during a revoke arrives.
LEMMA RetryHandlerRevokedStep ==
  ASSUME IndInv, TypeOK', NEW t \in Threads, NEW l \in Locks, lk[t] = l,
         pc[t] = "revokeRetry", RetryHandler(t)
  PROVE  IndInv'
  <1>0. /\ TypeOK /\ QueueSound /\ EngagedOnce /\ EngagedState /\ HandlerInv
        /\ ThreadTenure /\ EntryTenure /\ RevokeSent /\ RevokeNoted
        /\ RetryQueued /\ RetryAgain /\ RetrySent /\ RetryNoted
        /\ QueuedAcquires
    BY DEF IndInv
  <1>y. /\ l \in Locks /\ NoClient \notin Clients /\ next[t] \in Clients
        /\ \A u \in Threads : Owner[u] \in Clients
        /\ \A u \in Threads : lk[u] \in Locks /\ ret[u] \in {"NONE", "OK", "RETRY"}
        /\ \A k \in Locks : acquiredId[k] \in Clients \cup {NoClient}
    <2>1. /\ l \in Locks /\ NoClient \notin Clients
          /\ \A u \in Threads : Owner[u] \in Clients
          /\ \A u \in Threads : lk[u] \in Locks /\ ret[u] \in {"NONE", "OK", "RETRY"}
          /\ \A k \in Locks : acquiredId[k] \in Clients \cup {NoClient}
      BY <1>0, OwnerAssumption, NoClientAssumption DEF TypeOK
    <2>2. next[t] \in Clients
      BY <1>0, <2>1 DEF RetrySent, Retrying, At
    <2> QED BY <2>1, <2>2
  <1>p. /\ pc'[t] = AfterRelease(t)
        /\ \A u \in Threads : u # t =>
             pc'[u] = pc[u] \/ (pc[u] = "retryWait" /\ pc'[u] = "retryWoken")
    <2>1. AfterRelease(t) \in PCs /\ pc \in [Threads -> PCs]
      BY <1>0 DEF TypeOK, PCs, AfterRelease
    <2> QED BY <2>1, RetrySignal DEF RetryHandler
  <1>e. /\ UNCHANGED <<sstate, acquiredId, waitingIds, cstate, toRevoke>>
        /\ toRetry'[next[t]][l] <=> TRUE
        /\ \A c \in Clients, k \in Locks : c # next[t] \/ k # l =>
             (toRetry'[c][k] <=> toRetry[c][k])
        /\ held'[t] = held[t] /\ ret'[t] = ret[t] /\ victim'[t] = victim[t] /\ lk'[t] = l
    <2>1. toRetry' = [toRetry EXCEPT ![next[t]][l] = TRUE]
      BY <1>0 DEF RetryHandler, AfterRelease
    <2> QED BY <1>0, <1>y, <2>1 DEF TypeOK, serverVars, clientVars,
                RetryHandler, AfterRelease
  <1>o. OthersKeep(t)
    BY <1>0, Others, <1>p DEF TypeOK, serverVars, clientVars, RetryHandler,
       AfterRelease
  <1>t. IsAt(t, lk[t], pc[t]) /\ IsAt(t, l, "revokeReturn")'
    BY <1>0, <1>y, Position, <1>p DEF TypeOK, serverVars, clientVars,
       RetryHandler, AfterRelease
  <1>1. QueueSound' /\ EntryTenure' /\ QueuedAcquires'
    BY <1>0, <1>y, <1>e DEF QueueSound, EntryTenure, QueuedAcquires
  <1>2. EngagedOnce'
    BY <1>0, <1>y, <1>e, <1>o, <1>t DEF EngagedOnce, EngagedState, OthersKeep,
       IsAt, Engaged
  <1>3. EngagedState'
    BY <1>0, <1>y, <1>e, <1>o, <1>t DEF EngagedState, OthersKeep, IsAt
  <1>4. HandlerInv'
    BY <1>0, <1>y, <1>e, <1>o, <1>t DEF HandlerInv, OthersKeep, IsAt, Engaged
  <1>5. ThreadTenure'
    BY <1>0, <1>y, <1>e, <1>o, <1>t DEF ThreadTenure, OthersKeep, IsAt
  <1>6. RevokeSent'
    BY <1>0, <1>y, <1>e, <1>o, <1>t DEF RevokeSent, OthersKeep, IsAt
  <1>7. RevokeNoted'
    BY <1>0, <1>y, <1>e, <1>o, <1>t DEF RevokeNoted, OthersKeep, IsAt
  <1>8. RetryQueued'
    BY <1>0, <1>y, <1>e, <1>o, <1>t DEF RetryQueued, OthersKeep, IsAt
  <1>9. RetryAgain'
    BY <1>0, <1>y, <1>e, <1>o, <1>t DEF RetryAgain, OthersKeep, IsAt, IsFront
  <1>10. RetrySent'
    BY <1>0, <1>y, <1>e, <1>o, <1>t DEF RetrySent, OthersKeep, IsAt, IsFront
  <1>11. RetryNoted'
    BY <1>0, <1>y, <1>e, <1>o, <1>t DEF RetryNoted, RetryAgain, RetrySent,
       ThreadTenure, EngagedOnce, RetryQueued, OthersKeep, IsAt, Engaged,
       IsFront
  <1> QED BY <1>1, <1>2, <1>3, <1>4, <1>5, <1>6, <1>7, <1>8, <1>9, <1>10, <1>11 DEF
     IndInv

\* A thread waiting behind its own client wakes up without a signal.
LEMMA SpuriousLockStep ==
  ASSUME IndInv, TypeOK', NEW t \in Threads, NEW l \in Locks, lk[t] = l,
         pc[t] = "lockWait", SpuriousWake(t)
  PROVE  IndInv'
  <1>0. /\ TypeOK /\ QueueSound /\ EngagedOnce /\ EngagedState /\ HandlerInv
        /\ ThreadTenure /\ EntryTenure /\ RevokeSent /\ RevokeNoted
        /\ RetryQueued /\ RetryAgain /\ RetrySent /\ RetryNoted
        /\ QueuedAcquires
    BY DEF IndInv
  <1>y. /\ l \in Locks /\ NoClient \notin Clients
        /\ \A u \in Threads : Owner[u] \in Clients
        /\ \A u \in Threads : lk[u] \in Locks /\ ret[u] \in {"NONE", "OK", "RETRY"}
        /\ \A k \in Locks : acquiredId[k] \in Clients \cup {NoClient}
    BY <1>0, OwnerAssumption, NoClientAssumption DEF TypeOK
  <1>e. /\ UNCHANGED <<sstate, acquiredId, waitingIds, cstate, toRevoke, toRetry>>
        /\ ret'[t] = ret[t] /\ held'[t] = held[t] /\ lk'[t] = l
    BY <1>0, <1>y DEF TypeOK, serverVars, clientVars, SpuriousWake, GoTo
  <1>o. OthersKeep(t)
    BY <1>0, Others DEF TypeOK, serverVars, clientVars, SpuriousWake, GoTo
  <1>t. IsAt(t, lk[t], pc[t]) /\ IsAt(t, l, "lockWoken")'
    BY <1>0, <1>y, Position DEF TypeOK, serverVars, clientVars, SpuriousWake,
       GoTo
  <1>1. QueueSound' /\ EntryTenure' /\ RetryNoted' /\ QueuedAcquires'
    BY <1>0, <1>y, <1>e DEF QueueSound, EntryTenure, RetryNoted, IsFront,
       QueuedAcquires
  <1>2. EngagedState' /\ HandlerInv' /\ ThreadTenure' /\ RevokeSent' /\
        RevokeNoted' /\ RetryQueued' /\ RetryAgain' /\ RetrySent'
    BY <1>0, <1>y, <1>e, <1>o, <1>t DEF EngagedState, OthersKeep, IsAt,
       HandlerInv, Engaged, ThreadTenure, RevokeSent, RevokeNoted,
       RetryQueued, RetryAgain, IsFront, RetrySent
  <1>3. EngagedOnce'
    BY <1>0, <1>y, <1>e, <1>o, <1>t DEF EngagedOnce, EngagedState, OthersKeep,
       IsAt, Engaged
  <1> QED BY <1>1, <1>2, <1>3 DEF IndInv

\* A thread waiting for its retry wakes up without a signal.
LEMMA SpuriousRetryStep ==
  ASSUME IndInv, TypeOK', NEW t \in Threads, NEW l \in Locks, lk[t] = l,
         pc[t] = "retryWait", SpuriousWake(t)
  PROVE  IndInv'
  <1>0. /\ TypeOK /\ QueueSound /\ EngagedOnce /\ EngagedState /\ HandlerInv
        /\ ThreadTenure /\ EntryTenure /\ RevokeSent /\ RevokeNoted
        /\ RetryQueued /\ RetryAgain /\ RetrySent /\ RetryNoted
        /\ QueuedAcquires
    BY DEF IndInv
  <1>y. /\ l \in Locks /\ NoClient \notin Clients
        /\ \A u \in Threads : Owner[u] \in Clients
        /\ \A u \in Threads : lk[u] \in Locks /\ ret[u] \in {"NONE", "OK", "RETRY"}
        /\ \A k \in Locks : acquiredId[k] \in Clients \cup {NoClient}
    BY <1>0, OwnerAssumption, NoClientAssumption DEF TypeOK
  <1>e. /\ UNCHANGED <<sstate, acquiredId, waitingIds, cstate, toRevoke, toRetry>>
        /\ held'[t] = held[t] /\ ret'[t] = ret[t] /\ lk'[t] = l
    BY <1>0, <1>y DEF TypeOK, serverVars, clientVars, SpuriousWake, GoTo
  <1>o. OthersKeep(t)
    BY <1>0, Others DEF TypeOK, serverVars, clientVars, SpuriousWake, GoTo
  <1>t. IsAt(t, lk[t], pc[t]) /\ IsAt(t, l, "retryWoken")'
    BY <1>0, <1>y, Position DEF TypeOK, serverVars, clientVars, SpuriousWake,
       GoTo
  <1>1. QueueSound' /\ EntryTenure' /\ RetryNoted' /\ QueuedAcquires'
    BY <1>0, <1>y, <1>e DEF QueueSound, EntryTenure, RetryNoted, IsFront,
       QueuedAcquires
  <1>2. EngagedState' /\ HandlerInv' /\ ThreadTenure' /\ RevokeSent' /\
        RevokeNoted' /\ RetryQueued' /\ RetryAgain' /\ RetrySent'
    <2>1. EngagedState'
      BY <1>0, <1>y, <1>e, <1>o, <1>t DEF EngagedState, OthersKeep, IsAt,
         Engaged, IsFront
    <2>2. HandlerInv'
      BY <1>0, <1>y, <1>e, <1>o, <1>t DEF HandlerInv, OthersKeep, IsAt,
         Engaged, IsFront
    <2>3. ThreadTenure'
      BY <1>0, <1>y, <1>e, <1>o, <1>t DEF ThreadTenure, OthersKeep, IsAt,
         Engaged, IsFront
    <2>4. RevokeSent'
      BY <1>0, <1>y, <1>e, <1>o, <1>t DEF RevokeSent, OthersKeep, IsAt,
         Engaged, IsFront
    <2>5. RevokeNoted'
      BY <1>0, <1>y, <1>e, <1>o, <1>t DEF RevokeNoted, OthersKeep, IsAt,
         Engaged, IsFront
    <2>6. RetryQueued'
      BY <1>0, <1>y, <1>e, <1>o, <1>t DEF RetryQueued, OthersKeep, IsAt,
         Engaged, IsFront
    <2>7. RetryAgain'
      BY <1>0, <1>y, <1>e, <1>o, <1>t DEF RetryAgain, OthersKeep, IsAt,
         Engaged, IsFront
    <2>8. RetrySent'
      BY <1>0, <1>y, <1>e, <1>o, <1>t DEF RetrySent, OthersKeep, IsAt, Engaged,
         IsFront
    <2>. QED BY <2>1, <2>2, <2>3, <2>4, <2>5, <2>6, <2>7, <2>8
  <1>3. EngagedOnce'
    BY <1>0, <1>y, <1>e, <1>o, <1>t DEF EngagedOnce, EngagedState, OthersKeep,
       IsAt, Engaged
  <1> QED BY <1>1, <1>2, <1>3 DEF IndInv

-----------------------------------------------------------------------------
(* The invariant and what follows from it                                  *)

\* The invariant holds initially: no thread acts and the server knows nothing.
LEMMA IndInit == Init => IndInv
  <1> SUFFICES ASSUME Init PROVE IndInv
    OBVIOUS
  <1>1. TypeOK
    <2>1. waitingIds \in [Locks -> Seq(Clients)]
      BY DEF Init
    <2>2. lk \in [Threads -> Locks]
      BY LocksAssumption DEF Init
    <2> QED BY <2>1, <2>2 DEF Init, TypeOK, PCs
  <1>2. \A t \in Threads, l \in Locks :
          /\ ~ Engaged(t, l) /\ ~ Handling(t, l) /\ ~ Retrying(t, l)
          /\ ~ InAcquire(t, l) /\ ~ InRelease(t, l)
          /\ \A p : At(t, l, p) => p = "user"
          /\ l \notin held[t] /\ ret[t] = "NONE"
    BY DEF Init, Engaged, InAcquire, InRelease, Handling, Retrying, At
  <1>3. \A l \in Locks :
          /\ sstate[l] = "FREE" /\ acquiredId[l] = NoClient
          /\ waitingIds[l] = <<>> /\ NoDuplicate(waitingIds[l])
          /\ \A c : ~ InSeq(c, waitingIds[l])
          /\ \A c \in Clients :
               cstate[c][l] = "NONE" /\ ~ toRevoke[c][l] /\ ~ toRetry[c][l]
    BY EmptyQueue DEF Init
  <1>4. lk \in [Threads -> Locks] /\ ret \in [Threads -> {"NONE"}]
    BY <1>1 DEF TypeOK, Init
  <1>5. QueueSound /\ EntryTenure
    BY <1>3, NoClientAssumption DEF QueueSound, EntryTenure
  <1>6. EngagedOnce /\ EngagedState /\ HandlerInv /\ ThreadTenure
    BY <1>2, <1>4 DEF EngagedOnce, EngagedState, HandlerInv, ThreadTenure
  <1>7. RevokeSent /\ RevokeNoted
    BY <1>2, <1>3 DEF RevokeSent, RevokeNoted
  <1>8. RetryQueued /\ RetryAgain /\ RetrySent /\ RetryNoted /\ QueuedAcquires
    BY <1>2, <1>3 DEF RetryQueued, RetryAgain, RetrySent, RetryNoted,
       QueuedAcquires
  <1> QED BY <1>1, <1>5, <1>6, <1>7, <1>8 DEF IndInv

\* Both callers of the switch in acquire() preserve the invariant.
LEMMA IndContend ==
  ASSUME IndInv, TypeOK', NEW t \in Threads, NEW l \in Locks,
         pc[t] \in {"user", "lockWoken"},
         lk' = [lk EXCEPT ![t] = l], Contend(t, l)
  PROVE  IndInv'
  <1>1. CASE cstate[Owner[t]][l] = "NONE"
    BY <1>1, ContendNoneStep
  <1>2. CASE cstate[Owner[t]][l] = "FREE"
    BY <1>2, ContendFreeStep
  <1>3. CASE cstate[Owner[t]][l] \notin {"NONE", "FREE"}
    BY <1>3, ContendWaitStep
  <1> QED BY <1>1, <1>2, <1>3

\* Both callers of the retry wait preserve the invariant.
LEMMA IndAwaitRetry ==
  ASSUME IndInv, TypeOK', NEW t \in Threads,
         pc[t] = "retryWoken" \/ (pc[t] = "acquireReply" /\ ret[t] = "RETRY"),
         ret' = [ret EXCEPT ![t] = "NONE"], AwaitRetry(t)
  PROVE  IndInv'
  <1>1. lk[t] \in Locks
    BY DEF IndInv, TypeOK
  <1>2. CASE toRetry[Owner[t]][lk[t]]
    BY <1>1, <1>2, AwaitRetryGoStep
  <1>3. CASE ~ toRetry[Owner[t]][lk[t]]
    BY <1>1, <1>3, AwaitRetryWaitStep
  <1> QED BY <1>2, <1>3

\* Every step of every thread preserves the invariant.
LEMMA IndContinue ==
  ASSUME IndInv, TypeOK', NEW t \in Threads, Continue(t)
  PROVE  IndInv'
  <1>0. lk[t] \in Locks /\ TypeOK
    BY DEF IndInv, TypeOK
  <1>1. CASE LockWake(t)
    <2>1. lk' = [lk EXCEPT ![t] = lk[t]] /\ pc[t] = "lockWoken"
      BY <1>0, <1>1 DEF LockWake, TypeOK
    <2> QED BY <1>0, <1>1, <2>1, IndContend DEF LockWake
  <1>2. CASE ServerAcquire(t)
    <2>1. /\ pc[t] = "acquireRPC"
          /\ UNCHANGED <<clientVars, held, lk, next>>
      BY <1>2 DEF ServerAcquire
    <2>2. CASE GrantFree(t, lk[t])
      BY <1>0, <2>1, <2>2, GrantFreeStep
    <2>3. CASE RevokeHolder(t, lk[t])
      BY <1>0, <2>1, <2>3, RevokeHolderStep
    <2>4. CASE GrantFront(t, lk[t])
      BY <1>0, <2>1, <2>4, GrantFrontLastStep, GrantFrontMoreStep
    <2>5. CASE Enqueue(t, lk[t])
      BY <1>0, <2>1, <2>5, EnqueueStep
    <2> QED BY <1>2, <2>2, <2>3, <2>4, <2>5 DEF ServerAcquire
  <1>3. CASE AcquireReturns(t)
    BY <1>0, <1>3, AcquireDoneStep, IndAwaitRetry DEF AcquireReturns
  <1>4. CASE RetryWake(t)
    <2>1. ret[t] = "NONE"
      BY <1>0, <1>4 DEF IndInv, ThreadTenure, RetryWake, Waiting, InAcquire
    <2>2. ret' = [ret EXCEPT ![t] = "NONE"] /\ pc[t] = "retryWoken"
      BY <1>0, <1>4, <2>1 DEF RetryWake, TypeOK
    <2> QED BY <1>4, <2>2, IndAwaitRetry DEF RetryWake
  <1>5. CASE RevokeHandler(t)
    BY <1>0, <1>5, RevokeFreeStep, RevokeUsedStep, RevokeEarlyStep
  <1>6. CASE RevokeReturns(t)
    BY <1>0, <1>6, RevokeReturnsStep
  <1>7. CASE ServerRelease(t)
    BY <1>0, <1>7, ServerReleaseOwnStep, ServerReleaseRevokedStep
       DEF ServerRelease
  <1>8. CASE RetryHandler(t)
    BY <1>0, <1>8, RetryHandlerOwnStep, RetryHandlerRevokedStep
       DEF RetryHandler
  <1>9. CASE ReleaseReturns(t)
    BY <1>0, <1>9, ReleaseReturnsStep
  <1> QED BY <1>1, <1>2, <1>3, <1>4, <1>5, <1>6, <1>7, <1>8, <1>9 DEF Continue

\* Every step of the system preserves the invariant.
LEMMA IndNext == IndInv /\ [Next]_vars => IndInv'
  <1> SUFFICES ASSUME IndInv, [Next]_vars PROVE IndInv'
    OBVIOUS
  <1>1. TypeOK'
    BY TypeNext DEF IndInv, QueueSound, TypeInv, WaitersInv
  <1>2. CASE UNCHANGED vars
    BY <1>1, <1>2 DEF vars, serverVars, clientVars, threadVars, IndInv,
       QueueSound, EngagedOnce, EngagedState, HandlerInv, ThreadTenure,
       EntryTenure, RevokeSent, RevokeNoted, RetryQueued, RetryAgain,
       RetrySent, RetryNoted, QueuedAcquires, Engaged, InAcquire, InRelease,
       Handling, Waiting, Retrying, At, IsFront
  <1>3. ASSUME NEW t \in Threads, SpuriousWake(t)
        PROVE  IndInv'
    <2>1. lk[t] \in Locks
      BY DEF IndInv, TypeOK
    <2> QED BY <1>1, <1>3, <2>1, SpuriousLockStep, SpuriousRetryStep
            DEF SpuriousWake
  <1>4. ASSUME NEW t \in Threads, NEW l \in Locks, ClientAcquire(t, l)
        PROVE  IndInv'
    BY <1>1, <1>4, IndContend DEF ClientAcquire
  <1>5. ASSUME NEW t \in Threads, NEW l \in Locks, ClientRelease(t, l)
        PROVE  IndInv'
    BY <1>1, <1>5, ReleaseToServerStep, ReleaseToCacheStep DEF ClientRelease
  <1> QED BY <1>1, <1>2, <1>3, <1>4, <1>5, IndContinue DEF Next

\* The bookkeeping of the two sides agrees in every reachable state: who acts
\* on a lock, whom the server booked it to, which revoke and which retry are
\* under way, for any number of clients, threads and locks and any pool sizes.
THEOREM IndInvariant == Spec => []IndInv
  <1> QED BY IndInit, IndNext, PTL DEF Spec

\* No two threads, of one client or of two, hold the same lock: two threads of
\* one client are never engaged together, and a lock held through a client is
\* booked to that client.
THEOREM MutualExclusionHolds == Spec => []MutualExclusion
  <1>1. IndInv => MutualExclusion
    <2> SUFFICES ASSUME IndInv, NEW t \in Threads, NEW u \in Threads,
                        NEW l \in Locks, l \in held[t], l \in held[u]
                 PROVE  t = u
      BY DEF MutualExclusion
    <2>1. acquiredId[l] = Owner[t] /\ acquiredId[l] = Owner[u]
      BY DEF IndInv, ThreadTenure
    <2> QED BY <2>1 DEF IndInv, EngagedOnce, Engaged
  <1> QED BY <1>1, IndInvariant, PTL

\* A lock held or cached by a client is booked to it at the server.
THEOREM CacheMatchesServerHolds == Spec => []CacheMatchesServer
  <1>1. IndInv => CacheMatchesServer
    BY DEF IndInv, ThreadTenure, EntryTenure, CacheMatchesServer
  <1> QED BY <1>1, IndInvariant, PTL

\* The server's queue of waiters is never read empty and holds no client twice.
THEOREM QueueSoundHolds == Spec => []QueueSound
  <1>1. IndInv => QueueSound
    BY DEF IndInv
  <1> QED BY <1>1, IndInvariant, PTL

-----------------------------------------------------------------------------
(* The service implements the abstract lock                                *)

\* How a step changes held: not, by a cache hit, by the reply of the server,
\* or by a release.
Changes(t, l) ==
  \/ /\ held' = [held EXCEPT ![t] = @ \cup {l}]
     /\ \/ cstate[Owner[t]][l] = "FREE"
        \/ At(t, l, "acquireReply") /\ ret[t] = "OK"
  \/ /\ held' = [held EXCEPT ![t] = @ \ {l}]
     /\ l \in held[t]

\* Only cache hits, granted replies and releases change held.
LEMMA HeldChanges ==
  ASSUME TypeOK, [Next]_vars
  PROVE  held' = held \/ \E t \in Threads, l \in Locks : Changes(t, l)
  <1>0. lk \in [Threads -> Locks]
    BY DEF TypeOK
  <1>1. CASE UNCHANGED vars
    BY <1>1 DEF vars, threadVars
  <1>2. ASSUME NEW t \in Threads, NEW l \in Locks, Contend(t, l)
        PROVE  held' = held \/ Changes(t, l)
    BY <1>2 DEF Contend, Changes
  <1>3. ASSUME NEW t \in Threads, NEW l \in Locks, ClientRelease(t, l)
        PROVE  Changes(t, l)
    BY <1>3 DEF ClientRelease, Changes
  <1>4. ASSUME NEW t \in Threads, AcquireReturns(t)
        PROVE  held' = held \/ Changes(t, lk[t])
    BY <1>4 DEF AcquireReturns, AcquireDone, AwaitRetry, Changes, At
  <1>5. ASSUME NEW t \in Threads,
               \/ ServerAcquire(t) \/ RetryWake(t) \/ RevokeHandler(t)
               \/ RevokeReturns(t) \/ ServerRelease(t) \/ RetryHandler(t)
               \/ ReleaseReturns(t) \/ SpuriousWake(t)
        PROVE  held' = held
    BY <1>5 DEF ServerAcquire, RetryWake, AwaitRetry, RevokeHandler,
       RevokeReturns, ServerRelease, RetryHandler, ReleaseReturns, SpuriousWake
  <1> QED BY <1>0, <1>1, <1>2, <1>3, <1>4, <1>5
          DEF Next, Continue, ClientAcquire, LockWake

\* A cache hit and a granted acquire take a lock nobody holds.
LEMMA NobodyHolds ==
  ASSUME IndInv, NEW t \in Threads, NEW l \in Locks,
         \/ cstate[Owner[t]][l] = "FREE"
         \/ At(t, l, "acquireReply") /\ ret[t] = "OK"
  PROVE  \A u \in Threads : l \notin held[u]
  <1> SUFFICES ASSUME NEW u \in Threads, l \in held[u] PROVE FALSE
    OBVIOUS
  <1>1. /\ Owner[t] \in Clients
        /\ acquiredId[l] = Owner[u]
        /\ cstate[Owner[u]][l] \in {"USED", "RELEASING"}
    BY OwnerAssumption DEF IndInv, ThreadTenure, EngagedState
  <1>2. CASE cstate[Owner[t]][l] = "FREE"
    BY <1>1, <1>2 DEF IndInv, EntryTenure
  <1>3. CASE At(t, l, "acquireReply") /\ ret[t] = "OK"
    <2>1. InAcquire(t, l)
      BY <1>3 DEF At, InAcquire
    <2>2. acquiredId[l] = Owner[t] /\ cstate[Owner[t]][l] = "ACQUIRING"
      BY <1>3, <2>1 DEF IndInv, ThreadTenure, EngagedState
    <2> QED BY <1>1, <2>2
  <1> QED BY <1>2, <1>3

\* The caching lock service implements the abstract lock: acquire() hands a
\* lock out only when no thread of any client has it.
THEOREM Implementation == Spec => ImplementsLockSpec
  <1>1. Init => Abstract!Init
    BY DEF Init, Abstract!Init
  <1>2. IndInv /\ [Next]_vars => [Abstract!Next]_held
    <2> SUFFICES ASSUME IndInv, [Next]_vars, held' # held PROVE Abstract!Next
      OBVIOUS
    <2>1. PICK t \in Threads, l \in Locks : Changes(t, l)
      BY HeldChanges DEF IndInv
    <2>2. Abstract!Acquire(t, l) \/ Abstract!Release(t, l)
      BY <2>1, NobodyHolds DEF Changes, Abstract!Acquire, Abstract!Release
    <2> QED BY <2>2 DEF Abstract!Next
  <1> QED BY <1>1, <1>2, IndInvariant, PTL
          DEF Spec, ImplementsLockSpec, Abstract!Spec

\* After a revoke reached a client, only the thread whose acquire the server
\* has granted may still get the lock: the cache does not hand it out again.
THEOREM RevokedNotReusedHolds == Spec => RevokedNotReused
  <1> DEFINE Kept ==
        \A t \in Threads, l \in Locks :
          /\ toRevoke[Owner[t]][l] \/ cstate[Owner[t]][l] = "RELEASING"
          /\ l \in held'[t]
          => l \in held[t] \/ At(t, l, "acquireReply")
  <1>1. IndInv /\ [Next]_vars => [Kept]_vars
    <2> SUFFICES ASSUME IndInv, [Next]_vars,
                        NEW t \in Threads, NEW l \in Locks,
                        toRevoke[Owner[t]][l] \/ cstate[Owner[t]][l] = "RELEASING",
                        l \in held'[t], l \notin held[t]
                 PROVE  At(t, l, "acquireReply")
      OBVIOUS
    <2>1. cstate[Owner[t]][l] # "FREE"
      BY OwnerAssumption DEF IndInv, RevokeNoted
    <2>2. PICK u \in Threads, k \in Locks : Changes(u, k)
      BY HeldChanges DEF IndInv
    <2>3. held \in [Threads -> SUBSET Locks]
      BY DEF IndInv, TypeOK
    <2>4. u = t /\ k = l
      BY <2>2, <2>3 DEF Changes
    <2> QED BY <2>1, <2>2, <2>3, <2>4 DEF Changes
  <1> QED BY <1>1, IndInvariant, PTL DEF Spec, RevokedNotReused

-----------------------------------------------------------------------------
(* Callbacks and wakeups: what follows step by step while IndInv holds     *)

\* The step of t concerns lock l: the other locks are left alone, and the
\* other threads stay where they are, except that sleepers are woken.
StepOn(t, l) ==
  /\ lk'[t] = l /\ (lk[t] = l \/ pc[t] = "user")
  /\ \A u \in Threads : u # t =>
       /\ lk'[u] = lk[u]
       /\ \/ pc'[u] = pc[u]
          \/ pc[u] = "lockWait" /\ pc'[u] = "lockWoken"
          \/ pc[u] = "retryWait" /\ pc'[u] = "retryWoken"
  /\ \A k \in Locks \ {l} :
       /\ sstate'[k] = sstate[k] /\ acquiredId'[k] = acquiredId[k]
       /\ waitingIds'[k] = waitingIds[k]
       /\ \A c \in Clients : /\ cstate'[c][k] = cstate[c][k]
                             /\ toRevoke'[c][k] = toRevoke[c][k]
                             /\ toRetry'[c][k] = toRetry[c][k]

\* CallbackPending for one lock.
Revoking(l) ==
  \E t \in Threads : At(t, l, "revokeRPC") \/ At(t, l, "releaseRPC")

Offered(f, l) ==
  \E t \in Threads : Retrying(t, l) \/ (At(t, l, "acquireRPC") /\ Owner[t] = f)

CalledBack(l) ==
  sstate[l] = "TOREVOKE" =>
    /\ acquiredId[l] # NoClient =>
         \/ toRevoke[acquiredId[l]][l] \/ cstate[acquiredId[l]][l] = "RELEASING"
         \/ Revoking(l)
    /\ acquiredId[l] = NoClient =>
         toRetry[Head(waitingIds[l])][l] \/ Offered(Head(waitingIds[l]), l)

\* NoLostWakeup for the sleepers of client c on the entry of lock l.
Woken(c, l) == \E u \in Threads : At(u, l, "lockWoken") /\ Owner[u] = c

SleepersWoken(c, l) ==
  cstate[c][l] \in {"FREE", "NONE"} => LockWaiters(c, l) = {} \/ Woken(c, l)

\* CallbackPending is CalledBack for every lock.
LEMMA CallbackParts ==
  ASSUME IndInv
  PROVE  CallbackPending <=> \A l \in Locks : CalledBack(l)
  BY DEF CallbackPending, CalledBack, Revoking, Offered, Retrying

\* NoLostWakeup is SleepersWoken for every client and lock.
LEMMA WakeupParts ==
  ASSUME TypeOK
  PROVE  NoLostWakeup <=> \A c \in Clients, l \in Locks : SleepersWoken(c, l)
  <1>1. \A t \in Threads : Owner[t] \in Clients /\ lk[t] \in Locks
    BY OwnerAssumption DEF TypeOK
  <1>2. ASSUME NoLostWakeup, NEW c \in Clients, NEW l \in Locks,
               cstate[c][l] \in {"FREE", "NONE"}, LockWaiters(c, l) # {}
        PROVE  Woken(c, l)
    <2>1. PICK t \in Threads : pc[t] = "lockWait" /\ lk[t] = l /\ Owner[t] = c
      BY <1>2 DEF LockWaiters
    <2> QED BY <1>2, <2>1 DEF NoLostWakeup, Woken
  <1>3. ASSUME NEW t \in Threads, SleepersWoken(Owner[t], lk[t]),
               pc[t] = "lockWait", cstate[Owner[t]][lk[t]] \in {"FREE", "NONE"}
        PROVE  \E u \in Threads : At(u, lk[t], "lockWoken") /\ Owner[u] = Owner[t]
    BY <1>3 DEF SleepersWoken, Woken, LockWaiters
  <1> QED BY <1>1, <1>2, <1>3 DEF NoLostWakeup, SleepersWoken

\* The switch in acquire() is a step on the lock asked for.
LEMMA ContendStepOn ==
  ASSUME TypeOK, NEW t \in Threads, NEW l \in Locks,
         pc[t] = "user" \/ (pc[t] = "lockWoken" /\ lk[t] = l),
         lk' = [lk EXCEPT ![t] = l], Contend(t, l)
  PROVE  StepOn(t, l)
  <1>1. cstate \in [Clients -> [Locks -> ClientStates]] /\ Owner[t] \in Clients
    BY OwnerAssumption DEF TypeOK, ClientStates
  <1>2. \A c \in Clients, k \in Locks \ {l} : cstate'[c][k] = cstate[c][k]
    BY <1>1 DEF Contend, SetClientState
  <1> QED BY <1>2 DEF StepOn, Contend, GoTo, TypeOK, serverVars

\* The server's acquire handler is a step on the lock asked for.
LEMMA ServerAcquireStepOn ==
  ASSUME TypeOK, NEW t \in Threads, ServerAcquire(t)
  PROVE  StepOn(t, lk[t])
  <1>1. UNCHANGED <<cstate, toRevoke, toRetry, lk>>
    BY DEF ServerAcquire, clientVars
  <1>2. \A u \in Threads : u # t => pc'[u] = pc[u]
    BY DEF ServerAcquire, GrantFree, RevokeHolder, GrantFront, Enqueue,
       ServerReply, SendRevoke, GoTo, TypeOK
  <1>3. \A k \in Locks \ {lk[t]} :
          /\ sstate'[k] = sstate[k] /\ acquiredId'[k] = acquiredId[k]
          /\ waitingIds'[k] = waitingIds[k]
    BY DEF ServerAcquire, GrantFree, RevokeHolder, GrantFront, Enqueue, TypeOK
  <1> QED BY <1>1, <1>2, <1>3 DEF StepOn

\* The wait for a retry is a step on the lock asked for.
LEMMA AwaitRetryStepOn ==
  ASSUME TypeOK, NEW t \in Threads, AwaitRetry(t)
  PROVE  StepOn(t, lk[t])
  <1>1. toRetry \in [Clients -> [Locks -> BOOLEAN]] /\ Owner[t] \in Clients
    BY OwnerAssumption DEF TypeOK
  <1>2. \A c \in Clients, k \in Locks \ {lk[t]} : toRetry'[c][k] = toRetry[c][k]
    BY <1>1 DEF AwaitRetry, ConsumeRetry
  <1> QED BY <1>2 DEF StepOn, AwaitRetry, GoTo, TypeOK, serverVars

\* The end of acquire() is a step on the lock asked for.
LEMMA AcquireReturnsStepOn ==
  ASSUME TypeOK, NEW t \in Threads, AcquireReturns(t)
  PROVE  StepOn(t, lk[t])
  <1>1. CASE AwaitRetry(t)
    BY <1>1, AwaitRetryStepOn
  <1>2. CASE AcquireDone(t)
    <2>1. cstate \in [Clients -> [Locks -> ClientStates]] /\ Owner[t] \in Clients
      BY OwnerAssumption DEF TypeOK, ClientStates
    <2>2. \A c \in Clients, k \in Locks \ {lk[t]} : cstate'[c][k] = cstate[c][k]
      BY <1>2, <2>1 DEF AcquireDone, SetClientState
    <2> QED BY <1>2, <2>2 DEF StepOn, AcquireDone, GoTo, TypeOK, serverVars
  <1> QED BY <1>1, <1>2 DEF AcquireReturns

\* The revoke handler is a step on the lock revoked.
LEMMA RevokeHandlerStepOn ==
  ASSUME TypeOK, NEW t \in Threads, RevokeHandler(t)
  PROVE  StepOn(t, lk[t])
  <1>1. /\ cstate \in [Clients -> [Locks -> ClientStates]]
        /\ toRevoke \in [Clients -> [Locks -> BOOLEAN]]
    BY DEF TypeOK, ClientStates
  <1>2. \A c \in Clients, k \in Locks \ {lk[t]} :
          cstate'[c][k] = cstate[c][k] /\ toRevoke'[c][k] = toRevoke[c][k]
    BY <1>1 DEF RevokeHandler, SetClientState, RememberRevoke
  <1>3. \A u \in Threads : u # t => pc'[u] = pc[u]
    BY DEF RevokeHandler, GoTo, TypeOK
  <1> QED BY <1>2, <1>3 DEF StepOn, RevokeHandler, serverVars

\* Both ends of giving a lock back are steps on that lock.
LEMMA GivenBackStepOn ==
  ASSUME TypeOK, NEW t \in Threads, RevokeReturns(t) \/ ReleaseReturns(t)
  PROVE  StepOn(t, lk[t])
  <1>1. PICK c : GivenBack(c, lk[t])
    BY DEF RevokeReturns, ReleaseReturns
  <1>2. \A d \in Clients, k \in Locks \ {lk[t]} : cstate'[d][k] = cstate[d][k]
    <2>1. cstate \in [Clients -> [Locks -> ClientStates]]
      BY DEF TypeOK, ClientStates
    <2> QED BY <1>1, <2>1 DEF GivenBack, SetClientState
  <1>3. \A u \in Threads : u # t =>
          pc'[u] = pc[u] \/ (pc[u] = "lockWait" /\ pc'[u] = "lockWoken")
    <2>1. {"acquireReply", "user"} \subseteq PCs /\ pc \in [Threads -> PCs]
      BY DEF TypeOK, PCs
    <2>2. pc[t] # "lockWait"
      BY DEF RevokeReturns, ReleaseReturns
    <2>3. \E d, k : \E p \in PCs :
            pc' \in Signalled(LockWaiters(d, k), "lockWoken", t, p)
      BY <2>1 DEF RevokeReturns, ReleaseReturns
    <2> QED BY <2>1, <2>2, <2>3, LockSignal
  <1> QED BY <1>2, <1>3 DEF StepOn, RevokeReturns, ReleaseReturns, serverVars

\* release() is a step on the lock released.
LEMMA ClientReleaseStepOn ==
  ASSUME TypeOK, NEW t \in Threads, NEW l \in Locks, ClientRelease(t, l)
  PROVE  StepOn(t, l)
  <1>1. /\ cstate \in [Clients -> [Locks -> ClientStates]]
        /\ toRevoke \in [Clients -> [Locks -> BOOLEAN]]
    BY DEF TypeOK, ClientStates
  <1>2. \A c \in Clients, k \in Locks \ {l} :
          cstate'[c][k] = cstate[c][k] /\ toRevoke'[c][k] = toRevoke[c][k]
    BY <1>1 DEF ClientRelease, ReleaseToServer, ReleaseToCache
  <1>3. \A u \in Threads : u # t =>
          pc'[u] = pc[u] \/ (pc[u] = "lockWait" /\ pc'[u] = "lockWoken")
    <2>1. "user" \in PCs /\ pc \in [Threads -> PCs] /\ pc[t] = "user"
      BY DEF TypeOK, PCs, ClientRelease
    <2>2. CASE ReleaseToServer(t, l)
      BY <2>1, <2>2 DEF ReleaseToServer, GoTo
    <2>3. CASE ReleaseToCache(t, l)
      BY <2>1, <2>3, LockSignal DEF ReleaseToCache
    <2> QED BY <2>2, <2>3 DEF ClientRelease
  <1> QED BY <1>2, <1>3 DEF StepOn, ClientRelease, TypeOK, serverVars

\* The server's release handler is a step on the lock released.
LEMMA ServerReleaseStepOn ==
  ASSUME TypeOK, NEW t \in Threads, ServerRelease(t)
  PROVE  StepOn(t, lk[t])
  <1>1. UNCHANGED <<cstate, toRevoke, toRetry, lk, waitingIds>>
    BY DEF ServerRelease, clientVars
  <1>2. \A u \in Threads : u # t => pc'[u] = pc[u]
    BY DEF ServerRelease, GoTo, TypeOK
  <1>3. \A k \in Locks \ {lk[t]} :
          sstate'[k] = sstate[k] /\ acquiredId'[k] = acquiredId[k]
    BY DEF ServerRelease, TypeOK
  <1> QED BY <1>1, <1>2, <1>3 DEF StepOn

\* The retry handler is a step on the lock offered.
LEMMA RetryHandlerStepOn ==
  ASSUME TypeOK, NEW t \in Threads, RetryHandler(t)
  PROVE  StepOn(t, lk[t])
  <1>1. \A c \in Clients, k \in Locks \ {lk[t]} : toRetry'[c][k] = toRetry[c][k]
    <2>1. toRetry \in [Clients -> [Locks -> BOOLEAN]]
      BY DEF TypeOK
    <2> QED BY <2>1 DEF RetryHandler
  <1>2. \A u \in Threads : u # t =>
          pc'[u] = pc[u] \/ (pc[u] = "retryWait" /\ pc'[u] = "retryWoken")
    <2>1. AfterRelease(t) \in PCs /\ pc \in [Threads -> PCs] /\ pc[t] # "retryWait"
      BY DEF TypeOK, PCs, AfterRelease, RetryHandler
    <2> QED BY <2>1, RetrySignal DEF RetryHandler
  <1> QED BY <1>1, <1>2 DEF StepOn, RetryHandler, serverVars

\* So is a wakeup without a signal, on the lock waited for.
LEMMA SpuriousStepOn ==
  ASSUME TypeOK, NEW t \in Threads, SpuriousWake(t)
  PROVE  StepOn(t, lk[t])
  BY DEF StepOn, SpuriousWake, GoTo, TypeOK, serverVars, clientVars

\* The steps of t that concern lock l.
Moves(t, l) ==
  \/ pc[t] \in {"user", "lockWoken"} /\ Contend(t, l)
  \/ ClientRelease(t, l)
  \/ /\ lk[t] = l
     /\ \/ ServerAcquire(t) \/ AcquireReturns(t) \/ RetryWake(t)
        \/ RevokeHandler(t) \/ RevokeReturns(t) \/ ServerRelease(t)
        \/ RetryHandler(t) \/ ReleaseReturns(t) \/ SpuriousWake(t)

\* Every step is one thread's, on one lock.
LEMMA EveryStepOn ==
  ASSUME IndInv, [Next]_vars
  PROVE  \/ UNCHANGED vars
         \/ \E t \in Threads, l \in Locks : StepOn(t, l) /\ Moves(t, l)
  <1>0. TypeOK /\ \A t \in Threads : lk[t] \in Locks
    BY DEF IndInv, TypeOK
  <1>1. ASSUME NEW t \in Threads, NEW l \in Locks, ClientAcquire(t, l)
        PROVE  StepOn(t, l) /\ Moves(t, l)
    BY <1>0, <1>1, ContendStepOn DEF ClientAcquire, Moves
  <1>2. ASSUME NEW t \in Threads, NEW l \in Locks, ClientRelease(t, l)
        PROVE  StepOn(t, l) /\ Moves(t, l)
    BY <1>0, <1>2, ClientReleaseStepOn DEF Moves
  <1>3. ASSUME NEW t \in Threads, LockWake(t)
        PROVE  StepOn(t, lk[t]) /\ Moves(t, lk[t])
    <2>1. lk' = [lk EXCEPT ![t] = lk[t]] /\ pc[t] = "lockWoken"
      BY <1>0, <1>3 DEF LockWake, TypeOK
    <2> QED BY <1>0, <1>3, <2>1, ContendStepOn DEF LockWake, Moves
  <1>4. ASSUME NEW t \in Threads,
               \/ ServerAcquire(t) \/ AcquireReturns(t) \/ RetryWake(t)
               \/ RevokeHandler(t) \/ RevokeReturns(t) \/ ServerRelease(t)
               \/ RetryHandler(t) \/ ReleaseReturns(t) \/ SpuriousWake(t)
        PROVE  StepOn(t, lk[t]) /\ Moves(t, lk[t])
    <2>1. RetryWake(t) => AwaitRetry(t)
      BY DEF RetryWake
    <2>2. StepOn(t, lk[t])
      BY <1>0, <1>4, <2>1, ServerAcquireStepOn, AcquireReturnsStepOn,
         AwaitRetryStepOn, RevokeHandlerStepOn, GivenBackStepOn,
         ServerReleaseStepOn, RetryHandlerStepOn, SpuriousStepOn
    <2> QED BY <1>4, <2>2 DEF Moves
  <1> QED BY <1>0, <1>1, <1>2, <1>3, <1>4 DEF Next, Continue

\* The other locks stay called back, and their sleepers woken.
LEMMA Elsewhere ==
  ASSUME IndInv, NEW t \in Threads, NEW l \in Locks, StepOn(t, l),
         NEW k \in Locks \ {l}
  PROVE  /\ CalledBack(k) => CalledBack(k)'
         /\ \A c \in Clients : SleepersWoken(c, k) => SleepersWoken(c, k)'
  <1>1. \A u \in Threads, p \in {"revokeRPC", "releaseRPC", "releaseRetry",
                                 "revokeRetry", "acquireRPC", "lockWoken"} :
          At(u, k, p) => At(u, k, p)'
    BY DEF StepOn, At
  <1>2. /\ Revoking(k) => Revoking(k)'
        /\ \A f : Offered(f, k) => Offered(f, k)'
        /\ \A c : Woken(c, k) => Woken(c, k)'
    BY <1>1 DEF Revoking, Offered, Retrying, Woken
  <1>3. \A c \in Clients : LockWaiters(c, k)' \subseteq LockWaiters(c, k)
    BY DEF StepOn, LockWaiters
  <1>4. acquiredId[k] \in Clients \cup {NoClient}
    BY DEF IndInv, TypeOK
  <1>5. sstate[k] = "TOREVOKE" => Head(waitingIds[k]) \in Clients
    BY QueueFacts DEF IndInv, QueueSound
  <1>6. CalledBack(k) => CalledBack(k)'
    BY <1>2, <1>4, <1>5 DEF CalledBack, StepOn
  <1>7. \A c \in Clients : SleepersWoken(c, k) => SleepersWoken(c, k)'
    BY <1>2, <1>3 DEF SleepersWoken, StepOn
  <1> QED BY <1>6, <1>7

\* What t does not send stays on its way, what it sends is.
LEMMA OnItsWay ==
  ASSUME NEW t \in Threads, NEW l \in Locks, StepOn(t, l)
  PROVE  /\ pc[t] \notin {"revokeRPC", "releaseRPC"} /\ Revoking(l) => Revoking(l)'
         /\ pc[t] \notin {"releaseRetry", "revokeRetry", "acquireRPC"} =>
              \A f : Offered(f, l) => Offered(f, l)'
         /\ pc'[t] \in {"revokeRPC", "releaseRPC"} => Revoking(l)'
         /\ pc'[t] \in {"releaseRetry", "revokeRetry"} => \A f : Offered(f, l)'
         /\ pc'[t] = "acquireRPC" => Offered(Owner[t], l)'
  <1>1. \A u \in Threads \ {t}, p \in {"revokeRPC", "releaseRPC", "releaseRetry",
                                       "revokeRetry", "acquireRPC"} :
          At(u, l, p) => At(u, l, p)'
    BY DEF StepOn, At
  <1>2. \A p : pc'[t] = p => At(t, l, p)'
    BY DEF StepOn, At
  <1>3. \A p : pc[t] # p => ~ At(t, l, p)
    BY DEF At
  <1>4. pc[t] \notin {"revokeRPC", "releaseRPC"} /\ Revoking(l) => Revoking(l)'
    BY <1>1, <1>3 DEF Revoking
  <1>5. pc[t] \notin {"releaseRetry", "revokeRetry", "acquireRPC"} =>
          \A f : Offered(f, l) => Offered(f, l)'
    BY <1>1, <1>3 DEF Offered, Retrying
  <1>6. /\ pc'[t] \in {"revokeRPC", "releaseRPC"} => Revoking(l)'
        /\ pc'[t] \in {"releaseRetry", "revokeRetry"} => \A f : Offered(f, l)'
        /\ pc'[t] = "acquireRPC" => Offered(Owner[t], l)'
    BY <1>2 DEF Revoking, Offered, Retrying
  <1> QED BY <1>4, <1>5, <1>6

-----------------------------------------------------------------------------
(* CallbackPending                                                         *)

\* A client that takes a lock from its cache, or asks for one, does not have
\* it booked or is still to be sent the revoke.
LEMMA ContendCalledBack ==
  ASSUME IndInv, NEW t \in Threads, NEW l \in Locks, CalledBack(l),
         StepOn(t, l), pc[t] \in {"user", "lockWoken"}, Contend(t, l)
  PROVE  CalledBack(l)'
  <1>0. UNCHANGED <<sstate, acquiredId, waitingIds, toRevoke, toRetry>>
    BY DEF Contend, serverVars
  <1>1. Revoking(l) => Revoking(l)'
    BY OnItsWay
  <1>2. \A f : Offered(f, l) => Offered(f, l)'
    BY OnItsWay
  <1>3. ASSUME acquiredId[l] \in Clients,
               cstate[acquiredId[l]][l] = "RELEASING"
        PROVE  cstate'[acquiredId[l]][l] = "RELEASING"
    <2>1. cstate \in [Clients -> [Locks -> ClientStates]] /\ Owner[t] \in Clients
      BY OwnerAssumption DEF IndInv, TypeOK, ClientStates
    <2> QED BY <1>3, <2>1 DEF Contend, SetClientState
  <1>4. acquiredId[l] \in Clients \cup {NoClient}
    BY DEF IndInv, TypeOK
  <1> QED BY <1>0, <1>1, <1>2, <1>3, <1>4 DEF CalledBack

\* The acquire handler sends a revoke, or leaves the lock to those who act.
LEMMA ServerAcquireCalledBack ==
  ASSUME IndInv, TypeOK', NEW t \in Threads, NEW l \in Locks, lk[t] = l,
         CalledBack(l), StepOn(t, l), ServerAcquire(t)
  PROVE  CalledBack(l)'
  <1>0. /\ pc[t] = "acquireRPC" /\ UNCHANGED <<cstate, toRevoke, toRetry>>
        /\ sstate \in [Locks -> {"FREE", "USED", "TOREVOKE"}]
        /\ pc \in [Threads -> PCs]
    BY DEF ServerAcquire, clientVars, IndInv, TypeOK
  <1>1. CASE GrantFree(t, l)
    BY <1>0, <1>1 DEF GrantFree, CalledBack
  <1>2. CASE RevokeHolder(t, l)
    <2>1. pc'[t] = "revokeRPC" /\ acquiredId'[l] # NoClient
      BY <1>0, <1>2 DEF RevokeHolder, SendRevoke, GoTo, IndInv, EntryTenure
    <2> QED BY <2>1, OnItsWay DEF CalledBack
  <1>3. CASE GrantFront(t, l)
    <2>1. CASE Tail(waitingIds[l]) = <<>>
      BY <1>0, <1>3, <2>1 DEF GrantFront, CalledBack
    <2>2. CASE Tail(waitingIds[l]) # <<>>
      <3>1. pc'[t] = "revokeRPC"
        BY <1>0, <1>3, <2>2 DEF GrantFront, SendRevoke, GoTo
      <3>2. acquiredId'[l] # NoClient
        BY <1>3, OwnerAssumption, NoClientAssumption
           DEF GrantFront, IndInv, TypeOK
      <3> QED BY <3>1, <3>2, OnItsWay DEF CalledBack
    <2> QED BY <2>1, <2>2
  <1>4. CASE Enqueue(t, l)
    <2>1. UNCHANGED <<sstate, acquiredId>> /\ sstate[l] = "TOREVOKE"
      BY <1>4 DEF Enqueue
    <2>2. Head(waitingIds'[l]) = Head(waitingIds[l])
      <3>1. waitingIds'[l] = Append(waitingIds[l], Owner[t])
        BY <1>4 DEF Enqueue, IndInv, TypeOK
      <3>2. waitingIds[l] # <<>> /\ TypeOK /\ QueueSound
        BY <2>1 DEF IndInv, QueueSound
      <3>3. Owner[t] \in Clients
        BY OwnerAssumption
      <3> QED BY <3>1, <3>2, <3>3, QueueFacts
    <2>3. Revoking(l) => Revoking(l)'
      BY <1>0, OnItsWay
    <2>4. Offered(Head(waitingIds[l]), l) => Offered(Head(waitingIds[l]), l)'
      <3>1. Owner[t] # Head(waitingIds[l])
        BY <1>4 DEF Enqueue, FrontIs
      <3>2. ASSUME NEW u \in Threads,
                   Retrying(u, l) \/ (At(u, l, "acquireRPC") /\
                                      Owner[u] = Head(waitingIds[l]))
            PROVE  (Retrying(u, l) \/ (At(u, l, "acquireRPC") /\
                                       Owner[u] = Head(waitingIds[l])))'
        <4>1. u # t
          BY <1>0, <3>1, <3>2 DEF Retrying, At
        <4>2. lk'[u] = lk[u] /\ (pc'[u] = pc[u] \/ pc[u] \in {"lockWait", "retryWait"})
          BY <4>1 DEF StepOn
        <4> QED BY <2>2, <3>2, <4>2 DEF Retrying, At
      <3> QED BY <2>2, <3>2 DEF Offered
    <2> QED BY <1>0, <2>1, <2>2, <2>3, <2>4 DEF CalledBack
  <1> QED BY <1>1, <1>2, <1>3, <1>4 DEF ServerAcquire

\* A client uses up its retry only to ask again, and gets it only when the
\* lock waits for it.
LEMMA AwaitRetryCalledBack ==
  ASSUME IndInv, NEW t \in Threads, NEW l \in Locks, lk[t] = l, CalledBack(l),
         StepOn(t, l), pc[t] \in {"acquireReply", "retryWoken"}, AwaitRetry(t)
  PROVE  CalledBack(l)'
  <1>0. UNCHANGED <<sstate, acquiredId, waitingIds, toRevoke, cstate>>
    BY DEF AwaitRetry, serverVars
  <1>y. Owner[t] \in Clients /\ toRetry \in [Clients -> [Locks -> BOOLEAN]]
    BY OwnerAssumption DEF IndInv, TypeOK
  <1>1. Revoking(l) => Revoking(l)'
    BY OnItsWay
  <1>2. \A f : Offered(f, l) => Offered(f, l)'
    BY OnItsWay
  <1>3. CASE toRetry[Owner[t]][l]
    <2>1. IsFront(Owner[t], l)
      BY <1>3, <1>y DEF IndInv, RetryNoted
    <2>2. pc'[t] = "acquireRPC"
      BY <1>3 DEF AwaitRetry, GoTo, IndInv, TypeOK
    <2> QED BY <1>0, <2>1, <2>2, OnItsWay DEF CalledBack, IsFront
  <1>4. CASE ~ toRetry[Owner[t]][l]
    BY <1>0, <1>1, <1>2, <1>4 DEF CalledBack, AwaitRetry
  <1> QED BY <1>3, <1>4

\* A thread that gets the lock was ACQUIRING, not RELEASING.
LEMMA AcquireDoneCalledBack ==
  ASSUME IndInv, NEW t \in Threads, NEW l \in Locks, lk[t] = l, CalledBack(l),
         StepOn(t, l), pc[t] = "acquireReply", AcquireDone(t)
  PROVE  CalledBack(l)'
  <1>0. UNCHANGED <<sstate, acquiredId, waitingIds, toRevoke, toRetry>>
    BY DEF AcquireDone, serverVars
  <1>1. Revoking(l) => Revoking(l)'
    BY OnItsWay
  <1>2. \A f : Offered(f, l) => Offered(f, l)'
    BY OnItsWay
  <1>3. ASSUME acquiredId[l] \in Clients,
               cstate[acquiredId[l]][l] = "RELEASING"
        PROVE  cstate'[acquiredId[l]][l] = "RELEASING"
    <2>1. cstate \in [Clients -> [Locks -> ClientStates]] /\ Owner[t] \in Clients
      BY OwnerAssumption DEF IndInv, TypeOK, ClientStates
    <2>2. cstate[Owner[t]][l] = "ACQUIRING"
      BY DEF IndInv, EngagedState, InAcquire
    <2> QED BY <1>3, <2>1, <2>2 DEF AcquireDone, SetClientState
  <1>4. acquiredId[l] \in Clients \cup {NoClient}
    BY DEF IndInv, TypeOK
  <1> QED BY <1>0, <1>1, <1>2, <1>3, <1>4 DEF CalledBack

\* The revoke handler starts to give the lock back, or notes that it must be.
LEMMA RevokeHandlerCalledBack ==
  ASSUME IndInv, NEW t \in Threads, NEW l \in Locks, lk[t] = l,
         RevokeHandler(t)
  PROVE  CalledBack(l)'
  <1>1. /\ victim[t] \in Clients
        /\ acquiredId[l] = victim[t] /\ UNCHANGED acquiredId
    BY DEF RevokeHandler, IndInv, RevokeSent, At, serverVars
  <1>2. /\ cstate \in [Clients -> [Locks -> ClientStates]]
        /\ toRevoke \in [Clients -> [Locks -> BOOLEAN]]
    BY DEF IndInv, TypeOK, ClientStates
  <1>3. toRevoke'[victim[t]][l] \/ cstate'[victim[t]][l] = "RELEASING"
    BY <1>1, <1>2 DEF RevokeHandler, SetClientState, RememberRevoke
  <1> QED BY <1>1, <1>3, NoClientAssumption DEF CalledBack

\* A client is forgotten to be RELEASING only when the server knows that it
\* gave the lock back.
LEMMA GivenBackCalledBack ==
  ASSUME IndInv, NEW t \in Threads, NEW l \in Locks, lk[t] = l, CalledBack(l),
         StepOn(t, l), RevokeReturns(t) \/ ReleaseReturns(t)
  PROVE  CalledBack(l)'
  <1>0. UNCHANGED <<sstate, acquiredId, waitingIds, toRevoke, toRetry>>
    BY DEF RevokeReturns, ReleaseReturns, serverVars
  <1>1. Revoking(l) => Revoking(l)'
    BY OnItsWay DEF RevokeReturns, ReleaseReturns
  <1>2. \A f : Offered(f, l) => Offered(f, l)'
    BY OnItsWay DEF RevokeReturns, ReleaseReturns
  <1>3. PICK c : GivenBack(c, l) /\ acquiredId[l] # c
    <2>1. CASE RevokeReturns(t)
      <3>1. Handling(t, l) /\ ~ At(t, l, "revokeRelease")
        BY <2>1 DEF RevokeReturns, Handling, At
      <3>2. acquiredId[l] # victim[t]
        BY <3>1 DEF IndInv, ThreadTenure
      <3> QED BY <2>1, <3>2 DEF RevokeReturns
    <2>2. CASE ReleaseReturns(t)
      <3>1. InRelease(t, l) /\ ~ At(t, l, "releaseRPC")
        BY <2>2 DEF ReleaseReturns, InRelease, At
      <3>2. acquiredId[l] # Owner[t]
        BY <3>1 DEF IndInv, ThreadTenure
      <3> QED BY <2>2, <3>2 DEF ReleaseReturns
    <2> QED BY <2>1, <2>2
  <1>4. ASSUME acquiredId[l] \in Clients
        PROVE  cstate'[acquiredId[l]][l] = cstate[acquiredId[l]][l]
    <2>1. cstate \in [Clients -> [Locks -> ClientStates]]
      BY DEF IndInv, TypeOK, ClientStates
    <2> QED BY <1>3, <1>4, <2>1 DEF GivenBack, SetClientState
  <1>5. acquiredId[l] \in Clients \cup {NoClient}
    BY DEF IndInv, TypeOK
  <1> QED BY <1>0, <1>1, <1>2, <1>4, <1>5 DEF CalledBack

\* release() sends a lock back that has been revoked, and keeps one whose
\* revoke is still to come.
LEMMA ClientReleaseCalledBack ==
  ASSUME IndInv, NEW t \in Threads, NEW l \in Locks, CalledBack(l),
         StepOn(t, l), ClientRelease(t, l)
  PROVE  CalledBack(l)'
  <1>0. /\ UNCHANGED <<sstate, acquiredId, waitingIds>> /\ pc[t] = "user"
        /\ Owner[t] \in Clients /\ acquiredId[l] = Owner[t]
    BY OwnerAssumption DEF ClientRelease, serverVars, IndInv, ThreadTenure
  <1>1. CASE ReleaseToServer(t, l)
    <2>1. pc'[t] = "releaseRPC"
      BY <1>1 DEF ReleaseToServer, GoTo, IndInv, TypeOK
    <2> QED BY <1>0, <2>1, OnItsWay, NoClientAssumption DEF CalledBack
  <1>2. CASE ReleaseToCache(t, l)
    <2>1. ~ toRevoke[Owner[t]][l] /\ cstate[Owner[t]][l] # "RELEASING"
      BY <1>2 DEF ReleaseToCache, MustGiveBack
    <2>2. Revoking(l) => Revoking(l)'
      BY <1>0, OnItsWay
    <2> QED BY <1>0, <2>1, <2>2, NoClientAssumption DEF CalledBack
  <1> QED BY <1>1, <1>2 DEF ClientRelease

\* The release handler offers a lock that others wait for to the first of them.
LEMMA ServerReleaseCalledBack ==
  ASSUME IndInv, NEW t \in Threads, NEW l \in Locks, lk[t] = l,
         StepOn(t, l), ServerRelease(t)
  PROVE  CalledBack(l)'
  <1>0. /\ sstate \in [Locks -> {"FREE", "USED", "TOREVOKE"}]
        /\ acquiredId \in [Locks -> Clients \cup {NoClient}]
        /\ pc \in [Threads -> PCs]
    BY DEF IndInv, TypeOK
  <1>1. CASE sstate[l] = "TOREVOKE"
    <2>1. acquiredId'[l] = NoClient
      BY <1>0, <1>1 DEF ServerRelease
    <2>2. pc'[t] \in {"releaseRetry", "revokeRetry"}
      BY <1>0, <1>1 DEF ServerRelease, GoTo
    <2> QED BY <2>1, <2>2, OnItsWay DEF CalledBack
  <1>2. CASE sstate[l] # "TOREVOKE"
    BY <1>0, <1>2 DEF ServerRelease, CalledBack
  <1> QED BY <1>1, <1>2

\* The retry handler notes the offer for the client it was meant for.
LEMMA RetryHandlerCalledBack ==
  ASSUME IndInv, NEW t \in Threads, NEW l \in Locks, lk[t] = l,
         RetryHandler(t)
  PROVE  CalledBack(l)'
  <1>1. next[t] \in Clients /\ IsFront(next[t], l)
    <2>1. Retrying(t, l)
      BY DEF RetryHandler, Retrying, At
    <2> QED BY <2>1 DEF IndInv, RetrySent
  <1>2. toRetry'[next[t]][l]
    BY <1>1 DEF RetryHandler, IndInv, TypeOK
  <1> QED BY <1>1, <1>2 DEF CalledBack, IsFront, RetryHandler, serverVars

\* Every step keeps every lock on its way to those who wait for it.
LEMMA CalledBackNext ==
  ASSUME IndInv, [Next]_vars, \A l \in Locks : CalledBack(l)
  PROVE  \A l \in Locks : CalledBack(l)'
  <1>0. TypeOK'
    BY IndNext DEF IndInv
  <1>1. CASE UNCHANGED vars
    BY <1>1 DEF vars, serverVars, clientVars, threadVars, CalledBack, Revoking,
       Offered, Retrying, At
  <1>2. ASSUME NEW t \in Threads, NEW l \in Locks, StepOn(t, l), Moves(t, l)
        PROVE  \A k \in Locks : CalledBack(k)'
    <2>1. CASE pc[t] \in {"user", "lockWoken"} /\ Contend(t, l)
      BY <1>2, <2>1, Elsewhere, ContendCalledBack
    <2>2. CASE ClientRelease(t, l)
      BY <1>2, <2>2, Elsewhere, ClientReleaseCalledBack
    <2>3. CASE lk[t] = l /\ ServerAcquire(t)
      BY <1>0, <1>2, <2>3, Elsewhere, ServerAcquireCalledBack
    <2>4. CASE lk[t] = l /\ (AcquireReturns(t) \/ RetryWake(t))
      <3>1. CalledBack(l)'
        BY <1>2, <2>4, AcquireDoneCalledBack, AwaitRetryCalledBack
           DEF AcquireReturns, RetryWake
      <3> QED BY <1>2, <3>1, Elsewhere
    <2>5. CASE lk[t] = l /\ (RevokeReturns(t) \/ ReleaseReturns(t))
      BY <1>2, <2>5, Elsewhere, GivenBackCalledBack
    <2>6. CASE lk[t] = l /\ (RevokeHandler(t) \/ ServerRelease(t) \/ RetryHandler(t))
      BY <1>2, <2>6, Elsewhere, RevokeHandlerCalledBack,
         ServerReleaseCalledBack, RetryHandlerCalledBack
    <2>7. CASE SpuriousWake(t)
      <3>1. UNCHANGED <<sstate, acquiredId, waitingIds, cstate, toRevoke, toRetry>>
        BY <2>7 DEF SpuriousWake, serverVars, clientVars
      <3>2. /\ Revoking(l) => Revoking(l)'
            /\ \A f : Offered(f, l) => Offered(f, l)'
        BY <1>2, <2>7, OnItsWay DEF SpuriousWake
      <3>3. CalledBack(l)'
        BY <3>1, <3>2 DEF CalledBack
      <3> QED BY <1>2, <3>3, Elsewhere
    <2> QED BY <1>2, <2>1, <2>2, <2>3, <2>4, <2>5, <2>6, <2>7 DEF Moves
  <1> QED BY <1>1, <1>2, EveryStepOn

\* While clients wait for a lock, somebody is on the way to serve them: its
\* holder has been or is being told to give it back, or the first of them has
\* been or is being told to retry.
THEOREM CallbackPendingHolds == Spec => []CallbackPending
  <1> DEFINE CInv == \A l \in Locks : CalledBack(l)
  <1>1. Init => CInv
    BY DEF Init, CalledBack
  <1>2. IndInv /\ CInv /\ [Next]_vars => CInv'
    BY CalledBackNext
  <1>3. IndInv /\ CInv => CallbackPending
    BY CallbackParts
  <1> HIDE DEF CInv
  <1> QED BY <1>1, <1>2, <1>3, IndInvariant, PTL DEF Spec

-----------------------------------------------------------------------------
(* NoLostWakeup                                                            *)

\* A signal reaches one of the sleepers, if there are any.
LEMMA SignalWakes ==
  ASSUME TypeOK, NEW t \in Threads, NEW l \in Locks, NEW c, NEW p,
         pc[t] # "lockWait", p # "lockWait", StepOn(t, l),
         pc' \in Signalled(LockWaiters(c, l), "lockWoken", t, p)
  PROVE  LockWaiters(c, l)' = {} \/ Woken(c, l)'
  <1>1. CASE LockWaiters(c, l) = {}
    <2>1. pc' = [pc EXCEPT ![t] = p]
      BY <1>1 DEF Signalled
    <2> QED BY <1>1, <2>1 DEF LockWaiters, StepOn, TypeOK
  <1>2. CASE LockWaiters(c, l) # {}
    <2>1. PICK w \in LockWaiters(c, l) :
            pc' = [pc EXCEPT ![t] = p, ![w] = "lockWoken"]
      BY <1>2 DEF Signalled
    <2>2. w \in Threads /\ w # t /\ lk[w] = l /\ Owner[w] = c
      BY <2>1 DEF LockWaiters
    <2>3. pc'[w] = "lockWoken" /\ lk'[w] = l
      BY <2>1, <2>2 DEF StepOn, TypeOK
    <2> QED BY <2>2, <2>3 DEF Woken, At
  <1> QED BY <1>1, <1>2

\* A step that leaves the entry of c alone, or fills it, loses no wakeup if its
\* thread neither falls asleep nor is the one woken.
LEMMA Undisturbed ==
  ASSUME NEW t \in Threads, NEW l \in Locks, StepOn(t, l), NEW c \in Clients,
         SleepersWoken(c, l),
         \/ cstate'[c][l] \notin {"FREE", "NONE"}
         \/ /\ cstate'[c][l] = cstate[c][l]
            /\ Owner[t] # c \/ (pc[t] # "lockWoken" /\ pc'[t] # "lockWait")
  PROVE  SleepersWoken(c, l)'
  <1>1. CASE cstate'[c][l] \notin {"FREE", "NONE"}
    BY <1>1 DEF SleepersWoken
  <1>2. CASE /\ cstate'[c][l] = cstate[c][l]
             /\ Owner[t] # c \/ (pc[t] # "lockWoken" /\ pc'[t] # "lockWait")
    <2>1. LockWaiters(c, l)' \subseteq LockWaiters(c, l)
      BY <1>2 DEF LockWaiters, StepOn
    <2>2. Woken(c, l) => Woken(c, l)'
      BY <1>2 DEF Woken, At, StepOn
    <2> QED BY <1>2, <2>1, <2>2 DEF SleepersWoken
  <1> QED BY <1>1, <1>2

\* A thread goes to sleep only while the lock is in use or asked for, and the
\* one that was woken takes it or sleeps again for that reason.
LEMMA ContendWoken ==
  ASSUME IndInv, NEW t \in Threads, NEW l \in Locks, StepOn(t, l),
         Contend(t, l), NEW c \in Clients, SleepersWoken(c, l)
  PROVE  SleepersWoken(c, l)'
  <1>1. cstate \in [Clients -> [Locks -> ClientStates]] /\ Owner[t] \in Clients
    BY OwnerAssumption DEF IndInv, TypeOK, ClientStates
  <1>2. cstate'[Owner[t]][l] \notin {"FREE", "NONE"}
    BY <1>1 DEF Contend, SetClientState
  <1>3. c # Owner[t] => cstate'[c][l] = cstate[c][l]
    BY <1>1 DEF Contend, SetClientState
  <1> QED BY <1>2, <1>3, Undisturbed

\* When a lock comes back to the cache one sleeper is signalled.
LEMMA ClientReleaseWoken ==
  ASSUME IndInv, TypeOK', NEW t \in Threads, NEW l \in Locks, StepOn(t, l),
         ClientRelease(t, l), NEW c \in Clients, SleepersWoken(c, l)
  PROVE  SleepersWoken(c, l)'
  <1>0. /\ cstate \in [Clients -> [Locks -> ClientStates]] /\ Owner[t] \in Clients
        /\ pc \in [Threads -> PCs] /\ pc[t] = "user" /\ TypeOK
    BY OwnerAssumption DEF IndInv, TypeOK, ClientStates, ClientRelease
  <1>1. CASE ReleaseToServer(t, l)
    <2>1. pc'[t] = "releaseRPC" /\ cstate' = cstate
      BY <1>0, <1>1 DEF ReleaseToServer, GoTo
    <2> QED BY <1>0, <2>1, Undisturbed
  <1>2. CASE ReleaseToCache(t, l)
    <2>1. pc' \in Signalled(LockWaiters(Owner[t], l), "lockWoken", t, "user")
      BY <1>2 DEF ReleaseToCache
    <2>2. CASE c = Owner[t]
      <3>1. LockWaiters(c, l)' = {} \/ Woken(c, l)'
        BY <1>0, <2>1, <2>2, SignalWakes
      <3> QED BY <3>1 DEF SleepersWoken
    <2>3. CASE c # Owner[t]
      <3>1. cstate'[c][l] = cstate[c][l]
        BY <1>0, <1>2, <2>3 DEF ReleaseToCache
      <3> QED BY <2>3, <3>1, Undisturbed
    <2> QED BY <2>2, <2>3
  <1> QED BY <1>1, <1>2 DEF ClientRelease

\* When a lock is back at the server one sleeper is signalled to ask for it.
LEMMA GivenBackWoken ==
  ASSUME IndInv, NEW t \in Threads, NEW l \in Locks, lk[t] = l, StepOn(t, l),
         RevokeReturns(t) \/ ReleaseReturns(t), NEW c \in Clients,
         SleepersWoken(c, l)
  PROVE  SleepersWoken(c, l)'
  <1>0. /\ cstate \in [Clients -> [Locks -> ClientStates]]
        /\ pc \in [Threads -> PCs] /\ TypeOK
    BY DEF IndInv, TypeOK, ClientStates
  <1>1. pc[t] \notin {"lockWait", "lockWoken"}
    BY DEF RevokeReturns, ReleaseReturns
  <1>2. PICK d, p :
          /\ p \in {"acquireReply", "user"} /\ GivenBack(d, l)
          /\ pc' \in Signalled(LockWaiters(d, l), "lockWoken", t, p)
    <2>1. CASE RevokeReturns(t)
      BY <2>1 DEF RevokeReturns
    <2>2. CASE ReleaseReturns(t)
      BY <2>2 DEF ReleaseReturns
    <2> QED BY <2>1, <2>2
  <1>3. p \in PCs /\ p # "lockWait"
    BY <1>2 DEF PCs
  <1>4. CASE c = d
    <2>1. LockWaiters(c, l)' = {} \/ Woken(c, l)'
      BY <1>0, <1>1, <1>2, <1>3, <1>4, SignalWakes
    <2> QED BY <2>1 DEF SleepersWoken
  <1>5. CASE c # d
    <2>1. cstate'[c][l] = cstate[c][l]
      BY <1>0, <1>2, <1>5 DEF GivenBack, SetClientState
    <2>2. pc'[t] # "lockWait"
      BY <1>0, <1>1, <1>2, <1>3, LockSignal
    <2> QED BY <1>1, <2>1, <2>2, Undisturbed
  <1> QED BY <1>4, <1>5

\* The steps in which no lock becomes free for a client.
LEMMA OtherWoken ==
  ASSUME IndInv, NEW t \in Threads, NEW l \in Locks, lk[t] = l, StepOn(t, l),
         \/ ServerAcquire(t) \/ AcquireReturns(t) \/ RetryWake(t)
         \/ RevokeHandler(t) \/ ServerRelease(t) \/ RetryHandler(t)
         \/ SpuriousWake(t),
         NEW c \in Clients, SleepersWoken(c, l)
  PROVE  SleepersWoken(c, l)'
  <1>0. /\ cstate \in [Clients -> [Locks -> ClientStates]]
        /\ pc \in [Threads -> PCs]
    BY DEF IndInv, TypeOK, ClientStates
  <1>1. pc[t] # "lockWoken"
    BY DEF ServerAcquire, AcquireReturns, RetryWake, RevokeHandler,
       ServerRelease, RetryHandler, SpuriousWake
  <1>2. pc'[t] # "lockWait"
    <2>1. CASE RetryHandler(t)
      <3>1. AfterRelease(t) \in PCs /\ AfterRelease(t) # "lockWait"
        BY DEF AfterRelease, PCs
      <3>2. pc[t] # "retryWait"
        BY <2>1 DEF RetryHandler
      <3>3. pc' \in Signalled(RetryWaiters(next[t], l), "retryWoken", t,
                              AfterRelease(t))
        BY <2>1 DEF RetryHandler
      <3> QED BY <1>0, <3>1, <3>2, <3>3, RetrySignal
    <2>2. CASE ServerAcquire(t)
      BY <1>0, <2>2 DEF ServerAcquire, GrantFree, RevokeHolder, GrantFront,
         Enqueue, ServerReply, SendRevoke, GoTo
    <2>3. CASE \/ AcquireReturns(t) \/ RetryWake(t) \/ RevokeHandler(t)
               \/ ServerRelease(t) \/ SpuriousWake(t)
      BY <1>0, <2>3 DEF AcquireReturns, AcquireDone, AwaitRetry, RetryWake,
         RevokeHandler, ServerRelease, AfterRelease, SpuriousWake, GoTo
    <2> QED BY <2>1, <2>2, <2>3
  <1>3. cstate'[c][l] = cstate[c][l] \/ cstate'[c][l] \notin {"FREE", "NONE"}
    <2>1. CASE AcquireReturns(t) /\ AcquireDone(t)
      BY <1>0, <2>1 DEF AcquireDone, SetClientState
    <2>2. CASE RevokeHandler(t)
      BY <1>0, <2>2 DEF RevokeHandler, SetClientState
    <2>3. CASE \/ ServerAcquire(t) \/ AwaitRetry(t) \/ ServerRelease(t)
               \/ RetryHandler(t) \/ SpuriousWake(t)
      BY <2>3 DEF ServerAcquire, AwaitRetry, ServerRelease, RetryHandler,
         SpuriousWake, clientVars
    <2> QED BY <2>1, <2>2, <2>3 DEF AcquireReturns, RetryWake
  <1> QED BY <1>1, <1>2, <1>3, Undisturbed

\* Every step keeps the wakeups of every client and lock.
LEMMA WokenNext ==
  ASSUME IndInv, [Next]_vars,
         \A c \in Clients, l \in Locks : SleepersWoken(c, l)
  PROVE  \A c \in Clients, l \in Locks : SleepersWoken(c, l)'
  <1>0. TypeOK'
    BY IndNext DEF IndInv
  <1>1. CASE UNCHANGED vars
    BY <1>1 DEF vars, serverVars, clientVars, threadVars, SleepersWoken, Woken,
       LockWaiters, At
  <1>2. ASSUME NEW t \in Threads, NEW l \in Locks, StepOn(t, l), Moves(t, l),
               NEW c \in Clients
        PROVE  \A k \in Locks : SleepersWoken(c, k)'
    <2>1. SleepersWoken(c, l)'
      BY <1>0, <1>2, ContendWoken, ClientReleaseWoken, GivenBackWoken,
         OtherWoken DEF Moves
    <2> QED BY <1>2, <2>1, Elsewhere
  <1> QED BY <1>1, <1>2, EveryStepOn

\* A thread that sleeps on lockCond while its client could take the lock, or
\* ask for it, is not forgotten: another sleeper was woken and will run.
THEOREM NoLostWakeupHolds == Spec => []NoLostWakeup
  <1> DEFINE WInv == \A c \in Clients, l \in Locks : SleepersWoken(c, l)
  <1>1. Init => WInv
    BY DEF Init, SleepersWoken, LockWaiters
  <1>2. IndInv /\ WInv /\ [Next]_vars => WInv'
    BY WokenNext
  <1>3. IndInv /\ WInv => NoLostWakeup
    BY WakeupParts DEF IndInv
  <1> HIDE DEF WInv
  <1> QED BY <1>1, <1>2, <1>3, IndInvariant, PTL DEF Spec
=============================================================================
