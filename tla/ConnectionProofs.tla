-------------------------- MODULE ConnectionProofs --------------------------
(***************************************************************************)
(* Proofs about the transport of a server.  ConnInv: references count the  *)
(* holders of a connection, and the poll thread finds what it watches.     *)
(* WaitInv: nobody who takes part in serving the connections waits for a   *)
(* signal that is gone.  RequestInv: a request is dispatched once and      *)
(* answered once, and replies stay whole on the wire.                      *)
(***************************************************************************)
EXTENDS Connection, FiniteSetTheorems, WellFoundedInduction, TLAPS

USE ConnectionAssumption

-----------------------------------------------------------------------------
(* Numbers and counts                                                      *)

\* A set of descriptors that is not empty has a smallest one, which is Min.
LEMMA Smallest ==
  ASSUME NEW S \in SUBSET Nat, S # {}
  PROVE  Min(S) \in S /\ \A y \in S : Min(S) <= y
  <1>1. PICK n \in S : TRUE
    OBVIOUS
  <1> DEFINE F == {0..x : x \in {y \in S : y <= n}}
  <1>2. F # {} /\ F \subseteq FiniteSubsetsOf(0..n)
    <2>1. \A x \in Nat : IsFiniteSet(0..x)
      BY FS_Interval
    <2>2. \A x \in S : x <= n => 0..x \in SUBSET (0..n)
      OBVIOUS
    <2> QED BY <1>1, <2>1, <2>2 DEF FiniteSubsetsOf
  <1>3. PICK T \in F : \A U \in F : ~ (<<U, T>> \in StrictSubsetOrdering(0..n))
    <2> HIDE DEF F
    <2> QED BY <1>2, FS_StrictSubsetOrderingWellFounded, WFMin
  <1>4. PICK m \in S : m <= n /\ T = 0..m
    BY <1>3
  <1>5. ASSUME NEW y \in S, y < m PROVE FALSE
    <2>1. 0..y \in F /\ 0..y \subseteq T /\ T \subseteq 0..n
      BY <1>4, <1>5
    <2>2. m \in T /\ m \notin 0..y
      BY <1>4, <1>5
    <2> QED BY <1>3, <2>1, <2>2 DEF StrictSubsetOrdering
  <1>6. \A y \in S : m <= y
    BY <1>5
  <1> QED BY <1>4, <1>6 DEF Min

\* A queue holds finitely many jobs of each connection; enq adds one of them,
\* deq takes the first.
JobsOf(q, c) == {i \in DOMAIN q : q[i].c = c}

LEMMA JobsFinite ==
  ASSUME NEW J, NEW q \in Seq(J), NEW c
  PROVE  IsFiniteSet(JobsOf(q, c)) /\ Cardinality(JobsOf(q, c)) \in Nat
  <1>1. DOMAIN q = 1..Len(q) /\ Len(q) \in Nat
    OBVIOUS
  <1>2. IsFiniteSet(1..Len(q))
    BY <1>1, FS_Interval
  <1>3. JobsOf(q, c) \subseteq 1..Len(q)
    BY <1>1 DEF JobsOf
  <1> QED BY <1>2, <1>3, FS_Subset, FS_CardinalityType

\* enq adds a job of its connection.
LEMMA JobsAppend ==
  ASSUME NEW J, NEW q \in Seq(J), NEW j \in J, NEW c
  PROVE  Cardinality(JobsOf(Append(q, j), c)) =
           Cardinality(JobsOf(q, c)) + (IF j.c = c THEN 1 ELSE 0)
  <1>1. Len(q) + 1 \notin JobsOf(q, c)
    BY DEF JobsOf
  <1>2. JobsOf(Append(q, j), c) =
          IF j.c = c THEN JobsOf(q, c) \cup {Len(q) + 1} ELSE JobsOf(q, c)
    BY DEF JobsOf
  <1>3. IsFiniteSet(JobsOf(q, c)) /\ Cardinality(JobsOf(q, c)) \in Nat
    BY JobsFinite
  <1>4. Cardinality(JobsOf(q, c) \cup {Len(q) + 1}) = Cardinality(JobsOf(q, c)) + 1
    BY <1>1, <1>3, FS_AddElement
  <1> QED BY <1>2, <1>3, <1>4

\* deq takes the first job.
LEMMA JobsTail ==
  ASSUME NEW J, NEW q \in Seq(J), q # <<>>, NEW c
  PROVE  Cardinality(JobsOf(q, c)) =
           Cardinality(JobsOf(Tail(q), c)) + (IF Head(q).c = c THEN 1 ELSE 0)
  <1>1. /\ Len(q) \in Nat \ {0} /\ Tail(q) \in Seq(J) /\ Head(q) = q[1]
        /\ Len(Tail(q)) = Len(q) - 1
        /\ \A i \in 1..Len(Tail(q)) : Tail(q)[i] = q[i + 1]
        /\ DOMAIN q = 1..Len(q) /\ DOMAIN Tail(q) = 1..Len(Tail(q))
    OBVIOUS
  <1> DEFINE Rest == JobsOf(q, c) \ {1}
  <1>2. Cardinality(Rest) = Cardinality(JobsOf(Tail(q), c)) /\ IsFiniteSet(Rest)
    <2> DEFINE f == [i \in JobsOf(Tail(q), c) |-> i + 1]
    <2>1. f \in Bijection(JobsOf(Tail(q), c), Rest)
      <3>1. \A i \in JobsOf(Tail(q), c) : i \in Nat /\ f[i] = i + 1 /\ f[i] \in Rest
        BY <1>1 DEF JobsOf
      <3>2. \A k \in Rest : k - 1 \in JobsOf(Tail(q), c) /\ f[k - 1] = k
        BY <1>1 DEF JobsOf
      <3>3. f \in Injection(JobsOf(Tail(q), c), Rest)
        BY <3>1 DEF Injection, IsInjective
      <3>4. f \in Surjection(JobsOf(Tail(q), c), Rest)
        BY <3>1, <3>2 DEF Surjection
      <3> QED BY <3>3, <3>4 DEF Bijection
    <2>2. ExistsBijection(JobsOf(Tail(q), c), Rest)
      BY <2>1 DEF ExistsBijection
    <2>3. IsFiniteSet(JobsOf(Tail(q), c))
      BY <1>1, JobsFinite
    <2> QED BY <2>2, <2>3, FS_Bijection
  <1>3. CASE Head(q).c = c
    <2>1. 1 \in JobsOf(q, c)
      BY <1>1, <1>3 DEF JobsOf
    <2>2. IsFiniteSet(JobsOf(q, c)) /\ Cardinality(JobsOf(q, c)) \in Nat
      BY JobsFinite
    <2>3. Cardinality(JobsOf(q, c) \ {1}) = Cardinality(JobsOf(q, c)) - 1
      <3> DEFINE S == JobsOf(q, c)
      <3>1. 1 \in S /\ IsFiniteSet(S)
        BY <2>1, <2>2
      <3> HIDE DEF S
      <3>2. Cardinality(S \ {1}) = Cardinality(S) - 1
        BY <3>1, FS_RemoveElement
      <3> QED BY <3>2 DEF S
    <2> QED BY <1>2, <1>3, <2>2, <2>3
  <1>4. CASE Head(q).c # c
    <2>1. Rest = JobsOf(q, c)
      BY <1>1, <1>4 DEF JobsOf
    <2>2. Cardinality(JobsOf(q, c)) \in Nat
      BY JobsFinite
    <2>3. Cardinality(JobsOf(q, c)) = Cardinality(JobsOf(Tail(q), c))
      BY <1>2, <2>1
    <2> QED BY <1>4, <2>2, <2>3
  <1> QED BY <1>3, <1>4

\* A thread that turns to another connection is one less here, one more there.
LEMMA ServingChanges ==
  ASSUME NEW t \in Workers, NEW d,
         worker'[t].c = d, \A u \in Workers \ {t} : worker'[u].c = worker[u].c,
         NEW c
  PROVE  /\ Cardinality(Serving(c)) \in Nat /\ Cardinality(Serving(c)') \in Nat
         /\ Cardinality(Serving(c)') =
              Cardinality(Serving(c)) - (IF worker[t].c = c THEN 1 ELSE 0)
                + (IF d = c THEN 1 ELSE 0)
  <1>1. IsFiniteSet(Serving(c)) /\ IsFiniteSet(Serving(c)')
    BY FS_Subset DEF Serving
  <1>2. Cardinality(Serving(c)) \in Nat /\ Cardinality(Serving(c)') \in Nat
    BY <1>1, FS_CardinalityType
  <1>3. Serving(c)' \ {t} = Serving(c) \ {t}
    BY DEF Serving
  <1>4. /\ t \in Serving(c) <=> worker[t].c = c
        /\ t \in Serving(c)' <=> d = c
    BY DEF Serving
  <1>5. Cardinality(Serving(c) \ {t}) =
          IF t \in Serving(c) THEN Cardinality(Serving(c)) - 1
                              ELSE Cardinality(Serving(c))
    BY <1>1, FS_RemoveElement
  <1>6. Cardinality(Serving(c)' \ {t}) =
          IF t \in Serving(c)' THEN Cardinality(Serving(c)') - 1
                               ELSE Cardinality(Serving(c)')
    BY <1>1, FS_RemoveElement
  <1> HIDE DEF Serving
  <1>7. Cardinality(Serving(c)' \ {t}) = Cardinality(Serving(c) \ {t})
    BY <1>3
  <1> QED BY <1>2, <1>4, <1>5, <1>6, <1>7

-----------------------------------------------------------------------------
(* Types of connection objects                                             *)

USE DEF PduSize

\* Each field may be assigned what its type allows.
LEMMA SetField ==
  ASSUME NEW k \in Conns
  PROVE  /\ \A b \in BOOLEAN : [k EXCEPT !.dead = b] \in Conns
         /\ \A b \in BOOLEAN : [k EXCEPT !.broken = b] \in Conns
         /\ \A n \in Nat : [k EXCEPT !.refno = n] \in Conns
         /\ \A n \in Nat : [k EXCEPT !.leaked = n] \in Conns
         /\ \A t \in Workers \cup {None} : [k EXCEPT !.wbuf = t] \in Conns
         /\ \A n \in {0, PduSize} : [k EXCEPT !.wsz = n] \in Conns
         /\ \A n \in -1..PduSize : [k EXCEPT !.wlong = n] \in Conns
         /\ \A r \in Requests \cup {None} : [k EXCEPT !.rreq = r] \in Conns
         /\ \A n \in 0..PduSize : [k EXCEPT !.rlong = n] \in Conns
         /\ \A q \in Chunks : [k EXCEPT !.inq = q] \in Conns
         /\ \A r \in Requests \cup {None} : [k EXCEPT !.half = r] \in Conns
         /\ \A n \in 0..SockRoom : [k EXCEPT !.sock = n] \in Conns
         /\ \A w \in Chunks : [k EXCEPT !.wire = w] \in Conns
  <1>1. \A b \in BOOLEAN : [k EXCEPT !.dead = b] \in Conns
    BY DEF Conns
  <1>2. \A b \in BOOLEAN : [k EXCEPT !.broken = b] \in Conns
    BY DEF Conns
  <1>3. \A n \in Nat : [k EXCEPT !.refno = n] \in Conns
    BY DEF Conns
  <1>4. \A n \in Nat : [k EXCEPT !.leaked = n] \in Conns
    BY DEF Conns
  <1>5. \A t \in Workers \cup {None} : [k EXCEPT !.wbuf = t] \in Conns
    BY DEF Conns
  <1>6. \A n \in {0, PduSize} : [k EXCEPT !.wsz = n] \in Conns
    BY DEF Conns
  <1>7. \A n \in -1..PduSize : [k EXCEPT !.wlong = n] \in Conns
    BY DEF Conns
  <1>8. \A r \in Requests \cup {None} : [k EXCEPT !.rreq = r] \in Conns
    BY DEF Conns
  <1>9. \A n \in 0..PduSize : [k EXCEPT !.rlong = n] \in Conns
    BY DEF Conns
  <1>a. \A q \in Chunks : [k EXCEPT !.inq = q] \in Conns
    BY DEF Conns
  <1>b. \A r \in Requests \cup {None} : [k EXCEPT !.half = r] \in Conns
    BY DEF Conns
  <1>c. \A n \in 0..SockRoom : [k EXCEPT !.sock = n] \in Conns
    BY DEF Conns
  <1>d. \A w \in Chunks : [k EXCEPT !.wire = w] \in Conns
    BY DEF Conns
  <1> QED BY <1>1, <1>2, <1>3, <1>4, <1>5, <1>6, <1>7, <1>8, <1>9, <1>a, <1>b,
             <1>c, <1>d

\* A new connection, and a descriptor that is free.
LEMMA FreshType ==
  ASSUME NEW n \in Nat
  PROVE  /\ Fresh(n) \in Conns /\ Fresh(n).open /\ ~Fresh(n).dead
         /\ Fresh(n).refno = 1 /\ Fresh(n).wbuf = None /\ Fresh(n).leaked = 0
         /\ Fresh(n).wlong = 0 /\ Fresh(n).wsz = 0
  <1>1. <<>> \in Chunks /\ 0 \in 0..SockRoom
    BY DEF Chunks
  <1> QED BY <1>1 DEF Fresh, Conns

\* A descriptor that no connection has.
LEMMA ClosedType ==
  /\ Closed \in Conns /\ ~Closed.open /\ ~Closed.dead
  /\ Closed.refno = 0 /\ Closed.wbuf = None /\ Closed.leaked = 0
  /\ Closed.wlong = 0 /\ Closed.wsz = 0
  <1> DEFINE k == Fresh(0)
  <1>1. k \in Conns /\ ~k.dead /\ k.wbuf = None /\ k.leaked = 0
        /\ k.wlong = 0 /\ k.wsz = 0
    BY FreshType
  <1>2. Closed = [k EXCEPT !.open = FALSE, !.refno = 0]
    BY DEF Closed
  <1> HIDE DEF k
  <1> QED BY <1>1, <1>2 DEF Conns

\* writepdu writes at least nothing and at most what is left, for the sender
\* that owns wpdu_.
LEMMA WrittenType ==
  ASSUME NEW k \in Conns, k.wsz = PduSize, k.wlong >= 0,
         k.wbuf \in Workers, worker[k.wbuf].req \in Requests
  PROVE  LET m == Written(k) IN
         /\ m \in Conns /\ m.wlong >= k.wlong /\ m.wsz = k.wsz
         /\ m.open = k.open /\ m.dead = k.dead /\ m.refno = k.refno
         /\ m.wbuf = k.wbuf /\ m.leaked = k.leaked /\ m.inq = k.inq
         /\ m.broken = k.broken /\ m.createTime = k.createTime
  <1> DEFINE S == {SockRoom - k.sock, k.wsz - k.wlong}
             n == Min(S)
             w == [i \in 1..n |-> <<worker[k.wbuf].req, k.wlong + i>>]
  <1>1. /\ SockRoom \in Nat /\ k.sock \in 0..SockRoom /\ k.wlong \in 0..PduSize
        /\ k.wire \in Chunks
    BY DEF Conns
  <1>2. S \in SUBSET Nat /\ S # {}
    BY <1>1
  <1>3. n \in S /\ \A x \in S : n <= x
    BY <1>2, Smallest
  <1>4. /\ n \in Nat /\ k.wlong + n \in 0..PduSize /\ k.sock + n \in 0..SockRoom
    BY <1>1, <1>2, <1>3
  <1> HIDE DEF n
  <1>5. w \in Chunks
    <2> DEFINE r == worker[k.wbuf].req
    <2>1. r \in Requests
      OBVIOUS
    <2> HIDE DEF r
    <2>2. \A i \in 1..n : k.wlong + i \in 1..PduSize
      BY <1>1, <1>4
    <2>3. \A i \in 1..n : <<r, k.wlong + i>> \in Requests \X (1..PduSize)
      BY <2>1, <2>2
    <2>4. [i \in 1..n |-> <<r, k.wlong + i>>] \in Seq(Requests \X (1..PduSize))
      BY <1>4, <2>3
    <2> QED BY <2>4 DEF Chunks, r
  <1>6. k.wire \o w \in Chunks
    BY <1>1, <1>5 DEF Chunks
  <1> HIDE DEF w, S
  <1>7. Written(k) = [k EXCEPT !.wlong = @ + n, !.sock = @ + n, !.wire = @ \o w]
    BY DEF Written, n, w, S
  <1>8. /\ k.wlong + n >= k.wlong
        /\ Written(k) = [k EXCEPT !.wlong = k.wlong + n, !.sock = k.sock + n,
                                  !.wire = k.wire \o w]
    BY <1>1, <1>4, <1>7
  <1> DEFINE a == k.wlong + n
             s == k.sock + n
             v == k.wire \o w
             m1 == [k EXCEPT !.wlong = a]
             m2 == [m1 EXCEPT !.sock = s]
             m3 == [m2 EXCEPT !.wire = v]
  <1>9. /\ a \in 0..PduSize /\ a \in -1..PduSize /\ s \in 0..SockRoom /\ v \in Chunks
        /\ Written(k) = [k EXCEPT !.wlong = a, !.sock = s, !.wire = v]
        /\ a >= k.wlong
    BY <1>4, <1>6, <1>8
  <1> HIDE DEF a, s, v
  <1>a. m1 \in Conns
    BY <1>9, SetField
  <1> HIDE DEF m1
  <1>b. m2 \in Conns
    BY <1>9, <1>a, SetField
  <1> HIDE DEF m2
  <1>c. m3 \in Conns
    BY <1>9, <1>b, SetField
  <1>d. m3 = [k EXCEPT !.wlong = a, !.sock = s, !.wire = v]
    BY DEF m1, m2
  <1> HIDE DEF m3
  <1>e. LET m == [k EXCEPT !.wlong = a, !.sock = s, !.wire = v] IN
        /\ m.wlong = a /\ m.wsz = k.wsz
        /\ m.open = k.open /\ m.dead = k.dead /\ m.refno = k.refno
        /\ m.wbuf = k.wbuf /\ m.leaked = k.leaked /\ m.inq = k.inq
        /\ m.broken = k.broken /\ m.createTime = k.createTime
    BY DEF Conns
  <1> QED BY <1>9, <1>c, <1>d, <1>e

-----------------------------------------------------------------------------
(* What a step leaves alone                                                *)

\* A connection that a step changes in nothing the invariant is about but its
\* references, and one that is deleted.
Kept(c) ==
    /\ conn'[c].open = conn[c].open /\ conn'[c].dead = conn[c].dead
    /\ conn'[c].wbuf = conn[c].wbuf /\ conn'[c].wsz = conn[c].wsz
    /\ conn[c].open \/ conn'[c].refno = conn[c].refno

Stays(c) == conn'[c].open = conn[c].open /\ conn'[c].dead = conn[c].dead

Gone(c) ==
    /\ conn'[c] = Closed /\ conn[c].dead
    /\ \A t \in Workers : ~Works(t, c, Sending)

\* The threads in send stay where they are, or are woken there.
SendersStay ==
    \A t \in Workers :
        worker[t].pc \in Sending =>
            worker'[t].c = worker[t].c /\ worker'[t].pc \in Sending

RemoversStay ==
    \A t \in Workers :
        worker[t].pc \in Removal \/ worker'[t].pc \in Removal =>
            worker'[t].c = worker[t].c /\ worker'[t].pc = worker[t].pc

\* No descriptor is watched that was not, and of what the poll thread has to
\* serve nothing is new and nothing is less ready.
RoundGoesOn ==
    /\ rfds' \subseteq rfds /\ wfds' \subseteq wfds /\ callbacks' \subseteq callbacks
    /\ poll'.pc = "select" => poll' = poll
    /\ poll'.pc = "serve" => poll.pc = "serve" /\ poll'.r \subseteq poll.r
    /\ \A c \in Fds : poll'.pc = "serve" /\ c \in poll'.r /\ Readable(c) => Readable(c)'

\* wpdu_ still belongs to its sender when senders stay and connections are kept.
LEMMA BuffersKept ==
  ASSUME FreeInv, WbufInv, \A c \in Fds : Kept(c) \/ Gone(c), SendersStay,
         \A c \in Fds : conn[c].wbuf \in Workers \cup {None}
  PROVE  FreeInv' /\ WbufInv'
  <1>1. FreeInv'
    BY ClosedType DEF FreeInv, Kept, Gone
  <1>2. WbufInv'
    <2> SUFFICES ASSUME NEW c \in Fds
                 PROVE  /\ conn'[c].wbuf # None => Works(conn[c].wbuf, c, Sending)'
                        /\ conn'[c].wsz # 0 => conn'[c].wbuf # None
      BY DEF WbufInv
    <2>1. CASE Gone(c)
      BY <2>1, ClosedType DEF Gone
    <2>2. CASE Kept(c)
      BY <2>2 DEF Kept, WbufInv, SendersStay, Works
    <2> QED BY <2>1, <2>2
  <1> QED BY <1>1, <1>2

\* Nothing that is watched or waited for is gone.
LEMMA GoneFree ==
  ASSUME DeadInv, RoundInv, NEW c \in Fds, Gone(c)
  PROVE  /\ c \notin Watched
         /\ poll.pc = "select" => c \notin poll.r \cup poll.w
         /\ poll.pc = "serve" => c \notin poll.r
  <1>1. conn[c].dead /\ \A t \in Workers : ~Works(t, c, Removal)
    BY DEF Gone, Works, Sending
  <1>2. c \notin Watched
    BY <1>1 DEF DeadInv
  <1>3. ~Leaving(c)
    BY DEF Gone, Works, Sending, Removal, Leaving
  <1> QED BY <1>1, <1>2, <1>3 DEF RoundInv

\* What the poll thread watches and has to serve is still there when no connection
\* dies and no thread begins or ends the removal of a callback.
LEMMA RoundKept ==
  ASSUME DeadInv, RoundInv, \A c \in Fds : Stays(c) \/ Gone(c), RemoversStay,
         RoundGoesOn, rfds \cup wfds \cup callbacks \subseteq Fds,
         poll.r \cup poll.w \subseteq Fds
  PROVE  DeadInv' /\ RoundInv'
  <1>1. \A c \in Fds, t \in Workers :
          /\ Works(t, c, Removal)' <=> Works(t, c, Removal)
          /\ Works(t, c, {"wait_removed", "removed"})' <=> Works(t, c, {"wait_removed", "removed"})
    BY DEF RemoversStay, Works, Removal
  <1>2. \A c \in Fds : Leaving(c)' <=> Leaving(c)
    BY DEF RemoversStay, Works, Removal, Leaving
  <1>3. Watched' \subseteq Watched /\ Watched \subseteq Fds
    BY DEF Watched, RoundGoesOn
  <1>4. \A c \in Fds : Gone(c) => \A t \in Workers : ~Works(t, c, Removal)
    BY DEF Gone, Works, Sending
  <1>5. \A c \in Watched : Stays(c)
    BY <1>3, GoneFree
  <1>6. Watched' \subseteq Opened'
    BY <1>3, <1>5 DEF DeadInv, Stays, Opened
  <1>7. ASSUME NEW c \in Fds, conn'[c].dead, c \in Watched'
        PROVE  \E t \in Workers : Works(t, c, Removal)'
    BY <1>1, <1>3, <1>5, <1>7 DEF DeadInv, Stays
  <1>8. ASSUME NEW c \in Fds, NEW t \in Workers
        PROVE  /\ Works(t, c, Removal)' => conn'[c].dead
               /\ Works(t, c, {"wait_removed", "removed"})' => c \notin rfds' \cup wfds'
    <2>1. Works(t, c, Removal) => conn'[c].dead
      BY <1>4 DEF DeadInv, Stays
    <2>2. Works(t, c, {"wait_removed", "removed"}) => c \notin rfds \cup wfds
      BY DEF DeadInv
    <2> QED BY <1>1, <2>1, <2>2 DEF RoundGoesOn
  <1>9. DeadInv'
    BY <1>6, <1>7, <1>8 DEF DeadInv
  <1>a. ASSUME poll'.pc = "select", NEW c \in poll'.r \cup poll'.w
        PROVE  conn'[c].open /\ (conn'[c].dead => Leaving(c)')
    <2>1. poll' = poll /\ c \in Fds
      BY <1>a DEF RoundGoesOn
    <2>2. Stays(c)
      BY <1>a, <2>1, GoneFree
    <2> QED BY <1>2, <1>a, <2>1, <2>2 DEF RoundInv, Stays
  <1>b. ASSUME poll'.pc = "serve", NEW c \in poll'.r
        PROVE  conn'[c].open /\ IF conn'[c].dead THEN Leaving(c)' ELSE Readable(c)'
    <2>1. poll.pc = "serve" /\ c \in poll.r /\ c \in Fds
      BY <1>b DEF RoundGoesOn
    <2>2. Stays(c)
      BY <2>1, GoneFree
    <2> QED BY <1>2, <1>b, <2>1, <2>2 DEF RoundInv, Stays, RoundGoesOn
  <1>c. RoundInv'
    BY <1>a, <1>b DEF RoundInv
  <1> QED BY <1>9, <1>c

\* References are still counted if neither they nor their holders change.
LEMMA RefsKept ==
  ASSUME RefsCounted,
         \A c \in Fds : conn'[c].refno = conn[c].refno /\ conn'[c].leaked = conn[c].leaked,
         \A t \in Workers : worker'[t].c = worker[t].c,
         UNCHANGED <<table, acceptor, latest, jobq>>
  PROVE  RefsCounted'
  <1> SUFFICES ASSUME NEW c \in Fds PROVE conn'[c].refno = Holders(c)'
    BY DEF RefsCounted
  <1>1. Queued(c)' = Queued(c) /\ Serving(c)' = Serving(c)
    BY DEF Queued, Serving
  <1>2. Holders(c)' = Holders(c)
    BY <1>1 DEF Holders
  <1> QED BY <1>2 DEF RefsCounted
-----------------------------------------------------------------------------
(* References                                                              *)

\* The holders of a connection are counted by numbers.
LEMMA CountsAreNumbers ==
  ASSUME WorkType, NEW c
  PROVE  /\ Cardinality(Queued(c)) \in Nat /\ Cardinality(Serving(c)) \in Nat
         /\ \A t \in Workers : worker[t].c = c => Cardinality(Serving(c)) >= 1
         /\ \A t, u \in Workers :
              worker[t].c = c /\ worker[u].c = c /\ t # u => Cardinality(Serving(c)) >= 2
  <1>1. IsFiniteSet(Serving(c)) /\ Cardinality(Serving(c)) \in Nat
    BY FS_Subset, FS_CardinalityType DEF Serving
  <1>2. Cardinality(Queued(c)) \in Nat
    <2>1. jobq \in Seq(Jobs)
      BY DEF WorkType
    <2>2. Cardinality(JobsOf(jobq, c)) \in Nat
      BY <2>1, JobsFinite
    <2>3. Queued(c) = JobsOf(jobq, c)
      BY DEF Queued, JobsOf
    <2> QED BY <2>2, <2>3
  <1>3. ASSUME NEW t \in Workers, worker[t].c = c
        PROVE  Cardinality(Serving(c)) >= 1
    <2>1. {t} \subseteq Serving(c)
      BY <1>3 DEF Serving
    <2>2. Cardinality({t}) = 1
      BY FS_Singleton
    <2>3. Cardinality({t}) <= Cardinality(Serving(c))
      BY <1>1, <2>1, FS_Subset
    <2> QED BY <1>1, <2>2, <2>3
  <1>4. ASSUME NEW t \in Workers, NEW u \in Workers,
               worker[t].c = c, worker[u].c = c, t # u
        PROVE  Cardinality(Serving(c)) >= 2
    <2>1. {t, u} \subseteq Serving(c)
      BY <1>4 DEF Serving
    <2>2. Cardinality({t, u}) = 2
      <3>1. IsFiniteSet({t}) /\ Cardinality({t}) = 1 /\ u \notin {t}
        BY <1>4, FS_Singleton
      <3>2. Cardinality({t} \cup {u}) = Cardinality({t}) + 1
        BY <3>1, FS_AddElement
      <3>3. {t} \cup {u} = {t, u}
        BY Zenon
      <3>4. Cardinality({t} \cup {u}) = 2
        BY <3>1, <3>2
      <3> QED BY <3>3, <3>4
    <2>3. Cardinality({t, u}) <= Cardinality(Serving(c))
      BY <1>1, <2>1, FS_Subset
    <2> QED BY <1>1, <2>2, <2>3
  <1> QED BY <1>1, <1>2, <1>3, <1>4

\* Who holds the only reference to a connection holds it alone, ...
LEMMA LastHolder ==
  ASSUME ConnType, WorkType, RefsCounted, NEW c \in Fds, conn[c].refno = 1
  PROVE  /\ c \in table \/ acceptor.new = c \/ latest = c =>
              conn[c].leaked = 0 /\ \A t \in Workers : worker[t].c # c
         /\ \A t \in Workers : worker[t].c = c =>
              conn[c].leaked = 0 /\ \A u \in Workers : worker[u].c = c => t = u
  <1> DEFINE a == IF c \in table \/ acceptor.new = c THEN 1 ELSE 0
             b == IF latest = c THEN 1 ELSE 0
             q == Cardinality(Queued(c))
             s == Cardinality(Serving(c))
             l == conn[c].leaked
  <1>1. 1 = a + b + q + s + l
    BY DEF RefsCounted, Holders
  <1>2. /\ a \in Nat /\ b \in Nat /\ q \in Nat /\ s \in Nat /\ l \in Nat
        /\ \A t \in Workers : worker[t].c = c => s >= 1
        /\ \A t, u \in Workers : worker[t].c = c /\ worker[u].c = c /\ t # u => s >= 2
    BY CountsAreNumbers DEF ConnType, Conns
  <1>3. c \in table \/ acceptor.new = c => a = 1
    OBVIOUS
  <1>4. latest = c => b = 1
    OBVIOUS
  <1> HIDE DEF a, b, q, s, l
  <1>5. c \in table \/ acceptor.new = c \/ latest = c => l = 0 /\ ~(s >= 1)
    BY <1>1, <1>2, <1>3, <1>4
  <1>6. s >= 1 => l = 0 /\ ~(s >= 2)
    BY <1>1, <1>2
  <1> QED BY <1>2, <1>5, <1>6 DEF l

\* ... and there is one as long as somebody holds it.
LEMMA SomeReference ==
  ASSUME ConnType, WorkType, RefsCounted, NEW c \in Fds,
         c \in table \/ acceptor.new = c \/ latest = c \/ \E t \in Workers : worker[t].c = c
  PROVE  conn[c].refno \in Nat /\ conn[c].refno >= 1
  <1> DEFINE a == IF c \in table \/ acceptor.new = c THEN 1 ELSE 0
             b == IF latest = c THEN 1 ELSE 0
             q == Cardinality(Queued(c))
             s == Cardinality(Serving(c))
             l == conn[c].leaked
  <1>1. conn[c].refno = a + b + q + s + l
    BY DEF RefsCounted, Holders
  <1>2. /\ a \in Nat /\ b \in Nat /\ q \in Nat /\ s \in Nat /\ l \in Nat
        /\ a >= 1 \/ b >= 1 \/ s >= 1
    BY CountsAreNumbers DEF ConnType, Conns
  <1> HIDE DEF a, b, q, s, l
  <1> QED BY <1>1, <1>2

\* Assigning a connection keeps the type of the map of connections.
LEMMA SetConn ==
  ASSUME NEW cn \in [Fds -> Conns], NEW c \in Fds, NEW k \in Conns
  PROVE  /\ [cn EXCEPT ![c] = k] \in [Fds -> Conns]
         /\ [cn EXCEPT ![c] = k][c] = k
         /\ \A d \in Fds : d # c => [cn EXCEPT ![c] = k][d] = cn[d]
  OBVIOUS

\* A connection after its reference count was set.
LEMMA RefnoSet ==
  ASSUME NEW k \in Conns, NEW n \in Nat
  PROVE  LET m == [k EXCEPT !.refno = n] IN
         /\ m \in Conns /\ m.refno = n /\ m.open = k.open /\ m.dead = k.dead
         /\ m.wbuf = k.wbuf /\ m.wsz = k.wsz /\ m.wlong = k.wlong
         /\ m.leaked = k.leaked /\ m.inq = k.inq /\ m.broken = k.broken
         /\ m.createTime = k.createTime
  BY DEF Conns

\* decref counts one down, or deletes the connection.
LEMMA DecrefIs ==
  ASSUME NEW cn \in [Fds -> Conns], NEW c \in Fds, cn[c].refno >= 1
  PROVE  LET dn == Decref(cn, c) IN
         /\ dn \in [Fds -> Conns]
         /\ \A d \in Fds : d # c => dn[d] = cn[d]
         /\ dn[c].refno = cn[c].refno - 1
         /\ cn[c].refno = 1 /\ cn[c].dead => dn[c] = Closed
         /\ ~(cn[c].refno = 1 /\ cn[c].dead) =>
              dn[c] = [cn[c] EXCEPT !.refno = cn[c].refno - 1]
  <1>1. cn[c] \in Conns /\ cn[c].refno \in Nat
    BY DEF Conns
  <1>2. CASE cn[c].refno = 1 /\ cn[c].dead
    <2>1. Decref(cn, c) = [cn EXCEPT ![c] = Closed]
      BY <1>2 DEF Decref
    <2> QED BY <1>2, <2>1, ClosedType, SetConn
  <1>3. CASE ~(cn[c].refno = 1 /\ cn[c].dead)
    <2> DEFINE k == [cn[c] EXCEPT !.refno = cn[c].refno - 1]
    <2>1. Decref(cn, c) = [cn EXCEPT ![c] = k]
      BY <1>3 DEF Decref
    <2>2. cn[c].refno - 1 \in Nat
      BY <1>1
    <2>3. k \in Conns /\ k.refno = cn[c].refno - 1
      BY <1>1, <2>2, RefnoSet
    <2> HIDE DEF k
    <2>4. Decref(cn, c) \in [Fds -> Conns] /\ Decref(cn, c)[c] = k
      BY <2>1, <2>3, SetConn
    <2>5. \A d \in Fds : d # c => Decref(cn, c)[d] = cn[d]
      BY <2>1, <2>3, SetConn
    <2> QED BY <1>3, <2>3, <2>4, <2>5 DEF k
  <1> QED BY <1>2, <1>3

\* incref counts one up.
LEMMA IncrefIs ==
  ASSUME NEW cn \in [Fds -> Conns], NEW c \in Fds
  PROVE  LET dn == Incref(cn, c) IN
         /\ dn \in [Fds -> Conns]
         /\ \A d \in Fds : d # c => dn[d] = cn[d]
         /\ dn[c] = [cn[c] EXCEPT !.refno = cn[c].refno + 1]
         /\ dn[c].refno = cn[c].refno + 1
  <1>1. cn[c] \in Conns /\ cn[c].refno \in Nat
    BY DEF Conns
  <1> DEFINE k == [cn[c] EXCEPT !.refno = cn[c].refno + 1]
  <1>2. Incref(cn, c) = [cn EXCEPT ![c] = k]
    BY DEF Incref
  <1>3. cn[c].refno + 1 \in Nat
    BY <1>1
  <1>4. k \in Conns /\ k.refno = cn[c].refno + 1
    BY <1>1, <1>3, RefnoSet
  <1> HIDE DEF k
  <1>5. Incref(cn, c) \in [Fds -> Conns] /\ Incref(cn, c)[c] = k
    BY <1>2, <1>4, SetConn
  <1>6. \A d \in Fds : d # c => Incref(cn, c)[d] = cn[d]
    BY <1>2, <1>4, SetConn
  <1> QED BY <1>4, <1>5, <1>6 DEF k
-----------------------------------------------------------------------------
(* The dispatch threads                                                    *)

\* A thread that goes on works on the same connection and request.
LEMMA GotoIs ==
  ASSUME worker \in [Workers -> Threads], NEW t \in Workers, NEW p \in WorkerPcs, Goto(t, p)
  PROVE  /\ worker' \in [Workers -> Threads]
         /\ worker'[t].pc = p /\ worker'[t].c = worker[t].c /\ worker'[t].req = worker[t].req
         /\ \A u \in Workers : u # t => worker'[u] = worker[u]
  BY DEF Goto, Threads

\* A signal of send_complete_ wakes who waits for it, and nobody else.
LEMMA SignalIs ==
  ASSUME worker \in [Workers -> Threads], NEW c, worker' = SignalComplete(worker, c)
  PROVE  /\ worker' \in [Workers -> Threads]
         /\ \A u \in Workers :
              /\ worker'[u].c = worker[u].c /\ worker'[u].req = worker[u].req
              /\ \/ worker'[u].pc = worker[u].pc
                 \/ worker[u].pc = "wait_complete" /\ worker'[u].pc = "completed"
  <1>1. ASSUME NEW u \in Workers
        PROVE  /\ worker'[u] \in Threads
               /\ worker'[u].c = worker[u].c /\ worker'[u].req = worker[u].req
               /\ \/ worker'[u].pc = worker[u].pc
                  \/ worker[u].pc = "wait_complete" /\ worker'[u].pc = "completed"
    <2>1. worker[u] \in Threads
      OBVIOUS
    <2>2. worker'[u] = IF worker[u].c = c /\ worker[u].pc = "wait_complete"
                       THEN [worker[u] EXCEPT !.pc = "completed"] ELSE worker[u]
      BY DEF SignalComplete
    <2> QED BY <2>1, <2>2 DEF Threads, WorkerPcs, Sending
  <1>2. worker' \in [Workers -> Threads]
    BY <1>1 DEF SignalComplete
  <1> QED BY <1>1, <1>2

\* The end of send wakes who waits to send on the connection.
LEMMA SendEndsIs ==
  ASSUME worker \in [Workers -> Threads], NEW t \in Workers, NEW ok \in BOOLEAN,
         worker' = SendEnds(worker, t, ok)
  PROVE  /\ worker' \in [Workers -> Threads]
         /\ worker'[t].pc = "sent" /\ worker'[t].c = worker[t].c
         /\ worker'[t].req = worker[t].req
         /\ \A u \in Workers : u # t =>
              /\ worker'[u].c = worker[u].c /\ worker'[u].req = worker[u].req
              /\ \/ worker'[u].pc = worker[u].pc
                 \/ worker[u].pc = "wait_send" /\ worker'[u].pc = "send"
  <1>1. worker'[t] = [worker[t] EXCEPT !.pc = "sent", !.ok = ok]
    BY DEF SendEnds
  <1>2. ASSUME NEW u \in Workers, u # t
        PROVE  /\ worker'[u] \in Threads
               /\ worker'[u].c = worker[u].c /\ worker'[u].req = worker[u].req
               /\ \/ worker'[u].pc = worker[u].pc
                  \/ worker[u].pc = "wait_send" /\ worker'[u].pc = "send"
    <2>1. worker[u] \in Threads
      OBVIOUS
    <2>2. worker'[u] = IF worker[u].c = worker[t].c /\ worker[u].pc = "wait_send"
                       THEN [worker[u] EXCEPT !.pc = "send"] ELSE worker[u]
      BY <1>2 DEF SendEnds
    <2> QED BY <2>1, <2>2 DEF Threads, WorkerPcs
  <1>3. worker[t] \in Threads
    OBVIOUS
  <1>4. /\ worker'[t] \in Threads /\ worker'[t].pc = "sent"
        /\ worker'[t].c = worker[t].c /\ worker'[t].req = worker[t].req
    BY <1>1, <1>3 DEF Threads, WorkerPcs
  <1>5. worker' \in [Workers -> Threads]
    BY <1>2, <1>4 DEF SendEnds
  <1> QED BY <1>2, <1>4, <1>5

\* Threads that stay with their requests, neither reach nor leave the queue, and
\* run no handler that they did not run.
LEMMA WorkKept ==
  ASSUME WorkInv, latest' = latest,
         \A u \in Workers :
           /\ worker'[u].c = worker[u].c /\ worker'[u].req = worker[u].req
           /\ \/ worker'[u].pc = worker[u].pc
              \/ /\ {worker[u].pc, worker'[u].pc} \cap {"wait_job", "take"} = {}
                 /\ worker'[u].pc # "handler"
              \/ {worker[u].pc, worker'[u].pc} \subseteq {"wait_job", "take"}
  PROVE  WorkInv'
  <1> SUFFICES ASSUME NEW u \in Workers
               PROVE  /\ worker'[u].pc \in {"wait_job", "take"} <=> worker'[u].c = None
                      /\ worker'[u].c = None <=> worker'[u].req = None
                      /\ worker'[u].pc = "handler" => latest' # None
    BY DEF WorkInv
  <1>1. /\ worker[u].pc \in {"wait_job", "take"} <=> worker[u].c = None
        /\ worker[u].c = None <=> worker[u].req = None
        /\ worker[u].pc = "handler" => latest # None
    BY DEF WorkInv
  <1> QED BY <1>1
-----------------------------------------------------------------------------
(* Initially                                                               *)

\* The state in which the accepting thread is about to look at the table.
LEMMA InitInv == Init => ConnInv
  <1> SUFFICES ASSUME Init PROVE ConnInv
    OBVIOUS
  <1> USE DEF Init
  <1> DEFINE k1 == [Fresh(1) EXCEPT !.refno = 2, !.sock = 1]
  <1>1. /\ Fresh(1) \in Conns /\ Fresh(1).open /\ ~Fresh(1).dead
        /\ Fresh(1).wbuf = None /\ Fresh(1).leaked = 0
        /\ Fresh(1).wlong = 0 /\ Fresh(1).wsz = 0
    BY FreshType
  <1>2. /\ Fresh(2) \in Conns /\ Fresh(2).open /\ ~Fresh(2).dead /\ Fresh(2).refno = 1
        /\ Fresh(2).wbuf = None /\ Fresh(2).leaked = 0
        /\ Fresh(2).wlong = 0 /\ Fresh(2).wsz = 0
    BY FreshType
  <1>3. /\ k1 \in Conns /\ k1.open /\ ~k1.dead /\ k1.refno = 2
        /\ k1.wbuf = None /\ k1.leaked = 0 /\ k1.wlong = 0 /\ k1.wsz = 0
    <2>1. 1 \in 0..SockRoom
      OBVIOUS
    <2> QED BY <1>1, <2>1 DEF Conns
  <1> HIDE DEF k1
  <1>4. conn \in [Fds -> Conns] /\ conn[1] = k1 /\ conn[2] = Fresh(2)
    BY <1>2, <1>3, ClosedType DEF k1
  <1>5. \A c \in Fds : c # 1 /\ c # 2 => conn[c] = Closed
    OBVIOUS
  <1>6. \A c \in Fds : conn[c].wbuf = None /\ ~conn[c].dead /\ conn[c].wsz = 0
                        /\ conn[c].wlong = 0 /\ conn[c].leaked = 0
    BY <1>2, <1>3, <1>4, <1>5, ClosedType
  <1>7. TypeOK
    <2>1. Asleep \in Threads
      BY DEF Asleep, Threads, WorkerPcs
    <2>2. ConnType /\ KeeperType /\ WorkType /\ PeerType
      BY <1>4, <1>6, <2>1 DEF ConnType, KeeperType, WorkType, PeerType
    <2>3. PollType
      BY DEF PollType
    <2> QED BY <2>2, <2>3 DEF TypeOK
  <1>8. WorkInv
    BY DEF WorkInv, Asleep
  <1>9. AcceptInv
    BY DEF AcceptInv
  <1>a. FreeInv
    BY <1>2, <1>3, <1>4, <1>5, ClosedType DEF FreeInv
  <1>b. WbufInv
    BY <1>6 DEF WbufInv
  <1>c. DeadInv
    <2>1. Watched \subseteq Opened
      BY <1>2, <1>3, <1>4 DEF Watched, Opened
    <2>2. \A c \in Fds, t \in Workers : ~Works(t, c, Removal)
      BY DEF Works, Removal, Asleep
    <2>3. \A c \in Fds, t \in Workers : ~Works(t, c, {"wait_removed", "removed"})
      BY DEF Works, Asleep
    <2> QED BY <1>6, <2>1, <2>2, <2>3 DEF DeadInv
  <1>d. RoundInv
    BY DEF RoundInv
  <1>e. RefsCounted
    <2>1. \A c \in Fds : Queued(c) = {} /\ Serving(c) = {}
      BY DEF Queued, Serving, Asleep
    <2>2. Cardinality({}) = 0
      BY FS_EmptySet
    <2>3. \A c \in Fds : Cardinality(Queued(c)) = 0 /\ Cardinality(Serving(c)) = 0
      BY <2>1, <2>2
    <2>4. \A c \in Fds : Holders(c) = (IF c \in {1, 2} THEN 1 ELSE 0) + (IF c = 1 THEN 1 ELSE 0)
      BY <1>6, <2>3 DEF Holders
    <2> QED BY <1>2, <1>3, <1>4, <1>5, <2>4, ClosedType DEF RefsCounted
  <1> QED BY <1>7, <1>8, <1>9, <1>a, <1>b, <1>c, <1>d, <1>e DEF ConnInv

-----------------------------------------------------------------------------
(* The peers and the network                                               *)

\* A change of what the peer has sent or taken, and of the state of the network.
LEMMA PeerKeeps ==
  ASSUME ConnInv, NEW c \in Fds, NEW k \in Conns, conn' = [conn EXCEPT ![c] = k],
         k.open = conn[c].open, k.dead = conn[c].dead, k.refno = conn[c].refno,
         k.leaked = conn[c].leaked, k.wbuf = conn[c].wbuf, k.wsz = conn[c].wsz,
         k.wlong = conn[c].wlong, Readable(c) => k.inq # <<>> \/ k.broken,
         UNCHANGED serverVars, PeerType'
  PROVE  ConnInv'
  <1> USE DEF serverVars, pollVars
  <1>1. conn \in [Fds -> Conns]
    BY DEF ConnInv, TypeOK, ConnType
  <1>2. conn' \in [Fds -> Conns] /\ conn'[c] = k /\ \A d \in Fds : d # c => conn'[d] = conn[d]
    BY <1>1, SetConn
  <1>3. TypeOK'
    <2>1. ConnType'
      <3>1. \A d \in Fds : conn[d].wlong = -1 => conn[d].wsz = 0
        BY DEF ConnInv, TypeOK, ConnType
      <3>2. k.wlong = -1 => k.wsz = 0
        BY <3>1
      <3> QED BY <1>2, <3>1, <3>2 DEF ConnType
    <2>2. KeeperType' /\ PollType' /\ WorkType'
      BY DEF ConnInv, TypeOK, KeeperType, PollType, WorkType
    <2> QED BY <2>1, <2>2 DEF TypeOK
  <1>4. \A d \in Fds : Kept(d)
    BY <1>2 DEF Kept
  <1>5. FreeInv' /\ WbufInv'
    <2>1. SendersStay
      BY DEF SendersStay
    <2>2. \A d \in Fds : conn[d].wbuf \in Workers \cup {None}
      BY <1>1 DEF Conns
    <2> QED BY <1>4, <2>1, <2>2, BuffersKept DEF ConnInv
  <1>6. DeadInv' /\ RoundInv'
    <2>1. RemoversStay
      BY DEF RemoversStay
    <2>2. RoundGoesOn
      BY <1>2 DEF RoundGoesOn, Readable
    <2>3. rfds \cup wfds \cup callbacks \subseteq Fds /\ poll.r \cup poll.w \subseteq Fds
      BY DEF ConnInv, TypeOK, PollType
    <2> QED BY <1>4, <2>1, <2>2, <2>3, RoundKept DEF ConnInv, Kept, Stays
  <1>7. RefsCounted'
    BY <1>2, RefsKept DEF ConnInv
  <1>8. WorkInv' /\ AcceptInv'
    BY DEF ConnInv, WorkInv, AcceptInv
  <1> QED BY <1>3, <1>5, <1>6, <1>7, <1>8 DEF ConnInv

\* Whatever the peers and the network do, the server does not notice before it reads.
LEMMA PeersKeep ==
  ASSUME ConnInv, PeerStep PROVE ConnInv'
  <1>1. conn \in [Fds -> Conns] /\ PeerType
    BY DEF ConnInv, TypeOK, ConnType
  <1>2. ASSUME NEW c \in Fds, NEW req \in Requests, PeerSends(c, req) PROVE ConnInv'
    <2>1. conn[c] \in Conns /\ conn[c].inq \in Chunks /\ PeerType'
      BY <1>1, <1>2 DEF PeerSends, Conns, PeerType
    <2>2. CASE conn' = [conn EXCEPT ![c].inq = @ \o <<<<req, 1>>, <<req, 2>>>>]
      <3> DEFINE q == conn[c].inq \o <<<<req, 1>>, <<req, 2>>>>
                 k == [conn[c] EXCEPT !.inq = q]
      <3>1. q \in Chunks /\ q # <<>>
        BY <2>1 DEF Chunks
      <3> HIDE DEF q
      <3>2. k \in Conns
        BY <2>1, <3>1, SetField
      <3>3. /\ k.open = conn[c].open /\ k.dead = conn[c].dead /\ k.refno = conn[c].refno
            /\ k.leaked = conn[c].leaked /\ k.wbuf = conn[c].wbuf /\ k.wsz = conn[c].wsz
            /\ k.wlong = conn[c].wlong /\ k.inq = q
        BY <2>1 DEF Conns
      <3>4. conn' = [conn EXCEPT ![c] = k]
        BY <1>1, <2>2 DEF q
      <3> HIDE DEF k
      <3> QED BY <1>2, <2>1, <3>1, <3>2, <3>3, <3>4, PeerKeeps DEF PeerSends
    <2>3. CASE conn' = [conn EXCEPT ![c].inq = Append(@, <<req, 1>>), ![c].half = req]
      <3> DEFINE q == Append(conn[c].inq, <<req, 1>>)
                 m == [conn[c] EXCEPT !.inq = q]
                 k == [m EXCEPT !.half = req]
      <3>1. q \in Chunks /\ q # <<>>
        BY <2>1 DEF Chunks
      <3> HIDE DEF q
      <3>2. m \in Conns
        BY <2>1, <3>1, SetField
      <3>3. k = [conn[c] EXCEPT !.inq = q, !.half = req]
        OBVIOUS
      <3> HIDE DEF m
      <3>4. k \in Conns
        BY <3>2, SetField
      <3> HIDE DEF k
      <3>5. /\ k.open = conn[c].open /\ k.dead = conn[c].dead /\ k.refno = conn[c].refno
            /\ k.leaked = conn[c].leaked /\ k.wbuf = conn[c].wbuf /\ k.wsz = conn[c].wsz
            /\ k.wlong = conn[c].wlong /\ k.inq = q
        BY <2>1, <3>3 DEF Conns
      <3>6. conn' = [conn EXCEPT ![c] = k]
        BY <1>1, <2>3, <3>3 DEF q
      <3> QED BY <1>2, <2>1, <3>1, <3>4, <3>5, <3>6, PeerKeeps DEF PeerSends
    <2> QED BY <1>2, <2>2, <2>3 DEF PeerSends
  <1>3. ASSUME NEW c \in Fds, PeerSendsRest(c) PROVE ConnInv'
    <2> DEFINE q == Append(conn[c].inq, <<conn[c].half, 2>>)
               m == [conn[c] EXCEPT !.inq = q]
               k == [m EXCEPT !.half = None]
    <2>1. /\ conn[c] \in Conns /\ conn[c].inq \in Chunks /\ conn[c].half \in Requests
      BY <1>1, <1>3 DEF PeerSendsRest, Conns
    <2>2. q \in Chunks /\ q # <<>>
      <3> DEFINE x == <<conn[c].half, 2>>
      <3>1. x \in Requests \X (1..PduSize)
        BY <2>1
      <3>2. conn[c].inq \in Seq(Requests \X (1..PduSize))
        BY <2>1 DEF Chunks
      <3> HIDE DEF x
      <3>3. Append(conn[c].inq, x) \in Chunks /\ Append(conn[c].inq, x) # <<>>
        BY <3>1, <3>2 DEF Chunks
      <3> QED BY <3>3 DEF x
    <2> HIDE DEF q
    <2>3. m \in Conns
      BY <2>1, <2>2, SetField
    <2>4. k = [conn[c] EXCEPT !.inq = q, !.half = None]
      OBVIOUS
    <2> HIDE DEF m
    <2>5. k \in Conns
      BY <2>3, SetField
    <2> HIDE DEF k
    <2>6. /\ k.open = conn[c].open /\ k.dead = conn[c].dead /\ k.refno = conn[c].refno
          /\ k.leaked = conn[c].leaked /\ k.wbuf = conn[c].wbuf /\ k.wsz = conn[c].wsz
          /\ k.wlong = conn[c].wlong /\ k.inq = q
      BY <2>1, <2>4 DEF Conns
    <2>7. conn' = [conn EXCEPT ![c] = k] /\ UNCHANGED <<serverVars, peerVars>>
      BY <1>1, <1>3, <2>4 DEF PeerSendsRest, q
    <2>8. PeerType'
      BY <1>1, <2>7 DEF peerVars, PeerType
    <2> QED BY <2>2, <2>5, <2>6, <2>7, <2>8, PeerKeeps
  <1>4. ASSUME NEW c \in Fds, PeerReads(c) PROVE ConnInv'
    <2> DEFINE s == conn[c].sock - 1
               k == [conn[c] EXCEPT !.sock = s]
    <2>1. conn[c] \in Conns /\ s \in 0..SockRoom
      BY <1>1, <1>4 DEF PeerReads, Conns
    <2> HIDE DEF s
    <2>2. k \in Conns
      BY <2>1, SetField
    <2>3. /\ k.open = conn[c].open /\ k.dead = conn[c].dead /\ k.refno = conn[c].refno
          /\ k.leaked = conn[c].leaked /\ k.wbuf = conn[c].wbuf /\ k.wsz = conn[c].wsz
          /\ k.wlong = conn[c].wlong /\ k.inq = conn[c].inq /\ k.broken = conn[c].broken
      BY <2>1 DEF Conns
    <2>4. conn' = [conn EXCEPT ![c] = k] /\ UNCHANGED <<serverVars, peerVars>>
      BY <1>1, <1>4 DEF PeerReads, s
    <2> HIDE DEF k
    <2>5. PeerType'
      BY <1>1, <2>4 DEF peerVars, PeerType
    <2> QED BY <2>2, <2>3, <2>4, <2>5, PeerKeeps DEF Readable
  <1>5. ASSUME NEW c \in Fds, Break(c) PROVE ConnInv'
    <2>1. PICK q \in {<<>>, conn[c].inq} :
            conn' = [conn EXCEPT ![c].broken = TRUE, ![c].inq = q, ![c].half = None]
      BY <1>5 DEF Break
    <2> DEFINE m1 == [conn[c] EXCEPT !.broken = TRUE]
               m2 == [m1 EXCEPT !.inq = q]
               k == [m2 EXCEPT !.half = None]
    <2>2. conn[c] \in Conns /\ q \in Chunks
      <3>1. conn[c] \in Conns /\ conn[c].inq \in Chunks
        BY <1>1 DEF Conns
      <3>2. <<>> \in Chunks
        BY DEF Chunks
      <3> QED BY <2>1, <3>1, <3>2
    <2>3. k = [conn[c] EXCEPT !.broken = TRUE, !.inq = q, !.half = None]
      OBVIOUS
    <2>4. m1 \in Conns
      BY <2>2, SetField
    <2> HIDE DEF m1
    <2>5. m2 \in Conns
      BY <2>2, <2>4, SetField
    <2> HIDE DEF m2
    <2>6. k \in Conns
      BY <2>5, SetField
    <2> HIDE DEF k
    <2>7. /\ k.open = conn[c].open /\ k.dead = conn[c].dead /\ k.refno = conn[c].refno
          /\ k.leaked = conn[c].leaked /\ k.wbuf = conn[c].wbuf /\ k.wsz = conn[c].wsz
          /\ k.wlong = conn[c].wlong /\ k.broken
      BY <2>2, <2>3 DEF Conns
    <2>8. conn' = [conn EXCEPT ![c] = k]
      BY <1>1, <2>1, <2>3
    <2>9. PeerType' /\ UNCHANGED serverVars
      BY <1>1, <1>5 DEF Break, PeerType
    <2> QED BY <2>6, <2>7, <2>8, <2>9, PeerKeeps
  <1> QED BY <1>2, <1>3, <1>4, <1>5 DEF PeerStep

-----------------------------------------------------------------------------
(* The poll thread                                                         *)

\* The type of the state, ...
LEMMA TypeFacts ==
  ASSUME ConnInv
  PROVE  /\ conn \in [Fds -> Conns] /\ worker \in [Workers -> Threads] /\ jobq \in Seq(Jobs)
         /\ rfds \cup wfds \cup callbacks \subseteq Fds
         /\ poll.r \cup poll.w \subseteq Fds
         /\ KeeperType /\ PollType /\ WorkType /\ PeerType /\ ConnType
  <1>1. ConnType /\ KeeperType /\ PollType /\ WorkType /\ PeerType
    BY DEF ConnInv, TypeOK
  <1>2. conn \in [Fds -> Conns] /\ worker \in [Workers -> Threads] /\ jobq \in Seq(Jobs)
    BY <1>1 DEF ConnType, WorkType
  <1>3. /\ rfds \cup wfds \cup callbacks \subseteq Fds
        /\ poll.r \cup poll.w \subseteq Fds
    BY <1>1 DEF PollType
  <1> QED BY <1>1, <1>2, <1>3

\* ... of a connection ...
LEMMA ConnFacts ==
  ASSUME ConnInv, NEW c \in Fds
  PROVE  /\ conn[c] \in Conns /\ conn[c].refno \in Nat
         /\ conn[c].wbuf \in Workers \cup {None}
         /\ conn[c].wlong = -1 => conn[c].wsz = 0
  BY TypeFacts DEF ConnType, Conns

\* ... and of a dispatch thread.
LEMMA ThreadFacts ==
  ASSUME ConnInv, NEW t \in Workers
  PROVE  /\ worker[t] \in Threads
         /\ worker[t].c \in Fds \cup {None} /\ worker[t].req \in Requests \cup {None}
         /\ worker[t].pc \in {"wait_job", "take"} <=> worker[t].c = None
         /\ worker[t].c = None <=> worker[t].req = None
  BY TypeFacts DEF Threads, ConnInv, WorkInv

\* wait_loop: the threads that wait for the end of a round are released.
LEMMA StartRoundKeeps ==
  ASSUME ConnInv, aborted = "no", StartRound PROVE ConnInv'
  <1> USE DEF StartRound
  <1>1. \A u \in Workers :
          /\ worker'[u] \in Threads
          /\ worker'[u].c = worker[u].c /\ worker'[u].req = worker[u].req
          /\ \/ worker'[u].pc = worker[u].pc
             \/ worker[u].pc = "wait_removed" /\ worker'[u].pc = "removed"
    <2> SUFFICES ASSUME NEW u \in Workers
                 PROVE  /\ worker'[u] \in Threads
                        /\ worker'[u].c = worker[u].c /\ worker'[u].req = worker[u].req
                        /\ \/ worker'[u].pc = worker[u].pc
                           \/ worker[u].pc = "wait_removed" /\ worker'[u].pc = "removed"
      OBVIOUS
    <2>1. worker[u] \in Threads
      BY TypeFacts
    <2>2. worker'[u] = IF pendingChange /\ worker[u].pc = "wait_removed"
                       THEN [worker[u] EXCEPT !.pc = "removed"] ELSE worker[u]
      OBVIOUS
    <2> QED BY <2>1, <2>2 DEF Threads, WorkerPcs, Sending, Removal
  <1>2. TypeOK'
    <2>1. ConnType' /\ KeeperType' /\ PeerType'
      BY TypeFacts DEF ConnType, KeeperType, PeerType, peerVars
    <2>2. WorkType'
      BY <1>1, TypeFacts DEF WorkType
    <2>3. PollType'
      BY TypeFacts DEF PollType
    <2> QED BY <2>1, <2>2, <2>3 DEF TypeOK
  <1>3. WorkInv'
    BY <1>1, WorkKept DEF ConnInv
  <1>4. AcceptInv' /\ FreeInv'
    BY DEF ConnInv, AcceptInv, FreeInv
  <1>5. WbufInv'
    <2>1. SendersStay /\ \A c \in Fds : Kept(c)
      BY <1>1 DEF SendersStay, Sending, Removal, Kept
    <2> QED BY <2>1, ConnFacts, BuffersKept DEF ConnInv
  <1>6. DeadInv'
    <2>1. \A c \in Fds, u \in Workers :
            /\ Works(u, c, Removal)' <=> Works(u, c, Removal)
            /\ Works(u, c, {"wait_removed", "removed"})'
                 <=> Works(u, c, {"wait_removed", "removed"})
      BY <1>1 DEF Works, Removal
    <2>2. Watched' = Watched /\ Opened' = Opened
      BY DEF Watched, Opened
    <2>3. DeadInv
      BY DEF ConnInv
    <2> QED BY <2>1, <2>2, <2>3 DEF DeadInv
  <1>7. RoundInv'
    <2>1. ASSUME NEW c \in rfds \cup wfds
          PROVE  conn[c].open /\ (conn[c].dead => Leaving(c)')
      <3>1. c \in Fds /\ c \in Watched /\ DeadInv
        BY TypeFacts DEF Watched, ConnInv
      <3>2. ASSUME conn[c].dead PROVE Leaving(c)'
        <4>1. PICK u \in Workers : Works(u, c, Removal)
          BY <3>1, <3>2 DEF DeadInv
        <4>2. worker[u].c = c /\ worker[u].pc = "remove"
          BY <3>1, <4>1 DEF DeadInv, Works, Removal
        <4>3. worker'[u].c = c /\ worker'[u].pc = "remove"
          BY <1>1, <4>2
        <4> QED BY <4>3 DEF Leaving, Works
      <3> QED BY <3>1, <3>2 DEF DeadInv, Opened
    <2>2. poll'.pc = "select" /\ poll'.r \cup poll'.w = rfds \cup wfds /\ conn' = conn
      OBVIOUS
    <2> QED BY <2>1, <2>2 DEF RoundInv
  <1>8. RefsCounted'
    BY <1>1, RefsKept DEF ConnInv
  <1> QED BY <1>2, <1>3, <1>4, <1>5, <1>6, <1>7, <1>8 DEF ConnInv

\* select: what is found ready was watched when the round began.
LEMMA SelectKeeps ==
  ASSUME ConnInv, aborted = "no", Select PROVE ConnInv'
  <1> DEFINE r == {c \in poll.r : Readable(c)}
             w == {c \in poll.w : Writable(c)}
  <1>1. /\ poll.pc = "select" /\ wake' = FALSE
        /\ poll' = [pc |-> IF r \cup w = {} THEN "top" ELSE "serve", r |-> r, w |-> w]
        /\ UNCHANGED <<conn, table, acceptor, latest, rfds, wfds, callbacks,
                       pendingChange, errnoAgain, jobq, worker, peerVars, aborted>>
    BY DEF Select
  <1>2. TypeOK'
    <2>1. ConnType' /\ KeeperType' /\ PeerType' /\ WorkType'
      BY <1>1, TypeFacts DEF ConnType, KeeperType, PeerType, WorkType, peerVars
    <2>2. PollType'
      <3>1. r \in SUBSET Fds /\ w \in SUBSET Fds
        BY TypeFacts
      <3> HIDE DEF r, w
      <3> QED BY <1>1, <3>1, TypeFacts DEF PollType
    <2> QED BY <2>1, <2>2 DEF TypeOK
  <1>3. WorkInv' /\ AcceptInv' /\ FreeInv' /\ WbufInv'
    BY <1>1 DEF ConnInv, WorkInv, AcceptInv, FreeInv, WbufInv, Works
  <1>4. DeadInv'
    BY <1>1 DEF ConnInv, DeadInv, Watched, Opened, Works
  <1>5. RoundInv'
    <2>1. \A c \in r : conn[c].open /\ IF conn[c].dead THEN Leaving(c) ELSE Readable(c)
      BY <1>1 DEF ConnInv, RoundInv
    <2>2. poll'.pc # "select" /\ poll'.r = r
      BY <1>1
    <2>3. \A c : Leaving(c)' = Leaving(c) /\ Readable(c)' = Readable(c)
      BY <1>1 DEF Leaving, Works, Readable
    <2> HIDE DEF r
    <2> QED BY <1>1, <2>1, <2>2, <2>3 DEF RoundInv
  <1>6. RefsCounted'
    BY <1>1, RefsKept DEF ConnInv
  <1> QED BY <1>1, <1>2, <1>3, <1>4, <1>5, <1>6 DEF ConnInv

\* Reading changes nothing but what was read.
Steady(k, m) ==
    /\ m.open = k.open /\ m.dead = k.dead /\ m.refno = k.refno /\ m.leaked = k.leaked
    /\ m.wbuf = k.wbuf /\ m.wsz = k.wsz /\ m.wlong = k.wlong

\* What readpdu and rpcs::got_pdu may store in the read buffer.
LEMMA ReadSets ==
  ASSUME NEW k \in Conns, NEW r \in Requests \cup {None}, NEW n \in 0..PduSize,
         NEW q \in Chunks, NEW m, m = [k EXCEPT !.rreq = r, !.rlong = n, !.inq = q]
  PROVE  m \in Conns /\ Steady(k, m)
  <1> DEFINE m1 == [k EXCEPT !.rreq = r]
             m2 == [m1 EXCEPT !.rlong = n]
             m3 == [m2 EXCEPT !.inq = q]
  <1>1. m1 \in Conns
    BY SetField
  <1> HIDE DEF m1
  <1>2. m2 \in Conns
    BY <1>1, SetField
  <1> HIDE DEF m2
  <1>3. m3 \in Conns
    BY <1>2, SetField
  <1>4. m3 = m
    BY DEF m1, m2
  <1> HIDE DEF m3
  <1>5. Steady(k, m)
    BY DEF Conns, Steady
  <1> QED BY <1>3, <1>4, <1>5

\* readpdu, the length and the rest: only the read buffer and the input change.
LEMMA ReadPartIs ==
  ASSUME NEW k \in Conns
  PROVE  /\ k.inq # <<>> => /\ ReadLength(k) \in Conns /\ Steady(k, ReadLength(k))
                            /\ ReadRest(k) \in Conns /\ Steady(k, ReadRest(k))
         /\ DropPdu(k) \in Conns /\ Steady(k, DropPdu(k))
  <1>3. /\ k.inq \in Chunks /\ k.rreq \in Requests \cup {None} /\ k.rlong \in 0..PduSize
    BY DEF Conns
  <1>4. ASSUME k.inq # <<>>
        PROVE  /\ Tail(k.inq) \in Chunks /\ Head(k.inq)[1] \in Requests
    <2>1. Tail(k.inq) \in Chunks /\ Head(k.inq) \in Requests \X (1..PduSize)
      BY <1>3, <1>4 DEF Chunks
    <2> QED BY <2>1
  <1>5. ASSUME k.inq # <<>>
        PROVE  ReadLength(k) \in Conns /\ Steady(k, ReadLength(k))
    <2> DEFINE r == Head(k.inq)[1]  q == Tail(k.inq)
    <2>1. r \in Requests \cup {None} /\ q \in Chunks /\ 1 \in 0..PduSize
      BY <1>4, <1>5
    <2>2. ReadLength(k) = [k EXCEPT !.rreq = r, !.rlong = 1, !.inq = q]
      BY DEF ReadLength
    <2> HIDE DEF r, q
    <2> QED BY <2>1, <2>2, ReadSets
  <1>6. ASSUME k.inq # <<>>
        PROVE  ReadRest(k) \in Conns /\ Steady(k, ReadRest(k))
    <2> DEFINE r == k.rreq
               q == Tail(k.inq)
    <2>1. r \in Requests \cup {None} /\ q \in Chunks /\ 2 \in 0..PduSize
      BY <1>3, <1>4, <1>6
    <2>2. ReadRest(k) = [k EXCEPT !.rlong = 2, !.inq = q]
      BY DEF ReadRest
    <2>3. ReadRest(k) = [k EXCEPT !.rreq = r, !.rlong = 2, !.inq = q]
      BY <2>2 DEF Conns
    <2> HIDE DEF r, q
    <2> QED BY <2>1, <2>3, ReadSets
  <1>7. DropPdu(k) \in Conns /\ Steady(k, DropPdu(k))
    <2>1. DropPdu(k) = [k EXCEPT !.rreq = None, !.rlong = 0, !.inq = k.inq]
      BY DEF DropPdu, Conns
    <2>2. 0 \in 0..PduSize /\ None \in Requests \cup {None}
      OBVIOUS
    <2> QED BY <1>3, <2>1, <2>2, ReadSets
  <1> QED BY <1>5, <1>6, <1>7

\* The second read of readpdu.
LEMMA ReadOnIs ==
  ASSUME NEW k \in Conns, NEW error \in BOOLEAN, errnoAgain \in BOOLEAN
  PROVE  LET res == ReadOn(k, error) IN
         /\ res.k \in Conns /\ Steady(k, res.k)
         /\ res.ok \in BOOLEAN /\ res.again \in BOOLEAN
  <1>1. Steady(k, k) /\ k.broken \in BOOLEAN
    BY DEF Steady, Conns
  <1>2. CASE k.inq # <<>>
    <2>1. ReadOn(k, error) = [k |-> ReadRest(k), ok |-> TRUE, again |-> errnoAgain]
      BY <1>2 DEF ReadOn
    <2> QED BY <1>2, <2>1, ReadPartIs
  <1>3. CASE k.inq = <<>> /\ ~k.broken
    <2>1. ReadOn(k, error) = [k |-> k, ok |-> TRUE, again |-> TRUE]
      BY <1>3 DEF ReadOn
    <2> QED BY <1>1, <2>1
  <1>4. CASE k.inq = <<>> /\ k.broken
    <2> DEFINE again == errnoAgain /\ ~error
               m == IF again THEN k ELSE DropPdu(k)
    <2>1. ReadOn(k, error) = [k |-> m, ok |-> again, again |-> again]
      BY <1>4 DEF ReadOn
    <2>2. m \in Conns /\ Steady(k, m) /\ again \in BOOLEAN
      BY <1>1, ReadPartIs
    <2> HIDE DEF m, again
    <2> QED BY <2>1, <2>2
  <1> QED BY <1>1, <1>2, <1>3, <1>4

\* What readpdu does to a connection: it only takes in what was sent.
LEMMA ReadPduIs ==
  ASSUME NEW k \in Conns, NEW error \in BOOLEAN, errnoAgain \in BOOLEAN
  PROVE  LET res == ReadPdu(k, error) IN
         /\ res.k \in Conns /\ Steady(k, res.k)
         /\ res.ok \in BOOLEAN /\ res.again \in BOOLEAN
  <1>1. CASE Whole(k)
    <2>1. ReadPdu(k, error) = [k |-> k, ok |-> TRUE, again |-> errnoAgain]
      BY <1>1 DEF ReadPdu, Whole
    <2> QED BY <2>1 DEF Steady
  <1>2. CASE ~Whole(k) /\ k.rreq # None
    <2>1. ReadPdu(k, error) = ReadOn(k, error)
      BY <1>2 DEF ReadPdu
    <2> QED BY <2>1, ReadOnIs
  <1>3. CASE ~Whole(k) /\ k.rreq = None /\ k.inq # <<>>
    <2> DEFINE m == ReadLength(k)
    <2>1. ReadPdu(k, error) = ReadOn(m, error)
      BY <1>3 DEF ReadPdu
    <2>2. m \in Conns /\ Steady(k, m)
      BY <1>3, ReadPartIs
    <2> HIDE DEF m
    <2>3. LET res == ReadOn(m, error) IN
          /\ res.k \in Conns /\ Steady(m, res.k)
          /\ res.ok \in BOOLEAN /\ res.again \in BOOLEAN
      BY <2>2, ReadOnIs
    <2> QED BY <2>1, <2>2, <2>3 DEF Steady
  <1>4. CASE ~Whole(k) /\ k.rreq = None /\ k.inq = <<>>
    <2> DEFINE again == errnoAgain /\ ~error
    <2>1. ReadPdu(k, error) = [k |-> k, ok |-> FALSE, again |-> again]
      BY <1>4 DEF ReadPdu, Whole
    <2>2. again \in BOOLEAN
      OBVIOUS
    <2> HIDE DEF again
    <2> QED BY <2>1, <2>2 DEF Steady
  <1> QED BY <1>1, <1>2, <1>3, <1>4

\* A step of which the rest of the invariant notices nothing.
LEMMA QuietKeeps ==
  ASSUME ConnInv, \A c \in Fds : Kept(c) \/ Gone(c), SendersStay, RemoversStay, RoundGoesOn
  PROVE  FreeInv' /\ WbufInv' /\ DeadInv' /\ RoundInv'
  <1>1. /\ FreeInv /\ WbufInv /\ DeadInv /\ RoundInv
        /\ rfds \cup wfds \cup callbacks \subseteq Fds
        /\ poll.r \cup poll.w \subseteq Fds
        /\ \A c \in Fds : conn[c].wbuf \in Workers \cup {None}
    BY TypeFacts, ConnFacts DEF ConnInv
  <1>2. FreeInv' /\ WbufInv'
    BY <1>1, BuffersKept
  <1>3. DeadInv' /\ RoundInv'
    BY <1>1, RoundKept DEF Kept, Stays
  <1> QED BY <1>2, <1>3

\* The poll thread is through with one entry of its lists.
LEMMA ServedIs ==
  ASSUME NEW r \in SUBSET Fds, NEW w \in SUBSET Fds, poll' = Served(r, w)
  PROVE  /\ poll' \in [pc : {"top", "select", "serve"}, r : SUBSET Fds, w : SUBSET Fds]
         /\ poll'.pc \in {"top", "serve"} /\ poll'.r = r /\ poll'.w = w
  BY DEF Served

\* A connection dies in the poll thread, which watches it no more.
LEMMA DyingKeeps ==
  ASSUME ConnInv, aborted = "no", NEW c \in Fds, NEW m \in Conns, conn' = [conn EXCEPT ![c] = m],
         conn[c].open, m.open, m.dead, m.refno = conn[c].refno, m.leaked = conn[c].leaked,
         m.wbuf = conn[c].wbuf, m.wsz \in {0, conn[c].wsz}, m.wlong = -1 => m.wsz = 0,
         DelCallback(c, "RDWR"), worker' = SignalComplete(worker, c),
         poll.pc = "serve",
         NEW r \in SUBSET (poll.r \ {c}), NEW w \in SUBSET Fds, poll' = Served(r, w),
         errnoAgain' \in BOOLEAN,
         UNCHANGED <<table, acceptor, latest, jobq, peerVars, aborted>>
  PROVE  ConnInv'
  <1>1. /\ worker' \in [Workers -> Threads]
        /\ \A u \in Workers :
             /\ worker'[u].c = worker[u].c /\ worker'[u].req = worker[u].req
             /\ \/ worker'[u].pc = worker[u].pc
                \/ worker[u].pc = "wait_complete" /\ worker'[u].pc = "completed"
    BY TypeFacts, SignalIs
  <1>2. /\ conn' \in [Fds -> Conns] /\ conn'[c] = m
        /\ \A d \in Fds : d # c => conn'[d] = conn[d]
    BY TypeFacts, SetConn
  <1>3. /\ rfds' = rfds \ {c} /\ wfds' = wfds \ {c} /\ callbacks' = callbacks \ {c}
        /\ wake' \in BOOLEAN /\ pendingChange' = pendingChange
    BY DEF DelCallback, UnwatchFd
  <1>4. r \in SUBSET Fds
    BY TypeFacts
  <1>5. /\ poll' \in [pc : {"top", "select", "serve"}, r : SUBSET Fds, w : SUBSET Fds]
        /\ poll'.pc \in {"top", "serve"} /\ poll'.r = r /\ poll'.w = w
    BY <1>4, ServedIs
  <1>6. TypeOK'
    <2>1. ConnType'
      BY <1>2, TypeFacts DEF ConnType
    <2>2. KeeperType' /\ PeerType'
      BY TypeFacts DEF KeeperType, PeerType, peerVars
    <2>3. WorkType'
      BY <1>1, TypeFacts DEF WorkType
    <2>4. PollType'
      BY <1>3, <1>5, TypeFacts DEF PollType
    <2> QED BY <2>1, <2>2, <2>3, <2>4 DEF TypeOK
  <1>7. WorkInv'
    BY <1>1, WorkKept DEF ConnInv
  <1>8. AcceptInv'
    BY DEF ConnInv, AcceptInv
  <1>9. FreeInv'
    BY <1>2 DEF ConnInv, FreeInv
  <1>a. WbufInv'
    <2> SUFFICES ASSUME NEW d \in Fds
                 PROVE  /\ conn'[d].wbuf # None => Works(conn[d].wbuf, d, Sending)'
                        /\ conn'[d].wsz # 0 => conn'[d].wbuf # None
      BY <1>2 DEF WbufInv
    <2>1. conn'[d].wbuf = conn[d].wbuf /\ (conn'[d].wsz # 0 => conn[d].wsz # 0)
      BY <1>2
    <2>2. /\ conn[d].wbuf # None => Works(conn[d].wbuf, d, Sending)
          /\ conn[d].wsz # 0 => conn[d].wbuf # None
      BY DEF ConnInv, WbufInv
    <2>3. conn[d].wbuf # None => conn[d].wbuf \in Workers
      BY ConnFacts
    <2> QED BY <1>1, <2>1, <2>2, <2>3 DEF Works, Sending
  <1>b. \A d \in Fds, u \in Workers :
          /\ Works(u, d, Removal)' <=> Works(u, d, Removal)
          /\ Works(u, d, {"wait_removed", "removed"})'
               <=> Works(u, d, {"wait_removed", "removed"})
          /\ Works(u, d, {"remove", "wait_removed"})'
               <=> Works(u, d, {"remove", "wait_removed"})
    BY <1>1 DEF Works, Removal
  <1>c. DeadInv'
    <2>1. Watched' \subseteq Opened' /\ Watched' = Watched \ {c}
      BY <1>2, <1>3 DEF ConnInv, DeadInv, Watched, Opened
    <2>2. ASSUME NEW d \in Fds, conn'[d].dead, d \in Watched'
          PROVE  \E t \in Workers : Works(t, d, Removal)'
      <3>1. d # c /\ conn[d].dead /\ d \in Watched
        BY <1>2, <2>1, <2>2
      <3> QED BY <1>b, <3>1 DEF ConnInv, DeadInv
    <2>3. ASSUME NEW d \in Fds, NEW t \in Workers
          PROVE  /\ Works(t, d, Removal)' => conn'[d].dead
                 /\ Works(t, d, {"wait_removed", "removed"})' => d \notin rfds' \cup wfds'
      <3>1. /\ Works(t, d, Removal) => conn[d].dead
            /\ Works(t, d, {"wait_removed", "removed"}) => d \notin rfds \cup wfds
        BY DEF ConnInv, DeadInv
      <3> QED BY <1>2, <1>3, <1>b, <3>1
    <2> QED BY <2>1, <2>2, <2>3 DEF DeadInv
  <1>d. RoundInv'
    <2>1. ASSUME NEW d \in poll'.r
          PROVE  conn'[d].open /\ IF conn'[d].dead THEN Leaving(d)' ELSE Readable(d)'
      <3>1. d \in poll.r /\ d # c /\ d \in Fds /\ conn'[d] = conn[d]
        BY <1>2, <1>4, <1>5
      <3>2. conn[d].open /\ IF conn[d].dead THEN Leaving(d) ELSE Readable(d)
        BY <3>1 DEF ConnInv, RoundInv
      <3>3. Leaving(d) => Leaving(d)'
        BY <1>b, <3>1 DEF Leaving
      <3> QED BY <3>1, <3>2, <3>3 DEF Readable
    <2> QED BY <1>5, <2>1 DEF RoundInv
  <1>e. RefsCounted'
    BY <1>1, <1>2, RefsKept DEF ConnInv
  <1> QED BY <1>6, <1>7, <1>8, <1>9, <1>a, <1>c, <1>d, <1>e DEF ConnInv

\* enq adds a job, which refers to a connection, and may wake a thread for it.
LEMMA EnqIs ==
  ASSUME WorkType, NEW j \in Jobs, Enq(j)
  PROVE  /\ WorkType' /\ jobq' = Append(jobq, j)
         /\ \A u \in Workers :
              /\ worker'[u].c = worker[u].c /\ worker'[u].req = worker[u].req
              /\ \/ worker'[u].pc = worker[u].pc
                 \/ worker[u].pc = "wait_job" /\ worker'[u].pc = "take"
  <1>1. jobq \in Seq(Jobs) /\ worker \in [Workers -> Threads]
    BY DEF WorkType
  <1>2. jobq' = Append(jobq, j)
    BY DEF Enq
  <1>3. jobq' \in Seq(Jobs)
    BY <1>1, <1>2
  <1>4. CASE UNCHANGED worker
    BY <1>1, <1>2, <1>3, <1>4 DEF WorkType
  <1>5. CASE \E t \in Workers : /\ worker[t].pc = "wait_job"
                                /\ worker' = [worker EXCEPT ![t].pc = "take"]
    <2>1. PICK t \in Workers : worker[t].pc = "wait_job" /\ Goto(t, "take")
      BY <1>5 DEF Goto
    <2>2. "take" \in WorkerPcs
      BY DEF WorkerPcs
    <2>3. /\ worker' \in [Workers -> Threads]
          /\ worker'[t].pc = "take" /\ worker'[t].c = worker[t].c /\ worker'[t].req = worker[t].req
          /\ \A u \in Workers : u # t => worker'[u] = worker[u]
      BY <1>1, <2>1, <2>2, GotoIs
    <2> QED BY <1>2, <1>3, <2>1, <2>3 DEF WorkType
  <1> QED BY <1>4, <1>5 DEF Enq

\* A job in the queue holds the reference got_pdu takes.
LEMMA RefsEnqueued ==
  ASSUME RefsCounted, ConnType, WorkType, NEW j \in Jobs, jobq' = Append(jobq, j),
         conn'[j.c].refno = conn[j.c].refno + 1,
         \A d \in Fds : d # j.c => conn'[d].refno = conn[d].refno,
         \A d \in Fds : conn'[d].leaked = conn[d].leaked,
         \A u \in Workers : worker'[u].c = worker[u].c,
         UNCHANGED <<table, acceptor, latest>>
  PROVE  RefsCounted'
  <1> SUFFICES ASSUME NEW d \in Fds PROVE conn'[d].refno = Holders(d)'
    BY DEF RefsCounted
  <1>1. Serving(d)' = Serving(d)
    BY DEF Serving
  <1>2. Cardinality(Queued(d)') = Cardinality(Queued(d)) + (IF j.c = d THEN 1 ELSE 0)
    <2>1. jobq \in Seq(Jobs)
      BY DEF WorkType
    <2>2. Cardinality(JobsOf(Append(jobq, j), d)) =
            Cardinality(JobsOf(jobq, d)) + (IF j.c = d THEN 1 ELSE 0)
      BY <2>1, JobsAppend
    <2>3. Queued(d) = JobsOf(jobq, d) /\ Queued(d)' = JobsOf(Append(jobq, j), d)
      BY DEF Queued, JobsOf
    <2> QED BY <2>2, <2>3
  <1> DEFINE a == IF d \in table \/ acceptor.new = d THEN 1 ELSE 0
             b == IF latest = d THEN 1 ELSE 0
             q == Cardinality(Queued(d))
             s == Cardinality(Serving(d))
             l == conn[d].leaked
             e == IF j.c = d THEN 1 ELSE 0
  <1>3. conn[d].refno = a + b + q + s + l
    BY DEF RefsCounted, Holders
  <1>4. a \in Nat /\ b \in Nat /\ q \in Nat /\ s \in Nat /\ l \in Nat /\ e \in Nat
    BY CountsAreNumbers DEF ConnType, Conns
  <1>5. Holders(d)' = a + b + (q + e) + s + l
    BY <1>1, <1>2 DEF Holders
  <1>6. conn'[d].refno = conn[d].refno + e
    <2>1. conn[d].refno \in Nat
      BY DEF ConnType, Conns
    <2> QED BY <2>1
  <1> HIDE DEF a, b, q, s, l, e
  <1> QED BY <1>3, <1>4, <1>5, <1>6

\* The poll thread goes on; what it did to connections, threads and the queue
\* leaves the rest of the invariant alone.
LEMMA ServingKeeps ==
  ASSUME ConnInv, poll.pc = "serve",
         NEW r \in SUBSET poll.r, NEW w \in SUBSET poll.w, poll' = Served(r, w),
         conn' \in [Fds -> Conns], \A c \in Fds : conn'[c].wlong = -1 => conn'[c].wsz = 0,
         \A c \in Fds : Kept(c) /\ (c \in r /\ Readable(c) => Readable(c)'),
         WorkType', \A u \in Workers :
              /\ worker'[u].c = worker[u].c /\ worker'[u].req = worker[u].req
              /\ \/ worker'[u].pc = worker[u].pc
                 \/ worker[u].pc = "wait_complete" /\ worker'[u].pc = "completed"
                 \/ worker[u].pc = "wait_job" /\ worker'[u].pc = "take",
         rfds' \subseteq rfds, wfds' \subseteq wfds, callbacks' \subseteq callbacks,
         {pendingChange', wake', errnoAgain'} \subseteq BOOLEAN,
         UNCHANGED <<table, acceptor, latest, peerVars>>
  PROVE  TypeOK' /\ WorkInv' /\ AcceptInv' /\ FreeInv' /\ WbufInv' /\ DeadInv' /\ RoundInv'
  <1>1. r \in SUBSET Fds /\ w \in SUBSET Fds
    BY TypeFacts
  <1>2. /\ poll' \in [pc : {"top", "select", "serve"}, r : SUBSET Fds, w : SUBSET Fds]
        /\ poll'.pc \in {"top", "serve"} /\ poll'.r = r /\ poll'.w = w
    BY <1>1, ServedIs
  <1>3. TypeOK'
    <2>1. ConnType'
      BY DEF ConnType
    <2>2. KeeperType' /\ PeerType'
      BY TypeFacts DEF KeeperType, PeerType, peerVars
    <2>3. PollType'
      BY <1>2, TypeFacts DEF PollType
    <2> QED BY <2>1, <2>2, <2>3 DEF TypeOK
  <1>4. WorkInv'
    BY WorkKept DEF ConnInv
  <1>5. AcceptInv'
    BY DEF ConnInv, AcceptInv
  <1>6. SendersStay
    BY DEF SendersStay, Sending, Removal
  <1>7. RemoversStay
    BY DEF RemoversStay, Removal
  <1>8. RoundGoesOn
    BY <1>2 DEF RoundGoesOn
  <1>9. FreeInv' /\ WbufInv' /\ DeadInv' /\ RoundInv'
    BY <1>6, <1>7, <1>8, QuietKeeps
  <1> QED BY <1>3, <1>4, <1>5, <1>9

\* read_cb on the first descriptor of the readable list.
LEMMA ServeReadableKeeps ==
  ASSUME ConnInv, aborted = "no", ServeReadable PROVE ConnInv'
  <1> DEFINE c == Min(poll.r)
  <1>1. /\ poll.pc = "serve" /\ poll.r # {} /\ poll' = Served(poll.r \ {c}, poll.w)
        /\ IF c \in callbacks
           THEN \E error \in {FALSE, conn[c].broken} : ReadCb(c, error)
           ELSE UNCHANGED <<conn, pollVars, errnoAgain, jobq, worker, aborted>>
        /\ UNCHANGED <<table, acceptor, latest, peerVars>>
    BY DEF ServeReadable
  <1>2. c \in poll.r /\ c \in Fds
    <2>1. poll.r \in SUBSET Nat
      BY TypeFacts
    <2> QED BY <1>1, <2>1, Smallest, TypeFacts
  <1> HIDE DEF c
  <1> DEFINE k == conn[c]
  <1>3. k \in Conns /\ k.refno \in Nat /\ (k.wlong = -1 => k.wsz = 0)
    BY <1>2, ConnFacts
  <1>4. CASE UNCHANGED <<conn, pollVars, errnoAgain, jobq, worker, aborted>>
    <2>1. TypeOK' /\ WorkInv' /\ AcceptInv' /\ FreeInv' /\ WbufInv' /\ DeadInv' /\ RoundInv'
      <3>1. WorkType' /\ conn' \in [Fds -> Conns]
        BY <1>4, TypeFacts DEF WorkType
      <3>2. {pendingChange', wake', errnoAgain'} \subseteq BOOLEAN
        BY <1>4, TypeFacts DEF pollVars, PollType
      <3>3. \A d \in Fds : conn'[d].wlong = -1 => conn'[d].wsz = 0
        BY <1>4, ConnFacts
      <3>4. \A d \in Fds : Kept(d) /\ (Readable(d) => Readable(d)')
        BY <1>4 DEF Kept, Readable
      <3>5. rfds' \subseteq rfds /\ wfds' \subseteq wfds /\ callbacks' \subseteq callbacks
        BY <1>4 DEF pollVars
      <3>6. poll.r \ {c} \in SUBSET poll.r /\ poll.w \in SUBSET poll.w
        OBVIOUS
      <3>7. \A u \in Workers : worker'[u] = worker[u]
        BY <1>4
      <3> QED BY <1>1, <3>1, <3>2, <3>3, <3>4, <3>5, <3>6, <3>7, ServingKeeps
    <2>2. RefsCounted'
      BY <1>1, <1>4, RefsKept DEF ConnInv
    <2> QED BY <1>4, <2>1, <2>2 DEF ConnInv
  <1>5. CASE c \in callbacks /\ ~k.dead
    <2>1. PICK error \in BOOLEAN : ReadCb(c, error)
      <3>1. k.broken \in BOOLEAN
        BY <1>3 DEF Conns
      <3> QED BY <1>1, <1>5, <3>1
    <2> DEFINE res == ReadPdu(k, error)
               m == res.k
    <2>2. k.open /\ Readable(c)
      BY <1>1, <1>2, <1>5 DEF ConnInv, RoundInv
    <2>3. /\ IF res.ok THEN UNCHANGED pollVars ELSE DelCallback(c, "RDWR")
          /\ CASE ~res.ok ->
                    /\ conn' = [conn EXCEPT ![c] = [m EXCEPT !.dead = TRUE]]
                    /\ worker' = SignalComplete(worker, c)
                    /\ UNCHANGED jobq
               [] res.ok /\ Whole(m) /\ Len(jobq) < QueueMax -> GotPdu(m, c)
               [] OTHER ->
                    /\ conn' = [conn EXCEPT ![c] = m]
                    /\ UNCHANGED <<jobq, worker>>
          /\ errnoAgain' = res.again
          /\ UNCHANGED aborted
      BY <1>5, <2>1, <2>2 DEF ReadCb, Readable
    <2>4. m \in Conns /\ Steady(k, m) /\ res.ok \in BOOLEAN /\ res.again \in BOOLEAN
      BY <1>3, TypeFacts, ReadPduIs DEF PollType
    <2> HIDE DEF res, m
    <2>5. CASE ~res.ok
      <3> DEFINE d == [m EXCEPT !.dead = TRUE]
      <3>1. /\ conn' = [conn EXCEPT ![c] = d] /\ worker' = SignalComplete(worker, c)
            /\ DelCallback(c, "RDWR") /\ jobq' = jobq
        BY <2>3, <2>5
      <3>2. d \in Conns
        BY <2>4, SetField
      <3>3. /\ d.open /\ d.dead /\ d.refno = k.refno /\ d.leaked = k.leaked
            /\ d.wbuf = k.wbuf /\ d.wsz = k.wsz /\ d.wlong = k.wlong
        BY <2>2, <2>4 DEF Conns, Steady
      <3> HIDE DEF d
      <3>4. poll.r \ {c} \in SUBSET (poll.r \ {c}) /\ poll.w \in SUBSET Fds
        BY TypeFacts
      <3>5. errnoAgain' \in BOOLEAN /\ UNCHANGED <<table, acceptor, latest, jobq, peerVars, aborted>>
        BY <1>1, <2>3, <2>4, <3>1
      <3> QED BY <1>1, <1>2, <1>3, <2>2, <3>1, <3>2, <3>3, <3>4, <3>5, DyingKeeps
    <2>6. CASE res.ok /\ Whole(m) /\ Len(jobq) < QueueMax
      <3> DEFINE p == DropPdu(m)
                 n == m.refno + 1
                 d == [p EXCEPT !.refno = n]
                 j == [c |-> c, req |-> m.rreq]
      <3>1. Enq(j) /\ conn' = [conn EXCEPT ![c] = d] /\ UNCHANGED pollVars
        <4>1. p.refno = m.refno
          BY <2>4, ReadPartIs DEF Steady
        <4>2. conn' = [conn EXCEPT ![c] = [p EXCEPT !.refno = p.refno + 1]]
          BY <2>3, <2>6 DEF GotPdu
        <4> QED BY <2>3, <2>6, <4>1, <4>2 DEF GotPdu
      <3>2. j \in Jobs /\ j.c = c
        BY <1>2, <2>4, <2>6 DEF Jobs, Whole, Conns
      <3>3. p \in Conns /\ Steady(m, p) /\ n \in Nat /\ n = k.refno + 1
        <4>1. m.refno = k.refno
          BY <2>4 DEF Steady
        <4> QED BY <1>3, <2>4, <4>1, ReadPartIs
      <3> HIDE DEF p, n, j
      <3>4. /\ d \in Conns /\ d.refno = n /\ d.open = p.open /\ d.dead = p.dead
            /\ d.wbuf = p.wbuf /\ d.wsz = p.wsz /\ d.wlong = p.wlong /\ d.leaked = p.leaked
        BY <3>3, RefnoSet
      <3> HIDE DEF d
      <3>5. /\ conn' \in [Fds -> Conns] /\ conn'[c] = d
            /\ \A e \in Fds : e # c => conn'[e] = conn[e]
        BY <1>2, <3>1, <3>4, TypeFacts, SetConn
      <3>6. /\ d.open = k.open /\ d.dead = k.dead /\ d.wbuf = k.wbuf /\ d.wsz = k.wsz
            /\ d.wlong = k.wlong /\ d.leaked = k.leaked /\ d.refno = k.refno + 1
        BY <2>4, <3>3, <3>4 DEF Steady
      <3>7. /\ WorkType' /\ jobq' = Append(jobq, j)
            /\ \A u \in Workers :
                 /\ worker'[u].c = worker[u].c /\ worker'[u].req = worker[u].req
                 /\ \/ worker'[u].pc = worker[u].pc
                    \/ worker[u].pc = "wait_job" /\ worker'[u].pc = "take"
        BY <3>1, <3>2, EnqIs, TypeFacts
      <3>8. TypeOK' /\ WorkInv' /\ AcceptInv' /\ FreeInv' /\ WbufInv' /\ DeadInv' /\ RoundInv'
        <4>1. {pendingChange', wake', errnoAgain'} \subseteq BOOLEAN
          BY <2>3, <2>4, <3>1, TypeFacts DEF pollVars, PollType
        <4>2. \A e \in Fds : conn'[e].wlong = -1 => conn'[e].wsz = 0
          BY <1>3, <3>5, <3>6, ConnFacts
        <4>3. \A e \in Fds : Kept(e) /\ (e \in poll.r \ {c} /\ Readable(e) => Readable(e)')
          BY <2>2, <3>5, <3>6 DEF Kept, Readable
        <4>4. rfds' \subseteq rfds /\ wfds' \subseteq wfds /\ callbacks' \subseteq callbacks
          BY <3>1 DEF pollVars
        <4>5. poll.r \ {c} \in SUBSET poll.r /\ poll.w \in SUBSET poll.w
          OBVIOUS
        <4> QED BY <1>1, <3>5, <3>7, <4>1, <4>2, <4>3, <4>4, <4>5, ServingKeeps
      <3>9. RefsCounted'
        <4>1. conn'[j.c].refno = conn[j.c].refno + 1
          BY <3>2, <3>5, <3>6
        <4>2. \A e \in Fds : e # j.c => conn'[e].refno = conn[e].refno
          BY <3>2, <3>5
        <4>3. \A e \in Fds : conn'[e].leaked = conn[e].leaked
          BY <3>5, <3>6
        <4> QED BY <1>1, <3>2, <3>7, <4>1, <4>2, <4>3, TypeFacts, RefsEnqueued DEF ConnInv
      <3> QED BY <2>3, <3>8, <3>9 DEF ConnInv
    <2>7. CASE res.ok /\ ~(Whole(m) /\ Len(jobq) < QueueMax)
      <3>1. conn' = [conn EXCEPT ![c] = m] /\ UNCHANGED <<jobq, worker, pollVars>>
        BY <2>3, <2>7
      <3>2. /\ conn' \in [Fds -> Conns] /\ conn'[c] = m
            /\ \A e \in Fds : e # c => conn'[e] = conn[e]
        BY <1>2, <2>4, <3>1, TypeFacts, SetConn
      <3>3. TypeOK' /\ WorkInv' /\ AcceptInv' /\ FreeInv' /\ WbufInv' /\ DeadInv' /\ RoundInv'
        <4>1. {pendingChange', wake', errnoAgain'} \subseteq BOOLEAN
          BY <2>3, <2>4, <3>1, TypeFacts DEF pollVars, PollType
        <4>2. \A e \in Fds : conn'[e].wlong = -1 => conn'[e].wsz = 0
          BY <1>3, <2>4, <3>2, ConnFacts DEF Steady
        <4>3. \A e \in Fds : Kept(e) /\ (e \in poll.r \ {c} /\ Readable(e) => Readable(e)')
          BY <2>2, <2>4, <3>2 DEF Kept, Readable, Steady
        <4>4. rfds' \subseteq rfds /\ wfds' \subseteq wfds /\ callbacks' \subseteq callbacks
          BY <3>1 DEF pollVars
        <4>5. poll.r \ {c} \in SUBSET poll.r /\ poll.w \in SUBSET poll.w
          OBVIOUS
        <4>6. WorkType' /\ \A u \in Workers : worker'[u] = worker[u]
          BY <3>1, TypeFacts DEF WorkType
        <4> QED BY <1>1, <3>2, <4>1, <4>2, <4>3, <4>4, <4>5, <4>6, ServingKeeps
      <3>4. RefsCounted'
        <4>1. \A e \in Fds : conn'[e].refno = conn[e].refno /\ conn'[e].leaked = conn[e].leaked
          BY <2>4, <3>2 DEF Steady
        <4> QED BY <1>1, <3>1, <4>1, RefsKept DEF ConnInv
      <3> QED BY <2>3, <3>3, <3>4 DEF ConnInv
    <2> QED BY <2>4, <2>5, <2>6, <2>7
  <1>6. CASE c \in callbacks /\ k.dead
    <2>1. \E error : ReadCb(c, error)
      BY <1>1, <1>6
    <2>2. UNCHANGED <<conn, pollVars, errnoAgain, jobq, worker, aborted>>
      BY <1>6, <2>1 DEF ReadCb
    <2> QED BY <1>4, <2>2
  <1> QED BY <1>1, <1>4, <1>5, <1>6

\* The sender that owns wpdu_ has a request, and writes a PDU of it.
LEMMA SenderHasRequest ==
  ASSUME ConnInv, NEW c \in Fds, conn[c].wsz # 0
  PROVE  /\ conn[c].wsz = PduSize /\ conn[c].wlong >= 0
         /\ conn[c].wbuf \in Workers /\ worker[conn[c].wbuf].req \in Requests
  <1>1. conn[c].wsz \in {0, PduSize} /\ conn[c].wlong \in -1..PduSize
    BY ConnFacts DEF Conns
  <1>2. conn[c].wlong # -1
    BY ConnFacts
  <1>3. conn[c].wbuf \in Workers /\ worker[conn[c].wbuf].c = c
    BY ConnFacts DEF ConnInv, WbufInv, Works
  <1>4. worker[conn[c].wbuf].req \in Requests
    BY <1>3, ThreadFacts
  <1> QED BY <1>1, <1>2, <1>3, <1>4

\* write_cb on the first descriptor of the writable list.
LEMMA ServeWritableKeeps ==
  ASSUME ConnInv, aborted = "no", ServeWritable PROVE ConnInv'
  <1> DEFINE c == Min(poll.w)
  <1>1. /\ poll.pc = "serve" /\ poll.r = {} /\ poll.w # {} /\ poll' = Served({}, poll.w \ {c})
        /\ IF c \in callbacks
           THEN WriteCb(c)
           ELSE UNCHANGED <<conn, pollVars, errnoAgain, worker, aborted>>
        /\ UNCHANGED <<table, acceptor, latest, jobq, peerVars>>
    BY DEF ServeWritable
  <1>2. c \in poll.w /\ c \in Fds
    <2>1. poll.w \in SUBSET Nat
      BY TypeFacts
    <2> QED BY <1>1, <2>1, Smallest, TypeFacts
  <1> HIDE DEF c
  <1> DEFINE k == conn[c]
  <1>3. k \in Conns /\ k.refno \in Nat /\ (k.wlong = -1 => k.wsz = 0)
    BY <1>2, ConnFacts
  <1>4. {} \in SUBSET poll.r /\ poll.w \ {c} \in SUBSET poll.w
    OBVIOUS
  <1>5. ASSUME UNCHANGED <<conn, worker, errnoAgain, pendingChange>>, wake' \in BOOLEAN,
               rfds' \subseteq rfds, wfds' \subseteq wfds, callbacks' \subseteq callbacks,
               aborted' \in {"no", "write_cb"}
        PROVE  ConnInv'
    <2>1. TypeOK' /\ WorkInv' /\ AcceptInv' /\ FreeInv' /\ WbufInv' /\ DeadInv' /\ RoundInv'
      <3>1. WorkType' /\ conn' \in [Fds -> Conns]
        BY <1>1, <1>5, TypeFacts DEF WorkType
      <3>2. {pendingChange', wake', errnoAgain'} \subseteq BOOLEAN
        BY <1>5, TypeFacts DEF PollType
      <3>3. \A d \in Fds : conn'[d].wlong = -1 => conn'[d].wsz = 0
        BY <1>5, ConnFacts
      <3>4. \A d \in Fds : Kept(d) /\ (Readable(d) => Readable(d)')
        BY <1>5 DEF Kept, Readable
      <3>5. \A u \in Workers : worker'[u] = worker[u]
        BY <1>5
      <3> QED BY <1>1, <1>4, <1>5, <3>1, <3>2, <3>3, <3>4, <3>5, ServingKeeps
    <2>2. RefsCounted'
      BY <1>1, <1>5, RefsKept DEF ConnInv
    <2> QED BY <1>5, <2>1, <2>2 DEF ConnInv
  <1>6. CASE UNCHANGED <<conn, pollVars, errnoAgain, worker, aborted>>
    BY <1>5, <1>6, TypeFacts DEF pollVars, PollType, ConnInv
  <1>7. CASE c \in callbacks /\ k.dead
    <2>1. UNCHANGED <<conn, pollVars, errnoAgain, worker>> /\ aborted' = "write_cb"
      BY <1>1, <1>7 DEF WriteCb
    <2> QED BY <1>5, <2>1, TypeFacts DEF pollVars, PollType
  <1>8. CASE c \in callbacks /\ ~k.dead /\ k.wsz = 0
    <2>1. DelCallback(c, "WRONLY") /\ UNCHANGED <<conn, errnoAgain, worker, aborted>>
      BY <1>1, <1>8 DEF WriteCb
    <2>2. /\ rfds' \subseteq rfds /\ wfds' \subseteq wfds /\ callbacks' \subseteq callbacks
          /\ pendingChange' = pendingChange /\ wake' \in BOOLEAN
      BY <2>1, TypeFacts DEF DelCallback, UnwatchFd, PollType
    <2> QED BY <1>5, <2>1, <2>2 DEF ConnInv
  <1>9. CASE c \in callbacks /\ ~k.dead /\ k.wsz # 0 /\ k.wlong < k.wsz /\ k.broken
    <2> DEFINE m1 == [k EXCEPT !.dead = TRUE]
               m2 == [m1 EXCEPT !.wlong = -1]
               m == [m2 EXCEPT !.wsz = 0]
    <2>1. /\ DelCallback(c, "RDWR") /\ worker' = SignalComplete(worker, c)
          /\ conn' = [conn EXCEPT ![c].dead = TRUE, ![c].wlong = -1, ![c].wsz = 0]
          /\ errnoAgain' = FALSE /\ UNCHANGED aborted
      BY <1>1, <1>9 DEF WriteCb
    <2>2. conn' = [conn EXCEPT ![c] = [k EXCEPT !.dead = TRUE, !.wlong = -1, !.wsz = 0]]
      BY <1>2, <2>1, TypeFacts
    <2>3. m = [k EXCEPT !.dead = TRUE, !.wlong = -1, !.wsz = 0]
      OBVIOUS
    <2>4. m1 \in Conns
      BY <1>3, SetField
    <2> HIDE DEF m1
    <2>5. m2 \in Conns
      <3>1. -1 \in -1..PduSize
        OBVIOUS
      <3> QED BY <2>4, <3>1, SetField
    <2> HIDE DEF m2
    <2>6. m \in Conns
      BY <2>5, SetField
    <2> HIDE DEF m
    <2>7. /\ m.open = k.open /\ m.dead /\ m.refno = k.refno /\ m.leaked = k.leaked
          /\ m.wbuf = k.wbuf /\ m.wsz = 0
      BY <1>3, <2>3 DEF Conns
    <2>8. k.open
      BY <1>2, <1>9 DEF ConnInv, DeadInv, Watched, Opened
    <2>9. {} \in SUBSET (poll.r \ {c}) /\ poll.w \ {c} \in SUBSET Fds
      BY TypeFacts
    <2>10. conn' = [conn EXCEPT ![c] = m]
      BY <2>2, <2>3
    <2>11. UNCHANGED <<table, acceptor, latest, jobq, peerVars, aborted>> /\ errnoAgain' \in BOOLEAN
      BY <1>1, <2>1
    <2> QED BY <1>1, <1>2, <1>3, <2>1, <2>6, <2>7, <2>8, <2>9, <2>10, <2>11, DyingKeeps
  <1>a. CASE c \in callbacks /\ ~k.dead /\ k.wsz # 0 /\ ~(k.wlong < k.wsz /\ k.broken)
    <2> DEFINE m == Written(k)
    <2>1. /\ conn' = [conn EXCEPT ![c] = m]
          /\ worker' = IF m.wlong = k.wsz THEN SignalComplete(worker, c) ELSE worker
          /\ errnoAgain' = (errnoAgain \/ (k.wlong < k.wsz /\ k.sock = SockRoom))
          /\ UNCHANGED <<pollVars, aborted>>
      BY <1>1, <1>a DEF WriteCb
    <2>2. /\ k.wsz = PduSize /\ k.wlong >= 0
          /\ k.wbuf \in Workers /\ worker[k.wbuf].req \in Requests
      BY <1>2, <1>a, SenderHasRequest
    <2>3. /\ m \in Conns /\ m.wlong >= k.wlong /\ m.wsz = k.wsz
          /\ m.open = k.open /\ m.dead = k.dead /\ m.refno = k.refno
          /\ m.wbuf = k.wbuf /\ m.leaked = k.leaked /\ m.inq = k.inq
          /\ m.broken = k.broken
      BY <1>3, <2>2, WrittenType
    <2> HIDE DEF m
    <2>4. /\ conn' \in [Fds -> Conns] /\ conn'[c] = m
          /\ \A e \in Fds : e # c => conn'[e] = conn[e]
      BY <1>2, <2>1, <2>3, TypeFacts, SetConn
    <2>5. /\ WorkType'
          /\ \A u \in Workers :
               /\ worker'[u].c = worker[u].c /\ worker'[u].req = worker[u].req
               /\ \/ worker'[u].pc = worker[u].pc
                  \/ worker[u].pc = "wait_complete" /\ worker'[u].pc = "completed"
      <3>1. CASE worker' = worker
        BY <1>1, <3>1, TypeFacts DEF WorkType
      <3>2. CASE worker' = SignalComplete(worker, c)
        BY <1>1, <3>2, TypeFacts, SignalIs DEF WorkType
      <3> QED BY <2>1, <3>1, <3>2
    <2>6. TypeOK' /\ WorkInv' /\ AcceptInv' /\ FreeInv' /\ WbufInv' /\ DeadInv' /\ RoundInv'
      <3>1. {pendingChange', wake', errnoAgain'} \subseteq BOOLEAN
        BY <2>1, TypeFacts DEF pollVars, PollType
      <3>2. \A e \in Fds : conn'[e].wlong = -1 => conn'[e].wsz = 0
        <4>1. m.wlong # -1
          BY <1>3, <2>2, <2>3 DEF Conns
        <4> QED BY <2>4, <4>1, ConnFacts
      <3>3. \A e \in Fds : Kept(e) /\ (Readable(e) => Readable(e)')
        BY <2>3, <2>4 DEF Kept, Readable
      <3>4. rfds' \subseteq rfds /\ wfds' \subseteq wfds /\ callbacks' \subseteq callbacks
        BY <2>1 DEF pollVars
      <3> QED BY <1>1, <1>4, <2>4, <2>5, <3>1, <3>2, <3>3, <3>4, ServingKeeps
    <2>7. RefsCounted'
      <3>1. \A e \in Fds : conn'[e].refno = conn[e].refno /\ conn'[e].leaked = conn[e].leaked
        BY <2>3, <2>4
      <3> QED BY <1>1, <2>5, <3>1, RefsKept DEF ConnInv
    <2> QED BY <2>1, <2>6, <2>7 DEF ConnInv
  <1>b. k.dead \in BOOLEAN /\ k.broken \in BOOLEAN
    BY <1>3 DEF Conns
  <1> QED BY <1>1, <1>6, <1>7, <1>8, <1>9, <1>a, <1>b

-----------------------------------------------------------------------------
(* A dispatch thread                                                       *)

\* A step of a thread on which the poll thread is not waiting, and that is not
\* about to wait for it.
LEMMA ThreadStays ==
  ASSUME NEW t \in Workers, \A u \in Workers : u # t => worker'[u] = worker[u],
         worker[t].pc \notin Sending, worker'[t].pc \notin Sending
  PROVE  SendersStay /\ RemoversStay
  BY DEF SendersStay, RemoversStay, Sending

\* A thread that takes a job takes over its reference.
LEMMA TakeJobKeeps ==
  ASSUME ConnInv, aborted = "no", NEW t \in Workers, TakeJob(t) PROVE ConnInv'
  <1>1. /\ worker[t].pc = "take"
        /\ UNCHANGED <<conn, table, acceptor, latest, pollVars, poll, errnoAgain,
                       peerVars, aborted>>
    BY DEF TakeJob
  <1>2. worker[t].c = None
    BY <1>1, ThreadFacts
  <1>3. ASSUME WorkType', \A u \in Workers : u # t => worker'[u] = worker[u],
               worker'[t].pc \in {"wait_job", "dispatch"}, WorkInv', RefsCounted'
        PROVE  ConnInv'
    <2>1. TypeOK'
      <3>1. ConnType' /\ KeeperType' /\ PollType' /\ PeerType'
        BY <1>1, TypeFacts DEF ConnType, KeeperType, PollType, PeerType, pollVars, peerVars
      <3> QED BY <1>3, <3>1 DEF TypeOK
    <2>2. SendersStay /\ RemoversStay
      BY <1>1, <1>3, ThreadStays DEF Sending, Removal
    <2>3. RoundGoesOn /\ \A c \in Fds : Kept(c)
      BY <1>1 DEF RoundGoesOn, Kept, Readable, pollVars
    <2>4. FreeInv' /\ WbufInv' /\ DeadInv' /\ RoundInv'
      BY <2>2, <2>3, QuietKeeps
    <2>5. AcceptInv'
      BY <1>1 DEF ConnInv, AcceptInv
    <2> QED BY <1>1, <1>3, <2>1, <2>4, <2>5 DEF ConnInv
  <1>4. CASE jobq = <<>>
    <2>1. Goto(t, "wait_job") /\ jobq' = jobq
      BY <1>4 DEF TakeJob
    <2>2. "wait_job" \in WorkerPcs
      BY DEF WorkerPcs
    <2>3. /\ worker' \in [Workers -> Threads]
          /\ worker'[t].pc = "wait_job" /\ worker'[t].c = worker[t].c
          /\ worker'[t].req = worker[t].req
          /\ \A u \in Workers : u # t => worker'[u] = worker[u]
      BY <2>1, <2>2, TypeFacts, GotoIs
    <2>4. WorkType'
      BY <2>1, <2>3, TypeFacts DEF WorkType
    <2>5. WorkInv'
      BY <1>1, <2>3, WorkKept DEF ConnInv
    <2>6. RefsCounted'
      BY <1>1, <2>1, <2>3, RefsKept DEF ConnInv
    <2> QED BY <1>3, <2>3, <2>4, <2>5, <2>6
  <1>5. CASE jobq # <<>>
    <2> DEFINE j == Head(jobq)
               w == [Asleep EXCEPT !.pc = "dispatch", !.c = j.c, !.req = j.req]
    <2>1. worker' = [worker EXCEPT ![t] = w] /\ jobq' = Tail(jobq)
      BY <1>5 DEF TakeJob
    <2>2. j \in Jobs /\ Tail(jobq) \in Seq(Jobs)
      BY <1>5, TypeFacts
    <2>3. j.c \in Fds /\ j.req \in Requests
      BY <2>2 DEF Jobs
    <2>4. w \in Threads /\ w.pc = "dispatch" /\ w.c = j.c /\ w.req = j.req
      BY <2>3 DEF Threads, Asleep, WorkerPcs
    <2> HIDE DEF w
    <2>5. /\ worker' \in [Workers -> Threads] /\ worker'[t] = w
          /\ \A u \in Workers : u # t => worker'[u] = worker[u]
      BY <2>1, <2>4, TypeFacts
    <2>6. WorkType'
      BY <2>1, <2>2, <2>5 DEF WorkType
    <2>7. WorkInv'
      <3> SUFFICES ASSUME NEW u \in Workers
                   PROVE  /\ worker'[u].pc \in {"wait_job", "take"} <=> worker'[u].c = None
                          /\ worker'[u].c = None <=> worker'[u].req = None
                          /\ worker'[u].pc = "handler" => latest' # None
        BY DEF WorkInv
      <3>1. CASE u = t
        BY <2>3, <2>4, <2>5, <3>1
      <3>2. CASE u # t
        BY <1>1, <2>5, <3>2 DEF ConnInv, WorkInv
      <3> QED BY <3>1, <3>2
    <2>8. RefsCounted'
      <3> SUFFICES ASSUME NEW d \in Fds PROVE conn'[d].refno = Holders(d)'
        BY DEF RefsCounted
      <3> DEFINE e == IF j.c = d THEN 1 ELSE 0
      <3>1. Cardinality(Queued(d)) = Cardinality(Queued(d)') + e
        <4>1. Cardinality(JobsOf(jobq, d)) = Cardinality(JobsOf(Tail(jobq), d)) + e
          BY <1>5, TypeFacts, JobsTail
        <4>2. Queued(d) = JobsOf(jobq, d) /\ Queued(d)' = JobsOf(Tail(jobq), d)
          BY <2>1 DEF Queued, JobsOf
        <4> QED BY <4>1, <4>2
      <3>2. Cardinality(Queued(d)') \in Nat
        <4>1. Queued(d)' = JobsOf(Tail(jobq), d)
          BY <2>1 DEF Queued, JobsOf
        <4> QED BY <2>2, <4>1, JobsFinite
      <3>3. /\ Cardinality(Serving(d)) \in Nat /\ Cardinality(Serving(d)') \in Nat
            /\ Cardinality(Serving(d)') =
                 Cardinality(Serving(d)) - (IF worker[t].c = d THEN 1 ELSE 0) + e
        <4>1. worker'[t].c = j.c /\ \A u \in Workers \ {t} : worker'[u].c = worker[u].c
          BY <2>4, <2>5
        <4> QED BY <4>1, ServingChanges
      <3>4. worker[t].c # d
        BY <1>2
      <3> DEFINE q == Cardinality(Queued(d)')
                 s == Cardinality(Serving(d))
                 a == IF d \in table \/ acceptor.new = d THEN 1 ELSE 0
                 b == IF latest = d THEN 1 ELSE 0
                 l == conn[d].leaked
      <3>5. conn[d].refno = a + b + Cardinality(Queued(d)) + s + l
        BY DEF ConnInv, RefsCounted, Holders
      <3>6. Holders(d)' = a + b + q + Cardinality(Serving(d)') + l
        BY <1>1 DEF Holders
      <3>7. a \in Nat /\ b \in Nat /\ q \in Nat /\ s \in Nat /\ l \in Nat /\ e \in Nat
        BY <3>2, <3>3, ConnFacts DEF Conns
      <3>8. Cardinality(Queued(d)) = q + e /\ Cardinality(Serving(d)') = s - 0 + e
        BY <3>1, <3>3, <3>4
      <3>9. conn'[d].refno = conn[d].refno
        BY <1>1
      <3> HIDE DEF a, b, q, s, l, e
      <3> QED BY <3>5, <3>6, <3>7, <3>8, <3>9
    <2> QED BY <1>3, <2>4, <2>5, <2>6, <2>7, <2>8
  <1> QED BY <1>4, <1>5

\* A connection that changes in its references only.
Alike(k, m) ==
    /\ m.open = k.open /\ m.dead = k.dead /\ m.wbuf = k.wbuf /\ m.wsz = k.wsz
    /\ m.wlong = k.wlong /\ m.inq = k.inq /\ m.broken = k.broken

\* The last reference is given up by who is not in send.
LEMMA DecrefKeeps ==
  ASSUME ConnInv, NEW c \in Fds,
         \/ latest = c
         \/ c \in table
         \/ \E t \in Workers : worker[t].c = c /\ worker[t].pc \notin Sending
  PROVE  LET dn == Decref(conn, c) IN
         /\ dn \in [Fds -> Conns]
         /\ \A d \in Fds : d # c => dn[d] = conn[d]
         /\ conn[c].open
         /\ conn[c].wbuf # None => ~(conn[c].refno = 1 /\ conn[c].dead)
         /\ dn[c].refno = conn[c].refno - 1 /\ dn[c].leaked = conn[c].leaked
         /\ \/ Alike(conn[c], dn[c])
            \/ /\ dn[c] = Closed /\ conn[c].dead
               /\ \A t \in Workers : ~Works(t, c, Sending)
  <1>1. conn[c].refno \in Nat /\ conn[c].refno >= 1
    BY TypeFacts, SomeReference DEF ConnInv
  <1>2. conn[c].open
    BY <1>1 DEF ConnInv, FreeInv
  <1>3. LET dn == Decref(conn, c) IN
        /\ dn \in [Fds -> Conns]
        /\ \A d \in Fds : d # c => dn[d] = conn[d]
        /\ dn[c].refno = conn[c].refno - 1
        /\ conn[c].refno = 1 /\ conn[c].dead => dn[c] = Closed
        /\ ~(conn[c].refno = 1 /\ conn[c].dead) =>
             dn[c] = [conn[c] EXCEPT !.refno = conn[c].refno - 1]
    BY <1>1, TypeFacts, DecrefIs
  <1> DEFINE dn == Decref(conn, c)
  <1> HIDE DEF dn
  <1>4. CASE conn[c].refno = 1 /\ conn[c].dead
    <2>1. conn[c].leaked = 0 /\ \A t \in Workers : ~Works(t, c, Sending)
      BY <1>4, TypeFacts, LastHolder DEF ConnInv, Works
    <2>2. conn[c].wbuf = None
      BY <2>1, ConnFacts DEF ConnInv, WbufInv
    <2> QED BY <1>2, <1>3, <1>4, <2>1, <2>2, ClosedType
  <1>5. CASE ~(conn[c].refno = 1 /\ conn[c].dead)
    <2>1. conn[c].refno - 1 \in Nat
      BY <1>1
    <2>2. Decref(conn, c)[c] = [conn[c] EXCEPT !.refno = conn[c].refno - 1]
      BY <1>3, <1>5
    <2>3. Decref(conn, c)[c].leaked = conn[c].leaked /\ Alike(conn[c], Decref(conn, c)[c])
      BY <2>1, <2>2, ConnFacts, RefnoSet DEF Alike
    <2> QED BY <1>2, <1>3, <1>5, <2>3
  <1> QED BY <1>4, <1>5

\* References move with those who hold them.
InTable(d) == IF d \in table \/ acceptor.new = d THEN 1 ELSE 0
IsLatest(d) == IF latest = d THEN 1 ELSE 0
IsOn(t, d) == IF worker[t].c = d THEN 1 ELSE 0

\* A reference a thread takes, drops or passes on is counted.
LEMMA RefsMoved ==
  ASSUME ConnInv, NEW t \in Workers, \A u \in Workers \ {t} : worker'[u].c = worker[u].c,
         UNCHANGED <<jobq, table, acceptor>>,
         \A d \in Fds :
           /\ conn'[d].refno \in Int /\ conn'[d].leaked \in Int
           /\ conn'[d].refno - conn'[d].leaked =
                conn[d].refno - conn[d].leaked + (IsLatest(d)' - IsLatest(d))
                  + (IsOn(t, d)' - IsOn(t, d))
  PROVE  RefsCounted'
  <1> SUFFICES ASSUME NEW d \in Fds PROVE conn'[d].refno = Holders(d)'
    BY DEF RefsCounted
  <1> DEFINE q == Cardinality(Queued(d))
             s == Cardinality(Serving(d))
             ss == Cardinality(Serving(d)')
             l == conn[d].leaked
             ll == conn'[d].leaked
             a == InTable(d)
             b == IsLatest(d)
             bb == IsLatest(d)'
             o == IsOn(t, d)
             oo == IsOn(t, d)'
  <1>1. conn[d].refno = a + b + q + s + l
    BY DEF ConnInv, RefsCounted, Holders, InTable, IsLatest
  <1>2. conn'[d].refno - ll = conn[d].refno - l + (bb - b) + (oo - o)
    OBVIOUS
  <1>3. ss = s - o + oo
    <2> DEFINE f == worker'[t].c
    <2>1. worker'[t].c = f /\ \A u \in Workers \ {t} : worker'[u].c = worker[u].c
      OBVIOUS
    <2> HIDE DEF f
    <2>2. ss = s - (IF worker[t].c = d THEN 1 ELSE 0) + (IF f = d THEN 1 ELSE 0)
      BY <2>1, ServingChanges
    <2> QED BY <2>2 DEF IsOn, f
  <1>4. Holders(d)' = a + bb + q + ss + ll
    <2>1. Queued(d)' = Queued(d)
      BY DEF Queued
    <2> QED BY <2>1 DEF Holders, InTable, IsLatest
  <1>5. /\ a \in Nat /\ b \in Nat /\ bb \in Nat /\ o \in Nat /\ oo \in Nat
        /\ l \in Nat /\ ll \in Int /\ conn'[d].refno \in Int /\ conn[d].refno \in Nat
    <2>1. l \in Nat /\ conn[d].refno \in Nat
      BY ConnFacts DEF Conns
    <2>2. a \in Nat /\ b \in Nat /\ bb \in Nat /\ o \in Nat /\ oo \in Nat
      BY DEF InTable, IsLatest, IsOn
    <2> QED BY <2>1, <2>2
  <1>6. q \in Nat /\ s \in Nat
    BY TypeFacts, CountsAreNumbers
  <1> HIDE DEF a, b, bb, q, s, ss, l, ll, o, oo
  <1> QED BY <1>1, <1>2, <1>3, <1>4, <1>5, <1>6

\* A step of a thread outside send, which moves references and deletes what has
\* none left.
LEMMA ThreadKeeps ==
  ASSUME ConnInv, NEW t \in Workers, WorkType', WorkInv', RefsCounted',
         \A u \in Workers : u # t => worker'[u] = worker[u],
         worker[t].pc \notin Sending, worker'[t].pc \notin Sending,
         conn' \in [Fds -> Conns],
         \A d \in Fds :
           \/ Gone(d)
           \/ Alike(conn[d], conn'[d]) /\ (conn[d].open \/ conn'[d].refno = conn[d].refno),
         latest' \in Fds \cup {None},
         UNCHANGED <<table, acceptor, pollVars, poll, errnoAgain, peerVars>>,
         aborted' \in {"no", "write_cb"}
  PROVE  ConnInv'
  <1>1. \A d \in Fds : Kept(d) \/ Gone(d)
    BY DEF Kept, Alike
  <1>2. TypeOK'
    <2>1. ConnType'
      <3>1. ASSUME NEW d \in Fds, conn'[d].wlong = -1 PROVE conn'[d].wsz = 0
        <4>1. conn[d].wlong = -1 => conn[d].wsz = 0
          BY ConnFacts
        <4> QED BY <3>1, <4>1, ClosedType DEF Gone, Alike
      <3> QED BY <3>1 DEF ConnType
    <2>2. KeeperType' /\ PollType' /\ PeerType'
      BY TypeFacts DEF KeeperType, PollType, PeerType, pollVars, peerVars
    <2> QED BY <2>1, <2>2 DEF TypeOK
  <1>3. SendersStay /\ RemoversStay
    BY ThreadStays
  <1>4. RoundGoesOn
    <2>1. ASSUME NEW d \in Fds, poll.pc = "serve", d \in poll.r, Readable(d)
          PROVE  Readable(d)'
      <3>1. ~Gone(d)
        BY <2>1, GoneFree DEF ConnInv
      <3> QED BY <2>1, <3>1 DEF Alike, Readable
    <2> QED BY <2>1 DEF RoundGoesOn, pollVars
  <1>5. FreeInv' /\ WbufInv' /\ DeadInv' /\ RoundInv'
    BY <1>1, <1>3, <1>4, QuietKeeps
  <1>6. AcceptInv'
    BY DEF ConnInv, AcceptInv
  <1> QED BY <1>2, <1>5, <1>6 DEF ConnInv

\* The state of a request decides where its thread goes, and whether its
\* connection becomes the client's latest, in place of an older one.
LEMMA DispatchKeeps ==
  ASSUME ConnInv, aborted = "no", NEW t \in Workers, Dispatch(t) PROVE ConnInv'
  <1>0. PICK c : c = worker[t].c
    OBVIOUS
  <1> DEFINE older == latest # None /\ conn[latest].createTime < conn[c].createTime
  <1>1. /\ worker[t].pc = "dispatch"
        /\ UNCHANGED <<table, acceptor, pollVars, poll, errnoAgain, jobq, peerVars, aborted>>
    BY DEF Dispatch
  <1>2. c \in Fds /\ conn[c].refno \in Nat /\ conn[c].refno >= 1 /\ conn[c].open
    <2>1. c \in Fds
      BY <1>0, <1>1, ThreadFacts
    <2>2. conn[c].refno \in Nat /\ conn[c].refno >= 1
      BY <1>0, <2>1, TypeFacts, SomeReference DEF ConnInv
    <2> QED BY <2>1, <2>2 DEF ConnInv, FreeInv
  <1>3. latest \in Fds \cup {None}
    BY TypeFacts DEF KeeperType
  <1>4. ASSUME worker' \in [Workers -> Threads], worker'[t].pc \in {"send", "handler", "sent"},
               worker'[t].c = c, worker'[t].req = worker[t].req,
               \A u \in Workers : u # t => worker'[u] = worker[u],
               conn' \in [Fds -> Conns],
               \A d \in Fds :
                 /\ conn'[d].leaked = conn[d].leaked
                 /\ conn'[d].refno = conn[d].refno + (IsLatest(d)' - IsLatest(d))
                 /\ \/ Gone(d)
                    \/ Alike(conn[d], conn'[d])
                         /\ (conn[d].open \/ conn'[d].refno = conn[d].refno),
               latest' \in Fds \cup {None},
               worker'[t].pc = "handler" \/ latest # None => latest' # None
        PROVE  ConnInv'
    <2>1. WorkType'
      BY <1>1, <1>4, TypeFacts DEF WorkType
    <2>2. WorkInv'
      <3> SUFFICES ASSUME NEW u \in Workers
                   PROVE  /\ worker'[u].pc \in {"wait_job", "take"} <=> worker'[u].c = None
                          /\ worker'[u].c = None <=> worker'[u].req = None
                          /\ worker'[u].pc = "handler" => latest' # None
        BY DEF WorkInv
      <3>1. CASE u = t
        BY <1>0, <1>1, <1>4, <3>1, ThreadFacts
      <3>2. CASE u # t
        BY <1>4, <3>2 DEF ConnInv, WorkInv
      <3> QED BY <3>1, <3>2
    <2>3. RefsCounted'
      <3>1. \A u \in Workers \ {t} : worker'[u].c = worker[u].c
        BY <1>4
      <3>2. ASSUME NEW d \in Fds
            PROVE  /\ conn'[d].refno \in Int /\ conn'[d].leaked \in Int
                   /\ conn'[d].refno - conn'[d].leaked =
                        conn[d].refno - conn[d].leaked + (IsLatest(d)' - IsLatest(d))
                          + (IsOn(t, d)' - IsOn(t, d))
        <4>1. IsOn(t, d)' - IsOn(t, d) = 0
          BY <1>0, <1>4 DEF IsOn
        <4>2. conn'[d].refno \in Nat /\ conn'[d].leaked \in Nat
          BY <1>4 DEF Conns
        <4>3. conn[d].refno \in Nat /\ conn[d].leaked \in Nat
          BY ConnFacts DEF Conns
        <4>4. IsLatest(d)' - IsLatest(d) \in Int
          BY DEF IsLatest
        <4> HIDE DEF IsLatest, IsOn
        <4> QED BY <1>4, <4>1, <4>2, <4>3, <4>4
      <3> QED BY <1>1, <3>1, <3>2, RefsMoved
    <2>4. worker[t].pc \notin Sending /\ worker'[t].pc \notin Sending
      BY <1>1, <1>4 DEF Sending, Removal
    <2> QED BY <1>1, <1>4, <2>1, <2>2, <2>3, <2>4, ThreadKeeps
  <1>5. CASE UNCHANGED <<conn, latest>> /\ worker' = [worker EXCEPT ![t].pc = "send", ![t].leaks = TRUE]
    <2>1. /\ worker' \in [Workers -> Threads] /\ worker'[t].pc = "send"
          /\ worker'[t].c = c /\ worker'[t].req = worker[t].req
          /\ \A u \in Workers : u # t => worker'[u] = worker[u]
      <3> DEFINE w == [worker[t] EXCEPT !.pc = "send", !.leaks = TRUE]
      <3>1. worker[t] \in Threads
        BY TypeFacts
      <3>2. w \in Threads /\ w.pc = "send" /\ w.c = worker[t].c /\ w.req = worker[t].req
        BY <3>1 DEF Threads, WorkerPcs
      <3>3. worker' = [worker EXCEPT ![t] = w]
        BY <1>5, TypeFacts
      <3> HIDE DEF w
      <3> QED BY <1>0, <3>2, <3>3, TypeFacts
    <2>2. \A d \in Fds : /\ conn'[d].leaked = conn[d].leaked
                         /\ conn'[d].refno = conn[d].refno + (IsLatest(d)' - IsLatest(d))
                         /\ Alike(conn[d], conn'[d]) /\ conn'[d].refno = conn[d].refno
      BY <1>5, ConnFacts DEF IsLatest, Alike
    <2> QED BY <1>3, <1>4, <1>5, <2>1, <2>2, TypeFacts
  <1>6. ASSUME NEW kind \in KindsOf[worker[t].req] \ {"oldsrv"}, Goto(t, AfterLookup(kind)),
               IF latest = None \/ older
               THEN /\ conn' = IF older THEN Incref(Decref(conn, latest), c) ELSE Incref(conn, c)
                    /\ latest' = c
               ELSE UNCHANGED <<conn, latest>>
        PROVE  ConnInv'
    <2>1. /\ worker' \in [Workers -> Threads] /\ worker'[t].pc \in {"send", "handler", "sent"}
          /\ worker'[t].c = c /\ worker'[t].req = worker[t].req
          /\ \A u \in Workers : u # t => worker'[u] = worker[u]
      <3>1. kind \in {"new", "resend", "inprogress"}
        <4>1. worker[t].req \in Requests
          BY <1>1, ThreadFacts
        <4> QED BY <1>6, <4>1 DEF Kinds
      <3>2. AfterLookup(kind) \in {"send", "handler", "sent"}
        BY <3>1 DEF AfterLookup
      <3>3. AfterLookup(kind) \in WorkerPcs
        BY <3>2 DEF WorkerPcs
      <3> QED BY <1>0, <1>6, <3>2, <3>3, TypeFacts, GotoIs
    <2>2. CASE ~(latest = None \/ older)
      <3>1. UNCHANGED <<conn, latest>>
        BY <1>6, <2>2
      <3>2. \A d \in Fds : /\ conn'[d].leaked = conn[d].leaked
                           /\ conn'[d].refno = conn[d].refno + (IsLatest(d)' - IsLatest(d))
                           /\ Alike(conn[d], conn'[d]) /\ conn'[d].refno = conn[d].refno
        <4> TAKE d \in Fds
        <4>1. conn'[d] = conn[d] /\ conn[d].refno \in Nat
          BY <3>1, ConnFacts DEF Conns
        <4>2. IsLatest(d)' - IsLatest(d) = 0
          BY <3>1 DEF IsLatest
        <4> QED BY <4>1, <4>2 DEF Alike
      <3> QED BY <1>3, <1>4, <2>1, <2>2, <3>1, <3>2, TypeFacts
    <2>3. CASE latest = None
      <3>1. conn' = Incref(conn, c) /\ latest' = c
        BY <1>6, <2>3
      <3>2. /\ conn' \in [Fds -> Conns]
            /\ \A d \in Fds : d # c => conn'[d] = conn[d]
            /\ conn'[c] = [conn[c] EXCEPT !.refno = conn[c].refno + 1]
        <4>1. conn \in [Fds -> Conns]
          BY TypeFacts
        <4>2. LET dn == Incref(conn, c) IN
              /\ dn \in [Fds -> Conns]
              /\ \A d \in Fds : d # c => dn[d] = conn[d]
              /\ dn[c] = [conn[c] EXCEPT !.refno = conn[c].refno + 1]
          BY <1>2, <4>1, IncrefIs
        <4> QED BY <3>1, <4>2
      <3>3. Alike(conn[c], conn'[c]) /\ conn'[c].refno = conn[c].refno + 1
              /\ conn'[c].leaked = conn[c].leaked
        <4>1. conn[c].refno + 1 \in Nat /\ conn[c] \in Conns
          BY <1>2, ConnFacts
        <4> QED BY <3>2, <4>1, RefnoSet DEF Alike
      <3>4. ASSUME NEW d \in Fds
            PROVE  /\ conn'[d].leaked = conn[d].leaked
                   /\ conn'[d].refno = conn[d].refno + (IsLatest(d)' - IsLatest(d))
                   /\ Alike(conn[d], conn'[d])
                   /\ conn[d].open \/ conn'[d].refno = conn[d].refno
        <4>1. CASE d = c
          <5>1. IsLatest(c) = 0 /\ IsLatest(c)' = 1
            BY <1>2, <2>3, <3>1 DEF IsLatest
          <5> QED BY <1>2, <3>3, <4>1, <5>1
        <4>2. CASE d # c
          <5>1. IsLatest(d) = 0 /\ IsLatest(d)' = 0
            BY <2>3, <3>1, <4>2 DEF IsLatest
          <5> QED BY <3>2, <4>2, <5>1, ConnFacts DEF Alike
        <4> QED BY <4>1, <4>2
      <3> QED BY <1>2, <1>4, <2>1, <3>1, <3>2, <3>4
    <2>4. CASE older
      <3> DEFINE dn == Decref(conn, latest)
      <3>1. conn' = Incref(dn, c) /\ latest' = c
        BY <1>6, <2>4
      <3>2. latest \in Fds /\ latest # c
        <4>1. conn[c].createTime \in Nat
          BY <1>2, ConnFacts DEF Conns
        <4> QED BY <1>3, <2>4, <4>1
      <3>3. /\ dn \in [Fds -> Conns]
            /\ \A d \in Fds : d # latest => dn[d] = conn[d]
            /\ conn[latest].open
            /\ dn[latest].refno = conn[latest].refno - 1
            /\ dn[latest].leaked = conn[latest].leaked
            /\ \/ Alike(conn[latest], dn[latest])
               \/ /\ dn[latest] = Closed /\ conn[latest].dead
                  /\ \A u \in Workers : ~Works(u, latest, Sending)
        BY <3>2, DecrefKeeps
      <3> HIDE DEF dn
      <3>4. /\ conn' \in [Fds -> Conns]
            /\ \A d \in Fds : d # c => conn'[d] = dn[d]
            /\ conn'[c] = [dn[c] EXCEPT !.refno = dn[c].refno + 1]
        BY <1>2, <3>1, <3>3, IncrefIs
      <3>5. dn[c] = conn[c]
        BY <1>2, <3>2, <3>3
      <3>6. Alike(conn[c], conn'[c]) /\ conn'[c].refno = conn[c].refno + 1
              /\ conn'[c].leaked = conn[c].leaked
        <4>1. conn[c].refno + 1 \in Nat /\ conn[c] \in Conns
          BY <1>2, ConnFacts
        <4>2. conn'[c] = [conn[c] EXCEPT !.refno = conn[c].refno + 1]
          BY <3>4, <3>5
        <4> QED BY <4>1, <4>2, RefnoSet DEF Alike
      <3>7. ASSUME NEW d \in Fds
            PROVE  /\ conn'[d].leaked = conn[d].leaked
                   /\ conn'[d].refno = conn[d].refno + (IsLatest(d)' - IsLatest(d))
                   /\ \/ Gone(d)
                      \/ Alike(conn[d], conn'[d])
                           /\ (conn[d].open \/ conn'[d].refno = conn[d].refno)
        <4>1. CASE d = c
          <5>1. IsLatest(c) = 0 /\ IsLatest(c)' = 1
            BY <3>1, <3>2 DEF IsLatest
          <5> QED BY <1>2, <3>6, <4>1, <5>1
        <4>2. CASE d = latest
          <5>1. IsLatest(d) = 1 /\ IsLatest(d)' = 0
            BY <3>1, <3>2, <4>2 DEF IsLatest
          <5>2. conn'[d] = dn[d]
            BY <3>2, <3>4, <4>2
          <5>3. conn[d].refno \in Nat
            BY ConnFacts
          <5> QED BY <3>3, <4>2, <5>1, <5>2, <5>3 DEF Gone
        <4>3. CASE d # c /\ d # latest
          <5>1. IsLatest(d) = 0 /\ IsLatest(d)' = 0
            BY <3>1, <4>3 DEF IsLatest
          <5>2. conn'[d] = conn[d]
            BY <3>3, <3>4, <4>3
          <5> QED BY <5>1, <5>2, ConnFacts DEF Alike
        <4> QED BY <4>1, <4>2, <4>3
      <3> QED BY <1>2, <1>4, <2>1, <3>1, <3>4, <3>7
    <2> QED BY <2>2, <2>3, <2>4
  <1> QED BY <1>0, <1>5, <1>6 DEF Dispatch

\* A thread that leaves a dead connection takes a reference to the latest one.
LEMMA PickConnectionKeeps ==
  ASSUME ConnInv, aborted = "no", NEW t \in Workers, PickConnection(t) PROVE ConnInv'
  <1>0. PICK c : c = worker[t].c
    OBVIOUS
  <1>1. /\ worker[t].pc = "handler"
        /\ UNCHANGED <<table, acceptor, latest, pollVars, poll, errnoAgain, jobq,
                       peerVars, aborted>>
    BY DEF PickConnection
  <1>2. c \in Fds /\ latest \in Fds
    <2>1. latest \in Fds \cup {None} /\ latest # None
      BY <1>1, TypeFacts DEF KeeperType, ConnInv, WorkInv
    <2> QED BY <1>0, <1>1, <2>1, ThreadFacts
  <1>3. conn[latest].open /\ conn[latest].refno \in Nat
    <2>1. conn[latest].refno \in Nat /\ conn[latest].refno >= 1
      BY <1>2, TypeFacts, SomeReference DEF ConnInv
    <2> QED BY <1>2, <2>1 DEF ConnInv, FreeInv
  <1>4. ASSUME worker' \in [Workers -> Threads], worker'[t].pc = "send",
               worker'[t].c \in Fds, worker'[t].req = worker[t].req,
               \A u \in Workers : u # t => worker'[u] = worker[u]
        PROVE  /\ WorkType' /\ WorkInv'
               /\ worker[t].pc \notin Sending /\ worker'[t].pc \notin Sending
    <2>1. WorkType'
      BY <1>1, <1>4, TypeFacts DEF WorkType
    <2>2. WorkInv'
      <3> SUFFICES ASSUME NEW u \in Workers
                   PROVE  /\ worker'[u].pc \in {"wait_job", "take"} <=> worker'[u].c = None
                          /\ worker'[u].c = None <=> worker'[u].req = None
                          /\ worker'[u].pc = "handler" => latest' # None
        BY DEF WorkInv
      <3>1. CASE u = t
        BY <1>1, <1>4, <3>1, ThreadFacts
      <3>2. CASE u # t
        BY <1>1, <1>4, <3>2 DEF ConnInv, WorkInv
      <3> QED BY <3>1, <3>2
    <2> QED BY <1>1, <1>4, <2>1, <2>2 DEF Sending, Removal
  <1>5. CASE ~(conn[c].dead /\ c # latest)
    <2>1. Goto(t, "send") /\ conn' = conn
      BY <1>0, <1>5 DEF PickConnection
    <2>2. "send" \in WorkerPcs
      BY DEF WorkerPcs
    <2>3. /\ worker' \in [Workers -> Threads] /\ worker'[t].pc = "send"
          /\ worker'[t].c = worker[t].c /\ worker'[t].req = worker[t].req
          /\ \A u \in Workers : u # t => worker'[u] = worker[u]
      BY <2>1, <2>2, TypeFacts, GotoIs
    <2>4. /\ WorkType' /\ WorkInv'
          /\ worker[t].pc \notin Sending /\ worker'[t].pc \notin Sending
      BY <1>0, <1>2, <1>4, <2>3
    <2>5. RefsCounted'
      BY <1>1, <2>1, <2>3, RefsKept DEF ConnInv
    <2>6. \A d \in Fds : Alike(conn[d], conn'[d]) /\ conn'[d].refno = conn[d].refno
      BY <2>1 DEF Alike
    <2> QED BY <1>1, <1>2, <2>1, <2>3, <2>4, <2>5, <2>6, TypeFacts, ThreadKeeps
  <1>6. CASE conn[c].dead /\ c # latest
    <2> DEFINE dn == Decref(conn, c)
    <2>1. /\ conn' = Incref(dn, latest)
          /\ worker' = [worker EXCEPT ![t].pc = "send", ![t].c = latest]
      BY <1>0, <1>6 DEF PickConnection
    <2>2. /\ worker' \in [Workers -> Threads] /\ worker'[t].pc = "send"
          /\ worker'[t].c = latest /\ worker'[t].req = worker[t].req
          /\ \A u \in Workers : u # t => worker'[u] = worker[u]
      <3> DEFINE w == [worker[t] EXCEPT !.pc = "send", !.c = latest]
      <3>1. worker[t] \in Threads
        BY TypeFacts
      <3>2. w \in Threads /\ w.pc = "send" /\ w.c = latest /\ w.req = worker[t].req
        BY <1>2, <3>1 DEF Threads, WorkerPcs
      <3>3. worker' = [worker EXCEPT ![t] = w]
        BY <2>1, TypeFacts
      <3> HIDE DEF w
      <3> QED BY <3>2, <3>3, TypeFacts
    <2>3. /\ WorkType' /\ WorkInv'
          /\ worker[t].pc \notin Sending /\ worker'[t].pc \notin Sending
      BY <1>2, <1>4, <2>2
    <2>4. /\ dn \in [Fds -> Conns]
          /\ \A d \in Fds : d # c => dn[d] = conn[d]
          /\ conn[c].open
          /\ dn[c].refno = conn[c].refno - 1
          /\ dn[c].leaked = conn[c].leaked
          /\ \/ Alike(conn[c], dn[c])
             \/ /\ dn[c] = Closed /\ conn[c].dead
                /\ \A u \in Workers : ~Works(u, c, Sending)
      BY <1>0, <1>2, <2>3, DecrefKeeps
    <2> HIDE DEF dn
    <2>5. /\ conn' \in [Fds -> Conns]
          /\ \A d \in Fds : d # latest => conn'[d] = dn[d]
          /\ conn'[latest] = [dn[latest] EXCEPT !.refno = dn[latest].refno + 1]
      BY <1>2, <2>1, <2>4, IncrefIs
    <2>6. dn[latest] = conn[latest]
      BY <1>2, <1>6, <2>4
    <2>7. /\ Alike(conn[latest], conn'[latest])
          /\ conn'[latest].refno = conn[latest].refno + 1
          /\ conn'[latest].leaked = conn[latest].leaked
      <3>1. conn[latest].refno + 1 \in Nat /\ conn[latest] \in Conns
        BY <1>2, ConnFacts
      <3>2. conn'[latest] = [conn[latest] EXCEPT !.refno = conn[latest].refno + 1]
        BY <2>5, <2>6
      <3> QED BY <3>1, <3>2, RefnoSet DEF Alike
    <2>8. ASSUME NEW d \in Fds
          PROVE  /\ conn'[d].leaked = conn[d].leaked
                 /\ conn'[d].refno = conn[d].refno + (IsOn(t, d)' - IsOn(t, d))
                 /\ \/ Gone(d)
                    \/ Alike(conn[d], conn'[d])
                         /\ (conn[d].open \/ conn'[d].refno = conn[d].refno)
      <3>1. IsOn(t, d)' = (IF d = latest THEN 1 ELSE 0) /\ IsOn(t, d) = (IF d = c THEN 1 ELSE 0)
        BY <1>0, <2>2 DEF IsOn
      <3>2. CASE d = latest
        BY <1>3, <1>6, <2>7, <3>1, <3>2
      <3>3. CASE d = c
        <4>1. conn'[d] = dn[d]
          BY <1>6, <2>5, <3>3
        <4>2. conn[d].refno \in Nat
          BY ConnFacts
        <4> QED BY <1>6, <2>4, <3>1, <3>3, <4>1, <4>2 DEF Gone
      <3>4. CASE d # latest /\ d # c
        <4>1. conn'[d] = conn[d]
          BY <2>4, <2>5, <3>4
        <4>2. conn[d].refno \in Nat /\ Alike(conn[d], conn'[d])
          BY <4>1, ConnFacts DEF Alike
        <4>3. IsOn(t, d)' = 0 /\ IsOn(t, d) = 0
          BY <3>1, <3>4
        <4> HIDE DEF IsOn
        <4> QED BY <4>1, <4>2, <4>3
      <3> QED BY <3>2, <3>3, <3>4
    <2>9. RefsCounted'
      <3>1. \A u \in Workers \ {t} : worker'[u].c = worker[u].c
        BY <2>2
      <3>2. ASSUME NEW d \in Fds
            PROVE  /\ conn'[d].refno \in Int /\ conn'[d].leaked \in Int
                   /\ conn'[d].refno - conn'[d].leaked =
                        conn[d].refno - conn[d].leaked + (IsLatest(d)' - IsLatest(d))
                          + (IsOn(t, d)' - IsOn(t, d))
        <4>1. IsLatest(d)' - IsLatest(d) = 0
          BY <1>1 DEF IsLatest
        <4>2. conn'[d].refno \in Nat /\ conn'[d].leaked \in Nat
          BY <2>5 DEF Conns
        <4>3. conn[d].refno \in Nat /\ conn[d].leaked \in Nat
          BY ConnFacts DEF Conns
        <4>4. IsOn(t, d)' - IsOn(t, d) \in Int
          BY DEF IsOn
        <4> HIDE DEF IsLatest, IsOn
        <4> QED BY <2>8, <4>1, <4>2, <4>3, <4>4
      <3> QED BY <1>1, <3>1, <3>2, RefsMoved
    <2> QED BY <1>1, <1>2, <2>2, <2>3, <2>5, <2>8, <2>9, ThreadKeeps
  <1> QED BY <1>5, <1>6

\* dispatch returns, and with it goes its reference, unless it is leaked.
LEMMA ReturnKeeps ==
  ASSUME ConnInv, aborted = "no", NEW t \in Workers, Return(t) PROVE ConnInv'
  <1>0. PICK c : c = worker[t].c
    OBVIOUS
  <1>1. /\ worker[t].pc = "sent"
        /\ worker' = [worker EXCEPT ![t] = [Asleep EXCEPT !.pc = "take"]]
        /\ conn' = IF worker[t].leaks THEN [conn EXCEPT ![c].leaked = @ + 1]
                   ELSE Decref(conn, c)
        /\ aborted' = IF ~worker[t].leaks /\ DestructorFails(c) THEN "destructor" ELSE aborted
        /\ UNCHANGED <<table, acceptor, latest, pollVars, poll, errnoAgain, jobq, peerVars>>
    BY <1>0 DEF Return
  <1>2. c \in Fds
    BY <1>0, <1>1, ThreadFacts
  <1>3. worker[t].pc \notin Sending
    BY <1>1 DEF Sending, Removal
  <1>4. /\ worker' \in [Workers -> Threads] /\ worker'[t].pc = "take"
        /\ worker'[t].c = None /\ worker'[t].req = None
        /\ \A u \in Workers : u # t => worker'[u] = worker[u]
    <2> DEFINE w == [Asleep EXCEPT !.pc = "take"]
    <2>1. w \in Threads /\ w.pc = "take" /\ w.c = None /\ w.req = None
      BY DEF Asleep, Threads, WorkerPcs
    <2> HIDE DEF w
    <2> QED BY <1>1, <2>1, TypeFacts DEF w
  <1>5. WorkType' /\ worker'[t].pc \notin Sending
    BY <1>1, <1>4, TypeFacts DEF WorkType, Sending, Removal
  <1>6. WorkInv'
    <2> SUFFICES ASSUME NEW u \in Workers
                 PROVE  /\ worker'[u].pc \in {"wait_job", "take"} <=> worker'[u].c = None
                        /\ worker'[u].c = None <=> worker'[u].req = None
                        /\ worker'[u].pc = "handler" => latest' # None
      BY DEF WorkInv
    <2>1. CASE u = t
      BY <1>4, <2>1
    <2>2. CASE u # t
      BY <1>1, <1>4, <2>2 DEF ConnInv, WorkInv
    <2> QED BY <2>1, <2>2
  <1>7. \A d \in Fds : IsOn(t, d)' = 0 /\ IsOn(t, d) = (IF d = c THEN 1 ELSE 0)
    BY <1>0, <1>4 DEF IsOn
  <1>8. ASSUME conn' \in [Fds -> Conns],
               \A d \in Fds :
                 /\ \/ Gone(d)
                    \/ Alike(conn[d], conn'[d])
                         /\ (conn[d].open \/ conn'[d].refno = conn[d].refno)
                 /\ conn'[d].refno - conn'[d].leaked =
                      conn[d].refno - conn[d].leaked - (IF d = c THEN 1 ELSE 0),
               aborted' = "no"
        PROVE  ConnInv'
    <2>1. RefsCounted'
      <3>1. \A u \in Workers \ {t} : worker'[u].c = worker[u].c
        BY <1>4
      <3>2. ASSUME NEW d \in Fds
            PROVE  /\ conn'[d].refno \in Int /\ conn'[d].leaked \in Int
                   /\ conn'[d].refno - conn'[d].leaked =
                        conn[d].refno - conn[d].leaked + (IsLatest(d)' - IsLatest(d))
                          + (IsOn(t, d)' - IsOn(t, d))
        <4>1. IsLatest(d)' - IsLatest(d) = 0
          BY <1>1 DEF IsLatest
        <4>2. conn'[d].refno \in Nat /\ conn'[d].leaked \in Nat
          BY <1>8 DEF Conns
        <4>3. conn[d].refno \in Nat /\ conn[d].leaked \in Nat
          BY ConnFacts DEF Conns
        <4>4. IsOn(t, d)' - IsOn(t, d) = 0 - (IF d = c THEN 1 ELSE 0)
          BY <1>7
        <4> HIDE DEF IsLatest, IsOn
        <4> QED BY <1>8, <4>1, <4>2, <4>3, <4>4
      <3> QED BY <1>1, <3>1, <3>2, RefsMoved
    <2>2. latest' \in Fds \cup {None}
      BY <1>1, TypeFacts DEF KeeperType
    <2> QED BY <1>1, <1>3, <1>4, <1>5, <1>6, <1>8, <2>1, <2>2, ThreadKeeps
  <1>9. CASE worker[t].leaks
    <2> DEFINE n == conn[c].leaked + 1
               k == [conn[c] EXCEPT !.leaked = n]
    <2>1. n \in Nat /\ conn[c] \in Conns
      BY <1>2, ConnFacts DEF Conns
    <2>2. conn' = [conn EXCEPT ![c] = k]
      BY <1>1, <1>2, <1>9, TypeFacts
    <2> HIDE DEF n
    <2>3. k \in Conns /\ k.leaked = n /\ k.refno = conn[c].refno /\ Alike(conn[c], k)
      <3>1. k \in Conns
        BY <2>1, SetField
      <3>2. k.leaked = n /\ k.refno = conn[c].refno /\ Alike(conn[c], k)
        BY <2>1 DEF Alike, Conns
      <3> QED BY <3>1, <3>2
    <2> HIDE DEF k
    <2>4. /\ conn' \in [Fds -> Conns] /\ conn'[c] = k
          /\ \A d \in Fds : d # c => conn'[d] = conn[d]
      BY <1>2, <2>2, <2>3, TypeFacts, SetConn
    <2>5. ASSUME NEW d \in Fds
          PROVE  /\ Alike(conn[d], conn'[d]) /\ conn'[d].refno = conn[d].refno
                 /\ conn'[d].refno - conn'[d].leaked =
                      conn[d].refno - conn[d].leaked - (IF d = c THEN 1 ELSE 0)
      <3>1. conn[d].refno \in Nat /\ conn[d].leaked \in Nat
        BY ConnFacts DEF Conns
      <3>2. CASE d = c
        BY <2>3, <2>4, <3>1, <3>2 DEF n
      <3>3. CASE d # c
        BY <2>4, <3>1, <3>3 DEF Alike
      <3> QED BY <3>2, <3>3
    <2> QED BY <1>1, <1>8, <1>9, <2>4, <2>5
  <1>a. CASE ~worker[t].leaks
    <2> DEFINE dn == Decref(conn, c)
    <2>1. /\ dn \in [Fds -> Conns]
          /\ \A d \in Fds : d # c => dn[d] = conn[d]
          /\ conn[c].open
          /\ conn[c].wbuf # None => ~(conn[c].refno = 1 /\ conn[c].dead)
          /\ dn[c].refno = conn[c].refno - 1
          /\ dn[c].leaked = conn[c].leaked
          /\ \/ Alike(conn[c], dn[c])
             \/ /\ dn[c] = Closed /\ conn[c].dead
                /\ \A u \in Workers : ~Works(u, c, Sending)
      BY <1>0, <1>2, <1>3, DecrefKeeps
    <2>2. conn' = dn
      BY <1>1, <1>a
    <2> HIDE DEF dn
    <2>3. ASSUME NEW d \in Fds
          PROVE  /\ \/ Gone(d)
                    \/ Alike(conn[d], conn'[d])
                         /\ (conn[d].open \/ conn'[d].refno = conn[d].refno)
                 /\ conn'[d].refno - conn'[d].leaked =
                      conn[d].refno - conn[d].leaked - (IF d = c THEN 1 ELSE 0)
      <3>1. conn[d].refno \in Nat /\ conn[d].leaked \in Nat
        BY ConnFacts DEF Conns
      <3>2. CASE d = c
        BY <2>1, <2>2, <3>1, <3>2 DEF Gone
      <3>3. CASE d # c
        BY <2>1, <2>2, <3>1, <3>3 DEF Alike
      <3> QED BY <3>2, <3>3
    <2>4. aborted' = "no"
      BY <1>1, <2>1 DEF DestructorFails
    <2> QED BY <1>8, <2>1, <2>2, <2>3, <2>4
  <1> QED BY <1>9, <1>a

-----------------------------------------------------------------------------
(* The way through send                                                    *)

\* A step of a sender, and what it means for all but the state of connections.
SenderStep(t) ==
    /\ worker' \in [Workers -> Threads]
    /\ worker[t].pc \in {"send"} \cup Sending
    /\ worker'[t].pc \in {"wait_send", "sent"} \cup Sending
    /\ worker'[t].c = worker[t].c /\ worker'[t].req = worker[t].req
    /\ \A u \in Workers : u # t =>
         /\ worker'[u].c = worker[u].c /\ worker'[u].req = worker[u].req
         /\ \/ worker'[u].pc = worker[u].pc
            \/ worker[u].pc = "wait_send" /\ worker'[u].pc = "send"
    /\ UNCHANGED <<table, acceptor, latest, poll, errnoAgain, jobq, peerVars>>
    /\ rfds' \subseteq Fds /\ wfds' \subseteq Fds /\ callbacks' \subseteq Fds
    /\ {pendingChange', wake'} \subseteq BOOLEAN

\* A step of a sender leaves the references alone.
LEMMA SenderKeeps ==
  ASSUME ConnInv, NEW t \in Workers, NEW c \in Fds, SenderStep(t), NEW m \in Conns,
         conn' \in [Fds -> Conns], conn'[c] = m,
         \A d \in Fds : d # c => conn'[d] = conn[d], m.wlong = -1 => m.wsz = 0,
         m.open, m.refno = conn[c].refno, m.leaked = conn[c].leaked
  PROVE  /\ TypeOK' /\ WorkInv' /\ AcceptInv' /\ FreeInv' /\ RefsCounted'
  <1> USE DEF SenderStep
  <1>1. /\ conn' \in [Fds -> Conns] /\ conn'[c] = m
        /\ \A d \in Fds : d # c => conn'[d] = conn[d]
    OBVIOUS
  <1>2. TypeOK'
    <2>1. ConnType'
      BY <1>1, ConnFacts DEF ConnType
    <2>2. KeeperType' /\ PeerType'
      BY TypeFacts DEF KeeperType, PeerType, peerVars
    <2>3. WorkType'
      BY TypeFacts DEF WorkType
    <2>4. PollType'
      BY TypeFacts DEF PollType
    <2> QED BY <2>1, <2>2, <2>3, <2>4 DEF TypeOK
  <1>3. WorkInv'
    BY WorkKept DEF ConnInv, Sending, Removal
  <1>4. AcceptInv'
    BY DEF ConnInv, AcceptInv
  <1>5. FreeInv'
    BY <1>1 DEF ConnInv, FreeInv
  <1>6. RefsCounted'
    <2>1. \A d \in Fds : conn'[d].refno = conn[d].refno /\ conn'[d].leaked = conn[d].leaked
      BY <1>1
    <2>2. \A u \in Workers : worker'[u].c = worker[u].c
      OBVIOUS
    <2> QED BY <2>1, <2>2, RefsKept DEF ConnInv
  <1> QED BY <1>1, <1>2, <1>3, <1>4, <1>5, <1>6

\* wpdu_ of the other connections still belongs to its sender.
LEMMA OtherBuffers ==
  ASSUME ConnInv, NEW t \in Workers, NEW c \in Fds, worker[t].c = c, SenderStep(t),
         \A d \in Fds : d # c => conn'[d] = conn[d],
         \/ conn'[c].wbuf = None /\ conn'[c].wsz = 0
         \/ conn'[c].wbuf = t /\ worker'[t].pc \in Sending
  PROVE  WbufInv'
  <1> USE DEF SenderStep
  <1> SUFFICES ASSUME NEW d \in Fds
               PROVE  /\ conn'[d].wbuf # None => Works(conn[d].wbuf, d, Sending)'
                      /\ conn'[d].wsz # 0 => conn'[d].wbuf # None
    BY DEF WbufInv
  <1>1. CASE d = c
    BY <1>1 DEF Works
  <1>2. CASE d # c
    <2>1. conn'[d] = conn[d]
      BY <1>2
    <2>2. /\ conn[d].wbuf # None => Works(conn[d].wbuf, d, Sending)
          /\ conn[d].wsz # 0 => conn[d].wbuf # None
          /\ conn[d].wbuf \in Workers \cup {None}
      BY ConnFacts DEF ConnInv, WbufInv
    <2>3. ASSUME conn[d].wbuf # None
          PROVE  worker'[conn[d].wbuf].c = d /\ worker'[conn[d].wbuf].pc \in Sending
      <3> DEFINE u == conn[d].wbuf
      <3>1. u \in Workers /\ worker[u].c = d /\ worker[u].pc \in Sending /\ u # t
        BY <1>2, <2>2, <2>3 DEF Works
      <3>2. worker[u].pc # "wait_send"
        BY <3>1 DEF Sending, Removal
      <3> QED BY <3>1, <3>2
    <2> QED BY <2>1, <2>2, <2>3 DEF Works
  <1> QED BY <1>1, <1>2

\* The PDU of t in wpdu_, before anything of it is written.
Loaded(k, t) == [k EXCEPT !.wbuf = t, !.wsz = PduSize, !.wlong = 0]

\* It has the fields of the connection otherwise.
LEMMA NewPdu ==
  ASSUME NEW k0 \in Conns, NEW t \in Workers, NEW k, k = Loaded(k0, t)
  PROVE  /\ k \in Conns /\ k.wbuf = t /\ k.wsz = PduSize /\ k.wlong = 0
         /\ k.open = k0.open /\ k.dead = k0.dead /\ k.refno = k0.refno
         /\ k.leaked = k0.leaked /\ k.inq = k0.inq /\ k.broken = k0.broken
  <1> DEFINE m1 == [k0 EXCEPT !.wbuf = t]
             m2 == [m1 EXCEPT !.wsz = PduSize]
             m3 == [m2 EXCEPT !.wlong = 0]
  <1>2. m1 \in Conns
    BY SetField
  <1> HIDE DEF m1
  <1>3. m2 \in Conns
    BY <1>2, SetField
  <1> HIDE DEF m2
  <1>4. m3 \in Conns
    <2>1. 0 \in -1..PduSize
      BY DEF PduSize
    <2> QED BY <1>3, <2>1, SetField
  <1>5. m3 = k
    BY DEF m1, m2, Loaded
  <1> HIDE DEF m3
  <1>6. /\ k.wbuf = t /\ k.wsz = PduSize /\ k.wlong = 0
        /\ k.open = k0.open /\ k.dead = k0.dead /\ k.refno = k0.refno
        /\ k.leaked = k0.leaked /\ k.inq = k0.inq /\ k.broken = k0.broken
    BY DEF Conns, Loaded
  <1> QED BY <1>4, <1>5, <1>6

\* wpdu_ given up.
LEMMA NoPduIs ==
  ASSUME NEW k \in Conns
  PROVE  LET m == NoPdu(k) IN
         /\ m \in Conns /\ m.wbuf = None /\ m.wsz = 0 /\ m.wlong = 0
         /\ m.open = k.open /\ m.dead = k.dead /\ m.refno = k.refno
         /\ m.leaked = k.leaked /\ m.inq = k.inq /\ m.broken = k.broken
  <1> DEFINE m1 == [k EXCEPT !.wbuf = None]
             m2 == [m1 EXCEPT !.wsz = 0]
             m3 == [m2 EXCEPT !.wlong = 0]
  <1>1. m1 \in Conns
    BY SetField
  <1> HIDE DEF m1
  <1>2. m2 \in Conns
    BY <1>1, SetField
  <1> HIDE DEF m2
  <1>3. m3 \in Conns
    <2>1. 0 \in -1..PduSize
      OBVIOUS
    <2> QED BY <1>2, <2>1, SetField
  <1>4. m3 = NoPdu(k)
    BY DEF m1, m2, NoPdu
  <1> HIDE DEF m3
  <1>5. LET m == NoPdu(k) IN
        /\ m.wbuf = None /\ m.wsz = 0 /\ m.wlong = 0
        /\ m.open = k.open /\ m.dead = k.dead /\ m.refno = k.refno
        /\ m.leaked = k.leaked /\ m.inq = k.inq /\ m.broken = k.broken
    BY DEF Conns, NoPdu
  <1> QED BY <1>3, <1>4, <1>5

\* The first part of send: until the PDU is written, or somebody else has to act.
LEMMA SendKeeps ==
  ASSUME ConnInv, aborted = "no", NEW t \in Workers, Send(t) PROVE ConnInv'
  <1>0. PICK c : c = worker[t].c
    OBVIOUS
  <1>k. PICK k : k = [conn[c] EXCEPT !.wbuf = t, !.wsz = PduSize, !.wlong = 0]
    OBVIOUS
  <1>1. /\ worker[t].pc = "send"
        /\ UNCHANGED <<table, acceptor, latest, poll, errnoAgain, jobq, peerVars, aborted>>
    BY DEF Send
  <1>2. c \in Fds /\ conn[c].open
    <2>1. c \in Fds
      BY <1>0, <1>1, ThreadFacts
    <2>2. conn[c].refno \in Nat /\ conn[c].refno >= 1
      BY <1>0, <2>1, TypeFacts, SomeReference DEF ConnInv
    <2> QED BY <2>1, <2>2 DEF ConnInv, FreeInv
  <1>3. /\ k \in Conns /\ k.wbuf = t /\ k.wsz = PduSize /\ k.wlong = 0
        /\ k.open = conn[c].open /\ k.dead = conn[c].dead /\ k.refno = conn[c].refno
        /\ k.leaked = conn[c].leaked /\ k.inq = conn[c].inq /\ k.broken = conn[c].broken
    <2>1. conn[c] \in Conns
      BY <1>2, ConnFacts
    <2>2. k = Loaded(conn[c], t)
      BY <1>k DEF Loaded
    <2> QED BY <2>1, <2>2, NewPdu
  <1>4. worker[t].pc \in {"send"} \cup Sending /\ worker[t].pc \notin Removal
          /\ worker[t].pc \notin Sending
    BY <1>1 DEF Sending, Removal
  <1>5. /\ {pendingChange, wake} \subseteq BOOLEAN
        /\ rfds \subseteq Fds /\ wfds \subseteq Fds /\ callbacks \subseteq Fds
    BY TypeFacts DEF PollType
  <1>6. \/ /\ conn[c].dead
           /\ worker' = [worker EXCEPT ![t].pc = "sent", ![t].ok = FALSE]
           /\ UNCHANGED <<conn, pollVars>>
        \/ /\ ~conn[c].dead /\ Busy(c)
           /\ Goto(t, "wait_send")
           /\ UNCHANGED <<conn, pollVars>>
        \/ /\ ~conn[c].dead /\ ~Busy(c) /\ k.broken
           /\ conn' = [conn EXCEPT ![c] = [k EXCEPT !.dead = TRUE, !.wlong = -1, !.wsz = 0]]
           /\ Goto(t, "remove")
           /\ UNCHANGED pollVars
        \/ /\ ~conn[c].dead /\ ~Busy(c) /\ ~k.broken
           /\ IF Written(k).wlong = PduSize
              THEN /\ conn' = [conn EXCEPT ![c] = NoPdu(Written(k))]
                   /\ worker' = SendEnds(worker, t, TRUE)
                   /\ UNCHANGED pollVars
              ELSE /\ conn' = [conn EXCEPT ![c] = Written(k)]
                   /\ Goto(t, "wait_complete")
                   /\ AddCallback(c, "WRONLY")
    BY <1>0, <1>k DEF Send
  <1>7. ASSUME UNCHANGED <<conn, pollVars>>, worker' \in [Workers -> Threads],
               worker'[t].pc \in {"wait_send", "sent"},
               worker'[t].c = worker[t].c, worker'[t].req = worker[t].req,
               \A u \in Workers : u # t => worker'[u] = worker[u]
        PROVE  ConnInv'
    <2>1. SenderStep(t)
      BY <1>1, <1>4, <1>5, <1>7 DEF SenderStep, pollVars
    <2>2. TypeOK' /\ WorkInv' /\ AcceptInv' /\ FreeInv' /\ RefsCounted'
      <3>1. /\ conn' \in [Fds -> Conns] /\ conn'[c] = conn[c]
            /\ \A d \in Fds : d # c => conn'[d] = conn[d]
        BY <1>7, TypeFacts
      <3> QED BY <1>2, <2>1, <3>1, ConnFacts, SenderKeeps
    <2>3. SendersStay /\ RemoversStay
      <3>1. worker'[t].pc \notin Sending
        BY <1>7 DEF Sending, Removal
      <3> QED BY <1>4, <1>7, <3>1, ThreadStays
    <2>4. RoundGoesOn /\ \A d \in Fds : Kept(d)
      BY <1>1, <1>7 DEF RoundGoesOn, Kept, Readable, pollVars
    <2> QED BY <1>1, <2>2, <2>3, <2>4, QuietKeeps DEF ConnInv
  <1>8. CASE /\ conn[c].dead
             /\ worker' = [worker EXCEPT ![t].pc = "sent", ![t].ok = FALSE]
             /\ UNCHANGED <<conn, pollVars>>
    <2> DEFINE w == [worker[t] EXCEPT !.pc = "sent", !.ok = FALSE]
    <2>1. worker[t] \in Threads
      BY TypeFacts
    <2>2. w \in Threads /\ w.pc = "sent" /\ w.c = worker[t].c /\ w.req = worker[t].req
      BY <2>1 DEF Threads, WorkerPcs
    <2>3. worker' = [worker EXCEPT ![t] = w]
      BY <1>8, TypeFacts
    <2> HIDE DEF w
    <2>4. /\ worker' \in [Workers -> Threads] /\ worker'[t] = w
          /\ \A u \in Workers : u # t => worker'[u] = worker[u]
      BY <2>2, <2>3, TypeFacts
    <2>5. /\ worker'[t].pc \in {"wait_send", "sent"}
          /\ worker'[t].c = worker[t].c /\ worker'[t].req = worker[t].req
      BY <2>2, <2>4
    <2> QED BY <1>7, <1>8, <2>4, <2>5
  <1>9. CASE /\ ~conn[c].dead /\ Busy(c)
             /\ Goto(t, "wait_send")
             /\ UNCHANGED <<conn, pollVars>>
    <2>1. "wait_send" \in WorkerPcs
      BY DEF WorkerPcs
    <2> QED BY <1>7, <1>9, <2>1, TypeFacts, GotoIs
  <1>a. CASE /\ ~conn[c].dead /\ ~Busy(c) /\ k.broken
             /\ conn' = [conn EXCEPT ![c] = [k EXCEPT !.dead = TRUE, !.wlong = -1, !.wsz = 0]]
             /\ Goto(t, "remove")
             /\ UNCHANGED pollVars
    <2> DEFINE m1 == [k EXCEPT !.dead = TRUE]
               m2 == [m1 EXCEPT !.wlong = -1]
               m == [m2 EXCEPT !.wsz = 0]
    <2>1. m = [k EXCEPT !.dead = TRUE, !.wlong = -1, !.wsz = 0]
      OBVIOUS
    <2>2. m1 \in Conns
      BY <1>3, SetField
    <2> HIDE DEF m1
    <2>3. m2 \in Conns
      <3>1. -1 \in -1..PduSize
        OBVIOUS
      <3> QED BY <2>2, <3>1, SetField
    <2> HIDE DEF m2
    <2>4. m \in Conns
      BY <2>3, SetField
    <2> HIDE DEF m
    <2>5. /\ m.open = k.open /\ m.dead /\ m.refno = k.refno /\ m.leaked = k.leaked
          /\ m.wbuf = t /\ m.wsz = 0
      BY <1>3, <2>1 DEF Conns
    <2>6. /\ worker' \in [Workers -> Threads]
          /\ worker'[t].pc = "remove" /\ worker'[t].c = worker[t].c
          /\ worker'[t].req = worker[t].req
          /\ \A u \in Workers : u # t => worker'[u] = worker[u]
      <3>1. "remove" \in WorkerPcs
        BY DEF WorkerPcs, Sending, Removal
      <3> QED BY <1>a, <3>1, TypeFacts, GotoIs
    <2>7. SenderStep(t)
      <3>1. worker'[t].pc \in Sending
        BY <2>6 DEF Sending, Removal
      <3> QED BY <1>1, <1>4, <1>5, <1>a, <2>6, <3>1 DEF SenderStep, pollVars
    <2>8. conn' = [conn EXCEPT ![c] = m]
      BY <1>a, <2>1
    <2>9. /\ conn' \in [Fds -> Conns] /\ conn'[c] = m
          /\ \A d \in Fds : d # c => conn'[d] = conn[d]
          /\ m.open /\ m.refno = conn[c].refno /\ m.leaked = conn[c].leaked
      BY <1>2, <1>3, <2>4, <2>5, <2>8, TypeFacts, SetConn
    <2>14. TypeOK' /\ WorkInv' /\ AcceptInv' /\ FreeInv' /\ RefsCounted'
      BY <1>2, <2>4, <2>5, <2>7, <2>9, SenderKeeps
    <2>10. WbufInv'
      <3>1. worker'[t].pc \in Sending
        BY <2>6 DEF Sending, Removal
      <3> QED BY <1>0, <1>2, <2>5, <2>7, <2>9, <3>1, OtherBuffers
    <2>11. /\ Works(t, c, Removal)' /\ Leaving(c)'
           /\ \A d \in Fds, u \in Workers :
                /\ Works(u, d, Removal)' => (d = c /\ u = t) \/ Works(u, d, Removal)
                /\ Works(u, d, Removal) => Works(u, d, Removal)'
                /\ Works(u, d, {"wait_removed", "removed"})'
                     => Works(u, d, {"wait_removed", "removed"})
           /\ \A d \in Fds : Leaving(d) => Leaving(d)'
      BY <1>0, <1>1, <2>6 DEF Works, Removal, Leaving
    <2>12. DeadInv'
      <3>1. Watched' = Watched /\ Opened' = Opened
        BY <1>2, <1>3, <1>a, <2>5, <2>9 DEF Watched, Opened, pollVars
      <3>2. ASSUME NEW d \in Fds, conn'[d].dead, d \in Watched'
            PROVE  \E u \in Workers : Works(u, d, Removal)'
        <4>1. CASE d = c
          BY <2>11, <4>1
        <4>2. CASE d # c
          BY <2>9, <2>11, <3>1, <3>2, <4>2 DEF ConnInv, DeadInv
        <4> QED BY <4>1, <4>2
      <3>3. ASSUME NEW d \in Fds, NEW u \in Workers
            PROVE  /\ Works(u, d, Removal)' => conn'[d].dead
                   /\ Works(u, d, {"wait_removed", "removed"})' => d \notin rfds' \cup wfds'
        BY <1>a, <2>5, <2>9, <2>11 DEF ConnInv, DeadInv, pollVars
      <3> QED BY <3>1, <3>2, <3>3 DEF ConnInv, DeadInv
    <2>13. RoundInv'
      <3>1. \A d \in Fds : conn'[d].open = conn[d].open /\ (Readable(d)' <=> Readable(d))
        <4> TAKE d \in Fds
        <4>1. m.inq = k.inq /\ m.broken = k.broken
          BY <1>3, <2>1 DEF Conns
        <4>2. CASE d = c
          <5>1. /\ m.open = conn[c].open /\ m.inq = conn[c].inq
                /\ m.broken = conn[c].broken
            BY <1>3, <2>5, <4>1
          <5> QED BY <2>9, <4>2, <5>1 DEF Readable
        <4>3. CASE d # c
          BY <2>9, <4>3 DEF Readable
        <4> QED BY <4>2, <4>3
      <3>2. \A d \in Fds : conn'[d].dead => Leaving(d)' \/ conn[d].dead
        BY <2>9, <2>11
      <3>3. \A d \in Fds : d # c => conn'[d].dead = conn[d].dead
        BY <2>9
      <3>4. poll' = poll /\ poll.r \cup poll.w \subseteq Fds /\ conn'[c].dead
        BY <1>1, <2>5, <2>9, TypeFacts
      <3> HIDE DEF Leaving, Readable
      <3>5. ASSUME poll.pc = "select", NEW d \in poll.r \cup poll.w
            PROVE  conn'[d].open /\ (conn'[d].dead => Leaving(d)')
        BY <2>11, <3>1, <3>2, <3>4, <3>5 DEF ConnInv, RoundInv
      <3>6. ASSUME poll.pc = "serve", NEW d \in poll.r
            PROVE  conn'[d].open /\ IF conn'[d].dead THEN Leaving(d)' ELSE Readable(d)'
        <4>1. d \in Fds /\ conn[d].open /\ IF conn[d].dead THEN Leaving(d) ELSE Readable(d)
          BY <3>4, <3>6 DEF ConnInv, RoundInv
        <4>2. CASE d = c
          BY <2>11, <3>1, <3>4, <4>1, <4>2
        <4>3. CASE d # c
          BY <2>11, <3>1, <3>3, <4>1, <4>3
        <4> QED BY <4>2, <4>3
      <3> QED BY <3>4, <3>5, <3>6 DEF RoundInv
    <2> QED BY <1>1, <2>10, <2>12, <2>13, <2>14 DEF ConnInv
  <1>b. CASE ~conn[c].dead /\ ~Busy(c) /\ ~k.broken
    <2>m. PICK m : m = Written(k)
      OBVIOUS
    <2>1. /\ m \in Conns /\ m.wlong >= k.wlong /\ m.wsz = k.wsz
          /\ m.open = k.open /\ m.dead = k.dead /\ m.refno = k.refno
          /\ m.wbuf = k.wbuf /\ m.leaked = k.leaked /\ m.inq = k.inq
          /\ m.broken = k.broken
      <3>1. worker[k.wbuf].req \in Requests
        BY <1>1, <1>3, ThreadFacts
      <3> QED BY <1>3, <2>m, <3>1, WrittenType
    <2>2. IF m.wlong = PduSize
          THEN /\ conn' = [conn EXCEPT ![c] = NoPdu(m)]
               /\ worker' = SendEnds(worker, t, TRUE)
               /\ UNCHANGED pollVars
          ELSE /\ conn' = [conn EXCEPT ![c] = m]
               /\ Goto(t, "wait_complete")
               /\ AddCallback(c, "WRONLY")
      BY <1>6, <1>b, <2>m
    <2>3. conn[c].wbuf = None /\ conn[c].wsz = 0
      BY <1>2, <1>b DEF Busy, ConnInv, WbufInv
    <2>4. CASE m.wlong = PduSize
      <3>n. PICK n : n = NoPdu(m)
        OBVIOUS
      <3>1. /\ n \in Conns /\ n.wbuf = None /\ n.wsz = 0 /\ n.wlong = 0
            /\ n.open = m.open /\ n.dead = m.dead /\ n.refno = m.refno
            /\ n.leaked = m.leaked /\ n.inq = m.inq /\ n.broken = m.broken
        BY <2>1, <3>n, NoPduIs
      <3>2. conn' = [conn EXCEPT ![c] = n] /\ worker' = SendEnds(worker, t, TRUE) /\ UNCHANGED pollVars
        BY <2>2, <2>4, <3>n
      <3>3. /\ worker' \in [Workers -> Threads]
            /\ worker'[t].pc = "sent" /\ worker'[t].c = worker[t].c
            /\ worker'[t].req = worker[t].req
            /\ \A u \in Workers : u # t =>
                 /\ worker'[u].c = worker[u].c /\ worker'[u].req = worker[u].req
                 /\ \/ worker'[u].pc = worker[u].pc
                    \/ worker[u].pc = "wait_send" /\ worker'[u].pc = "send"
        BY <3>2, TypeFacts, SendEndsIs
      <3>4. SenderStep(t)
        BY <1>1, <1>4, <1>5, <3>2, <3>3 DEF SenderStep, pollVars
      <3>5. /\ conn' \in [Fds -> Conns] /\ conn'[c] = n
            /\ \A d \in Fds : d # c => conn'[d] = conn[d]
            /\ n.open /\ n.refno = conn[c].refno /\ n.leaked = conn[c].leaked
        BY <1>2, <1>3, <2>1, <3>1, <3>2, TypeFacts, SetConn
      <3>9. TypeOK' /\ WorkInv' /\ AcceptInv' /\ FreeInv' /\ RefsCounted'
        BY <1>2, <3>1, <3>4, <3>5, SenderKeeps
      <3>6. \A d \in Fds : Kept(d) /\ (Readable(d) => Readable(d)')
        <4> TAKE d \in Fds
        <4>1. CASE d = c
          <5>1. /\ n.open = conn[c].open /\ n.dead = conn[c].dead
                /\ n.inq = conn[c].inq /\ n.broken = conn[c].broken
                /\ n.wbuf = conn[c].wbuf /\ n.wsz = conn[c].wsz /\ n.refno = conn[c].refno
            BY <1>3, <2>1, <2>3, <3>1
          <5> QED BY <3>5, <4>1, <5>1 DEF Kept, Readable
        <4>2. CASE d # c
          BY <3>5, <4>2 DEF Kept, Readable
        <4> QED BY <4>1, <4>2
      <3>7. SendersStay /\ RemoversStay
        BY <1>4, <3>3 DEF SendersStay, RemoversStay, Sending, Removal
      <3>8. RoundGoesOn
        BY <1>1, <3>2, <3>6 DEF RoundGoesOn, pollVars
      <3> QED BY <1>1, <3>6, <3>7, <3>8, <3>9, QuietKeeps DEF ConnInv
    <2>5. CASE m.wlong # PduSize
      <3>1. conn' = [conn EXCEPT ![c] = m] /\ Goto(t, "wait_complete") /\ AddCallback(c, "WRONLY")
        BY <2>2, <2>5
      <3>2. /\ worker' \in [Workers -> Threads]
            /\ worker'[t].pc = "wait_complete" /\ worker'[t].c = worker[t].c
            /\ worker'[t].req = worker[t].req
            /\ \A u \in Workers : u # t => worker'[u] = worker[u]
        <4>1. "wait_complete" \in WorkerPcs
          BY DEF WorkerPcs, Sending
        <4> QED BY <3>1, <4>1, TypeFacts, GotoIs
      <3>3. /\ rfds' = rfds /\ wfds' = wfds \cup {c} /\ callbacks' = callbacks \cup {c}
            /\ wake' = TRUE /\ pendingChange' = pendingChange
        BY <3>1 DEF AddCallback, WatchFd
      <3>4. worker'[t].pc \in Sending /\ worker'[t].pc \notin Removal
        BY <3>2 DEF Sending, Removal
      <3>5. SenderStep(t)
        BY <1>1, <1>2, <1>4, <1>5, <3>2, <3>3, <3>4 DEF SenderStep
      <3>6. /\ conn' \in [Fds -> Conns] /\ conn'[c] = m
            /\ \A d \in Fds : d # c => conn'[d] = conn[d]
            /\ m.open /\ m.refno = conn[c].refno /\ m.leaked = conn[c].leaked
        BY <1>2, <1>3, <2>1, <3>1, TypeFacts, SetConn
      <3>12. TypeOK' /\ WorkInv' /\ AcceptInv' /\ FreeInv' /\ RefsCounted'
        <4>1. m.wlong # -1
          BY <1>3, <2>1 DEF Conns
        <4> QED BY <1>2, <2>1, <3>5, <3>6, <4>1, SenderKeeps
      <3>7. WbufInv'
        BY <1>0, <1>2, <1>3, <2>1, <3>4, <3>5, <3>6, OtherBuffers
      <3>8. \A d \in Fds : /\ conn'[d].open = conn[d].open /\ conn'[d].dead = conn[d].dead
                           /\ Readable(d)' <=> Readable(d)
        <4> TAKE d \in Fds
        <4>1. CASE d = c
          <5>1. /\ m.open = conn[c].open /\ m.dead = conn[c].dead
                /\ m.inq = conn[c].inq /\ m.broken = conn[c].broken
            BY <1>3, <2>1
          <5> QED BY <3>6, <4>1, <5>1 DEF Readable
        <4>2. CASE d # c
          BY <3>6, <4>2 DEF Readable
        <4> QED BY <4>1, <4>2
      <3>9. \A d \in Fds, u \in Workers :
              /\ Works(u, d, Removal)' <=> Works(u, d, Removal)
              /\ Works(u, d, {"wait_removed", "removed"})'
                   <=> Works(u, d, {"wait_removed", "removed"})
              /\ Works(u, d, {"remove", "wait_removed"})'
                   <=> Works(u, d, {"remove", "wait_removed"})
        BY <1>1, <3>2 DEF Works, Removal
      <3>10. DeadInv'
        <4>1. Watched' = Watched \cup {c} /\ Opened' = Opened /\ c \in Opened
          BY <1>2, <3>3, <3>8 DEF Watched, Opened
        <4>2. ASSUME NEW d \in Fds, conn'[d].dead, d \in Watched'
              PROVE  \E u \in Workers : Works(u, d, Removal)'
          <5>1. d # c
            BY <1>b, <3>8, <4>2
          <5> QED BY <3>8, <3>9, <4>1, <4>2, <5>1 DEF ConnInv, DeadInv
        <4>3. ASSUME NEW d \in Fds, NEW u \in Workers
              PROVE  /\ Works(u, d, Removal)' => conn'[d].dead
                     /\ Works(u, d, {"wait_removed", "removed"})' => d \notin rfds' \cup wfds'
          <5>1. /\ Works(u, d, Removal) => conn[d].dead
                /\ Works(u, d, {"wait_removed", "removed"}) => d \notin rfds \cup wfds
            BY DEF ConnInv, DeadInv
          <5>2. Works(u, d, {"wait_removed", "removed"}) => d # c
            BY <1>b, <5>1 DEF Works, Removal
          <5> QED BY <3>3, <3>8, <3>9, <5>1, <5>2
        <4> QED BY <4>1, <4>2, <4>3 DEF ConnInv, DeadInv
      <3>11. RoundInv'
        <4>1. \A d \in Fds : Leaving(d)' <=> Leaving(d)
          BY <3>9 DEF Leaving
        <4>2. poll' = poll /\ poll.r \cup poll.w \subseteq Fds
          BY <1>1, TypeFacts
        <4> QED BY <3>8, <4>1, <4>2 DEF ConnInv, RoundInv
      <3> QED BY <1>1, <3>7, <3>10, <3>11, <3>12 DEF ConnInv
    <2> QED BY <2>4, <2>5
  <1> QED BY <1>6, <1>8, <1>9, <1>a, <1>b

\* Who serves a connection keeps it open.
LEMMA ServedOpen ==
  ASSUME ConnInv, NEW t \in Workers, NEW c \in Fds, worker[t].c = c
  PROVE  conn[c].open
  <1>1. conn[c].refno \in Nat /\ conn[c].refno >= 1
    BY TypeFacts, SomeReference DEF ConnInv
  <1>2. ~conn[c].open => conn[c].refno = 0
    BY DEF ConnInv, FreeInv
  <1> QED BY <1>1, <1>2

\* send woken after its PDU: back to the wait, or wpdu_ given up.
LEMMA CompletedKeeps ==
  ASSUME ConnInv, aborted = "no", NEW t \in Workers, Completed(t) PROVE ConnInv'
  <1>0. PICK c : c = worker[t].c
    OBVIOUS
  <1>1. /\ worker[t].pc = "completed"
        /\ UNCHANGED <<table, acceptor, latest, pollVars, poll, errnoAgain, jobq,
                       peerVars, aborted>>
    BY DEF Completed
  <1>2. c \in Fds /\ conn[c].open
    BY <1>0, <1>1, ThreadFacts, ServedOpen
  <1>3. conn[c] \in Conns
    BY <1>2, ConnFacts
  <1>4. worker[t].pc \in Sending /\ worker[t].pc \notin Removal
    BY <1>1 DEF Sending, Removal
  <1>5. /\ {pendingChange, wake} \subseteq BOOLEAN
        /\ rfds \subseteq Fds /\ wfds \subseteq Fds /\ callbacks \subseteq Fds
        /\ poll.r \cup poll.w \subseteq Fds
    BY TypeFacts DEF PollType
  <1>6. \/ Goto(t, "wait_complete") /\ UNCHANGED conn
        \/ \E ok \in BOOLEAN :
             /\ worker' = SendEnds(worker, t, ok)
             /\ conn' = [conn EXCEPT ![c] = NoPdu(conn[c])]
    BY <1>0 DEF Completed
  <1>7. CASE Goto(t, "wait_complete") /\ UNCHANGED conn
    <2>1. /\ worker' \in [Workers -> Threads]
          /\ worker'[t].pc = "wait_complete" /\ worker'[t].c = worker[t].c
          /\ worker'[t].req = worker[t].req
          /\ \A u \in Workers : u # t => worker'[u] = worker[u]
      <3>1. "wait_complete" \in WorkerPcs
        BY DEF WorkerPcs, Sending
      <3> QED BY <1>7, <3>1, TypeFacts, GotoIs
    <2>2. worker'[t].pc \in Sending /\ worker'[t].pc \notin Removal
      BY <2>1 DEF Sending, Removal
    <2>3. SenderStep(t)
      BY <1>1, <1>4, <1>5, <2>1, <2>2 DEF SenderStep, pollVars
    <2>4. TypeOK' /\ WorkInv' /\ AcceptInv' /\ FreeInv' /\ RefsCounted'
      <3>1. /\ conn' \in [Fds -> Conns] /\ conn'[c] = conn[c]
            /\ \A d \in Fds : d # c => conn'[d] = conn[d]
        BY <1>7, TypeFacts
      <3> QED BY <1>2, <1>3, <2>3, <3>1, ConnFacts, SenderKeeps
    <2>5. SendersStay /\ RemoversStay
      BY <1>4, <2>1, <2>2 DEF SendersStay, RemoversStay
    <2>6. RoundGoesOn /\ \A d \in Fds : Kept(d)
      BY <1>1, <1>7 DEF RoundGoesOn, Kept, Readable, pollVars
    <2> QED BY <1>1, <2>4, <2>5, <2>6, QuietKeeps DEF ConnInv
  <1>8. ASSUME NEW ok \in BOOLEAN, worker' = SendEnds(worker, t, ok),
               conn' = [conn EXCEPT ![c] = NoPdu(conn[c])]
        PROVE  ConnInv'
    <2>m. PICK m : m = NoPdu(conn[c])
      OBVIOUS
    <2>1. /\ m \in Conns /\ m.wbuf = None /\ m.wsz = 0 /\ m.wlong = 0
          /\ m.open = conn[c].open /\ m.dead = conn[c].dead
          /\ m.refno = conn[c].refno /\ m.leaked = conn[c].leaked
          /\ m.inq = conn[c].inq /\ m.broken = conn[c].broken
      BY <1>3, <2>m, NoPduIs
    <2>2. /\ conn' \in [Fds -> Conns] /\ conn'[c] = m
          /\ \A d \in Fds : d # c => conn'[d] = conn[d]
          /\ m.open
      BY <1>2, <1>8, <2>m, <2>1, TypeFacts, SetConn
    <2>3. /\ worker' \in [Workers -> Threads]
          /\ worker'[t].pc = "sent" /\ worker'[t].c = worker[t].c
          /\ worker'[t].req = worker[t].req
          /\ \A u \in Workers : u # t =>
               /\ worker'[u].c = worker[u].c /\ worker'[u].req = worker[u].req
               /\ \/ worker'[u].pc = worker[u].pc
                  \/ worker[u].pc = "wait_send" /\ worker'[u].pc = "send"
      BY <1>8, TypeFacts, SendEndsIs
    <2>4. SenderStep(t)
      BY <1>1, <1>4, <1>5, <2>3 DEF SenderStep, pollVars
    <2>5. TypeOK' /\ WorkInv' /\ AcceptInv' /\ FreeInv' /\ RefsCounted'
      BY <1>2, <2>1, <2>2, <2>4, SenderKeeps
    <2>6. WbufInv'
      <3>1. worker[t].c = c /\ conn'[c].wbuf = None /\ conn'[c].wsz = 0
        BY <1>0, <2>1, <2>2
      <3>2. \A d \in Fds : d # c => conn'[d] = conn[d]
        BY <2>2
      <3>3. \/ conn'[c].wbuf = None /\ conn'[c].wsz = 0
            \/ conn'[c].wbuf = t /\ worker'[t].pc \in Sending
        BY <3>1
      <3>4. worker[t].c = c
        BY <3>1
      <3> QED BY <1>2, <2>4, <3>2, <3>3, <3>4, OtherBuffers
    <2>7. \A d \in Fds : Stays(d) /\ (Readable(d) => Readable(d)')
      <3> TAKE d \in Fds
      <3>1. CASE d = c
        BY <2>1, <2>2, <3>1 DEF Stays, Readable
      <3>2. CASE d # c
        BY <2>2, <3>2 DEF Stays, Readable
      <3> QED BY <3>1, <3>2
    <2>8. RemoversStay
      BY <1>4, <2>3 DEF RemoversStay, Removal
    <2>9. RoundGoesOn
      BY <1>1, <2>7 DEF RoundGoesOn, pollVars
    <2>10. DeadInv' /\ RoundInv'
      BY <1>5, <2>7, <2>8, <2>9, RoundKept DEF ConnInv
    <2> QED BY <1>1, <2>5, <2>6, <2>10 DEF ConnInv
  <1> QED BY <1>6, <1>7, <1>8

\* block_remove_fd: from now on the thread waits for the end of the round.
LEMMA BlockRemoveKeeps ==
  ASSUME ConnInv, aborted = "no", NEW t \in Workers, BlockRemove(t) PROVE ConnInv'
  <1>0. PICK c : c = worker[t].c
    OBVIOUS
  <1>1. /\ worker[t].pc = "remove" /\ Goto(t, "wait_removed")
        /\ UnwatchFd(c, "RDWR") /\ pendingChange' = TRUE
        /\ UNCHANGED <<conn, table, acceptor, latest, callbacks, poll, errnoAgain, jobq,
                       peerVars, aborted>>
    BY <1>0 DEF BlockRemove
  <1>2. c \in Fds /\ conn[c].open
    BY <1>0, <1>1, ThreadFacts, ServedOpen
  <1>3. conn[c] \in Conns
    BY <1>2, ConnFacts
  <1>4. /\ {pendingChange, wake} \subseteq BOOLEAN
        /\ rfds \subseteq Fds /\ wfds \subseteq Fds /\ callbacks \subseteq Fds
        /\ poll.r \cup poll.w \subseteq Fds
    BY TypeFacts DEF PollType
  <1>5. /\ rfds' = rfds \ {c} /\ wfds' = wfds \ {c} /\ wake' = TRUE
    BY <1>1 DEF UnwatchFd
  <1>6. /\ worker' \in [Workers -> Threads]
        /\ worker'[t].pc = "wait_removed" /\ worker'[t].c = worker[t].c
        /\ worker'[t].req = worker[t].req
        /\ \A u \in Workers : u # t => worker'[u] = worker[u]
    <2>1. "wait_removed" \in WorkerPcs
      BY DEF WorkerPcs, Sending, Removal
    <2> QED BY <1>1, <2>1, TypeFacts, GotoIs
  <1>7. worker[t].pc \in Sending /\ worker'[t].pc \in Sending
    BY <1>1, <1>6 DEF Sending, Removal
  <1>8. SenderStep(t)
    BY <1>1, <1>4, <1>5, <1>6, <1>7 DEF SenderStep
  <1>9. TypeOK' /\ WorkInv' /\ AcceptInv' /\ FreeInv' /\ RefsCounted'
    <2>1. /\ conn' \in [Fds -> Conns] /\ conn'[c] = conn[c]
          /\ \A d \in Fds : d # c => conn'[d] = conn[d]
      BY <1>1, TypeFacts
    <2> QED BY <1>2, <1>3, <1>8, <2>1, ConnFacts, SenderKeeps
  <1>10. SendersStay /\ \A d \in Fds : Kept(d)
    BY <1>1, <1>6, <1>7 DEF SendersStay, Kept
  <1>11. WbufInv'
    BY <1>10, ConnFacts, BuffersKept DEF ConnInv
  <1>12. \A d \in Fds, u \in Workers :
           /\ Works(u, d, Removal)' <=> Works(u, d, Removal)
           /\ Works(u, d, {"remove", "wait_removed"})'
                <=> Works(u, d, {"remove", "wait_removed"})
           /\ Works(u, d, {"wait_removed", "removed"})'
                => Works(u, d, {"wait_removed", "removed"}) \/ d = c
    BY <1>0, <1>1, <1>6 DEF Works, Removal
  <1>13. DeadInv'
    <2>1. Watched' \subseteq Watched /\ Opened' = Opened
      BY <1>1, <1>5 DEF Watched, Opened
    <2>2. ASSUME NEW d \in Fds, conn'[d].dead, d \in Watched'
          PROVE  \E u \in Workers : Works(u, d, Removal)'
      BY <1>1, <1>12, <2>1, <2>2 DEF ConnInv, DeadInv
    <2>3. ASSUME NEW d \in Fds, NEW u \in Workers
          PROVE  /\ Works(u, d, Removal)' => conn'[d].dead
                 /\ Works(u, d, {"wait_removed", "removed"})' => d \notin rfds' \cup wfds'
      <3>1. /\ Works(u, d, Removal) => conn[d].dead
            /\ Works(u, d, {"wait_removed", "removed"}) => d \notin rfds \cup wfds
        BY DEF ConnInv, DeadInv
      <3> QED BY <1>1, <1>5, <1>12, <3>1
    <2> QED BY <2>1, <2>2, <2>3 DEF ConnInv, DeadInv
  <1>14. RoundInv'
    <2>1. \A d \in Fds : /\ Leaving(d)' <=> Leaving(d)
                         /\ Readable(d)' <=> Readable(d)
      BY <1>1, <1>12 DEF Leaving, Readable
    <2> QED BY <1>1, <1>4, <2>1 DEF ConnInv, RoundInv
  <1> QED BY <1>1, <1>9, <1>11, <1>13, <1>14 DEF ConnInv

\* The round is over: the callback goes, and send gives wpdu_ up.
LEMMA RemovedKeeps ==
  ASSUME ConnInv, aborted = "no", NEW t \in Workers, Removed(t) PROVE ConnInv'
  <1>0. PICK c : c = worker[t].c
    OBVIOUS
  <1>1. /\ worker[t].pc = "removed" /\ callbacks' = callbacks \ {c}
        /\ worker' = SendEnds(worker, t, FALSE)
        /\ conn' = [conn EXCEPT ![c] = NoPdu(conn[c])]
        /\ UNCHANGED <<table, acceptor, latest, rfds, wfds, pendingChange, wake, poll,
                       errnoAgain, jobq, peerVars, aborted>>
    BY <1>0 DEF Removed
  <1>2. c \in Fds /\ conn[c].open
    BY <1>0, <1>1, ThreadFacts, ServedOpen
  <1>3. conn[c] \in Conns
    BY <1>2, ConnFacts
  <1>4. /\ {pendingChange, wake} \subseteq BOOLEAN
        /\ rfds \subseteq Fds /\ wfds \subseteq Fds /\ callbacks \subseteq Fds
        /\ poll.r \cup poll.w \subseteq Fds
    BY TypeFacts DEF PollType
  <1>m. PICK m : m = NoPdu(conn[c])
    OBVIOUS
  <1>5. /\ m \in Conns /\ m.wbuf = None /\ m.wsz = 0 /\ m.wlong = 0
        /\ m.open = conn[c].open /\ m.dead = conn[c].dead
        /\ m.refno = conn[c].refno /\ m.leaked = conn[c].leaked
        /\ m.inq = conn[c].inq /\ m.broken = conn[c].broken
    BY <1>3, <1>m, NoPduIs
  <1>6. /\ conn' \in [Fds -> Conns] /\ conn'[c] = m
        /\ \A d \in Fds : d # c => conn'[d] = conn[d]
        /\ m.open
    BY <1>1, <1>2, <1>m, <1>5, TypeFacts, SetConn
  <1>7. /\ worker' \in [Workers -> Threads]
        /\ worker'[t].pc = "sent" /\ worker'[t].c = worker[t].c
        /\ worker'[t].req = worker[t].req
        /\ \A u \in Workers : u # t =>
             /\ worker'[u].c = worker[u].c /\ worker'[u].req = worker[u].req
             /\ \/ worker'[u].pc = worker[u].pc
                \/ worker[u].pc = "wait_send" /\ worker'[u].pc = "send"
    BY <1>1, TypeFacts, SendEndsIs
  <1>8. SenderStep(t)
    <2>1. worker[t].pc \in Sending
      BY <1>1 DEF Sending, Removal
    <2> QED BY <1>1, <1>4, <1>7, <2>1 DEF SenderStep
  <1>9. TypeOK' /\ WorkInv' /\ AcceptInv' /\ FreeInv' /\ RefsCounted'
    BY <1>2, <1>5, <1>6, <1>8, SenderKeeps
  <1>10. WbufInv'
    <2>1. worker[t].c = c /\ conn'[c].wbuf = None /\ conn'[c].wsz = 0
      BY <1>0, <1>5, <1>6
    <2>2. \A d \in Fds : d # c => conn'[d] = conn[d]
      BY <1>6
    <2>3. \/ conn'[c].wbuf = None /\ conn'[c].wsz = 0
          \/ conn'[c].wbuf = t /\ worker'[t].pc \in Sending
      BY <2>1
    <2>4. worker[t].c = c
      BY <2>1
    <2> QED BY <1>2, <1>8, <2>2, <2>3, <2>4, OtherBuffers
  <1>11. \A d \in Fds : /\ conn'[d].open = conn[d].open /\ conn'[d].dead = conn[d].dead
                        /\ Readable(d)' <=> Readable(d)
    <2> TAKE d \in Fds
    <2>1. CASE d = c
      BY <1>5, <1>6, <2>1 DEF Readable
    <2>2. CASE d # c
      BY <1>6, <2>2 DEF Readable
    <2> QED BY <2>1, <2>2
  <1>12. \A d \in Fds, u \in Workers :
           /\ Works(u, d, Removal)' => Works(u, d, Removal)
           /\ Works(u, d, Removal) => Works(u, d, Removal)' \/ d = c
           /\ Works(u, d, {"remove", "wait_removed"})'
                <=> Works(u, d, {"remove", "wait_removed"})
           /\ Works(u, d, {"wait_removed", "removed"})'
                => Works(u, d, {"wait_removed", "removed"})
    BY <1>0, <1>1, <1>7 DEF Works, Removal
  <1>13. DeadInv'
    <2>1. c \notin rfds \cup wfds
      <3>1. Works(t, c, {"wait_removed", "removed"})
        BY <1>0, <1>1 DEF Works
      <3> QED BY <1>2, <3>1 DEF ConnInv, DeadInv
    <2>2. Watched' \subseteq Watched \ {c} /\ Opened' = Opened
      BY <1>1, <1>11, <2>1 DEF Watched, Opened
    <2>3. ASSUME NEW d \in Fds, conn'[d].dead, d \in Watched'
          PROVE  \E u \in Workers : Works(u, d, Removal)'
      BY <1>11, <1>12, <2>2, <2>3 DEF ConnInv, DeadInv
    <2>4. ASSUME NEW d \in Fds, NEW u \in Workers
          PROVE  /\ Works(u, d, Removal)' => conn'[d].dead
                 /\ Works(u, d, {"wait_removed", "removed"})' => d \notin rfds' \cup wfds'
      <3>1. /\ Works(u, d, Removal) => conn[d].dead
            /\ Works(u, d, {"wait_removed", "removed"}) => d \notin rfds \cup wfds
        BY DEF ConnInv, DeadInv
      <3> QED BY <1>1, <1>11, <1>12, <3>1
    <2> QED BY <2>2, <2>3, <2>4 DEF ConnInv, DeadInv
  <1>14. RoundInv'
    <2>1. \A d \in Fds : Leaving(d)' <=> Leaving(d)
      BY <1>12 DEF Leaving
    <2> QED BY <1>1, <1>4, <1>11, <2>1 DEF ConnInv, RoundInv
  <1> QED BY <1>1, <1>9, <1>10, <1>13, <1>14 DEF ConnInv

-----------------------------------------------------------------------------
(* The accepting thread                                                    *)

\* The table and the accepting thread hold one reference together.
LEMMA RefsOfTable ==
  ASSUME ConnInv, UNCHANGED <<latest, jobq, worker>>,
         \A d \in Fds :
           /\ conn'[d].refno \in Int /\ conn'[d].leaked \in Int
           /\ conn'[d].refno - conn'[d].leaked =
                conn[d].refno - conn[d].leaked + (InTable(d)' - InTable(d))
  PROVE  RefsCounted'
  <1> SUFFICES ASSUME NEW d \in Fds PROVE conn'[d].refno = Holders(d)'
    BY DEF RefsCounted
  <1> DEFINE q == Cardinality(Queued(d))
             s == Cardinality(Serving(d))
             l == conn[d].leaked
             ll == conn'[d].leaked
             a == InTable(d)
             aa == InTable(d)'
             b == IsLatest(d)
  <1>1. conn[d].refno = a + b + q + s + l
    BY DEF ConnInv, RefsCounted, Holders, InTable, IsLatest
  <1>2. conn'[d].refno - ll = conn[d].refno - l + (aa - a)
    OBVIOUS
  <1>3. Holders(d)' = aa + b + q + s + ll
    <2>1. Queued(d)' = Queued(d) /\ Serving(d)' = Serving(d)
      BY DEF Queued, Serving
    <2> QED BY <2>1 DEF Holders, InTable, IsLatest
  <1>4. /\ a \in Nat /\ aa \in Nat /\ b \in Nat
        /\ l \in Nat /\ ll \in Int /\ conn'[d].refno \in Int /\ conn[d].refno \in Nat
    <2>1. l \in Nat /\ conn[d].refno \in Nat
      BY ConnFacts DEF Conns
    <2>2. a \in Nat /\ aa \in Nat /\ b \in Nat
      BY DEF InTable, IsLatest
    <2> QED BY <2>1, <2>2
  <1>5. q \in Nat /\ s \in Nat
    BY TypeFacts, CountsAreNumbers
  <1> HIDE DEF a, aa, b, q, s, l, ll
  <1> QED BY <1>1, <1>2, <1>3, <1>4, <1>5

\* Nothing refers to a free descriptor.
LEMMA FreeHasNoHolder ==
  ASSUME ConnInv, NEW c \in Fds, ~conn[c].open
  PROVE  /\ conn[c].refno = 0 /\ conn[c].leaked = 0 /\ ~conn[c].dead
         /\ c \notin table /\ acceptor.new # c /\ c \notin Watched
         /\ \A t \in Workers : ~Works(t, c, Removal)
  <1>1. conn[c].refno = 0 /\ ~conn[c].dead
    BY DEF ConnInv, FreeInv
  <1>2. c \notin table /\ acceptor.new # c
    BY <1>1, TypeFacts, SomeReference DEF ConnInv
  <1>3. conn[c].leaked = 0
    <2> DEFINE a == InTable(c)
               b == IsLatest(c)
               q == Cardinality(Queued(c))
               s == Cardinality(Serving(c))
               l == conn[c].leaked
    <2>1. 0 = a + b + q + s + l
      BY <1>1 DEF ConnInv, RefsCounted, Holders, InTable, IsLatest
    <2>2. a \in Nat /\ b \in Nat /\ l \in Nat
      BY ConnFacts DEF InTable, IsLatest, Conns
    <2>3. q \in Nat /\ s \in Nat
      BY TypeFacts, CountsAreNumbers
    <2> HIDE DEF a, b, q, s
    <2> QED BY <2>1, <2>2, <2>3
  <1>4. c \notin Watched
    BY DEF ConnInv, DeadInv, Opened
  <1>5. \A t \in Workers : ~Works(t, c, Removal)
    BY <1>1 DEF ConnInv, DeadInv
  <1> QED BY <1>1, <1>2, <1>3, <1>4, <1>5

\* A step of the accepting thread that at most drops a reference.
LEMMA KeeperKeeps ==
  ASSUME ConnInv, conn' \in [Fds -> Conns], KeeperType', AcceptInv',
         \A d \in Fds :
           /\ \/ Gone(d)
              \/ Alike(conn[d], conn'[d]) /\ (conn[d].open \/ conn'[d].refno = conn[d].refno)
           /\ conn'[d].refno - conn'[d].leaked =
                conn[d].refno - conn[d].leaked + (InTable(d)' - InTable(d)),
         UNCHANGED <<latest, pollVars, poll, errnoAgain, jobq, worker, peerVars>>,
         aborted' \in {"no", "write_cb"}
  PROVE  ConnInv'
  <1>1. \A d \in Fds : Kept(d) \/ Gone(d)
    BY DEF Kept, Alike
  <1>2. TypeOK'
    <2>1. ConnType'
      <3>1. ASSUME NEW d \in Fds, conn'[d].wlong = -1 PROVE conn'[d].wsz = 0
        <4>1. conn[d].wlong = -1 => conn[d].wsz = 0
          BY ConnFacts
        <4> QED BY <3>1, <4>1, ClosedType DEF Gone, Alike
      <3> QED BY <3>1 DEF ConnType
    <2>2. PollType' /\ WorkType' /\ PeerType'
      BY TypeFacts DEF PollType, WorkType, PeerType, pollVars, peerVars
    <2> QED BY <2>1, <2>2 DEF TypeOK
  <1>3. SendersStay /\ RemoversStay
    BY DEF SendersStay, RemoversStay
  <1>4. RoundGoesOn
    <2>1. ASSUME NEW d \in Fds, poll.pc = "serve", d \in poll.r, Readable(d)
          PROVE  Readable(d)'
      <3>1. ~Gone(d)
        BY <2>1, GoneFree DEF ConnInv
      <3> QED BY <2>1, <3>1 DEF Alike, Readable
    <2> QED BY <2>1 DEF RoundGoesOn, pollVars
  <1>5. FreeInv' /\ WbufInv' /\ DeadInv' /\ RoundInv'
    BY <1>1, <1>3, <1>4, QuietKeeps
  <1>6. RefsCounted'
    <2>1. \A d \in Fds : conn'[d].refno \in Int /\ conn'[d].leaked \in Int
      BY DEF Conns
    <2> QED BY <2>1, RefsOfTable
  <1>7. WorkInv'
    BY DEF ConnInv, WorkInv
  <1> QED BY <1>2, <1>5, <1>6, <1>7 DEF ConnInv

\* A connection is accepted at the lowest free descriptor, which nobody refers to
\* or watches: add_callback finds no callback there.
LEMMA AcceptKeeps ==
  ASSUME ConnInv, aborted = "no", Accept PROVE ConnInv'
  <1> DEFINE free == {d \in Fds : ~conn[d].open}
  <1>0. PICK c : c = Min(free)
    OBVIOUS
  <1>1. /\ acceptor.pc = "accept" /\ free # {}
        /\ accepts' = accepts + 1
        /\ conn' = [conn EXCEPT ![c] = Fresh(accepts + 3)]
        /\ AddCallback(c, "RDONLY")
        /\ aborted' = IF c \in callbacks THEN "add_callback" ELSE aborted
        /\ acceptor' = [pc |-> "collect", new |-> c, todo |-> table]
        /\ UNCHANGED <<table, latest, poll, errnoAgain, jobq, worker, unsent, breaks>>
    BY <1>0 DEF Accept
  <1>2. c \in Fds /\ ~conn[c].open
    <2>1. free \in SUBSET Nat
      OBVIOUS
    <2>2. c \in free
      BY <1>0, <1>1, <2>1, Smallest
    <2> QED BY <2>2
  <1> HIDE DEF free
  <1>3. /\ conn[c].refno = 0 /\ conn[c].leaked = 0 /\ ~conn[c].dead
        /\ c \notin table /\ acceptor.new # c /\ c \notin Watched
        /\ \A t \in Workers : ~Works(t, c, Removal)
    BY <1>2, FreeHasNoHolder
  <1>k. PICK k : k = Fresh(accepts + 3)
    OBVIOUS
  <1>4. /\ k \in Conns /\ k.open /\ ~k.dead /\ k.refno = 1 /\ k.wbuf = None
        /\ k.leaked = 0 /\ k.wlong = 0 /\ k.wsz = 0
    <2>1. accepts + 3 \in Nat
      BY TypeFacts DEF PeerType
    <2> QED BY <1>k, <2>1, FreshType
  <1>5. /\ conn' \in [Fds -> Conns] /\ conn'[c] = k
        /\ \A d \in Fds : d # c => conn'[d] = conn[d]
    BY <1>1, <1>2, <1>k, <1>4, TypeFacts, SetConn
  <1>6. /\ rfds' = rfds \cup {c} /\ wfds' = wfds /\ callbacks' = callbacks \cup {c}
        /\ wake' = TRUE /\ pendingChange' = pendingChange
    BY <1>1 DEF AddCallback, WatchFd
  <1>7. aborted' = "no" /\ acceptor.new = None
    BY <1>1, <1>3 DEF Watched, ConnInv, AcceptInv
  <1>8. TypeOK'
    <2>1. ConnType'
      BY <1>4, <1>5, ConnFacts DEF ConnType
    <2>2. KeeperType'
      BY <1>1, <1>2, TypeFacts DEF KeeperType
    <2>3. PollType'
      BY <1>1, <1>2, <1>6, TypeFacts DEF PollType
    <2>4. WorkType' /\ PeerType'
      BY <1>1, TypeFacts DEF WorkType, PeerType
    <2> QED BY <2>1, <2>2, <2>3, <2>4 DEF TypeOK
  <1>9. WorkInv' /\ AcceptInv'
    BY <1>1, <1>2, <1>3 DEF ConnInv, WorkInv, AcceptInv
  <1>10. FreeInv'
    BY <1>4, <1>5 DEF ConnInv, FreeInv
  <1>11. WbufInv'
    <2>1. ASSUME NEW d \in Fds
          PROVE  /\ conn'[d].wbuf # None => Works(conn[d].wbuf, d, Sending)'
                 /\ conn'[d].wsz # 0 => conn'[d].wbuf # None
      <3>1. CASE d = c
        BY <1>4, <1>5, <3>1
      <3>2. CASE d # c
        BY <1>1, <1>5, <3>2 DEF ConnInv, WbufInv, Works
      <3> QED BY <3>1, <3>2
    <2> QED BY <2>1 DEF WbufInv
  <1>12. RefsCounted'
    <2>1. ASSUME NEW d \in Fds
          PROVE  /\ conn'[d].refno \in Int /\ conn'[d].leaked \in Int
                 /\ conn'[d].refno - conn'[d].leaked =
                      conn[d].refno - conn[d].leaked + (InTable(d)' - InTable(d))
      <3>1. conn[d].refno \in Nat /\ conn[d].leaked \in Nat
        BY ConnFacts DEF Conns
      <3>2. CASE d = c
        <4>1. InTable(d) = 0 /\ InTable(d)' = 1
          BY <1>1, <1>3, <3>2 DEF InTable
        <4> QED BY <1>3, <1>4, <1>5, <3>2, <4>1
      <3>3. CASE d # c
        <4>1. InTable(d)' = InTable(d)
          BY <1>1, <1>7, <3>3 DEF InTable
        <4>2. InTable(d) \in Nat
          BY DEF InTable
        <4>3. conn'[d] = conn[d]
          BY <1>5, <3>3
        <4> HIDE DEF InTable
        <4> QED BY <3>1, <4>1, <4>2, <4>3
      <3> QED BY <3>2, <3>3
    <2> QED BY <1>1, <2>1, RefsOfTable
  <1>13. \A d \in Fds, u \in Workers :
           /\ Works(u, d, Removal)' <=> Works(u, d, Removal)
           /\ Works(u, d, {"wait_removed", "removed"})'
                <=> Works(u, d, {"wait_removed", "removed"})
           /\ Works(u, d, {"wait_removed", "removed"}) => Works(u, d, Removal)
    BY <1>1 DEF Works, Removal
  <1>14. DeadInv'
    <2>1. Watched' = Watched \cup {c} /\ Opened \cup {c} \subseteq Opened'
      BY <1>2, <1>4, <1>5, <1>6 DEF Watched, Opened
    <2>2. ASSUME NEW d \in Fds, conn'[d].dead, d \in Watched'
          PROVE  \E u \in Workers : Works(u, d, Removal)'
      <3>1. d # c
        BY <1>4, <1>5, <2>2
      <3> QED BY <1>5, <1>13, <2>1, <2>2, <3>1 DEF ConnInv, DeadInv
    <2>3. ASSUME NEW d \in Fds, NEW u \in Workers
          PROVE  /\ Works(u, d, Removal)' => conn'[d].dead
                 /\ Works(u, d, {"wait_removed", "removed"})' => d \notin rfds' \cup wfds'
      <3>1. /\ Works(u, d, Removal) => conn[d].dead
            /\ Works(u, d, {"wait_removed", "removed"}) => d \notin rfds \cup wfds
        BY DEF ConnInv, DeadInv
      <3>2. Works(u, d, Removal) => d # c
        BY <1>3
      <3> QED BY <1>5, <1>6, <1>13, <3>1, <3>2
    <2> QED BY <2>1, <2>2, <2>3 DEF ConnInv, DeadInv
  <1>15. RoundInv'
    <2>1. poll.r \cup poll.w \subseteq Fds
      BY TypeFacts DEF PollType
    <2>2. \A d \in Fds : /\ Leaving(d)' <=> Leaving(d)
                         /\ d # c => (Readable(d)' <=> Readable(d))
      BY <1>1, <1>5 DEF Leaving, Works, Readable
    <2>3. \A d \in Fds : conn[d].open => conn'[d] = conn[d] /\ d # c
      BY <1>2, <1>5
    <2> QED BY <1>1, <2>1, <2>2, <2>3 DEF ConnInv, RoundInv
  <1> QED BY <1>7, <1>8, <1>9, <1>10, <1>11, <1>12, <1>14, <1>15 DEF ConnInv

\* process_accept looks at the next connection of the table.
LEMMA ExamineKeeps ==
  ASSUME ConnInv, aborted = "no", Examine PROVE ConnInv'
  <1>1. /\ acceptor.pc = "collect" /\ acceptor.todo # {}
        /\ UNCHANGED <<conn, table, latest, pollVars, poll, errnoAgain, jobq, worker,
                       peerVars, aborted>>
    BY DEF Examine
  <1>2. /\ acceptor.new \in Fds \ table /\ acceptor.todo \subseteq table
        /\ table \subseteq Fds /\ latest \in Fds \cup {None}
        /\ acceptor \in [pc : {"accept", "collect", "delete"},
                         new : Fds \cup {None}, todo : SUBSET Fds]
    BY <1>1, TypeFacts DEF ConnInv, AcceptInv, KeeperType
  <1>3. /\ acceptor' \in [pc : {"accept", "collect", "delete"},
                          new : Fds \cup {None}, todo : SUBSET Fds]
        /\ acceptor'.new = acceptor.new /\ acceptor'.todo \subseteq table
        /\ acceptor'.pc # "accept" /\ (acceptor'.pc = "delete" => acceptor'.todo # {})
    <2> DEFINE todo == acceptor.todo \ {Min(acceptor.todo)}
    <2>1. \/ acceptor' = [acceptor EXCEPT !.pc = "delete"]
          \/ acceptor' = [acceptor EXCEPT !.todo = todo]
      BY DEF Examine
    <2>2. todo \in SUBSET Fds /\ todo \subseteq table
      BY <1>2
    <2> HIDE DEF todo
    <2> QED BY <1>1, <1>2, <2>1, <2>2
  <1>4. KeeperType' /\ AcceptInv'
    BY <1>1, <1>2, <1>3 DEF KeeperType, AcceptInv
  <1>5. ASSUME NEW d \in Fds
        PROVE  /\ Alike(conn[d], conn'[d]) /\ conn'[d].refno = conn[d].refno
               /\ conn'[d].refno - conn'[d].leaked =
                    conn[d].refno - conn[d].leaked + (InTable(d)' - InTable(d))
    <2>1. Alike(conn[d], conn'[d]) /\ conn'[d] = conn[d]
      BY <1>1 DEF Alike
    <2>2. conn[d].refno \in Nat /\ conn[d].leaked \in Nat
      BY ConnFacts DEF Conns
    <2>3. InTable(d)' = InTable(d) /\ InTable(d) \in Nat
      BY <1>1, <1>3 DEF InTable
    <2> HIDE DEF InTable
    <2> QED BY <2>1, <2>2, <2>3
  <1>6. conn' \in [Fds -> Conns]
    BY <1>1, TypeFacts
  <1> QED BY <1>1, <1>4, <1>5, <1>6, KeeperKeeps

\* process_accept enters the new connection in the table.
LEMMA AcceptedKeeps ==
  ASSUME ConnInv, aborted = "no", Accepted PROVE ConnInv'
  <1>1. /\ acceptor.pc = "collect" /\ acceptor.todo = {}
        /\ table' = table \cup {acceptor.new}
        /\ acceptor' = [pc |-> "accept", new |-> None, todo |-> {}]
        /\ UNCHANGED <<conn, latest, pollVars, poll, errnoAgain, jobq, worker, peerVars,
                       aborted>>
    BY DEF Accepted
  <1>2. acceptor.new \in Fds \ table /\ table \subseteq Fds /\ latest \in Fds \cup {None}
    BY <1>1, TypeFacts DEF ConnInv, AcceptInv, KeeperType
  <1>4. KeeperType' /\ AcceptInv'
    BY <1>1, <1>2 DEF KeeperType, AcceptInv
  <1>5. ASSUME NEW d \in Fds
        PROVE  /\ Alike(conn[d], conn'[d]) /\ conn'[d].refno = conn[d].refno
               /\ conn'[d].refno - conn'[d].leaked =
                    conn[d].refno - conn[d].leaked + (InTable(d)' - InTable(d))
    <2>1. Alike(conn[d], conn'[d]) /\ conn'[d] = conn[d]
      BY <1>1 DEF Alike
    <2>2. conn[d].refno \in Nat /\ conn[d].leaked \in Nat
      BY ConnFacts DEF Conns
    <2>3. InTable(d)' = InTable(d) /\ InTable(d) \in Nat
      BY <1>1 DEF InTable
    <2> HIDE DEF InTable
    <2> QED BY <2>1, <2>2, <2>3
  <1>6. conn' \in [Fds -> Conns]
    BY <1>1, TypeFacts
  <1> QED BY <1>1, <1>4, <1>5, <1>6, KeeperKeeps

\* A dead connection that only the table refers to is deleted, whatever happened
\* since it was found to be one.
LEMMA CollectKeeps ==
  ASSUME ConnInv, aborted = "no", Collect PROVE ConnInv'
  <1>0. PICK c : c = Min(acceptor.todo)
    OBVIOUS
  <1> DEFINE dn == Decref(conn, c)
             todo == acceptor.todo \ {c}
  <1>1. /\ acceptor.pc = "delete" /\ conn' = dn
        /\ aborted' = IF DestructorFails(c) THEN "destructor" ELSE aborted
        /\ table' = table \ {c}
        /\ acceptor' = [acceptor EXCEPT !.pc = "collect", !.todo = todo]
        /\ UNCHANGED <<latest, pollVars, poll, errnoAgain, jobq, worker, peerVars>>
    BY <1>0 DEF Collect
  <1>2. /\ acceptor.new \in Fds \ table /\ acceptor.todo \subseteq table
        /\ acceptor.todo # {}
        /\ table \subseteq Fds /\ latest \in Fds \cup {None}
        /\ acceptor \in [pc : {"accept", "collect", "delete"},
                         new : Fds \cup {None}, todo : SUBSET Fds]
    BY <1>1, TypeFacts DEF ConnInv, AcceptInv, KeeperType
  <1>3. c \in table /\ c \in Fds
    <2>1. acceptor.todo \in SUBSET Nat
      BY <1>2
    <2>2. c \in acceptor.todo
      BY <1>0, <1>2, <2>1, Smallest
    <2> QED BY <1>2, <2>2
  <1>4. /\ dn \in [Fds -> Conns]
        /\ \A d \in Fds : d # c => dn[d] = conn[d]
        /\ conn[c].open
        /\ conn[c].wbuf # None => ~(conn[c].refno = 1 /\ conn[c].dead)
        /\ dn[c].refno = conn[c].refno - 1
        /\ dn[c].leaked = conn[c].leaked
        /\ \/ Alike(conn[c], dn[c])
           \/ /\ dn[c] = Closed /\ conn[c].dead
              /\ \A u \in Workers : ~Works(u, c, Sending)
    BY <1>3, DecrefKeeps
  <1> HIDE DEF dn
  <1>5. aborted' = "no"
    BY <1>1, <1>4 DEF DestructorFails
  <1>6. /\ acceptor' \in [pc : {"accept", "collect", "delete"},
                          new : Fds \cup {None}, todo : SUBSET Fds]
        /\ acceptor'.new = acceptor.new /\ acceptor'.todo = todo
        /\ acceptor'.pc = "collect"
    <2>1. todo \in SUBSET Fds
      BY <1>2
    <2> HIDE DEF todo
    <2> QED BY <1>1, <1>2, <2>1
  <1>7. KeeperType' /\ AcceptInv'
    BY <1>1, <1>2, <1>6 DEF KeeperType, AcceptInv
  <1>8. ASSUME NEW d \in Fds
        PROVE  /\ \/ Gone(d)
                  \/ Alike(conn[d], conn'[d])
                       /\ (conn[d].open \/ conn'[d].refno = conn[d].refno)
               /\ conn'[d].refno - conn'[d].leaked =
                    conn[d].refno - conn[d].leaked + (InTable(d)' - InTable(d))
    <2>1. conn[d].refno \in Nat /\ conn[d].leaked \in Nat
      BY ConnFacts DEF Conns
    <2>2. CASE d = c
      <3>1. InTable(d) = 1 /\ InTable(d)' = 0
        BY <1>1, <1>2, <1>3, <1>6, <2>2 DEF InTable
      <3>2. Gone(d) \/ Alike(conn[d], conn'[d])
        BY <1>1, <1>4, <2>2 DEF Gone
      <3> QED BY <1>1, <1>4, <2>1, <2>2, <3>1, <3>2
    <2>3. CASE d # c
      <3>1. InTable(d)' = InTable(d) /\ InTable(d) \in Nat
        BY <1>1, <1>6, <2>3 DEF InTable
      <3>2. Alike(conn[d], conn'[d]) /\ conn'[d] = conn[d]
        BY <1>1, <1>4, <2>3 DEF Alike
      <3> HIDE DEF InTable
      <3> QED BY <2>1, <3>1, <3>2
    <2> QED BY <2>2, <2>3
  <1> QED BY <1>1, <1>4, <1>5, <1>7, <1>8, KeeperKeeps

-----------------------------------------------------------------------------
(* The theorems                                                            *)

\* Every step keeps the inductive invariant.
LEMMA ConnNext == ConnInv /\ [Next]_vars => ConnInv'
  <1> SUFFICES ASSUME ConnInv, [Next]_vars PROVE ConnInv'
    OBVIOUS
  <1>1. CASE UNCHANGED vars
    BY <1>1 DEF vars, pollVars, peerVars, ConnInv, TypeOK, ConnType, KeeperType, PollType,
         WorkType, PeerType, WorkInv, AcceptInv, FreeInv, WbufInv, DeadInv, RoundInv,
         RefsCounted, Holders, Queued, Serving, Works, Watched, Opened, Leaving, Readable
  <1>2. CASE aborted = "no" /\ PollStep
    BY <1>2, StartRoundKeeps, SelectKeeps, ServeReadableKeeps, ServeWritableKeeps DEF PollStep
  <1>3. ASSUME aborted = "no", NEW t \in Workers, WorkerStep(t) PROVE ConnInv'
    BY <1>3, TakeJobKeeps, DispatchKeeps, PickConnectionKeeps, SendKeeps, CompletedKeeps,
       BlockRemoveKeeps, RemovedKeeps, ReturnKeeps DEF WorkerStep
  <1>4. CASE aborted = "no" /\ (Accept \/ AcceptorStep)
    BY <1>4, AcceptKeeps, ExamineKeeps, CollectKeeps, AcceptedKeeps DEF AcceptorStep
  <1>5. CASE aborted = "no" /\ PeerStep
    BY <1>5, PeersKeep
  <1> QED BY <1>1, <1>2, <1>3, <1>4, <1>5 DEF Next, AtRest

\* The references of the connections, the watched descriptors and the round of the
\* poll thread agree in every reachable state, for any number of descriptors and
\* threads.
THEOREM ConnInvariant == Spec => []ConnInv
  <1>1. Init => ConnInv
    BY InitInv
  <1>2. ConnInv /\ [Next]_vars => ConnInv'
    BY ConnNext
  <1> QED BY <1>1, <1>2, PTL DEF Spec

\* refno_ counts who can reach a connection (incref, decref, process_accept,
\* got_pdu, dispatch).
THEOREM RefsCountedHolds == Spec => []RefsCounted
  <1>1. ConnInv => RefsCounted
    BY DEF ConnInv
  <1> QED BY <1>1, ConnInvariant, PTL

\* The poll thread selects on and calls back open connections only, and no VERIFY
\* of readpdu, add_callback or the destructor fails.
THEOREM PollSoundHolds == Spec => []PollSound
  <1>1. ConnInv => PollSound
    <2> SUFFICES ASSUME ConnInv PROVE PollSound
      OBVIOUS
    <2>1. rfds \cup wfds \cup callbacks \subseteq Opened
      BY DEF ConnInv, DeadInv, Watched
    <2>2. poll.r \cup poll.w \subseteq Fds
      BY TypeFacts DEF PollType
    <2>3. poll.pc = "select" => poll.r \cup poll.w \subseteq Opened
      BY <2>2 DEF ConnInv, RoundInv, Opened
    <2> QED BY <2>1, <2>3 DEF PollSound, ConnInv
  <1> QED BY <1>1, ConnInvariant, PTL

HIDE ConnectionAssumption DEF PduSize

-----------------------------------------------------------------------------
(* Waiting and being woken                                                 *)

\* Where a thread in send may wait, or owns wpdu_.
Waiting == Sending \cup {"wait_send"}

\* A connection with the same PDU on its way, dead or alive as before.
SameBuffer(k, m) ==
    m.wbuf = k.wbuf /\ m.dead = k.dead /\ m.wlong = k.wlong /\ m.wsz = k.wsz

\* Who serves a connection keeps it open, also after a step.
ServedAreOpen == \A c \in Fds, t \in Workers : worker[t].c = c => conn[c].open

LEMMA OpenIfServed == ConnInv => ServedAreOpen
  BY ServedOpen DEF ServedAreOpen

LEMMA OpenIfServedNext == ConnInv' => ServedAreOpen'
  BY OpenIfServed, PTL

\* What holds at a connection still holds when those in send there stay, with the
\* same PDU, and it is still watched.
LEMMA WaitAtKept ==
  ASSUME NEW d \in Fds, WaitAt(d),
         \A u \in Workers : worker'[u].c = d /\ worker'[u].pc \in Waiting =>
           /\ worker[u].c = d
           /\ \/ worker'[u].pc = worker[u].pc
              \/ worker[u].pc = "wait_removed" /\ worker'[u].pc = "removed"
           /\ SameBuffer(conn[d], conn'[d]),
         d \in wfds \cap callbacks => d \in wfds' \cap callbacks'
  PROVE  WaitAt(d)'
  <1> SUFFICES ASSUME NEW u \in Workers, worker'[u].c = d
               PROVE  /\ worker'[u].pc \in Sending => conn'[d].wbuf = u
                      /\ worker'[u].pc = "completed" =>
                           conn'[d].dead \/ conn'[d].wlong = conn'[d].wsz
                      /\ worker'[u].pc = "wait_send" => conn'[d].wbuf # None
                      /\ worker'[u].pc = "wait_complete" =>
                           /\ ~conn'[d].dead /\ conn'[d].wlong \in 0..(conn'[d].wsz - 1)
                           /\ d \in wfds' \cap callbacks'
    BY DEF WaitAt, Serving
  <1>1. CASE worker'[u].pc \notin Waiting
    BY <1>1 DEF Waiting, Sending
  <1>2. CASE worker'[u].pc \in Waiting
    <2>1. /\ worker[u].c = d /\ SameBuffer(conn[d], conn'[d])
          /\ \/ worker'[u].pc = worker[u].pc
             \/ worker[u].pc = "wait_removed" /\ worker'[u].pc = "removed"
      BY <1>2
    <2>2. /\ worker[u].pc \in Sending => conn[d].wbuf = u
          /\ worker[u].pc = "completed" => conn[d].dead \/ conn[d].wlong = conn[d].wsz
          /\ worker[u].pc = "wait_send" => conn[d].wbuf # None
          /\ worker[u].pc = "wait_complete" =>
               /\ ~conn[d].dead /\ conn[d].wlong \in 0..(conn[d].wsz - 1)
               /\ d \in wfds \cap callbacks
      BY <2>1 DEF WaitAt, Serving
    <2>3. worker[u].pc = "wait_removed" => worker[u].pc \in Sending
      BY DEF Sending, Removal
    <2> QED BY <2>1, <2>2, <2>3 DEF SameBuffer
  <1> QED BY <1>1, <1>2

\* Threads that leave the queue for a job, or come back to it, disturb nobody.
LEMMA JobsTakenKept ==
  ASSUME JobsTaken, jobq' = jobq,
         \A u \in Workers : /\ worker'[u].pc = "wait_job" => worker[u].pc = "wait_job"
                            /\ worker[u].pc = "take" => worker'[u].pc = "take"
  PROVE  JobsTaken'
  <1>1. At("wait_job")' \subseteq At("wait_job") /\ At("take") \subseteq At("take")'
    BY DEF At
  <1>2. IsFiniteSet(At("take")') /\ IsFiniteSet(At("take"))
    <2> DEFINE S == At("take")
    <2>1. S \subseteq Workers /\ S' \subseteq Workers
      BY DEF At
    <2>2. IsFiniteSet(Workers)
      BY ConnectionAssumption
    <2> HIDE DEF S
    <2>3. IsFiniteSet(S) /\ IsFiniteSet(S')
      BY <2>1, <2>2, FS_Subset
    <2> QED BY <2>3 DEF S
  <1>3. /\ Cardinality(At("take")) <= Cardinality(At("take")')
        /\ Cardinality(At("take")) \in Nat /\ Cardinality(At("take")') \in Nat
    BY <1>1, <1>2, FS_Subset, FS_CardinalityType
  <1> QED BY <1>1, <1>3 DEF JobsTaken

\* Nor does anybody who does not begin to wait for the poll thread.
LEMMA RoundsToldKept ==
  ASSUME RoundsTold,
         \A u \in Workers : worker'[u].pc = "wait_removed" => worker[u].pc = "wait_removed",
         pendingChange => pendingChange', wake => wake',
         poll'.pc = "select" => poll.pc = "select"
  PROVE  RoundsTold'
  BY DEF RoundsTold, At

\* A step of one thread that does not wait in send afterwards.
LEMMA ThreadWaits ==
  ASSUME ConnInv', WaitInv, NEW t \in Workers, \A u \in Workers : u # t => worker'[u] = worker[u],
         worker'[t].pc \notin Waiting \cup {"wait_job"}, worker[t].pc # "take",
         \A d \in Fds : SameBuffer(conn[d], conn'[d]) \/ ~conn'[d].open,
         UNCHANGED <<jobq, poll, pollVars>>
  PROVE  WaitInv'
  <1>1. JobsTaken'
    BY JobsTakenKept DEF WaitInv
  <1>2. RoundsTold'
    <2>1. worker'[t].pc # "wait_removed"
      BY DEF Waiting, Sending, Removal
    <2> QED BY <2>1, RoundsToldKept DEF WaitInv, pollVars
  <1>3. ASSUME NEW d \in Fds PROVE WaitAt(d)'
    <2>1. ASSUME NEW u \in Workers, worker'[u].c = d, worker'[u].pc \in Waiting
          PROVE  /\ worker'[u] = worker[u]
                 /\ SameBuffer(conn[d], conn'[d])
      BY <2>1, OpenIfServedNext DEF ServedAreOpen
    <2> QED BY <2>1, WaitAtKept DEF WaitInv, pollVars
  <1> QED BY <1>1, <1>2, <1>3 DEF WaitInv

\* A step of the accepting thread or of a peer.
LEMMA OutsideWaits ==
  ASSUME ConnInv', WaitInv, \A d \in Fds : SameBuffer(conn[d], conn'[d]) \/ ~conn'[d].open,
         UNCHANGED <<jobq, worker, poll, pollVars>>
  PROVE  WaitInv'
  <1>1. JobsTaken'
    BY JobsTakenKept DEF WaitInv
  <1>2. RoundsTold'
    BY RoundsToldKept DEF WaitInv, pollVars
  <1>3. ASSUME NEW d \in Fds PROVE WaitAt(d)'
    <2>1. ASSUME NEW u \in Workers, worker'[u].c = d
          PROVE  SameBuffer(conn[d], conn'[d])
      BY <2>1, OpenIfServedNext DEF ServedAreOpen
    <2> QED BY <2>1, WaitAtKept DEF WaitInv, pollVars
  <1> QED BY <1>1, <1>2, <1>3 DEF WaitInv

\* StartRound releases whoever waits for the round.
LEMMA StartRoundWaits ==
  ASSUME ConnInv, WaitInv, StartRound PROVE WaitInv'
  <1>1. /\ pendingChange' = FALSE /\ poll'.pc = "select"
        /\ worker' = [t \in Workers |->
              IF pendingChange /\ worker[t].pc = "wait_removed"
              THEN [worker[t] EXCEPT !.pc = "removed"] ELSE worker[t]]
        /\ UNCHANGED <<conn, rfds, wfds, callbacks, jobq>>
    BY DEF StartRound
  <1>2. ASSUME NEW u \in Workers
        PROVE  /\ worker'[u].c = worker[u].c
               /\ \/ worker'[u].pc = worker[u].pc
                  \/ worker[u].pc = "wait_removed" /\ worker'[u].pc = "removed"
               /\ worker'[u].pc # "wait_removed"
    <2>1. worker[u] \in Threads
      BY TypeFacts
    <2>2. worker[u].pc = "wait_removed" => pendingChange
      BY DEF WaitInv, RoundsTold, At
    <2> QED BY <1>1, <2>1, <2>2 DEF Threads
  <1>3. JobsTaken'
    BY <1>1, <1>2, JobsTakenKept DEF WaitInv
  <1>4. RoundsTold'
    BY <1>2 DEF RoundsTold, At
  <1>5. ASSUME NEW d \in Fds PROVE WaitAt(d)'
    <2>1. WaitAt(d) /\ SameBuffer(conn[d], conn'[d])
      BY <1>1 DEF WaitInv, SameBuffer
    <2> QED BY <1>1, <1>2, <2>1, WaitAtKept
  <1> QED BY <1>3, <1>4, <1>5 DEF WaitInv

\* A step of the poll thread that leaves the threads and the PDUs as they are.
LEMMA QuietWaits ==
  ASSUME WaitInv, \A d \in Fds : SameBuffer(conn[d], conn'[d]), poll'.pc # "select",
         UNCHANGED <<worker, jobq, pendingChange, wfds, callbacks>>
  PROVE  WaitInv'
  <1>1. JobsTaken'
    BY JobsTakenKept DEF WaitInv
  <1>2. RoundsTold'
    BY DEF WaitInv, RoundsTold, At
  <1>3. \A d \in Fds : WaitAt(d)'
    BY WaitAtKept DEF WaitInv
  <1> QED BY <1>1, <1>2, <1>3 DEF WaitInv

LEMMA SelectWaits ==
  ASSUME WaitInv, Select PROVE WaitInv'
  <1>1. poll'.pc # "select" /\ UNCHANGED <<conn, worker, jobq, pendingChange, wfds, callbacks>>
    BY DEF Select
  <1> QED BY <1>1, QuietWaits DEF SameBuffer

\* What a signal on a connection does to the threads.
LEMMA SignalWakes ==
  ASSUME ConnInv, NEW c \in Fds, worker' = SignalComplete(worker, c), NEW u \in Workers
  PROVE  /\ worker'[u].c = worker[u].c
         /\ worker'[u].pc = IF worker[u].c = c /\ worker[u].pc = "wait_complete"
                            THEN "completed" ELSE worker[u].pc
  <1>1. worker[u] \in Threads
    BY TypeFacts
  <1> QED BY <1>1 DEF SignalComplete, Threads

\* The poll thread has written all of a PDU, or found the connection dead, and
\* wakes who waits for that.
LEMMA SignalledWaits ==
  ASSUME ConnInv, WaitInv, NEW c \in Fds, worker' = SignalComplete(worker, c),
         conn'[c].wbuf = conn[c].wbuf, conn'[c].dead \/ conn'[c].wlong = conn'[c].wsz,
         \A d \in Fds : d # c => conn'[d] = conn[d],
         \A d \in Fds : d # c /\ d \in wfds \cap callbacks => d \in wfds' \cap callbacks',
         poll'.pc # "select", UNCHANGED <<jobq, pendingChange>>
  PROVE  WaitInv'
  <1>1. \A u \in Workers :
          /\ worker'[u].c = worker[u].c
          /\ worker'[u].pc = IF worker[u].c = c /\ worker[u].pc = "wait_complete"
                             THEN "completed" ELSE worker[u].pc
    BY SignalWakes
  <1>2. JobsTaken'
    BY <1>1, JobsTakenKept DEF WaitInv
  <1>3. RoundsTold'
    BY <1>1 DEF WaitInv, RoundsTold, At
  <1>4. ASSUME NEW d \in Fds PROVE WaitAt(d)'
    <2>1. CASE d = c
      <3> SUFFICES ASSUME NEW u \in Workers, worker'[u].c = c
                   PROVE  /\ worker'[u].pc \in Sending => conn'[c].wbuf = u
                          /\ worker'[u].pc = "wait_send" => conn'[c].wbuf # None
                          /\ worker'[u].pc # "wait_complete"
        BY <2>1 DEF WaitAt, Serving
      <3>1. /\ worker[u].pc \in Sending => conn[c].wbuf = u
            /\ worker[u].pc = "wait_send" => conn[c].wbuf # None
        BY <1>1 DEF WaitInv, WaitAt, Serving
      <3> QED BY <1>1, <3>1 DEF Sending
    <2>2. CASE d # c
      <3>1. \A u \in Workers : worker'[u].c = d => worker[u].c = d /\ worker'[u].pc = worker[u].pc
        BY <1>1, <2>2
      <3>2. SameBuffer(conn[d], conn'[d])
        BY <2>2 DEF SameBuffer
      <3> QED BY <2>2, <3>1, <3>2, WaitAtKept DEF WaitInv
    <2> QED BY <2>1, <2>2
  <1> QED BY <1>2, <1>3, <1>4 DEF WaitInv

\* fifo::enq wakes a thread for the job, if one sleeps.
LEMMA EnqWaits ==
  ASSUME JobsTaken, worker \in [Workers -> Threads], NEW J, jobq \in Seq(J), NEW j \in J, Enq(j)
  PROVE  JobsTaken'
  <1>1. jobq' = Append(jobq, j) /\ Len(jobq') = Len(jobq) + 1 /\ Len(jobq) \in Nat
    BY DEF Enq
  <1>2. ASSUME NEW t \in Workers, worker[t].pc = "wait_job",
               worker' = [worker EXCEPT ![t].pc = "take"]
        PROVE  JobsTaken'
    <2> DEFINE S == At("take")
    <2>1. S \subseteq Workers /\ t \notin S
      BY <1>2 DEF At
    <2>2. S' = S \cup {t}
      BY <1>2 DEF At, Threads
    <2>3. IsFiniteSet(Workers)
      BY ConnectionAssumption
    <2>4. Cardinality(S) >= Len(jobq)
      BY <1>2 DEF JobsTaken, At
    <2> HIDE DEF S
    <2>5. IsFiniteSet(S)
      BY <2>1, <2>3, FS_Subset
    <2>6. Cardinality(S') = Cardinality(S) + 1 /\ Cardinality(S) \in Nat
      BY <2>1, <2>2, <2>5, FS_AddElement, FS_CardinalityType
    <2>7. Cardinality(S') >= Len(jobq')
      BY <1>1, <2>4, <2>6
    <2> QED BY <2>7 DEF S, JobsTaken
  <1>3. CASE (\A t \in Workers : worker[t].pc # "wait_job") /\ UNCHANGED worker
    BY <1>3 DEF JobsTaken, At
  <1> QED BY <1>2, <1>3 DEF Enq

\* read_cb.
LEMMA ServeReadableWaits ==
  ASSUME ConnInv, WaitInv, ServeReadable PROVE WaitInv'
  <1> DEFINE c == Min(poll.r)
  <1>1. /\ poll.pc = "serve" /\ poll.r # {} /\ poll' = Served(poll.r \ {c}, poll.w)
        /\ IF c \in callbacks
           THEN \E error \in {FALSE, conn[c].broken} : ReadCb(c, error)
           ELSE UNCHANGED <<conn, pollVars, errnoAgain, jobq, worker, aborted>>
    BY DEF ServeReadable
  <1>2. c \in poll.r /\ c \in Fds
    <2>1. poll.r \in SUBSET Nat
      BY TypeFacts, ConnectionAssumption
    <2> QED BY <1>1, <2>1, Smallest, TypeFacts
  <1> HIDE DEF c
  <1>3. poll'.pc # "select"
    BY <1>1 DEF Served
  <1> DEFINE k == conn[c]
  <1>4. k \in Conns
    BY <1>2, ConnFacts
  <1>5. CASE UNCHANGED <<conn, pollVars, jobq, worker>>
    <2>1. \A d \in Fds : SameBuffer(conn[d], conn'[d])
      BY <1>5 DEF SameBuffer
    <2> QED BY <1>3, <1>5, <2>1, QuietWaits DEF pollVars
  <1>6. CASE c \in callbacks /\ ~k.dead
    <2>1. PICK error \in BOOLEAN : ReadCb(c, error)
      <3>1. k.broken \in BOOLEAN
        BY <1>4 DEF Conns
      <3> QED BY <1>1, <1>6, <3>1
    <2> DEFINE res == ReadPdu(k, error)
               m == res.k
    <2>2. Readable(c)
      BY <1>1, <1>2, <1>6 DEF ConnInv, RoundInv
    <2>3. /\ IF res.ok THEN UNCHANGED pollVars ELSE DelCallback(c, "RDWR")
          /\ CASE ~res.ok ->
                    /\ conn' = [conn EXCEPT ![c] = [m EXCEPT !.dead = TRUE]]
                    /\ worker' = SignalComplete(worker, c)
                    /\ UNCHANGED jobq
               [] res.ok /\ Whole(m) /\ Len(jobq) < QueueMax -> GotPdu(m, c)
               [] OTHER ->
                    /\ conn' = [conn EXCEPT ![c] = m]
                    /\ UNCHANGED <<jobq, worker>>
      BY <1>6, <2>1, <2>2 DEF ReadCb, Readable
    <2>4. m \in Conns /\ Steady(k, m) /\ res.ok \in BOOLEAN
      BY <1>4, TypeFacts, ReadPduIs DEF PollType
    <2> HIDE DEF res, m
    <2>5. CASE ~res.ok
      <3>d. PICK d : d = [m EXCEPT !.dead = TRUE]
        OBVIOUS
      <3>1. /\ conn' = [conn EXCEPT ![c] = d] /\ worker' = SignalComplete(worker, c)
            /\ DelCallback(c, "RDWR") /\ jobq' = jobq
        BY <2>3, <2>5, <3>d
      <3>2. d \in Conns /\ d.dead /\ d.wbuf = k.wbuf
        <4>1. d \in Conns
          BY <2>4, <3>d, SetField
        <4>2. d.dead /\ d.wbuf = m.wbuf
          BY <2>4, <3>d DEF Conns
        <4> QED BY <2>4, <4>1, <4>2 DEF Steady
      <3>3. /\ conn'[c] = d /\ \A e \in Fds : e # c => conn'[e] = conn[e]
        BY <1>2, <3>1, <3>2, TypeFacts, SetConn
      <3>4. /\ \A e \in Fds : e # c /\ e \in wfds \cap callbacks => e \in wfds' \cap callbacks'
            /\ pendingChange' = pendingChange
        BY <3>1 DEF DelCallback, UnwatchFd
      <3>5. conn'[c].wbuf = conn[c].wbuf /\ conn'[c].dead
        BY <3>2, <3>3
      <3> QED BY <1>2, <1>3, <3>1, <3>3, <3>4, <3>5, SignalledWaits
    <2>6. CASE res.ok /\ Whole(m) /\ Len(jobq) < QueueMax
      <3>p. PICK p : p = DropPdu(m)
        OBVIOUS
      <3>n. PICK n : n = m.refno + 1
        OBVIOUS
      <3>d. PICK d : d = [p EXCEPT !.refno = n]
        OBVIOUS
      <3>j. PICK j : j = [c |-> c, req |-> m.rreq]
        OBVIOUS
      <3>1. p \in Conns /\ Steady(m, p) /\ n \in Nat
        <4>1. m.refno \in Nat
          BY <2>4 DEF Conns
        <4> QED BY <2>4, <3>p, <3>n, <4>1, ReadPartIs
      <3>2. Enq(j) /\ conn' = [conn EXCEPT ![c] = d] /\ UNCHANGED pollVars
        <4>1. p.refno = m.refno
          BY <3>1 DEF Steady
        <4>2. conn' = [conn EXCEPT ![c] = [p EXCEPT !.refno = p.refno + 1]]
          BY <2>3, <2>6, <3>p DEF GotPdu
        <4> QED BY <2>3, <2>6, <3>n, <3>d, <3>j, <4>1, <4>2 DEF GotPdu
      <3>3. j \in Jobs
        BY <1>2, <2>4, <2>6, <3>j DEF Jobs, Whole, Conns
      <3>4. d \in Conns /\ SameBuffer(k, d)
        <4>1. /\ d \in Conns /\ d.dead = p.dead
              /\ d.wbuf = p.wbuf /\ d.wsz = p.wsz /\ d.wlong = p.wlong
          BY <3>d, <3>1, RefnoSet
        <4> QED BY <2>4, <3>1, <4>1 DEF Steady, SameBuffer
      <3>5. \A e \in Fds : SameBuffer(conn[e], conn'[e])
        <4>1. conn'[c] = d /\ \A e \in Fds : e # c => conn'[e] = conn[e]
          BY <1>2, <3>2, <3>4, TypeFacts, SetConn
        <4> QED BY <3>4, <4>1 DEF SameBuffer
      <3>6. \A u \in Workers :
              /\ worker'[u].c = worker[u].c
              /\ \/ worker'[u].pc = worker[u].pc
                 \/ worker[u].pc = "wait_job" /\ worker'[u].pc = "take"
        BY <3>2, <3>3, EnqIs, TypeFacts
      <3>7. JobsTaken'
        BY <3>2, <3>3, EnqWaits, TypeFacts DEF WaitInv
      <3>8. RoundsTold'
        BY <1>3, <3>2, <3>6 DEF WaitInv, RoundsTold, At, pollVars
      <3>9. ASSUME NEW e \in Fds PROVE WaitAt(e)'
        <4>1. ASSUME NEW u \in Workers, worker'[u].c = e, worker'[u].pc \in Waiting
              PROVE  worker[u].c = e /\ worker'[u].pc = worker[u].pc
          <5>1. worker'[u].pc # "take"
            BY <4>1 DEF Waiting, Sending, Removal
          <5> QED BY <3>6, <4>1, <5>1
        <4> QED BY <3>2, <3>5, <4>1, WaitAtKept DEF WaitInv, pollVars
      <3> QED BY <3>7, <3>8, <3>9 DEF WaitInv
    <2>7. CASE res.ok /\ ~(Whole(m) /\ Len(jobq) < QueueMax)
      <3>1. conn' = [conn EXCEPT ![c] = m] /\ UNCHANGED <<jobq, worker, pollVars>>
        BY <2>3, <2>7
      <3>2. conn'[c] = m /\ \A e \in Fds : e # c => conn'[e] = conn[e]
        BY <1>2, <2>4, <3>1, TypeFacts, SetConn
      <3>3. \A e \in Fds : SameBuffer(conn[e], conn'[e])
        BY <2>4, <3>2 DEF SameBuffer, Steady
      <3> QED BY <1>3, <3>1, <3>3, QuietWaits DEF pollVars
    <2> QED BY <2>4, <2>5, <2>6, <2>7
  <1>7. CASE c \in callbacks /\ k.dead
    <2>1. \E error : ReadCb(c, error)
      BY <1>1, <1>7
    <2> QED BY <1>5, <1>7, <2>1 DEF ReadCb
  <1> QED BY <1>1, <1>5, <1>6, <1>7

\* write_cb.
LEMMA ServeWritableWaits ==
  ASSUME ConnInv, WaitInv, ServeWritable PROVE WaitInv'
  <1> DEFINE c == Min(poll.w)
  <1>1. /\ poll.pc = "serve" /\ poll.w # {} /\ poll' = Served({}, poll.w \ {c})
        /\ IF c \in callbacks
           THEN WriteCb(c)
           ELSE UNCHANGED <<conn, pollVars, errnoAgain, worker, aborted>>
        /\ jobq' = jobq
    BY DEF ServeWritable
  <1>2. c \in poll.w /\ c \in Fds
    <2>1. poll.w \in SUBSET Nat
      BY TypeFacts, ConnectionAssumption
    <2> QED BY <1>1, <2>1, Smallest, TypeFacts
  <1> HIDE DEF c
  <1>3. poll'.pc # "select"
    BY <1>1 DEF Served
  <1> DEFINE k == conn[c]
  <1>4. k \in Conns
    BY <1>2, ConnFacts
  <1>5. CASE UNCHANGED <<conn, pollVars, worker>>
    <2>1. \A d \in Fds : SameBuffer(conn[d], conn'[d])
      BY <1>5 DEF SameBuffer
    <2> QED BY <1>1, <1>3, <1>5, <2>1, QuietWaits DEF pollVars
  <1>6. CASE c \in callbacks /\ k.dead
    BY <1>1, <1>5, <1>6 DEF WriteCb
  <1>7. CASE c \in callbacks /\ ~k.dead /\ k.wsz = 0
    <2>1. DelCallback(c, "WRONLY") /\ UNCHANGED <<conn, worker>>
      BY <1>1, <1>7 DEF WriteCb
    <2>2. /\ \A d \in Fds : d # c /\ d \in wfds \cap callbacks => d \in wfds' \cap callbacks'
          /\ pendingChange' = pendingChange
      BY <2>1 DEF DelCallback, UnwatchFd
    <2>3. JobsTaken'
      BY <1>1, <2>1, JobsTakenKept DEF WaitInv
    <2>4. RoundsTold'
      BY <1>3, <2>1, <2>2 DEF WaitInv, RoundsTold, At
    <2>5. ASSUME NEW d \in Fds PROVE WaitAt(d)'
      <3>1. CASE d # c
        BY <2>1, <2>2, <3>1, WaitAtKept DEF WaitInv, SameBuffer
      <3>2. CASE d = c
        <4>1. \A u \in Workers : worker[u].c = c => worker[u].pc # "wait_complete"
          BY <1>2, <1>7 DEF WaitInv, WaitAt, Serving
        <4> QED BY <1>2, <2>1, <3>2, <4>1 DEF WaitInv, WaitAt, Serving
      <3> QED BY <3>1, <3>2
    <2> QED BY <2>3, <2>4, <2>5 DEF WaitInv
  <1>8. CASE c \in callbacks /\ ~k.dead /\ k.wsz # 0 /\ k.wlong < k.wsz /\ k.broken
    <2>1. /\ DelCallback(c, "RDWR") /\ worker' = SignalComplete(worker, c)
          /\ conn' = [conn EXCEPT ![c].dead = TRUE, ![c].wlong = -1, ![c].wsz = 0]
      BY <1>1, <1>8 DEF WriteCb
    <2>2. /\ conn'[c].dead /\ conn'[c].wbuf = conn[c].wbuf
          /\ \A d \in Fds : d # c => conn'[d] = conn[d]
      <3>1. conn' = [conn EXCEPT ![c] = [k EXCEPT !.dead = TRUE, !.wlong = -1, !.wsz = 0]]
        BY <1>2, <2>1, TypeFacts
      <3> QED BY <1>2, <1>4, <3>1, TypeFacts DEF Conns
    <2>3. /\ \A d \in Fds : d # c /\ d \in wfds \cap callbacks => d \in wfds' \cap callbacks'
          /\ pendingChange' = pendingChange
      BY <2>1 DEF DelCallback, UnwatchFd
    <2> QED BY <1>1, <1>2, <1>3, <2>1, <2>2, <2>3, SignalledWaits
  <1>9. CASE c \in callbacks /\ ~k.dead /\ k.wsz # 0 /\ ~(k.wlong < k.wsz /\ k.broken)
    <2>m. PICK m : m = Written(k)
      OBVIOUS
    <2>1. /\ conn' = [conn EXCEPT ![c] = m]
          /\ worker' = IF m.wlong = k.wsz THEN SignalComplete(worker, c) ELSE worker
          /\ UNCHANGED pollVars
      BY <1>1, <1>9, <2>m DEF WriteCb
    <2>2. /\ k.wsz = PduSize /\ k.wlong >= 0
          /\ k.wbuf \in Workers /\ worker[k.wbuf].req \in Requests
      BY <1>2, <1>9, SenderHasRequest
    <2>3. /\ m \in Conns /\ m.wlong >= k.wlong /\ m.wsz = k.wsz
          /\ m.dead = k.dead /\ m.wbuf = k.wbuf
      BY <1>4, <2>m, <2>2, WrittenType
    <2>4. conn'[c] = m /\ \A e \in Fds : e # c => conn'[e] = conn[e]
      BY <1>2, <2>1, <2>3, TypeFacts, SetConn
    <2>5. CASE m.wlong = k.wsz
      <3>1. worker' = SignalComplete(worker, c)
        BY <2>1, <2>5
      <3>2. conn'[c].wbuf = conn[c].wbuf /\ conn'[c].wlong = conn'[c].wsz
        BY <2>3, <2>4, <2>5
      <3> QED BY <1>1, <1>2, <1>3, <2>1, <2>4, <3>1, <3>2, SignalledWaits DEF pollVars
    <2>6. CASE m.wlong # k.wsz
      <3>1. worker' = worker
        BY <2>1, <2>6
      <3>2. m.wlong \in 0..(m.wsz - 1) /\ k.wlong # k.wsz
        <4>1. m.wlong \in -1..PduSize /\ k.wlong \in -1..PduSize
          BY <1>4, <2>3 DEF Conns
        <4> QED BY <2>2, <2>3, <2>6, <4>1 DEF PduSize
      <3>3. JobsTaken'
        BY <1>1, <3>1, JobsTakenKept DEF WaitInv
      <3>4. RoundsTold'
        BY <1>3, <2>1, <3>1 DEF WaitInv, RoundsTold, At, pollVars
      <3>5. ASSUME NEW d \in Fds PROVE WaitAt(d)'
        <4>1. CASE d # c
          BY <2>1, <2>4, <3>1, <4>1, WaitAtKept DEF WaitInv, SameBuffer, pollVars
        <4>2. CASE d = c
          <5> SUFFICES ASSUME NEW u \in Workers, worker[u].c = c
                       PROVE  /\ worker[u].pc \in Sending => m.wbuf = u
                              /\ worker[u].pc = "completed" => m.dead \/ m.wlong = m.wsz
                              /\ worker[u].pc = "wait_send" => m.wbuf # None
                              /\ worker[u].pc = "wait_complete" =>
                                   /\ ~m.dead /\ m.wlong \in 0..(m.wsz - 1)
                                   /\ c \in wfds' \cap callbacks'
            BY <2>4, <3>1, <4>2 DEF WaitAt, Serving
          <5>1. /\ worker[u].pc \in Sending => k.wbuf = u
                /\ worker[u].pc = "completed" => k.dead \/ k.wlong = k.wsz
                /\ worker[u].pc = "wait_send" => k.wbuf # None
                /\ worker[u].pc = "wait_complete" => ~k.dead /\ c \in wfds \cap callbacks
            BY <1>2 DEF WaitInv, WaitAt, Serving
          <5> QED BY <1>9, <2>1, <2>3, <3>2, <5>1 DEF pollVars
        <4> QED BY <4>1, <4>2
      <3> QED BY <3>3, <3>4, <3>5 DEF WaitInv
    <2> QED BY <2>5, <2>6
  <1>a. k.dead \in BOOLEAN /\ k.broken \in BOOLEAN
    BY <1>4 DEF Conns
  <1> QED BY <1>1, <1>5, <1>6, <1>7, <1>8, <1>9, <1>a

\* A reference more or less leaves the PDU alone, until the connection is closed.
LEMMA DecrefBuffers ==
  ASSUME NEW cn \in [Fds -> Conns], NEW c \in Fds, cn[c].refno >= 1, NEW d \in Fds
  PROVE  /\ Decref(cn, c) \in [Fds -> Conns]
         /\ SameBuffer(cn[d], Decref(cn, c)[d]) \/ ~Decref(cn, c)[d].open
  <1>p. PICK dn : dn = Decref(cn, c)
    OBVIOUS
  <1>1. /\ dn \in [Fds -> Conns]
        /\ \A e \in Fds : e # c => dn[e] = cn[e]
        /\ cn[c].refno = 1 /\ cn[c].dead => dn[c] = Closed
        /\ ~(cn[c].refno = 1 /\ cn[c].dead) =>
             dn[c] = [cn[c] EXCEPT !.refno = cn[c].refno - 1]
    BY <1>p, DecrefIs
  <1>2. CASE d # c
    BY <1>1, <1>2, <1>p DEF SameBuffer
  <1>3. CASE d = c /\ cn[c].refno = 1 /\ cn[c].dead
    <2>1. dn[d] = Closed
      BY <1>1, <1>3
    <2> QED BY <1>1, <1>p, <2>1, ClosedType
  <1>4. CASE d = c /\ ~(cn[c].refno = 1 /\ cn[c].dead)
    <2>n. PICK n : n = cn[c].refno - 1
      OBVIOUS
    <2>1. cn[c] \in Conns /\ n \in Nat
      <3>1. cn[c] \in Conns /\ cn[c].refno \in Nat
        BY DEF Conns
      <3> QED BY <2>n, <3>1
    <2>2. dn[c] = [cn[c] EXCEPT !.refno = n]
      BY <1>1, <1>4, <2>n
    <2> QED BY <1>1, <1>4, <1>p, <2>1, <2>2, RefnoSet DEF SameBuffer
  <1> QED BY <1>2, <1>3, <1>4

LEMMA IncrefBuffers ==
  ASSUME NEW cn \in [Fds -> Conns], NEW c \in Fds, NEW d \in Fds
  PROVE  /\ SameBuffer(cn[d], Incref(cn, c)[d])
         /\ Incref(cn, c)[d].open = cn[d].open
  <1>p. PICK dn : dn = Incref(cn, c)
    OBVIOUS
  <1>1. /\ \A e \in Fds : e # c => dn[e] = cn[e]
        /\ dn[c] = [cn[c] EXCEPT !.refno = cn[c].refno + 1]
    BY <1>p, IncrefIs
  <1>2. CASE d # c
    BY <1>1, <1>2, <1>p DEF SameBuffer
  <1>3. CASE d = c
    <2>n. PICK n : n = cn[c].refno + 1
      OBVIOUS
    <2>1. cn[c] \in Conns /\ n \in Nat
      <3>1. cn[c] \in Conns /\ cn[c].refno \in Nat
        BY DEF Conns
      <3> QED BY <2>n, <3>1
    <2>2. dn[c] = [cn[c] EXCEPT !.refno = n]
      BY <1>1, <2>n
    <2> QED BY <1>3, <1>p, <2>1, <2>2, RefnoSet DEF SameBuffer
  <1> QED BY <1>2, <1>3

\* A reference given up and another taken.
LEMMA MovedBuffers ==
  ASSUME NEW cn \in [Fds -> Conns], NEW c \in Fds, NEW e \in Fds, cn[c].refno >= 1, NEW d \in Fds
  PROVE  LET dn == Incref(Decref(cn, c), e) IN SameBuffer(cn[d], dn[d]) \/ ~dn[d].open
  <1>p. PICK dn : dn = Decref(cn, c)
    OBVIOUS
  <1>1. /\ dn \in [Fds -> Conns]
        /\ SameBuffer(cn[d], dn[d]) \/ ~dn[d].open
    BY <1>p, DecrefBuffers
  <1>2. /\ SameBuffer(dn[d], Incref(dn, e)[d])
        /\ Incref(dn, e)[d].open = dn[d].open
    BY <1>1, IncrefBuffers
  <1> QED BY <1>p, <1>1, <1>2 DEF SameBuffer

\* fifo::deq.
LEMMA TakeJobWaits ==
  ASSUME ConnInv, ConnInv', WaitInv, NEW t \in Workers, TakeJob(t) PROVE WaitInv'
  <1>1. worker[t].pc = "take" /\ UNCHANGED <<conn, pollVars, poll>>
    BY DEF TakeJob
  <1>2. jobq \in Seq(Jobs) /\ worker \in [Workers -> Threads]
    BY TypeFacts
  <1>3. /\ worker'[t].pc = IF jobq = <<>> THEN "wait_job" ELSE "dispatch"
        /\ \A u \in Workers : u # t => worker'[u] = worker[u]
        /\ jobq' = IF jobq = <<>> THEN jobq ELSE Tail(jobq)
    <2>1. CASE jobq = <<>>
      <3>1. Goto(t, "wait_job") /\ jobq' = jobq
        BY <2>1 DEF TakeJob
      <3>2. "wait_job" \in WorkerPcs
        BY DEF WorkerPcs
      <3> QED BY <1>2, <2>1, <3>1, <3>2, GotoIs
    <2>2. CASE jobq # <<>>
      <3>1. /\ worker' = [worker EXCEPT ![t] =
                 [Asleep EXCEPT !.pc = "dispatch", !.c = Head(jobq).c, !.req = Head(jobq).req]]
            /\ jobq' = Tail(jobq)
        BY <2>2 DEF TakeJob
      <3> QED BY <1>2, <2>2, <3>1 DEF Asleep
    <2> QED BY <2>1, <2>2
  <1>4. JobsTaken'
    <2> DEFINE S == At("take")
    <2>1. S \subseteq Workers /\ t \in S
      BY <1>1 DEF At
    <2>2. S' = S \ {t}
      BY <1>3 DEF At
    <2>3. IsFiniteSet(Workers)
      BY ConnectionAssumption
    <2>4. At("wait_job") # {} => Cardinality(S) >= Len(jobq)
      BY DEF WaitInv, JobsTaken
    <2> HIDE DEF S
    <2>5. IsFiniteSet(S)
      BY <2>1, <2>3, FS_Subset
    <2>6. Cardinality(S') = Cardinality(S) - 1 /\ Cardinality(S) \in Nat /\ Cardinality(S') \in Nat
      <3>1. IsFiniteSet(S')
        BY <2>2, <2>5, FS_RemoveElement
      <3> QED BY <2>1, <2>2, <2>5, <3>1, FS_RemoveElement, FS_CardinalityType
    <2>7. CASE jobq = <<>>
      <3>1. Len(jobq') = 0
        BY <1>3, <2>7
      <3> QED BY <2>6, <3>1 DEF S, JobsTaken
    <2>8. CASE jobq # <<>>
      <3>1. Len(jobq') = Len(jobq) - 1 /\ Len(jobq) \in Nat
        BY <1>2, <1>3, <2>8
      <3>2. At("wait_job")' = At("wait_job")
        BY <1>1, <1>3, <2>8 DEF At
      <3> QED BY <2>4, <2>6, <3>1, <3>2 DEF S, JobsTaken
    <2> QED BY <2>7, <2>8
  <1>5. RoundsTold'
    <2>1. \A u \in Workers : worker'[u].pc = "wait_removed" => worker[u].pc = "wait_removed"
      BY <1>3
    <2> QED BY <1>1, <2>1, RoundsToldKept DEF WaitInv, pollVars
  <1>6. ASSUME NEW d \in Fds PROVE WaitAt(d)'
    <2>1. ASSUME NEW u \in Workers, worker'[u].c = d, worker'[u].pc \in Waiting
          PROVE  worker'[u] = worker[u]
      BY <1>3, <2>1 DEF Waiting, Sending, Removal
    <2> QED BY <1>1, <2>1, WaitAtKept DEF WaitInv, SameBuffer, pollVars
  <1> QED BY <1>4, <1>5, <1>6 DEF WaitInv

\* Dispatch leaves send alone.
LEMMA DispatchWaits ==
  ASSUME ConnInv, ConnInv', WaitInv, NEW t \in Workers, Dispatch(t) PROVE WaitInv'
  <1>0. PICK c : c = worker[t].c
    OBVIOUS
  <1> DEFINE older == latest # None /\ conn[latest].createTime < conn[c].createTime
  <1>1. worker[t].pc = "dispatch" /\ UNCHANGED <<jobq, poll, pollVars>>
    BY DEF Dispatch
  <1>2. c \in Fds /\ latest \in Fds \cup {None} /\ conn \in [Fds -> Conns]
    BY <1>0, <1>1, ThreadFacts, TypeFacts DEF KeeperType
  <1>3. worker'[t].pc \in {"send", "handler", "sent"} /\ \A u \in Workers : u # t => worker'[u] = worker[u]
    <2>1. CASE worker' = [worker EXCEPT ![t].pc = "send", ![t].leaks = TRUE]
      <3>1. worker[t] \in Threads /\ worker \in [Workers -> Threads]
        BY TypeFacts
      <3> QED BY <2>1, <3>1 DEF Threads
    <2>2. ASSUME NEW kind \in KindsOf[worker[t].req] \ {"oldsrv"}, Goto(t, AfterLookup(kind))
          PROVE  worker'[t].pc \in {"send", "handler", "sent"}
                   /\ \A u \in Workers : u # t => worker'[u] = worker[u]
      <3>1. kind \in {"new", "resend", "inprogress"}
        <4>1. worker[t].req \in Requests
          BY <1>1, ThreadFacts
        <4> QED BY <2>2, <4>1, ConnectionAssumption DEF Kinds
      <3>2. AfterLookup(kind) \in {"send", "handler", "sent"}
        BY <3>1 DEF AfterLookup
      <3>3. AfterLookup(kind) \in WorkerPcs
        BY <3>2 DEF WorkerPcs
      <3> QED BY <2>2, <3>2, <3>3, TypeFacts, GotoIs
    <2> QED BY <2>1, <2>2 DEF Dispatch
  <1>4. ASSUME NEW d \in Fds PROVE SameBuffer(conn[d], conn'[d]) \/ ~conn'[d].open
    <2>1. \/ conn' = conn
          \/ conn' = Incref(conn, c)
          \/ latest # None /\ conn' = Incref(Decref(conn, latest), c)
      BY <1>0 DEF Dispatch
    <2>2. CASE conn' = conn
      BY <2>2 DEF SameBuffer
    <2>3. CASE conn' = Incref(conn, c)
      BY <1>2, <2>3, IncrefBuffers
    <2>4. CASE latest # None /\ conn' = Incref(Decref(conn, latest), c)
      <3>1. latest \in Fds
        BY <1>2, <2>4
      <3>2. conn[latest].refno >= 1
        BY <3>1, TypeFacts, SomeReference DEF ConnInv
      <3> QED BY <1>2, <2>4, <3>1, <3>2, MovedBuffers
    <2> QED BY <2>1, <2>2, <2>3, <2>4
  <1>5. worker'[t].pc \notin Waiting \cup {"wait_job"} /\ worker[t].pc # "take"
    BY <1>1, <1>3 DEF Waiting, Sending, Removal
  <1> QED BY <1>1, <1>3, <1>4, <1>5, ThreadWaits

LEMMA PickConnectionWaits ==
  ASSUME ConnInv, ConnInv', WaitInv, NEW t \in Workers, PickConnection(t) PROVE WaitInv'
  <1>0. PICK c : c = worker[t].c
    OBVIOUS
  <1>1. worker[t].pc = "handler" /\ UNCHANGED <<jobq, poll, pollVars>>
    BY DEF PickConnection
  <1>2. c \in Fds /\ latest \in Fds /\ conn \in [Fds -> Conns]
    <2>1. latest \in Fds \cup {None} /\ latest # None
      BY <1>1, TypeFacts DEF KeeperType, ConnInv, WorkInv
    <2> QED BY <1>0, <1>1, <2>1, ThreadFacts, TypeFacts
  <1>3. worker'[t].pc = "send" /\ \A u \in Workers : u # t => worker'[u] = worker[u]
    <2>1. worker[t] \in Threads /\ worker \in [Workers -> Threads]
      BY TypeFacts
    <2>2. CASE Goto(t, "send")
      BY <2>1, <2>2 DEF Goto, Threads
    <2>3. CASE worker' = [worker EXCEPT ![t].pc = "send", ![t].c = latest]
      BY <2>1, <2>3 DEF Threads
    <2> QED BY <2>2, <2>3 DEF PickConnection
  <1>4. ASSUME NEW d \in Fds PROVE SameBuffer(conn[d], conn'[d]) \/ ~conn'[d].open
    <2>1. conn' = conn \/ conn' = Incref(Decref(conn, c), latest)
      BY <1>0 DEF PickConnection
    <2>2. CASE conn' = conn
      BY <2>2 DEF SameBuffer
    <2>3. CASE conn' = Incref(Decref(conn, c), latest)
      <3>1. conn[c].refno >= 1
        BY <1>0, <1>2, TypeFacts, SomeReference DEF ConnInv
      <3> QED BY <1>2, <2>3, <3>1, MovedBuffers
    <2> QED BY <2>1, <2>2, <2>3
  <1>5. worker'[t].pc \notin Waiting \cup {"wait_job"} /\ worker[t].pc # "take"
    BY <1>1, <1>3 DEF Waiting, Sending, Removal
  <1> QED BY <1>1, <1>3, <1>4, <1>5, ThreadWaits

LEMMA ReturnWaits ==
  ASSUME ConnInv, ConnInv', WaitInv, NEW t \in Workers, Return(t) PROVE WaitInv'
  <1>0. PICK c : c = worker[t].c
    OBVIOUS
  <1>1. worker[t].pc = "sent" /\ UNCHANGED <<jobq, poll, pollVars>>
    BY DEF Return
  <1>2. c \in Fds /\ conn \in [Fds -> Conns]
    BY <1>0, <1>1, ThreadFacts, TypeFacts
  <1>3. worker'[t].pc = "take" /\ \A u \in Workers : u # t => worker'[u] = worker[u]
    <2>1. worker \in [Workers -> Threads]
      BY TypeFacts
    <2> QED BY <2>1 DEF Return, Asleep
  <1>4. ASSUME NEW d \in Fds PROVE SameBuffer(conn[d], conn'[d]) \/ ~conn'[d].open
    <2>1. conn' = [conn EXCEPT ![c].leaked = @ + 1] \/ conn' = Decref(conn, c)
      BY <1>0 DEF Return
    <2>2. CASE conn' = [conn EXCEPT ![c].leaked = @ + 1]
      <3>1. conn[d] \in Conns
        BY <1>2
      <3> QED BY <1>2, <2>2, <3>1 DEF SameBuffer, Conns
    <2>3. CASE conn' = Decref(conn, c)
      <3>1. conn[c].refno >= 1
        BY <1>0, <1>2, TypeFacts, SomeReference DEF ConnInv
      <3> QED BY <1>2, <2>3, <3>1, DecrefBuffers
    <2> QED BY <2>1, <2>2, <2>3
  <1>5. worker'[t].pc \notin Waiting \cup {"wait_job"} /\ worker[t].pc # "take"
    BY <1>1, <1>3 DEF Waiting, Sending, Removal
  <1> QED BY <1>1, <1>3, <1>4, <1>5, ThreadWaits

\* The accepting thread and the peers.
LEMMA AcceptWaits ==
  ASSUME ConnInv, ConnInv', WaitInv, Accept PROVE WaitInv'
  <1>e. PICK e : e = Min({d \in Fds : ~conn[d].open})
    OBVIOUS
  <1>1. /\ conn' = [conn EXCEPT ![e] = Fresh(accepts + 3)]
        /\ rfds \subseteq rfds' /\ wfds' = wfds /\ callbacks \subseteq callbacks'
        /\ pendingChange' = pendingChange /\ wake'
        /\ UNCHANGED <<jobq, worker, poll>>
    BY <1>e DEF Accept, AddCallback, WatchFd
  <1>2. \A u \in Workers : worker[u].c # e
    <2>1. {d \in Fds : ~conn[d].open} # {} /\ {d \in Fds : ~conn[d].open} \in SUBSET Nat
      BY ConnectionAssumption DEF Accept
    <2>2. e \in Fds /\ ~conn[e].open
      BY <1>e, <2>1, Smallest
    <2> QED BY <2>2, OpenIfServed DEF ServedAreOpen
  <1>3. JobsTaken'
    BY <1>1, JobsTakenKept DEF WaitInv
  <1>4. RoundsTold'
    BY <1>1, RoundsToldKept DEF WaitInv
  <1>5. ASSUME NEW d \in Fds PROVE WaitAt(d)'
    <2>1. CASE d # e
      <3>1. SameBuffer(conn[d], conn'[d])
        BY <1>1, <2>1, TypeFacts DEF SameBuffer
      <3> QED BY <1>1, <3>1, WaitAtKept DEF WaitInv
    <2>2. CASE d = e
      BY <1>1, <1>2, <2>2 DEF WaitAt, Serving
    <2> QED BY <2>1, <2>2
  <1> QED BY <1>3, <1>4, <1>5 DEF WaitInv

LEMMA AcceptorWaits ==
  ASSUME ConnInv, ConnInv', WaitInv, AcceptorStep PROVE WaitInv'
  <1>1. UNCHANGED <<jobq, worker, poll, pollVars>>
    BY DEF AcceptorStep, Examine, Collect, Accepted
  <1>2. ASSUME NEW d \in Fds PROVE SameBuffer(conn[d], conn'[d]) \/ ~conn'[d].open
    <2>1. CASE conn' = conn
      BY <2>1 DEF SameBuffer
    <2>2. CASE Collect
      <3>c. PICK c : c = Min(acceptor.todo)
        OBVIOUS
      <3>1. conn' = Decref(conn, c) /\ acceptor.pc = "delete"
        BY <2>2, <3>c DEF Collect
      <3>2. c \in table
        <4>1. acceptor.todo \in SUBSET Nat /\ acceptor.todo # {} /\ acceptor.todo \subseteq table
          BY <3>1, TypeFacts, ConnectionAssumption DEF KeeperType, ConnInv, AcceptInv
        <4> QED BY <3>c, <4>1, Smallest
      <3>3. c \in Fds /\ conn \in [Fds -> Conns]
        BY <3>2, TypeFacts DEF KeeperType
      <3>4. conn[c].refno >= 1
        BY <3>2, <3>3, TypeFacts, SomeReference DEF ConnInv
      <3> QED BY <3>1, <3>3, <3>4, DecrefBuffers
    <2> QED BY <2>1, <2>2 DEF AcceptorStep, Examine, Accepted
  <1> QED BY <1>1, <1>2, OutsideWaits

LEMMA PeersWait ==
  ASSUME ConnInv, ConnInv', WaitInv, PeerStep PROVE WaitInv'
  <1>1. UNCHANGED <<jobq, worker, poll, pollVars>>
    BY DEF PeerStep, PeerSends, PeerSendsRest, PeerReads, Break, serverVars
  <1>2. ASSUME NEW d \in Fds PROVE SameBuffer(conn[d], conn'[d])
    <2>1. conn[d] \in Conns /\ conn \in [Fds -> Conns]
      BY TypeFacts
    <2>2. ASSUME NEW c \in Fds, NEW req \in Requests, PeerSends(c, req)
          PROVE  SameBuffer(conn[d], conn'[d])
      <3>1. CASE conn' = [conn EXCEPT ![c].inq = @ \o <<<<req, 1>>, <<req, 2>>>>]
        BY <2>1, <3>1 DEF SameBuffer, Conns
      <3>2. CASE conn' = [conn EXCEPT ![c].inq = Append(@, <<req, 1>>), ![c].half = req]
        BY <2>1, <3>2 DEF SameBuffer, Conns
      <3> QED BY <2>2, <3>1, <3>2 DEF PeerSends
    <2>3. ASSUME NEW c \in Fds, PeerSendsRest(c) PROVE SameBuffer(conn[d], conn'[d])
      BY <2>1, <2>3 DEF PeerSendsRest, SameBuffer, Conns
    <2>4. ASSUME NEW c \in Fds, PeerReads(c) PROVE SameBuffer(conn[d], conn'[d])
      BY <2>1, <2>4 DEF PeerReads, SameBuffer, Conns
    <2>5. ASSUME NEW c \in Fds, Break(c) PROVE SameBuffer(conn[d], conn'[d])
      BY <2>1, <2>5 DEF Break, SameBuffer, Conns
    <2> QED BY <2>2, <2>3, <2>4, <2>5 DEF PeerStep
  <1> QED BY <1>1, <1>2, OutsideWaits

\* Who ends a send wakes whoever waits for wpdu_, at the same connection.
LEMMA SendEndsWakes ==
  ASSUME ConnInv, NEW t \in Workers, NEW ok \in BOOLEAN, worker' = SendEnds(worker, t, ok),
         NEW u \in Workers
  PROVE  /\ worker'[u].c = worker[u].c
         /\ worker'[t].pc = "sent"
         /\ u # t => worker'[u].pc = IF worker[u].c = worker[t].c /\ worker[u].pc = "wait_send"
                                     THEN "send" ELSE worker[u].pc
  <1>1. worker[u] \in Threads /\ worker[t] \in Threads
    BY TypeFacts
  <1> QED BY <1>1 DEF SendEnds, Threads

\* The end of send: the PDU was this thread's, or there was none.
LEMMA SendEndsWaits ==
  ASSUME ConnInv, WaitInv, NEW t \in Workers, NEW c \in Fds, worker[t].c = c,
         worker[t].pc # "take", conn[c].wbuf \in {None, t}, NEW ok \in BOOLEAN,
         worker' = SendEnds(worker, t, ok), \A d \in Fds : d # c => conn'[d] = conn[d],
         wfds' = wfds, callbacks \ {c} \subseteq callbacks',
         UNCHANGED <<jobq, poll, pendingChange, wake>>
  PROVE  WaitInv'
  <1>1. \A u \in Workers :
          /\ worker'[u].c = worker[u].c
          /\ worker'[t].pc = "sent"
          /\ u # t => worker'[u].pc = IF worker[u].c = c /\ worker[u].pc = "wait_send"
                                      THEN "send" ELSE worker[u].pc
    BY SendEndsWakes
  <1>2. JobsTaken'
    BY <1>1, JobsTakenKept DEF WaitInv
  <1>3. RoundsTold'
    BY <1>1, RoundsToldKept DEF WaitInv
  <1>4. ASSUME NEW d \in Fds PROVE WaitAt(d)'
    <2>1. CASE d = c
      <3>1. ASSUME NEW u \in Workers, worker'[u].c = c
            PROVE  worker'[u].pc \notin Waiting
        <4>1. CASE u = t
          BY <1>1, <4>1 DEF Waiting, Sending, Removal
        <4>2. CASE u # t
          <5>1. worker[u].pc \notin Sending
            <6>1. worker[u].pc \in Sending => conn[c].wbuf = u
              BY <1>1, <3>1 DEF WaitInv, WaitAt, Serving
            <6> QED BY <4>2, <6>1, ConnectionAssumption
          <5> QED BY <1>1, <3>1, <4>2, <5>1 DEF Waiting, Sending, Removal
        <4> QED BY <4>1, <4>2
      <3> QED BY <2>1, <3>1 DEF WaitAt, Serving, Waiting, Sending
    <2>2. CASE d # c
      <3>1. ASSUME NEW u \in Workers, worker'[u].c = d
            PROVE  worker[u].c = d /\ worker'[u].pc = worker[u].pc
        BY <1>1, <2>2, <3>1
      <3>2. SameBuffer(conn[d], conn'[d])
        BY <2>2 DEF SameBuffer
      <3> QED BY <2>2, <3>1, <3>2, WaitAtKept DEF WaitInv
    <2> QED BY <2>1, <2>2
  <1> QED BY <1>2, <1>3, <1>4 DEF WaitInv

\* A sender puts its PDU into the empty wpdu_.
LEMMA SendTakesWaits ==
  ASSUME ConnInv, WaitInv, NEW t \in Workers, NEW c \in Fds, worker[t].c = c,
         worker[t].pc # "take", conn[c].wbuf = None,
         worker'[t].c = c, worker'[t].pc \in {"remove", "wait_complete"},
         \A u \in Workers : u # t => worker'[u] = worker[u],
         \A d \in Fds : d # c => conn'[d] = conn[d], conn'[c].wbuf = t,
         worker'[t].pc = "wait_complete" =>
           /\ ~conn'[c].dead /\ conn'[c].wlong \in 0..(conn'[c].wsz - 1)
           /\ c \in wfds' \cap callbacks',
         wfds \subseteq wfds', callbacks \subseteq callbacks', wake => wake',
         UNCHANGED <<jobq, poll, pendingChange>>
  PROVE  WaitInv'
  <1>1. JobsTaken'
    BY JobsTakenKept DEF WaitInv
  <1>2. RoundsTold'
    <2>1. \A u \in Workers : worker'[u].pc = "wait_removed" => worker[u].pc = "wait_removed"
      OBVIOUS
    <2> QED BY <2>1, RoundsToldKept DEF WaitInv
  <1>3. ASSUME NEW d \in Fds PROVE WaitAt(d)'
    <2>1. CASE d = c
      <3>1. ASSUME NEW u \in Workers, u # t, worker'[u].c = c
            PROVE  worker'[u].pc \notin Waiting
        <4>1. /\ worker[u].pc \in Sending => conn[c].wbuf = u
              /\ worker[u].pc = "wait_send" => conn[c].wbuf # None
          BY <3>1 DEF WaitInv, WaitAt, Serving
        <4> QED BY <3>1, <4>1, ConnectionAssumption DEF Waiting
      <3> SUFFICES ASSUME NEW u \in Workers, worker'[u].c = c
                   PROVE  /\ worker'[u].pc \in Sending => conn'[c].wbuf = u
                          /\ worker'[u].pc = "completed" =>
                               conn'[c].dead \/ conn'[c].wlong = conn'[c].wsz
                          /\ worker'[u].pc = "wait_send" => conn'[c].wbuf # None
                          /\ worker'[u].pc = "wait_complete" =>
                               /\ ~conn'[c].dead /\ conn'[c].wlong \in 0..(conn'[c].wsz - 1)
                               /\ c \in wfds' \cap callbacks'
        BY <2>1 DEF WaitAt, Serving
      <3>2. CASE u = t
        BY <3>2
      <3>3. CASE u # t
        BY <3>1, <3>3 DEF Waiting, Sending
      <3> QED BY <3>2, <3>3
    <2>2. CASE d # c
      <3>1. ASSUME NEW u \in Workers, worker'[u].c = d
            PROVE  worker'[u] = worker[u]
        BY <2>2, <3>1
      <3>2. SameBuffer(conn[d], conn'[d])
        BY <2>2 DEF SameBuffer
      <3> QED BY <2>2, <3>1, <3>2, WaitAtKept DEF WaitInv
    <2> QED BY <2>1, <2>2
  <1> QED BY <1>1, <1>2, <1>3 DEF WaitInv

LEMMA SendWaits ==
  ASSUME ConnInv, ConnInv', WaitInv, NEW t \in Workers, Send(t) PROVE WaitInv'
  <1>0. PICK c : c = worker[t].c
    OBVIOUS
  <1>k. PICK k : k = Loaded(conn[c], t)
    OBVIOUS
  <1>1. worker[t].pc = "send" /\ UNCHANGED <<jobq, poll>>
    BY DEF Send
  <1>2. c \in Fds /\ conn[c] \in Conns
    BY <1>0, <1>1, ThreadFacts, ConnFacts
  <1>3. /\ k \in Conns /\ k.wbuf = t /\ k.wsz = PduSize /\ k.wlong = 0 /\ k.dead = conn[c].dead
    BY <1>2, <1>k, NewPdu
  <1>4. \/ /\ conn[c].dead
           /\ worker' = [worker EXCEPT ![t].pc = "sent", ![t].ok = FALSE]
           /\ UNCHANGED <<conn, pollVars>>
        \/ /\ ~conn[c].dead /\ Busy(c)
           /\ Goto(t, "wait_send")
           /\ UNCHANGED <<conn, pollVars>>
        \/ /\ ~conn[c].dead /\ ~Busy(c) /\ k.broken
           /\ conn' = [conn EXCEPT ![c] = [k EXCEPT !.dead = TRUE, !.wlong = -1, !.wsz = 0]]
           /\ Goto(t, "remove")
           /\ UNCHANGED pollVars
        \/ /\ ~conn[c].dead /\ ~Busy(c) /\ ~k.broken
           /\ IF Written(k).wlong = PduSize
              THEN /\ conn' = [conn EXCEPT ![c] = NoPdu(Written(k))]
                   /\ worker' = SendEnds(worker, t, TRUE)
                   /\ UNCHANGED pollVars
              ELSE /\ conn' = [conn EXCEPT ![c] = Written(k)]
                   /\ Goto(t, "wait_complete")
                   /\ AddCallback(c, "WRONLY")
    BY <1>0, <1>k DEF Send, Loaded
  <1>5. worker \in [Workers -> Threads] /\ worker[t] \in Threads
    BY TypeFacts
  <1>6. CASE /\ worker' = [worker EXCEPT ![t].pc = "sent", ![t].ok = FALSE]
             /\ UNCHANGED <<conn, pollVars>>
    <2>1. worker'[t].pc = "sent" /\ \A u \in Workers : u # t => worker'[u] = worker[u]
      BY <1>5, <1>6 DEF Threads
    <2>2. worker'[t].pc \notin Waiting \cup {"wait_job"} /\ worker[t].pc # "take"
      BY <1>1, <2>1 DEF Waiting, Sending, Removal
    <2>3. \A d \in Fds : SameBuffer(conn[d], conn'[d])
      BY <1>6 DEF SameBuffer
    <2> QED BY <1>1, <1>6, <2>1, <2>2, <2>3, ThreadWaits
  <1>7. CASE Busy(c) /\ Goto(t, "wait_send") /\ UNCHANGED <<conn, pollVars>>
    <2>1. worker'[t].pc = "wait_send" /\ \A u \in Workers : u # t => worker'[u] = worker[u]
      BY <1>5, <1>7 DEF Goto, Threads
    <2>2. worker'[t].c = c
      BY <1>0, <1>5, <1>7 DEF Goto, Threads
    <2>3. JobsTaken'
      <3>1. \A u \in Workers : /\ worker'[u].pc = "wait_job" => worker[u].pc = "wait_job"
                               /\ worker[u].pc = "take" => worker'[u].pc = "take"
        BY <1>1, <2>1
      <3> QED BY <1>1, <3>1, JobsTakenKept DEF WaitInv
    <2>4. RoundsTold'
      <3>1. \A u \in Workers : worker'[u].pc = "wait_removed" => worker[u].pc = "wait_removed"
        BY <2>1
      <3> QED BY <1>1, <1>7, <3>1, RoundsToldKept DEF WaitInv, pollVars
    <2>5. ASSUME NEW d \in Fds PROVE WaitAt(d)'
      <3> SUFFICES ASSUME NEW u \in Workers, worker'[u].c = d
                   PROVE  /\ worker'[u].pc \in Sending => conn[d].wbuf = u
                          /\ worker'[u].pc = "completed" =>
                               conn[d].dead \/ conn[d].wlong = conn[d].wsz
                          /\ worker'[u].pc = "wait_send" => conn[d].wbuf # None
                          /\ worker'[u].pc = "wait_complete" =>
                               /\ ~conn[d].dead /\ conn[d].wlong \in 0..(conn[d].wsz - 1)
                               /\ d \in wfds \cap callbacks
        BY <1>7 DEF WaitAt, Serving, pollVars
      <3>1. CASE u = t
        BY <1>7, <2>1, <2>2, <3>1 DEF Busy, Sending, Removal
      <3>2. CASE u # t
        BY <2>1, <3>2 DEF WaitInv, WaitAt, Serving
      <3> QED BY <3>1, <3>2
    <2> QED BY <2>3, <2>4, <2>5 DEF WaitInv
  <1>8. CASE /\ ~Busy(c)
             /\ conn' = [conn EXCEPT ![c] = [k EXCEPT !.dead = TRUE, !.wlong = -1, !.wsz = 0]]
             /\ Goto(t, "remove") /\ UNCHANGED pollVars
    <2>1. /\ worker'[t].pc = "remove" /\ worker'[t].c = c
          /\ \A u \in Workers : u # t => worker'[u] = worker[u]
      BY <1>0, <1>5, <1>8 DEF Goto, Threads
    <2>2. conn'[c].wbuf = t /\ \A d \in Fds : d # c => conn'[d] = conn[d]
      BY <1>2, <1>3, <1>8, TypeFacts DEF Conns
    <2>3. conn[c].wbuf = None
      BY <1>8 DEF Busy
    <2>4. /\ wfds \subseteq wfds' /\ callbacks \subseteq callbacks' /\ (wake => wake')
          /\ UNCHANGED <<jobq, poll, pendingChange>>
      BY <1>1, <1>8 DEF pollVars
    <2> QED BY <1>0, <1>1, <1>2, <2>1, <2>2, <2>3, <2>4, SendTakesWaits
  <1>9. CASE ~conn[c].dead /\ ~Busy(c) /\ ~k.broken
    <2>m. PICK m : m = Written(k)
      OBVIOUS
    <2>1. m \in Conns /\ m.wlong >= 0 /\ m.wsz = PduSize /\ m.dead = k.dead /\ m.wbuf = t
      <3>1. worker[k.wbuf].req \in Requests
        BY <1>1, <1>3, ThreadFacts
      <3>2. k.wbuf \in Workers /\ k.wlong >= 0
        BY <1>3
      <3> QED BY <1>3, <2>m, <3>1, <3>2, WrittenType
    <2>2. IF m.wlong = PduSize
          THEN /\ conn' = [conn EXCEPT ![c] = NoPdu(m)]
               /\ worker' = SendEnds(worker, t, TRUE)
               /\ UNCHANGED pollVars
          ELSE /\ conn' = [conn EXCEPT ![c] = m]
               /\ Goto(t, "wait_complete")
               /\ AddCallback(c, "WRONLY")
      BY <1>4, <1>9, <2>m
    <2>3. conn[c].wbuf = None
      BY <1>9 DEF Busy
    <2>4. CASE m.wlong = PduSize
      <3>1. \A d \in Fds : d # c => conn'[d] = conn[d]
        BY <2>2, <2>4, TypeFacts
      <3>2. /\ worker' = SendEnds(worker, t, TRUE)
            /\ wfds' = wfds /\ callbacks \ {c} \subseteq callbacks'
            /\ UNCHANGED <<jobq, poll, pendingChange, wake>>
        BY <1>1, <2>2, <2>4 DEF pollVars
      <3> QED BY <1>0, <1>1, <1>2, <2>3, <3>1, <3>2, SendEndsWaits
    <2>5. CASE m.wlong # PduSize
      <3>1. conn' = [conn EXCEPT ![c] = m] /\ Goto(t, "wait_complete") /\ AddCallback(c, "WRONLY")
        BY <2>2, <2>5
      <3>2. /\ worker'[t].pc = "wait_complete" /\ worker'[t].c = c
            /\ \A u \in Workers : u # t => worker'[u] = worker[u]
        BY <1>0, <1>5, <3>1 DEF Goto, Threads
      <3>3. conn'[c] = m /\ \A d \in Fds : d # c => conn'[d] = conn[d]
        BY <1>2, <2>1, <3>1, TypeFacts, SetConn
      <3>4. ~m.dead /\ m.wlong \in 0..(m.wsz - 1)
        <4>1. m.wlong \in -1..PduSize
          BY <2>1 DEF Conns
        <4>2. m.wlong \in 0..(m.wsz - 1)
          BY <2>1, <2>5, <4>1 DEF PduSize
        <4> QED BY <1>3, <1>9, <2>1, <4>2
      <3>5. /\ c \in wfds' \cap callbacks' /\ wfds \subseteq wfds' /\ callbacks \subseteq callbacks'
            /\ (wake => wake') /\ UNCHANGED <<jobq, poll, pendingChange>>
        BY <1>1, <3>1 DEF AddCallback, WatchFd
      <3> QED BY <1>0, <1>1, <1>2, <2>1, <2>3, <3>2, <3>3, <3>4, <3>5, SendTakesWaits
    <2> QED BY <2>4, <2>5
  <1> QED BY <1>4, <1>6, <1>7, <1>8, <1>9

LEMMA CompletedWaits ==
  ASSUME ConnInv, WaitInv, NEW t \in Workers, Completed(t) PROVE WaitInv'
  <1>0. PICK c : c = worker[t].c
    OBVIOUS
  <1>1. worker[t].pc = "completed" /\ UNCHANGED <<jobq, poll, pollVars>>
    BY DEF Completed
  <1>2. c \in Fds /\ conn[c] \in Conns
    BY <1>0, <1>1, ThreadFacts, ConnFacts
  <1>3. conn[c].wbuf = t /\ (conn[c].dead \/ conn[c].wlong = conn[c].wsz)
    BY <1>0, <1>1, <1>2 DEF WaitInv, WaitAt, Serving, Sending
  <1>4. ~(~conn[c].dead /\ conn[c].wlong >= 0 /\ conn[c].wlong < conn[c].wsz)
    <2>1. conn[c].wsz \in {0, PduSize}
      BY <1>2 DEF Conns
    <2> QED BY <1>3, <2>1 DEF PduSize
  <1>5. /\ worker' = SendEnds(worker, t, ~conn[c].dead /\ conn[c].wlong = conn[c].wsz)
        /\ conn' = [conn EXCEPT ![c] = NoPdu(conn[c])]
    BY <1>0, <1>4 DEF Completed
  <1>6. \A d \in Fds : d # c => conn'[d] = conn[d]
    BY <1>5, TypeFacts
  <1>7. PICK ok \in BOOLEAN : worker' = SendEnds(worker, t, ok)
    <2>1. (~conn[c].dead /\ conn[c].wlong = conn[c].wsz) \in BOOLEAN
      OBVIOUS
    <2> QED BY <1>5, <2>1
  <1> QED BY <1>0, <1>1, <1>2, <1>3, <1>6, <1>7, SendEndsWaits DEF pollVars

LEMMA BlockRemoveWaits ==
  ASSUME ConnInv, WaitInv, NEW t \in Workers, BlockRemove(t) PROVE WaitInv'
  <1>0. PICK c : c = worker[t].c
    OBVIOUS
  <1>1. /\ worker[t].pc = "remove" /\ UnwatchFd(c, "RDWR") /\ pendingChange' = TRUE
        /\ Goto(t, "wait_removed") /\ UNCHANGED <<conn, callbacks, poll, jobq>>
    BY <1>0 DEF BlockRemove
  <1>2. c \in Fds
    BY <1>0, <1>1, ThreadFacts
  <1>3. wfds' = wfds \ {c} /\ wake'
    BY <1>1 DEF UnwatchFd
  <1>4. /\ worker'[t].pc = "wait_removed" /\ worker'[t].c = c
        /\ \A u \in Workers : u # t => worker'[u] = worker[u]
    <2>1. worker \in [Workers -> Threads]
      BY TypeFacts
    <2> QED BY <1>0, <1>1, <2>1 DEF Goto, Threads
  <1>5. JobsTaken'
    <2>1. \A u \in Workers : /\ worker'[u].pc = "wait_job" => worker[u].pc = "wait_job"
                             /\ worker[u].pc = "take" => worker'[u].pc = "take"
      BY <1>1, <1>4
    <2> QED BY <1>1, <2>1, JobsTakenKept DEF WaitInv
  <1>6. RoundsTold'
    BY <1>1, <1>3 DEF RoundsTold
  <1>7. ASSUME NEW d \in Fds PROVE WaitAt(d)'
    <2>1. CASE d = c
      <3>1. Works(t, c, Removal) /\ conn[c].dead
        BY <1>0, <1>1, <1>2 DEF Works, Removal, ConnInv, DeadInv
      <3> SUFFICES ASSUME NEW u \in Workers, worker'[u].c = c
                   PROVE  /\ worker'[u].pc \in Sending => conn[c].wbuf = u
                          /\ worker'[u].pc = "wait_send" => conn[c].wbuf # None
                          /\ worker'[u].pc # "wait_complete"
        BY <1>1, <2>1, <3>1 DEF WaitAt, Serving
      <3>2. /\ worker[u].c = c
            /\ worker[u].pc \in Sending => conn[c].wbuf = u
            /\ worker[u].pc = "wait_send" => conn[c].wbuf # None
            /\ worker[u].pc # "wait_complete"
        BY <1>0, <1>2, <1>4, <3>1 DEF WaitInv, WaitAt, Serving
      <3>3. worker[t].pc \in Sending
        BY <1>1 DEF Sending, Removal
      <3> QED BY <1>4, <3>2, <3>3
    <2>2. CASE d # c
      <3>1. ASSUME NEW u \in Workers, worker'[u].c = d PROVE worker'[u] = worker[u]
        BY <1>4, <2>2, <3>1
      <3> QED BY <1>1, <1>3, <2>2, <3>1, WaitAtKept DEF WaitInv, SameBuffer
    <2> QED BY <2>1, <2>2
  <1> QED BY <1>5, <1>6, <1>7 DEF WaitInv

LEMMA RemovedWaits ==
  ASSUME ConnInv, WaitInv, NEW t \in Workers, Removed(t) PROVE WaitInv'
  <1>0. PICK c : c = worker[t].c
    OBVIOUS
  <1>1. /\ worker[t].pc = "removed" /\ callbacks' = callbacks \ {c}
        /\ worker' = SendEnds(worker, t, FALSE)
        /\ conn' = [conn EXCEPT ![c] = NoPdu(conn[c])]
        /\ UNCHANGED <<wfds, pendingChange, wake, poll, jobq>>
    BY <1>0 DEF Removed
  <1>2. c \in Fds
    BY <1>0, <1>1, ThreadFacts
  <1>3. conn[c].wbuf = t
    BY <1>0, <1>1, <1>2 DEF WaitInv, WaitAt, Serving, Sending, Removal
  <1>4. \A d \in Fds : d # c => conn'[d] = conn[d]
    BY <1>1, TypeFacts
  <1>5. callbacks \ {c} \subseteq callbacks' /\ wfds' = wfds
    BY <1>1
  <1> QED BY <1>0, <1>1, <1>2, <1>3, <1>4, <1>5, SendEndsWaits

\* Nobody waits when the server starts.
LEMMA InitWaits == Init => WaitInv
  <1> SUFFICES ASSUME Init PROVE WaitInv
    OBVIOUS
  <1>1. \A t \in Workers : worker[t].pc = "wait_job"
    BY DEF Init, Asleep
  <1>2. JobsTaken
    <2> DEFINE S == At("take")
    <2>1. S = {}
      BY <1>1 DEF At
    <2> HIDE DEF S
    <2>2. Cardinality(S) = 0 /\ Len(jobq) = 0
      BY <2>1, FS_EmptySet DEF Init
    <2> QED BY <2>2 DEF S, JobsTaken
  <1> QED BY <1>1, <1>2 DEF WaitInv, RoundsTold, At, WaitAt, Serving, Sending, Removal

LEMMA WaitNext == ConnInv /\ ConnInv' /\ WaitInv /\ [Next]_vars => WaitInv'
  <1> SUFFICES ASSUME ConnInv, ConnInv', WaitInv, [Next]_vars PROVE WaitInv'
    OBVIOUS
  <1>1. CASE UNCHANGED vars
    BY <1>1 DEF vars, pollVars, WaitInv, JobsTaken, RoundsTold, At, WaitAt, Serving
  <1>2. CASE PollStep
    BY <1>2, StartRoundWaits, SelectWaits, ServeReadableWaits, ServeWritableWaits DEF PollStep
  <1>3. ASSUME NEW t \in Workers, WorkerStep(t) PROVE WaitInv'
    BY <1>3, TakeJobWaits, DispatchWaits, PickConnectionWaits, SendWaits, CompletedWaits,
       BlockRemoveWaits, RemovedWaits, ReturnWaits DEF WorkerStep
  <1>4. CASE Accept \/ AcceptorStep
    BY <1>4, AcceptWaits, AcceptorWaits
  <1>5. CASE PeerStep
    BY <1>5, PeersWait
  <1> QED BY <1>1, <1>2, <1>3, <1>4, <1>5 DEF Next, AtRest

\* Whoever waits in the transport of the server is on somebody's list, in every
\* reachable state (fifo::enq and deq, send, write_cb, block_remove_fd).
THEOREM NobodyForgottenHolds == Spec => []NobodyForgotten
  <1>1. Init => WaitInv
    BY InitWaits
  <1>2. ConnInv /\ ConnInv' /\ WaitInv /\ [Next]_vars => WaitInv'
    BY WaitNext
  <1>3. ConnInv /\ WaitInv => NobodyForgotten
    <2> SUFFICES ASSUME ConnInv, WaitInv PROVE NobodyForgotten
      OBVIOUS
    <2>1. ASSUME NEW t \in At("wait_send")
          PROVE  \E u \in Workers : u = conn[worker[t].c].wbuf /\ worker[u].c = worker[t].c
      <3>1. t \in Workers /\ worker[t].pc = "wait_send" /\ worker[t].c \in Fds
        BY <2>1, ThreadFacts DEF At
      <3>2. conn[worker[t].c].wbuf # None
        BY <3>1 DEF WaitInv, WaitAt, Serving
      <3>3. conn[worker[t].c].wbuf \in Workers
        BY <3>1, <3>2, ConnFacts
      <3> QED BY <3>1, <3>2, <3>3 DEF ConnInv, WbufInv, Works
    <2>2. ASSUME NEW t \in At("wait_complete")
          PROVE  LET c == worker[t].c IN
                 /\ ~conn[c].dead /\ conn[c].wbuf = t /\ conn[c].wlong < conn[c].wsz
                 /\ c \in wfds \cap callbacks
      <3>1. t \in Workers /\ worker[t].pc = "wait_complete" /\ worker[t].c \in Fds
        BY <2>2, ThreadFacts DEF At
      <3>2. conn[worker[t].c].wsz \in {0, PduSize}
        BY <3>1, ConnFacts DEF Conns
      <3> QED BY <3>1, <3>2 DEF WaitInv, WaitAt, Serving, Sending, PduSize
    <2> QED BY <2>1, <2>2 DEF NobodyForgotten, SendersWoken, WritesWatched, WaitInv
  <1> QED BY <1>1, <1>2, <1>3, ConnInvariant, PTL DEF Spec

-----------------------------------------------------------------------------
(* What passes through the connections                                     *)

\* The reading side of a connection, its writing side, and both.
SameRead(k, m) ==
    /\ m.inq = k.inq /\ m.rreq = k.rreq /\ m.rlong = k.rlong
    /\ m.half = k.half /\ m.broken = k.broken

SameWritten(k, m) == m.wire = k.wire /\ SameBuffer(k, m)

SameStreams(k, m) == SameRead(k, m) /\ SameWritten(k, m)

\* A connection on which nothing was sent or received.
Blank(m) ==
    /\ m.inq = <<>> /\ m.rreq = None /\ m.rlong = 0 /\ m.half = None /\ ~m.broken
    /\ m.wire = <<>> /\ m.wbuf = None /\ ~m.dead

\* Where a thread is that has answered.
Answering == Sending \cup {"sent"}

\* The places of a request, spelled out.
LEMMA PlaceIs ==
  ASSUME NEW req, NEW p
  PROVE  p \in Places(req) <=>
           \/ p = <<"peer", None>> /\ req \in unsent
           \/ \E c \in Fds : p = <<"inq", c>> /\ Coming(conn[c], req)
           \/ \E c \in Fds : p = <<"rpdu", c>> /\ conn[c].rreq = req
           \/ p = <<"jobq", None>> /\ Awaits(req)
           \/ \E t \in Workers : p = <<"thread", t>> /\ worker[t].req = req
  BY DEF Places

LEMMA PlaceIsNext ==
  ASSUME NEW CONSTANT req, NEW CONSTANT p
  PROVE  p \in Places(req)' <=>
           \/ p = <<"peer", None>> /\ req \in unsent'
           \/ \E c \in Fds : p = <<"inq", c>> /\ Coming(conn'[c], req)
           \/ \E c \in Fds : p = <<"rpdu", c>> /\ conn'[c].rreq = req
           \/ p = <<"jobq", None>> /\ Awaits(req)'
           \/ \E t \in Workers : p = <<"thread", t>> /\ worker'[t].req = req
  BY DEF Places, Coming

\* Places a request does not leave by more than one way.
LEMMA OnePlaceKept ==
  ASSUME OnePlace,
         \A req \in Requests :
           Places(req)' \subseteq Places(req) \/ \E p : Places(req)' \subseteq {p}
  PROVE  OnePlace'
  BY DEF OnePlace

\* Who has answered a request keeps it or is done with it.
LEMMA AnswersKept ==
  ASSUME OnceAnswered,
         \A req \in Requests, c \in Fds : Replied(c, req)' => Replied(c, req),
         \A req \in Requests, c \in Fds : Replied(c, req)' => Places(req)' \subseteq Places(req),
         \A t \in Workers : worker[t].pc \in Answering =>
           \/ worker'[t].req = None
           \/ worker'[t].c = worker[t].c /\ worker'[t].pc \in Answering
  PROVE  OnceAnswered'
  <1> SUFFICES ASSUME NEW c \in Fds, NEW req \in Requests, Replied(c, req)'
               PROVE  /\ \A p \in Places(req)' : \E t \in Workers :
                           p = <<"thread", t>> /\ Works(t, c, Sending \cup {"sent"})'
                      /\ \A d \in Fds : Replied(d, req)' => d = c
    BY DEF OnceAnswered
  <1>1. Replied(c, req)
    OBVIOUS
  <1>2. ASSUME NEW p \in Places(req)'
        PROVE  \E t \in Workers :
                 p = <<"thread", t>> /\ Works(t, c, Sending \cup {"sent"})'
    <2>1. p \in Places(req)
      BY <1>2
    <2>2. PICK t \in Workers : p = <<"thread", t>> /\ Works(t, c, Sending \cup {"sent"})
      BY <1>1, <2>1 DEF OnceAnswered
    <2>3. worker'[t].req = req
      BY <1>2, <2>2, PlaceIsNext
    <2>4. req # None
      BY ConnectionAssumption
    <2> QED BY <2>2, <2>3, <2>4 DEF Works, Answering
  <1>3. \A d \in Fds : Replied(d, req)' => d = c
    BY <1>1 DEF OnceAnswered
  <1> QED BY <1>2, <1>3

\* The two sides of a connection that stay as they are.
LEMMA ReadOrderKept ==
  ASSUME NEW d \in Fds, ReadOrder(conn[d]), SameRead(conn[d], conn'[d]),
         conn'[d].dead => conn[d].dead \/ conn[d].broken
  PROVE  ReadOrder(conn'[d])
  BY DEF ReadOrder, SameRead

LEMMA WroteAtKept ==
  ASSUME ConnInv, NEW d \in Fds, WroteAt(d), SameWritten(conn[d], conn'[d]),
         \A u \in Workers : worker[u].pc \in Sending => worker'[u].req = worker[u].req
  PROVE  WroteAt(d)'
  <1>1. conn[d].wbuf # None => conn[d].wbuf \in Workers /\ worker[conn[d].wbuf].pc \in Sending
    BY ConnFacts DEF ConnInv, WbufInv, Works
  <1>2. conn[d].wbuf # None => worker'[conn[d].wbuf].req = worker[conn[d].wbuf].req
    BY <1>1
  <1> QED BY <1>2 DEF WroteAt, SameWritten, SameBuffer

\* A blank connection is in order.
LEMMA BlankIs ==
  ASSUME NEW d \in Fds, Blank(conn'[d]) PROVE ReadOrder(conn'[d]) /\ WroteAt(d)'
  BY DEF Blank, ReadOrder, WroteAt, Pairs

LEMMA BlankHolds ==
  ASSUME NEW CONSTANT m, Blank(m), NEW CONSTANT req \in Requests
  PROVE  ~Coming(m, req) /\ m.rreq # req /\ <<req, 2>> \notin Range(m.wire)
  BY ConnectionAssumption DEF Blank, Coming, Range

LEMMA ClosedIsBlank == Blank(Closed) /\ ~Closed.open
  BY DEF Blank, Closed, Fresh

LEMMA FreshIsBlank == ASSUME NEW n PROVE Blank(Fresh(n))
  BY DEF Blank, Fresh

\* A step that moves no request and writes nothing.
LEMMA QuietRequests ==
  ASSUME ConnInv, RequestInv,
         \A d \in Fds : \/ SameStreams(conn[d], conn'[d])
                        \/ Blank(conn'[d]) /\ \A u \in Workers : worker'[u].c # d,
         \A u \in Workers :
           /\ worker'[u].req = worker[u].req \/ worker'[u].req = None
           /\ worker[u].pc \in Sending => worker'[u].req = worker[u].req
           /\ worker[u].pc \in Answering =>
                \/ worker'[u].req = None
                \/ worker'[u].c = worker[u].c /\ worker'[u].pc \in Answering
           /\ worker'[u].ok => /\ worker[u].ok /\ worker'[u].pc = worker[u].pc
                               /\ worker'[u].c = worker[u].c /\ worker'[u].req = worker[u].req,
         UNCHANGED <<unsent, jobq>>
  PROVE  RequestInv'
  <1>1. ASSUME NEW d \in Fds, NEW req \in Requests
        PROVE  /\ Coming(conn'[d], req) => Coming(conn[d], req)
               /\ conn'[d].rreq = req => conn[d].rreq = req
               /\ Replied(d, req)' => Replied(d, req)
    <2>1. CASE SameStreams(conn[d], conn'[d])
      BY <2>1 DEF SameStreams, SameRead, SameWritten, Coming, Replied
    <2>2. CASE Blank(conn'[d])
      BY <2>2, BlankHolds DEF Replied
    <2> QED BY <2>1, <2>2
  <1>2. \A req \in Requests : Places(req)' \subseteq Places(req)
    <2> SUFFICES ASSUME NEW req \in Requests, NEW p \in Places(req)'
                 PROVE  p \in Places(req)
      OBVIOUS
    <2>1. Awaits(req)' => Awaits(req)
      BY DEF Awaits
    <2>2. \A u \in Workers : worker'[u].req = req => worker[u].req = req
      BY ConnectionAssumption
    <2> HIDE DEF Places, Coming, Awaits
    <2> QED BY <1>1, <2>1, <2>2, PlaceIs, PlaceIsNext
  <1>3. OnePlace'
    BY <1>2, OnePlaceKept DEF RequestInv, OnePlace
  <1>4. OnceAnswered'
    BY <1>1, <1>2, AnswersKept DEF RequestInv
  <1>5. ASSUME NEW d \in Fds PROVE ReadOrder(conn'[d]) /\ WroteAt(d)'
    <2>1. CASE SameStreams(conn[d], conn'[d])
      <3>1. ReadOrder(conn[d]) /\ WroteAt(d)
        BY DEF RequestInv
      <3>2. conn'[d].dead => conn[d].dead
        BY <2>1 DEF SameStreams, SameWritten, SameBuffer
      <3> QED BY <2>1, <3>1, <3>2, ReadOrderKept, WroteAtKept DEF SameStreams
    <2>2. CASE Blank(conn'[d])
      BY <2>2, BlankIs
    <2> QED BY <2>1, <2>2
  <1>6. ASSUME NEW t \in Workers, worker'[t].ok
        PROVE  worker'[t].pc = "sent" /\ Replied(worker[t].c, worker[t].req)'
    <2>1. /\ worker[t].ok /\ worker'[t].pc = worker[t].pc
          /\ worker'[t].c = worker[t].c /\ worker'[t].req = worker[t].req
      BY <1>6
    <2>2. PICK c, req : c = worker[t].c /\ req = worker[t].req
      OBVIOUS
    <2>3. worker[t].pc = "sent" /\ Replied(c, req)
      BY <2>1, <2>2 DEF RequestInv, OkReplied
    <2>4. c \in Fds
      BY <2>2, <2>3, ThreadFacts
    <2>5. SameStreams(conn[c], conn'[c])
      BY <2>1, <2>2, <2>4
    <2>6. <<req, 2>> \in Range(conn'[c].wire)
      BY <2>3, <2>5 DEF Replied, SameStreams, SameWritten
    <2> QED BY <2>1, <2>2, <2>3, <2>6 DEF Replied
  <1>7. OkReplied'
    BY <1>6 DEF OkReplied
  <1>8. QueuedOnce'
    BY DEF RequestInv, QueuedOnce
  <1> QED BY <1>3, <1>4, <1>5, <1>7, <1>8 DEF RequestInv

\* A reference more or less leaves both streams alone, until the connection is closed.
LEMMA RefnoStreams ==
  ASSUME NEW k \in Conns, NEW n \in Nat
  PROVE  SameStreams(k, [k EXCEPT !.refno = n]) /\ [k EXCEPT !.refno = n].open = k.open
  BY DEF Conns, SameStreams, SameRead, SameWritten, SameBuffer

LEMMA DecrefStreams ==
  ASSUME NEW cn \in [Fds -> Conns], NEW c \in Fds, cn[c].refno >= 1, NEW d \in Fds,
         NEW dn, dn = Decref(cn, c)
  PROVE  /\ dn \in [Fds -> Conns]
         /\ SameStreams(cn[d], dn[d]) \/ (Blank(dn[d]) /\ ~dn[d].open)
  <1>1. /\ dn \in [Fds -> Conns]
        /\ \A e \in Fds : e # c => dn[e] = cn[e]
        /\ cn[c].refno = 1 /\ cn[c].dead => dn[c] = Closed
        /\ ~(cn[c].refno = 1 /\ cn[c].dead) =>
             dn[c] = [cn[c] EXCEPT !.refno = cn[c].refno - 1]
    BY DecrefIs
  <1>2. CASE d # c
    <2>1. SameStreams(cn[d], dn[d])
      BY <1>1, <1>2 DEF SameStreams, SameRead, SameWritten, SameBuffer
    <2> QED BY <1>1, <2>1
  <1>3. CASE d = c /\ cn[c].refno = 1 /\ cn[c].dead
    <2>1. dn[d] = Closed
      BY <1>1, <1>3
    <2> QED BY <1>1, <2>1, ClosedIsBlank
  <1>4. CASE d = c /\ ~(cn[c].refno = 1 /\ cn[c].dead)
    <2>n. PICK n : n = cn[c].refno - 1
      OBVIOUS
    <2>1. cn[c] \in Conns /\ n \in Nat
      <3>1. cn[c] \in Conns /\ cn[c].refno \in Nat
        BY DEF Conns
      <3> QED BY <2>n, <3>1
    <2>2. dn[c] = [cn[c] EXCEPT !.refno = n]
      BY <1>1, <1>4, <2>n
    <2>3. SameStreams(cn[d], dn[d])
      BY <1>4, <2>1, <2>2, RefnoStreams
    <2> QED BY <1>1, <2>3
  <1> QED BY <1>2, <1>3, <1>4

LEMMA IncrefStreams ==
  ASSUME NEW cn \in [Fds -> Conns], NEW c \in Fds, NEW d \in Fds,
         NEW dn, dn = Incref(cn, c)
  PROVE  SameStreams(cn[d], dn[d]) /\ dn[d].open = cn[d].open
  <1>1. /\ \A e \in Fds : e # c => dn[e] = cn[e]
        /\ dn[c] = [cn[c] EXCEPT !.refno = cn[c].refno + 1]
    BY IncrefIs
  <1>2. CASE d # c
    BY <1>1, <1>2 DEF SameStreams, SameRead, SameWritten, SameBuffer
  <1>3. CASE d = c
    <2>n. PICK n : n = cn[c].refno + 1
      OBVIOUS
    <2>1. cn[c] \in Conns /\ n \in Nat
      <3>1. cn[c] \in Conns /\ cn[c].refno \in Nat
        BY DEF Conns
      <3> QED BY <2>n, <3>1
    <2>2. dn[c] = [cn[c] EXCEPT !.refno = n]
      BY <1>1, <2>n
    <2> QED BY <1>3, <2>1, <2>2, RefnoStreams
  <1> QED BY <1>2, <1>3

LEMMA MovedStreams ==
  ASSUME NEW cn \in [Fds -> Conns], NEW c \in Fds, NEW e \in Fds, cn[c].refno >= 1, NEW d \in Fds,
         NEW en, en = Incref(Decref(cn, c), e)
  PROVE  SameStreams(cn[d], en[d]) \/ (Blank(en[d]) /\ ~en[d].open)
  <1>p. PICK dn : dn = Decref(cn, c)
    OBVIOUS
  <1>1. /\ dn \in [Fds -> Conns]
        /\ SameStreams(cn[d], dn[d]) \/ (Blank(dn[d]) /\ ~dn[d].open)
    BY <1>p, DecrefStreams
  <1>q. en = Incref(dn, e)
    BY <1>p
  <1>2. SameStreams(dn[d], en[d]) /\ en[d].open = dn[d].open
    BY <1>1, <1>q, IncrefStreams
  <1>3. CASE SameStreams(cn[d], dn[d])
    <2>1. SameStreams(cn[d], en[d])
      BY <1>2, <1>3 DEF SameStreams, SameRead, SameWritten, SameBuffer
    <2> QED BY <2>1
  <1>4. CASE Blank(dn[d]) /\ ~dn[d].open
    BY <1>p, <1>q, <1>2, <1>4 DEF Blank, SameStreams, SameRead, SameWritten, SameBuffer
  <1> QED BY <1>1, <1>3, <1>4

\* A send that returned true is over.
LEMMA OkIsSent ==
  ASSUME RequestInv, NEW u \in Workers, worker[u].ok
  PROVE  worker[u].pc = "sent"
  BY DEF RequestInv, OkReplied

\* A step of one thread outside send.
LEMMA ThreadRequests ==
  ASSUME ConnInv, ConnInv', RequestInv, NEW t \in Workers,
         \A u \in Workers : u # t => worker'[u] = worker[u],
         worker[t].pc \notin Sending, worker[t].pc = "sent" => worker'[t].req = None,
         worker'[t].req = worker[t].req \/ worker'[t].req = None, ~worker'[t].ok,
         \A d \in Fds : \/ SameStreams(conn[d], conn'[d])
                        \/ Blank(conn'[d]) /\ ~conn'[d].open,
         UNCHANGED <<unsent, jobq>>
  PROVE  RequestInv'
  <1>1. \A d \in Fds : \/ SameStreams(conn[d], conn'[d])
                       \/ Blank(conn'[d]) /\ \A u \in Workers : worker'[u].c # d
    BY OpenIfServedNext DEF ServedAreOpen
  <1>2. ASSUME NEW u \in Workers
        PROVE  /\ worker'[u].req = worker[u].req \/ worker'[u].req = None
               /\ worker[u].pc \in Sending => worker'[u].req = worker[u].req
               /\ worker[u].pc \in Answering =>
                    \/ worker'[u].req = None
                    \/ worker'[u].c = worker[u].c /\ worker'[u].pc \in Answering
               /\ worker'[u].ok => /\ worker[u].ok /\ worker'[u].pc = worker[u].pc
                                   /\ worker'[u].c = worker[u].c /\ worker'[u].req = worker[u].req
    <2>1. CASE u = t
      BY <2>1 DEF Answering
    <2>2. CASE u # t
      BY <2>2
    <2> QED BY <2>1, <2>2
  <1> QED BY <1>1, <1>2, QuietRequests

\* A step of another thread, which leaves the dispatch threads alone.
LEMMA OutsideRequests ==
  ASSUME ConnInv, ConnInv', RequestInv,
         \A d \in Fds : \/ SameStreams(conn[d], conn'[d])
                        \/ Blank(conn'[d]) /\ ~conn'[d].open,
         UNCHANGED <<unsent, jobq, worker>>
  PROVE  RequestInv'
  <1>1. \A d \in Fds : \/ SameStreams(conn[d], conn'[d])
                       \/ Blank(conn'[d]) /\ \A u \in Workers : worker'[u].c # d
    BY OpenIfServedNext DEF ServedAreOpen
  <1> QED BY <1>1, QuietRequests

\* The steps that move no request: of the poll thread ...
LEMMA StartRoundRequests ==
  ASSUME ConnInv, RequestInv, StartRound PROVE RequestInv'
  <1>1. /\ worker' = [t \in Workers |->
              IF pendingChange /\ worker[t].pc = "wait_removed"
              THEN [worker[t] EXCEPT !.pc = "removed"] ELSE worker[t]]
        /\ UNCHANGED <<conn, jobq, unsent>>
    BY DEF StartRound, peerVars
  <1>2. ASSUME NEW u \in Workers
        PROVE  /\ worker'[u].c = worker[u].c /\ worker'[u].req = worker[u].req
               /\ worker'[u].ok = worker[u].ok
               /\ \/ worker'[u].pc = worker[u].pc
                  \/ worker[u].pc = "wait_removed" /\ worker'[u].pc = "removed"
    <2>1. worker[u] \in Threads
      BY TypeFacts
    <2> QED BY <1>1, <2>1 DEF Threads
  <1>3. \A d \in Fds : SameStreams(conn[d], conn'[d])
    BY <1>1 DEF SameStreams, SameRead, SameWritten, SameBuffer
  <1>4. ASSUME NEW u \in Workers
        PROVE  /\ worker'[u].req = worker[u].req \/ worker'[u].req = None
               /\ worker[u].pc \in Sending => worker'[u].req = worker[u].req
               /\ worker[u].pc \in Answering =>
                    \/ worker'[u].req = None
                    \/ worker'[u].c = worker[u].c /\ worker'[u].pc \in Answering
               /\ worker'[u].ok => /\ worker[u].ok /\ worker'[u].pc = worker[u].pc
                                   /\ worker'[u].c = worker[u].c /\ worker'[u].req = worker[u].req
    BY <1>2, OkIsSent DEF Answering, Sending, Removal
  <1> QED BY <1>1, <1>3, <1>4, QuietRequests

LEMMA SelectRequests ==
  ASSUME ConnInv, ConnInv', RequestInv, Select PROVE RequestInv'
  <1>1. UNCHANGED <<conn, worker, jobq, unsent>>
    BY DEF Select, peerVars
  <1> QED BY <1>1, OutsideRequests DEF SameStreams, SameRead, SameWritten, SameBuffer

\* ... of the dispatch threads ...
LEMMA DispatchRequests ==
  ASSUME ConnInv, ConnInv', RequestInv, NEW t \in Workers, Dispatch(t) PROVE RequestInv'
  <1>0. PICK c : c = worker[t].c
    OBVIOUS
  <1> DEFINE older == latest # None /\ conn[latest].createTime < conn[c].createTime
  <1>1. worker[t].pc = "dispatch" /\ UNCHANGED <<jobq, unsent>>
    BY DEF Dispatch, peerVars
  <1>2. c \in Fds /\ latest \in Fds \cup {None} /\ conn \in [Fds -> Conns]
    BY <1>0, <1>1, ThreadFacts, TypeFacts DEF KeeperType
  <1>3. /\ worker'[t].req = worker[t].req /\ worker'[t].ok = worker[t].ok
        /\ \A u \in Workers : u # t => worker'[u] = worker[u]
    <2>1. worker[t] \in Threads /\ worker \in [Workers -> Threads]
      BY TypeFacts
    <2>2. CASE worker' = [worker EXCEPT ![t].pc = "send", ![t].leaks = TRUE]
      BY <2>1, <2>2 DEF Threads
    <2>3. ASSUME NEW pc, Goto(t, pc)
          PROVE  /\ worker'[t].req = worker[t].req /\ worker'[t].ok = worker[t].ok
                 /\ \A u \in Workers : u # t => worker'[u] = worker[u]
      BY <2>1, <2>3 DEF Goto, Threads
    <2> QED BY <2>2, <2>3 DEF Dispatch
  <1>4. ASSUME NEW d \in Fds
        PROVE  SameStreams(conn[d], conn'[d]) \/ (Blank(conn'[d]) /\ ~conn'[d].open)
    <2>1. \/ conn' = conn
          \/ conn' = Incref(conn, c)
          \/ latest # None /\ conn' = Incref(Decref(conn, latest), c)
      BY <1>0 DEF Dispatch
    <2>2. CASE conn' = conn
      BY <2>2 DEF SameStreams, SameRead, SameWritten, SameBuffer
    <2>3. CASE conn' = Incref(conn, c)
      BY <1>2, <2>3, IncrefStreams
    <2>4. CASE latest # None /\ conn' = Incref(Decref(conn, latest), c)
      <3>1. latest \in Fds
        BY <1>2, <2>4
      <3>2. conn[latest].refno >= 1
        BY <3>1, TypeFacts, SomeReference DEF ConnInv
      <3> QED BY <1>2, <2>4, <3>1, <3>2, MovedStreams
    <2> QED BY <2>1, <2>2, <2>3, <2>4
  <1>5. ~worker'[t].ok /\ worker[t].pc \notin Sending
    BY <1>1, <1>3, OkIsSent DEF Sending, Removal
  <1> QED BY <1>1, <1>3, <1>4, <1>5, ThreadRequests

LEMMA PickConnectionRequests ==
  ASSUME ConnInv, ConnInv', RequestInv, NEW t \in Workers, PickConnection(t) PROVE RequestInv'
  <1>0. PICK c : c = worker[t].c
    OBVIOUS
  <1>1. worker[t].pc = "handler" /\ UNCHANGED <<jobq, unsent>>
    BY DEF PickConnection, peerVars
  <1>2. c \in Fds /\ latest \in Fds /\ conn \in [Fds -> Conns]
    <2>1. latest \in Fds \cup {None} /\ latest # None
      BY <1>1, TypeFacts DEF KeeperType, ConnInv, WorkInv
    <2> QED BY <1>0, <1>1, <2>1, ThreadFacts, TypeFacts
  <1>3. /\ worker'[t].req = worker[t].req /\ worker'[t].ok = worker[t].ok
        /\ \A u \in Workers : u # t => worker'[u] = worker[u]
    <2>1. worker[t] \in Threads /\ worker \in [Workers -> Threads]
      BY TypeFacts
    <2>2. CASE Goto(t, "send")
      BY <2>1, <2>2 DEF Goto, Threads
    <2>3. CASE worker' = [worker EXCEPT ![t].pc = "send", ![t].c = latest]
      BY <2>1, <2>3 DEF Threads
    <2> QED BY <2>2, <2>3 DEF PickConnection
  <1>4. ASSUME NEW d \in Fds
        PROVE  SameStreams(conn[d], conn'[d]) \/ (Blank(conn'[d]) /\ ~conn'[d].open)
    <2>1. conn' = conn \/ conn' = Incref(Decref(conn, c), latest)
      BY <1>0 DEF PickConnection
    <2>2. CASE conn' = conn
      BY <2>2 DEF SameStreams, SameRead, SameWritten, SameBuffer
    <2>3. CASE conn' = Incref(Decref(conn, c), latest)
      <3>1. conn[c].refno >= 1
        BY <1>0, <1>2, TypeFacts, SomeReference DEF ConnInv
      <3> QED BY <1>2, <2>3, <3>1, MovedStreams
    <2> QED BY <2>1, <2>2, <2>3
  <1>5. ~worker'[t].ok /\ worker[t].pc \notin Sending
    BY <1>1, <1>3, OkIsSent DEF Sending, Removal
  <1> QED BY <1>1, <1>3, <1>4, <1>5, ThreadRequests

LEMMA ReturnRequests ==
  ASSUME ConnInv, ConnInv', RequestInv, NEW t \in Workers, Return(t) PROVE RequestInv'
  <1>0. PICK c : c = worker[t].c
    OBVIOUS
  <1>1. worker[t].pc = "sent" /\ UNCHANGED <<jobq, unsent>>
    BY DEF Return, peerVars
  <1>2. c \in Fds /\ conn \in [Fds -> Conns]
    BY <1>0, <1>1, ThreadFacts, TypeFacts
  <1>3. /\ worker'[t].req = None /\ ~worker'[t].ok
        /\ \A u \in Workers : u # t => worker'[u] = worker[u]
    <2>1. worker \in [Workers -> Threads]
      BY TypeFacts
    <2> QED BY <2>1 DEF Return, Asleep
  <1>4. ASSUME NEW d \in Fds
        PROVE  SameStreams(conn[d], conn'[d]) \/ (Blank(conn'[d]) /\ ~conn'[d].open)
    <2>1. conn' = [conn EXCEPT ![c].leaked = @ + 1] \/ conn' = Decref(conn, c)
      BY <1>0 DEF Return
    <2>2. CASE conn' = [conn EXCEPT ![c].leaked = @ + 1]
      <3>1. conn[d] \in Conns
        BY <1>2
      <3> QED BY <1>2, <2>2, <3>1 DEF SameStreams, SameRead, SameWritten, SameBuffer, Conns
    <2>3. CASE conn' = Decref(conn, c)
      <3>1. conn[c].refno >= 1
        BY <1>0, <1>2, TypeFacts, SomeReference DEF ConnInv
      <3> QED BY <1>2, <2>3, <3>1, DecrefStreams
    <2> QED BY <2>1, <2>2, <2>3
  <1>5. worker[t].pc \notin Sending
    BY <1>1 DEF Sending, Removal
  <1> QED BY <1>1, <1>3, <1>4, <1>5, ThreadRequests

LEMMA BlockRemoveRequests ==
  ASSUME ConnInv, RequestInv, NEW t \in Workers, BlockRemove(t) PROVE RequestInv'
  <1>1. worker[t].pc = "remove" /\ Goto(t, "wait_removed") /\ UNCHANGED <<conn, jobq, unsent>>
    BY DEF BlockRemove, peerVars
  <1>2. /\ worker'[t].pc = "wait_removed" /\ worker'[t].c = worker[t].c
        /\ worker'[t].req = worker[t].req /\ worker'[t].ok = worker[t].ok
        /\ \A u \in Workers : u # t => worker'[u] = worker[u]
    BY <1>1, TypeFacts DEF Goto, Threads
  <1>3. \A d \in Fds : SameStreams(conn[d], conn'[d])
    BY <1>1 DEF SameStreams, SameRead, SameWritten, SameBuffer
  <1>4. ASSUME NEW u \in Workers
        PROVE  /\ worker'[u].req = worker[u].req \/ worker'[u].req = None
               /\ worker[u].pc \in Sending => worker'[u].req = worker[u].req
               /\ worker[u].pc \in Answering =>
                    \/ worker'[u].req = None
                    \/ worker'[u].c = worker[u].c /\ worker'[u].pc \in Answering
               /\ worker'[u].ok => /\ worker[u].ok /\ worker'[u].pc = worker[u].pc
                                   /\ worker'[u].c = worker[u].c /\ worker'[u].req = worker[u].req
    <2>1. CASE u = t
      BY <1>1, <1>2, <2>1, OkIsSent DEF Answering, Sending, Removal
    <2>2. CASE u # t
      BY <1>2, <2>2
    <2> QED BY <2>1, <2>2
  <1> QED BY <1>1, <1>3, <1>4, QuietRequests

\* ... and of the accepting thread.
LEMMA AcceptRequests ==
  ASSUME ConnInv, RequestInv, Accept PROVE RequestInv'
  <1>e. PICK e : e = Min({d \in Fds : ~conn[d].open})
    OBVIOUS
  <1>1. conn' = [conn EXCEPT ![e] = Fresh(accepts + 3)] /\ UNCHANGED <<jobq, worker, unsent>>
    BY <1>e DEF Accept
  <1>2. e \in Fds /\ \A u \in Workers : worker[u].c # e
    <2>1. {d \in Fds : ~conn[d].open} # {} /\ {d \in Fds : ~conn[d].open} \in SUBSET Nat
      BY ConnectionAssumption DEF Accept
    <2>2. e \in Fds /\ ~conn[e].open
      BY <1>e, <2>1, Smallest
    <2> QED BY <2>2, OpenIfServed DEF ServedAreOpen
  <1>3. ASSUME NEW d \in Fds
        PROVE  \/ SameStreams(conn[d], conn'[d])
               \/ Blank(conn'[d]) /\ \A u \in Workers : worker'[u].c # d
    <2>1. CASE d # e
      <3>1. SameStreams(conn[d], conn'[d])
        BY <1>1, <2>1, TypeFacts DEF SameStreams, SameRead, SameWritten, SameBuffer
      <3> QED BY <3>1
    <2>2. CASE d = e
      <3>1. conn'[d] = Fresh(accepts + 3)
        BY <1>1, <1>2, <2>2, TypeFacts
      <3>2. Blank(conn'[d])
        BY <3>1, FreshIsBlank
      <3> QED BY <1>1, <1>2, <2>2, <3>2
    <2> QED BY <2>1, <2>2
  <1> QED BY <1>1, <1>3, QuietRequests

LEMMA AcceptorRequests ==
  ASSUME ConnInv, ConnInv', RequestInv, AcceptorStep PROVE RequestInv'
  <1>1. UNCHANGED <<jobq, worker, unsent>>
    BY DEF AcceptorStep, Examine, Collect, Accepted, peerVars
  <1>2. ASSUME NEW d \in Fds
        PROVE  SameStreams(conn[d], conn'[d]) \/ (Blank(conn'[d]) /\ ~conn'[d].open)
    <2>1. CASE conn' = conn
      BY <2>1 DEF SameStreams, SameRead, SameWritten, SameBuffer
    <2>2. CASE Collect
      <3>c. PICK c : c = Min(acceptor.todo)
        OBVIOUS
      <3>1. conn' = Decref(conn, c) /\ acceptor.pc = "delete"
        BY <2>2, <3>c DEF Collect
      <3>2. c \in table
        <4>1. acceptor.todo \in SUBSET Nat /\ acceptor.todo # {} /\ acceptor.todo \subseteq table
          BY <3>1, TypeFacts, ConnectionAssumption DEF KeeperType, ConnInv, AcceptInv
        <4> QED BY <3>c, <4>1, Smallest
      <3>3. c \in Fds /\ conn \in [Fds -> Conns]
        BY <3>2, TypeFacts DEF KeeperType
      <3>4. conn[c].refno >= 1
        BY <3>2, <3>3, TypeFacts, SomeReference DEF ConnInv
      <3> QED BY <3>1, <3>3, <3>4, DecrefStreams
    <2> QED BY <2>1, <2>2 DEF AcceptorStep, Examine, Accepted
  <1> QED BY <1>1, <1>2, OutsideRequests
-----------------------------------------------------------------------------
(* Requests on the move                                                    *)

ThreadPlaces == {<<"thread", t>> : t \in Workers}

\* A step that takes requests from one place to the next, and writes nothing.
LEMMA MovingRequests ==
  ASSUME ConnInv, RequestInv,
         \A req \in Requests :
           \/ Places(req)' \subseteq Places(req)
           \/ \E p \in Places(req) \ ThreadPlaces : \E q : Places(req)' \subseteq {q},
         \A d \in Fds : conn'[d].wire = conn[d].wire,
         \A u \in Workers :
           /\ worker[u].pc \in Answering =>
                \/ worker'[u].req = None
                \/ worker'[u].c = worker[u].c /\ worker'[u].pc \in Answering
           /\ worker'[u].ok => /\ worker[u].ok /\ worker'[u].pc = worker[u].pc
                               /\ worker'[u].c = worker[u].c /\ worker'[u].req = worker[u].req,
         \A d \in Fds : ReadOrder(conn'[d]) /\ WroteAt(d)',
         QueuedOnce'
  PROVE  RequestInv'
  <1>1. OnePlace'
    <2>1. \A req \in Requests :
            Places(req)' \subseteq Places(req) \/ \E p : Places(req)' \subseteq {p}
      OBVIOUS
    <2> QED BY <2>1, OnePlaceKept DEF RequestInv
  <1>2. ASSUME NEW c \in Fds, NEW req \in Requests
        PROVE  Replied(c, req)' <=> Replied(c, req)
    BY DEF Replied
  <1>3. OnceAnswered'
    <2>1. ASSUME NEW c \in Fds, NEW req \in Requests, Replied(c, req)'
          PROVE  Places(req)' \subseteq Places(req)
      <3>1. \A p \in Places(req) : p \in ThreadPlaces
        BY <1>2, <2>1 DEF RequestInv, OnceAnswered, ThreadPlaces
      <3> QED BY <3>1
    <2> QED BY <1>2, <2>1, AnswersKept DEF RequestInv
  <1>4. ASSUME NEW t \in Workers, worker'[t].ok
        PROVE  worker'[t].pc = "sent" /\ Replied(worker[t].c, worker[t].req)'
    <2>1. /\ worker[t].ok /\ worker'[t].pc = worker[t].pc
          /\ worker'[t].c = worker[t].c /\ worker'[t].req = worker[t].req
      BY <1>4
    <2>2. PICK c, req : c = worker[t].c /\ req = worker[t].req
      OBVIOUS
    <2>3. worker[t].pc = "sent" /\ Replied(c, req)
      BY <2>1, <2>2 DEF RequestInv, OkReplied
    <2>4. c \in Fds
      BY <2>2, <2>3, ThreadFacts
    <2>5. <<req, 2>> \in Range(conn'[c].wire)
      BY <2>3, <2>4 DEF Replied
    <2> QED BY <2>1, <2>2, <2>3, <2>5 DEF Replied
  <1>5. OkReplied'
    BY <1>4 DEF OkReplied
  <1> QED BY <1>1, <1>3, <1>5 DEF RequestInv

\* Threads that at most are woken.
Woken(u) ==
    /\ worker'[u].c = worker[u].c /\ worker'[u].req = worker[u].req
    /\ worker'[u].ok = worker[u].ok
    /\ \/ worker'[u].pc = worker[u].pc
       \/ worker[u].pc = "wait_job" /\ worker'[u].pc = "take"
       \/ worker[u].pc = "wait_complete" /\ worker'[u].pc = "completed"

LEMMA SignalledAreWoken ==
  ASSUME ConnInv, NEW c, worker' = SignalComplete(worker, c), NEW u \in Workers
  PROVE  Woken(u)
  <1>1. worker[u] \in Threads
    BY TypeFacts
  <1>2. worker'[u] = IF worker[u].c = c /\ worker[u].pc = "wait_complete"
                     THEN [worker[u] EXCEPT !.pc = "completed"] ELSE worker[u]
    BY DEF SignalComplete
  <1> QED BY <1>1, <1>2 DEF Threads, Woken

LEMMA EnqueuedAreWoken ==
  ASSUME ConnInv, NEW j, Enq(j), NEW u \in Workers
  PROVE  Woken(u)
  <1>1. worker \in [Workers -> Threads]
    BY TypeFacts
  <1>2. CASE worker' = worker
    BY <1>2 DEF Woken
  <1>3. ASSUME NEW t \in Workers, worker[t].pc = "wait_job",
               worker' = [worker EXCEPT ![t].pc = "take"]
        PROVE  Woken(u)
    BY <1>1, <1>3 DEF Woken, Threads
  <1> QED BY <1>2, <1>3 DEF Enq

\* A request that is at one place is at no other.
LEMMA Elsewhere ==
  ASSUME RequestInv, NEW req \in Requests, NEW p \in Places(req)
  PROVE  /\ p # <<"peer", None>> => req \notin unsent
         /\ \A d \in Fds : p # <<"inq", d>> => ~Coming(conn[d], req)
         /\ \A d \in Fds : p # <<"rpdu", d>> => conn[d].rreq # req
         /\ p # <<"jobq", None>> => ~Awaits(req)
         /\ \A t \in Workers : p # <<"thread", t>> => worker[t].req # req
  <1>1. \A q \in Places(req) : p = q
    BY DEF RequestInv, OnePlace
  <1> QED BY <1>1, PlaceIs

\* One connection takes in what was sent to it; a job may come of it.
LEMMA ReadingRequests ==
  ASSUME ConnInv, RequestInv, NEW c \in Fds,
         \A d \in Fds : d # c => conn'[d] = conn[d],
         conn'[c].wire = conn[c].wire, ReadOrder(conn'[c]), WroteAt(c)',
         \A u \in Workers : Woken(u),
         QueuedOnce', unsent' \subseteq unsent,
         \A req \in Requests : Coming(conn'[c], req) =>
           Coming(conn[c], req) \/ (req \in unsent /\ req \notin unsent'),
         \A req \in Requests : conn'[c].rreq = req =>
           conn[c].rreq = req \/ (Coming(conn[c], req) /\ ~Coming(conn'[c], req)),
         \A req \in Requests : Awaits(req)' =>
           \/ Awaits(req)
           \/ /\ conn[c].rreq = req \/ Coming(conn[c], req)
              /\ conn'[c].rreq # req /\ ~Coming(conn'[c], req)
  PROVE  RequestInv'
  <1>1. ASSUME NEW req \in Requests
        PROVE  \/ Places(req)' \subseteq Places(req)
               \/ \E p \in Places(req) \ ThreadPlaces : \E q : Places(req)' \subseteq {q}
    <2>1. \A d \in Fds : d # c =>
            /\ Coming(conn'[d], req) => Coming(conn[d], req)
            /\ conn'[d].rreq = req => conn[d].rreq = req
      OBVIOUS
    <2>2. \A u \in Workers : worker'[u].req = req => worker[u].req = req
      BY DEF Woken
    <2>3. CASE req \in unsent /\ req \notin unsent'
      <3>1. <<"peer", None>> \in Places(req) \ ThreadPlaces
        BY <2>3, PlaceIs DEF ThreadPlaces
      <3>2. ASSUME NEW p \in Places(req)' PROVE p = <<"inq", c>>
        <4>1. ~Coming(conn[c], req) /\ conn[c].rreq # req /\ ~Awaits(req)
          BY <3>1, Elsewhere
        <4>2. \A d \in Fds : ~Coming(conn[d], req) /\ conn[d].rreq # req
          BY <3>1, Elsewhere
        <4>3. \A u \in Workers : worker[u].req # req
          BY <3>1, Elsewhere
        <4>4. conn'[c].rreq # req /\ ~Awaits(req)'
          BY <4>1
        <4>5. \A d \in Fds : d # c => ~Coming(conn'[d], req) /\ conn'[d].rreq # req
          BY <2>1, <4>2
        <4>6. \A u \in Workers : worker'[u].req # req
          BY <2>2, <4>3
        <4> QED BY <2>3, <3>2, <4>4, <4>5, <4>6, PlaceIsNext
      <3> QED BY <3>1, <3>2
    <2>4. CASE conn'[c].rreq = req /\ conn[c].rreq # req
      <3>1. Coming(conn[c], req) /\ ~Coming(conn'[c], req)
        BY <2>4
      <3>2. <<"inq", c>> \in Places(req) \ ThreadPlaces
        BY <3>1, PlaceIs DEF ThreadPlaces
      <3>3. req \notin unsent /\ ~Awaits(req)
        BY <3>2, Elsewhere
      <3>4. \A d \in Fds : d # c => ~Coming(conn'[d], req)
        BY <2>1, <3>2, Elsewhere
      <3>5. \A u \in Workers : worker'[u].req # req
        BY <2>2, <3>2, Elsewhere
      <3>6. \A d \in Fds : d # c => conn'[d].rreq # req
        BY <2>1, <3>2, Elsewhere
      <3>7. ~Awaits(req)' /\ req \notin unsent'
        BY <2>4, <3>3
      <3>8. \A p \in Places(req)' : p = <<"rpdu", c>>
        BY <3>1, <3>4, <3>5, <3>6, <3>7, PlaceIsNext
      <3> QED BY <3>2, <3>8
    <2>5. CASE Awaits(req)' /\ ~Awaits(req)
      <3>1. /\ conn[c].rreq = req \/ Coming(conn[c], req)
            /\ conn'[c].rreq # req /\ ~Coming(conn'[c], req)
        BY <2>5
      <3>2. PICK p \in Places(req) \ ThreadPlaces : p = <<"inq", c>> \/ p = <<"rpdu", c>>
        BY <3>1, PlaceIs DEF ThreadPlaces
      <3>3. req \notin unsent'
        BY <3>2, Elsewhere
      <3>4. \A d \in Fds : d # c => ~Coming(conn'[d], req)
        BY <2>1, <3>2, Elsewhere
      <3>5. \A u \in Workers : worker'[u].req # req
        BY <2>2, <3>2, Elsewhere
      <3>6. \A d \in Fds : d # c => conn'[d].rreq # req
        BY <2>1, <3>2, Elsewhere
      <3>7. \A q \in Places(req)' : q = <<"jobq", None>>
        BY <3>1, <3>3, <3>4, <3>5, <3>6, PlaceIsNext
      <3> QED BY <3>2, <3>7
    <2>6. CASE /\ ~(req \in unsent /\ req \notin unsent')
               /\ ~(conn'[c].rreq = req /\ conn[c].rreq # req)
               /\ ~(Awaits(req)' /\ ~Awaits(req))
      <3>1. \A d \in Fds : Coming(conn'[d], req) => Coming(conn[d], req)
        BY <2>1, <2>6
      <3>2. \A d \in Fds : conn'[d].rreq = req => conn[d].rreq = req
        BY <2>1, <2>6
      <3>3. (Awaits(req)' => Awaits(req)) /\ (req \in unsent' => req \in unsent)
        BY <2>6
      <3> QED BY <2>2, <3>1, <3>2, <3>3, PlaceIs, PlaceIsNext
    <2> QED BY <2>3, <2>4, <2>5, <2>6
  <1>2. ASSUME NEW u \in Workers
        PROVE  /\ worker[u].pc \in Answering =>
                    \/ worker'[u].req = None
                    \/ worker'[u].c = worker[u].c /\ worker'[u].pc \in Answering
               /\ worker'[u].ok => /\ worker[u].ok /\ worker'[u].pc = worker[u].pc
                                   /\ worker'[u].c = worker[u].c /\ worker'[u].req = worker[u].req
    BY <1>2, OkIsSent DEF Woken, Answering, Sending, Removal
  <1>3. ASSUME NEW d \in Fds PROVE ReadOrder(conn'[d]) /\ WroteAt(d)'
    <2>1. CASE d = c
      BY <2>1
    <2>2. CASE d # c
      <3>1. conn'[d] = conn[d]
        BY <2>2
      <3>2. ReadOrder(conn[d]) /\ WroteAt(d)
        BY DEF RequestInv
      <3>3. SameWritten(conn[d], conn'[d])
        BY <3>1 DEF SameWritten, SameBuffer
      <3>4. \A u \in Workers : worker'[u].req = worker[u].req
        BY DEF Woken
      <3> QED BY <3>1, <3>2, <3>3, <3>4, WroteAtKept
    <2> QED BY <2>1, <2>2
  <1>4. \A d \in Fds : conn'[d].wire = conn[d].wire
    OBVIOUS
  <1> QED BY <1>1, <1>2, <1>3, <1>4, MovingRequests

\* A step of a peer wakes nobody.
LEMMA NobodyWoken ==
  ASSUME worker' = worker, NEW u \in Workers PROVE Woken(u)
  BY DEF Woken

\* The pieces of what was sent.
LEMMA ChunkIs ==
  ASSUME NEW k \in Conns, NEW i \in DOMAIN k.inq
  PROVE  /\ k.inq[i] = <<k.inq[i][1], k.inq[i][2]>>
         /\ k.inq[i][1] \in Requests /\ k.inq[i][2] \in {1, 2}
  <1>1. k.inq \in Seq(Requests \X (1..PduSize))
    BY DEF Conns, Chunks
  <1>2. k.inq[i] \in Requests \X (1..PduSize)
    BY <1>1
  <1> QED BY <1>2 DEF PduSize

\* The rest of a request follows its length.
LEMMA RestFollows ==
  ASSUME NEW k \in Conns, NEW m \in Conns, ReadOrder(k), ~k.broken, k.half # None,
         NEW r, m.inq = Append(k.inq, <<r, 2>>), m.half = None,
         m.rreq = k.rreq, m.rlong = k.rlong, m.broken = k.broken, m.dead = k.dead
  PROVE  ReadOrder(m) /\ \A req \in Requests : Coming(m, req) => Coming(k, req)
  <1>q. PICK q, w : q = k.inq /\ w = m.inq
    OBVIOUS
  <1>1. q \in Seq(Requests \X (1..PduSize)) /\ w \in Seq(Requests \X (1..PduSize))
    BY <1>q DEF Conns, Chunks
  <1>2. /\ w = Append(q, <<r, 2>>) /\ Len(w) = Len(q) + 1
        /\ \A i \in 1..Len(q) : w[i] = q[i]
        /\ w[Len(w)] = <<r, 2>> /\ w # <<>>
    BY <1>q, <1>1
  <1>3. DOMAIN q = 1..Len(q) /\ DOMAIN w = 1..(Len(q) + 1) /\ Len(q) \in Nat
    BY <1>1, <1>2
  <1>4. Head(w)[2] = 2 <=> m.rlong = 1
    <2>1. CASE q = <<>>
      <3>1. w[1] = <<r, 2>> /\ k.rlong = 1
        BY <1>q, <1>2, <2>1 DEF ReadOrder
      <3> QED BY <1>1, <3>1
    <2>2. CASE q # <<>>
      <3>1. Head(w) = Head(q)
        BY <1>1, <1>2, <1>3, <2>2
      <3> QED BY <1>q, <2>2, <3>1 DEF ReadOrder
    <2> QED BY <2>1, <2>2
  <1>5. q # <<>> => q[Len(q)][2] = 1
    BY <1>q DEF ReadOrder
  <1>6. ASSUME NEW i \in DOMAIN w, NEW j \in DOMAIN w
        PROVE  /\ j = i + 1 => w[j][2] # w[i][2]
               /\ w[i] = w[j] /\ w[i][2] = 1 => i = j
    <2>1. \A a, b \in DOMAIN q :
            /\ b = a + 1 => q[b][2] # q[a][2]
            /\ q[a] = q[b] /\ q[a][2] = 1 => a = b
      BY <1>q DEF ReadOrder
    <2>2. w[Len(q) + 1][2] = 2
      BY <1>2
    <2>3. j = i + 1 /\ j = Len(q) + 1 => i = Len(q) /\ q # <<>>
      BY <1>1, <1>3
    <2>4. i \in DOMAIN q \/ i = Len(q) + 1
      BY <1>3
    <2>5. j \in DOMAIN q \/ j = Len(q) + 1
      BY <1>3
    <2>6. CASE i \in DOMAIN q /\ j \in DOMAIN q
      BY <1>2, <1>3, <2>1, <2>6
    <2>7. CASE i = Len(q) + 1
      <3>1. j # i + 1
        BY <1>3, <2>5, <2>7
      <3>2. w[i] = w[j] /\ w[i][2] = 1 => i = j
        BY <2>2, <2>7
      <3> QED BY <3>1, <3>2
    <2>8. CASE i \in DOMAIN q /\ j = Len(q) + 1
      <3>1. w[i] = q[i] /\ w[j][2] = 2
        BY <1>2, <1>3, <2>2, <2>8
      <3>2. j = i + 1 => w[i][2] = 1
        BY <1>5, <2>3, <2>8, <3>1
      <3> QED BY <3>1, <3>2
    <2> QED BY <2>4, <2>5, <2>6, <2>7, <2>8
  <1>7. m.half # None <=> IF w = <<>> THEN m.rlong = 1 ELSE w[Len(w)][2] = 1
    BY <1>2
  <1>8. ReadOrder(m)
    BY <1>q, <1>4, <1>6, <1>7 DEF ReadOrder
  <1>9. ASSUME NEW req \in Requests, Coming(m, req) PROVE Coming(k, req)
    <2>1. PICK i \in DOMAIN w : w[i] = <<req, 1>>
      BY <1>9, <1>q DEF Coming
    <2>2. i # Len(q) + 1
      BY <1>2, <2>1
    <2>3. i \in DOMAIN q /\ q[i] = <<req, 1>>
      BY <1>2, <1>3, <2>1, <2>2
    <2> QED BY <1>q, <2>3 DEF Coming
  <1> QED BY <1>8, <1>9

\* The length of a request that was not there follows a rest.
LEMMA LengthFollows ==
  ASSUME NEW k \in Conns, NEW m \in Conns, ReadOrder(k), ~k.broken, k.half = None,
         NEW r \in Requests, ~Coming(k, r), m.inq = Append(k.inq, <<r, 1>>), m.half # None,
         m.rreq = k.rreq, m.rlong = k.rlong, m.broken = k.broken, m.dead = k.dead
  PROVE  ReadOrder(m) /\ \A req \in Requests : Coming(m, req) => Coming(k, req) \/ req = r
  <1>q. PICK q, w : q = k.inq /\ w = m.inq
    OBVIOUS
  <1>1. q \in Seq(Requests \X (1..PduSize)) /\ w \in Seq(Requests \X (1..PduSize))
    BY <1>q DEF Conns, Chunks
  <1>2. /\ w = Append(q, <<r, 1>>) /\ Len(w) = Len(q) + 1
        /\ \A i \in 1..Len(q) : w[i] = q[i]
        /\ w[Len(w)] = <<r, 1>> /\ w # <<>>
    BY <1>q, <1>1
  <1>3. DOMAIN q = 1..Len(q) /\ DOMAIN w = 1..(Len(q) + 1) /\ Len(q) \in Nat
    BY <1>1, <1>2
  <1>4. Head(w)[2] = 2 <=> m.rlong = 1
    <2>1. CASE q = <<>>
      <3>1. w[1] = <<r, 1>> /\ k.rlong # 1
        BY <1>q, <1>2, <2>1 DEF ReadOrder
      <3> QED BY <1>1, <3>1
    <2>2. CASE q # <<>>
      <3>1. Head(w) = Head(q)
        BY <1>1, <1>2, <1>3, <2>2
      <3> QED BY <1>q, <2>2, <3>1 DEF ReadOrder
    <2> QED BY <2>1, <2>2
  <1>5. q # <<>> => q[Len(q)][2] # 1
    BY <1>q DEF ReadOrder
  <1>6. ASSUME NEW i \in DOMAIN w, NEW j \in DOMAIN w
        PROVE  /\ j = i + 1 => w[j][2] # w[i][2]
               /\ w[i] = w[j] /\ w[i][2] = 1 => i = j
    <2>1. \A a, b \in DOMAIN q :
            /\ b = a + 1 => q[b][2] # q[a][2]
            /\ q[a] = q[b] /\ q[a][2] = 1 => a = b
      BY <1>q DEF ReadOrder
    <2>2. w[Len(q) + 1] = <<r, 1>> /\ \A a \in DOMAIN q : q[a] # <<r, 1>>
      BY <1>q, <1>2 DEF Coming
    <2>3. j = i + 1 /\ j = Len(q) + 1 => i = Len(q) /\ q # <<>>
      BY <1>1, <1>3
    <2>4. i \in DOMAIN q \/ i = Len(q) + 1
      BY <1>3
    <2>5. j \in DOMAIN q \/ j = Len(q) + 1
      BY <1>3
    <2>6. CASE i \in DOMAIN q /\ j \in DOMAIN q
      BY <1>2, <1>3, <2>1, <2>6
    <2>7. CASE i = Len(q) + 1
      <3>1. j # i + 1
        BY <1>3, <2>5, <2>7
      <3>2. w[i] = w[j] => i = j
        BY <1>2, <1>3, <2>2, <2>5, <2>7
      <3> QED BY <3>1, <3>2
    <2>8. CASE i \in DOMAIN q /\ j = Len(q) + 1
      <3>1. w[i] = q[i] /\ w[j] = <<r, 1>> /\ w[i] # w[j]
        BY <1>2, <1>3, <2>2, <2>8
      <3>2. j = i + 1 => w[i][2] # 1
        BY <1>5, <2>3, <2>8, <3>1
      <3> QED BY <3>1, <3>2
    <2> QED BY <2>4, <2>5, <2>6, <2>7, <2>8
  <1>7. m.half # None <=> IF w = <<>> THEN m.rlong = 1 ELSE w[Len(w)][2] = 1
    BY <1>2
  <1>8. ReadOrder(m)
    BY <1>q, <1>4, <1>6, <1>7 DEF ReadOrder
  <1>9. ASSUME NEW req \in Requests, Coming(m, req) PROVE Coming(k, req) \/ req = r
    <2>1. PICK i \in DOMAIN w : w[i] = <<req, 1>>
      BY <1>9, <1>q DEF Coming
    <2>2. CASE i = Len(q) + 1
      <3>1. <<req, 1>> = <<r, 1>>
        BY <1>2, <2>1, <2>2
      <3> QED BY <3>1
    <2>3. CASE i \in DOMAIN q
      BY <1>q, <1>2, <1>3, <2>1, <2>3 DEF Coming
    <2> QED BY <1>3, <2>2, <2>3
  <1> QED BY <1>8, <1>9

LEMMA TwoAppended ==
  ASSUME NEW S, NEW q \in Seq(S), NEW x \in S, NEW y \in S
  PROVE  q \o <<x, y>> = Append(Append(q, x), y)
  OBVIOUS

\* A request arrives, in one piece or two.
LEMMA Arrives ==
  ASSUME NEW k \in Conns, ReadOrder(k), ~k.broken, k.half = None,
         NEW r \in Requests, ~Coming(k, r)
  PROVE  LET m == [k EXCEPT !.inq = Append(k.inq, <<r, 1>>), !.half = r]
             n == [k EXCEPT !.inq = k.inq \o <<<<r, 1>>, <<r, 2>>>>] IN
         /\ m \in Conns /\ ReadOrder(m)
         /\ n \in Conns /\ ReadOrder(n)
         /\ \A req \in Requests : Coming(m, req) \/ Coming(n, req) => Coming(k, req) \/ req = r
  <1>a. PICK a : a = Append(k.inq, <<r, 1>>)
    OBVIOUS
  <1>b. PICK b : b = Append(a, <<r, 2>>)
    OBVIOUS
  <1>1. k.inq \in Chunks
    BY DEF Conns
  <1>2. a \in Chunks
    BY <1>1, <1>a DEF Chunks, PduSize
  <1>3. b \in Chunks
    BY <1>2, <1>b DEF Chunks, PduSize
  <1>4. b = k.inq \o <<<<r, 1>>, <<r, 2>>>>
    <2>1. <<r, 1>> \in Requests \X (1..PduSize) /\ <<r, 2>> \in Requests \X (1..PduSize)
      BY DEF PduSize
    <2>2. PICK x, y : x = <<r, 1>> /\ y = <<r, 2>>
      OBVIOUS
    <2>S. PICK S : S = Requests \X (1..PduSize)
      OBVIOUS
    <2>3. k.inq \in Seq(S) /\ x \in S /\ y \in S
      BY <1>1, <2>1, <2>2, <2>S DEF Chunks
    <2>4. k.inq \o <<x, y>> = Append(Append(k.inq, x), y)
      BY <2>3, TwoAppended
    <2> QED BY <1>a, <1>b, <2>2, <2>4
  <1>m. PICK m1 : m1 = [k EXCEPT !.inq = a]
    OBVIOUS
  <1>h. PICK m : m = [m1 EXCEPT !.half = r]
    OBVIOUS
  <1>n. PICK n : n = [k EXCEPT !.inq = b]
    OBVIOUS
  <1>5. m1 \in Conns /\ n \in Conns
    BY <1>2, <1>3, <1>m, <1>n, SetField
  <1>6. m \in Conns
    BY <1>5, <1>h, SetField
  <1>7. /\ m.inq = Append(k.inq, <<r, 1>>) /\ m.half = r
        /\ m.rreq = k.rreq /\ m.rlong = k.rlong /\ m.broken = k.broken /\ m.dead = k.dead
    BY <1>a, <1>m, <1>h DEF Conns
  <1>8. ReadOrder(m) /\ \A req \in Requests : Coming(m, req) => Coming(k, req) \/ req = r
    BY <1>6, <1>7, LengthFollows, ConnectionAssumption
  <1>9. /\ n.inq = Append(m.inq, <<r, 2>>) /\ n.half = None
        /\ n.rreq = m.rreq /\ n.rlong = m.rlong /\ n.broken = m.broken /\ n.dead = m.dead
    BY <1>7, <1>a, <1>b, <1>n DEF Conns
  <1>x. ~m.broken /\ m.half # None
    BY <1>7, ConnectionAssumption
  <1>c. ReadOrder(n) /\ \A req \in Requests : Coming(n, req) => Coming(m, req)
    BY <1>5, <1>6, <1>8, <1>9, <1>x, RestFollows
  <1>d. m = [k EXCEPT !.inq = Append(k.inq, <<r, 1>>), !.half = r]
    BY <1>a, <1>m, <1>h DEF Conns
  <1>e. n = [k EXCEPT !.inq = k.inq \o <<<<r, 1>>, <<r, 2>>>>]
    BY <1>4, <1>n
  <1>f. \A req \in Requests : Coming(m, req) \/ Coming(n, req) => Coming(k, req) \/ req = r
    BY <1>8, <1>c
  <1> QED BY <1>5, <1>6, <1>8, <1>c, <1>d, <1>e, <1>f

\* A connection after its peer changed what is to be read.
LEMMA InputRequests ==
  ASSUME ConnInv, RequestInv, NEW c \in Fds, NEW m \in Conns,
         conn' = [conn EXCEPT ![c] = m], SameWritten(conn[c], m), m.rreq = conn[c].rreq,
         ReadOrder(m), UNCHANGED <<worker, jobq>>, unsent' \subseteq unsent,
         \A req \in Requests : Coming(m, req) =>
           Coming(conn[c], req) \/ (req \in unsent /\ req \notin unsent')
  PROVE  RequestInv'
  <1>1. conn'[c] = m /\ \A d \in Fds : d # c => conn'[d] = conn[d]
    BY TypeFacts, SetConn
  <1>2. conn'[c].wire = conn[c].wire
    BY <1>1 DEF SameWritten
  <1>3. WroteAt(c)'
    <2>1. WroteAt(c) /\ SameWritten(conn[c], conn'[c])
      BY <1>1 DEF RequestInv
    <2> QED BY <2>1, WroteAtKept
  <1>4. \A u \in Workers : Woken(u)
    BY NobodyWoken
  <1>5. QueuedOnce'
    BY DEF RequestInv, QueuedOnce
  <1>6. \A req \in Requests : Awaits(req)' => Awaits(req)
    BY DEF Awaits
  <1>7. \A req \in Requests : conn'[c].rreq = req => conn[c].rreq = req
    BY <1>1
  <1>8. \A req \in Requests : Coming(conn'[c], req) =>
          Coming(conn[c], req) \/ (req \in unsent /\ req \notin unsent')
    BY <1>1
  <1>9. ReadOrder(conn'[c])
    BY <1>1
  <1> QED BY <1>1, <1>2, <1>3, <1>4, <1>5, <1>6, <1>7, <1>8, <1>9, ReadingRequests

LEMMA PeerSendsRequests ==
  ASSUME ConnInv, RequestInv, NEW c \in Fds, NEW req \in Requests, PeerSends(c, req)
  PROVE  RequestInv'
  <1>k. PICK k : k = conn[c]
    OBVIOUS
  <1>1. /\ ~k.broken /\ k.half = None /\ req \in unsent /\ unsent' = unsent \ {req}
        /\ UNCHANGED <<worker, jobq>>
    BY <1>k DEF PeerSends, serverVars
  <1>2. k \in Conns /\ ReadOrder(k)
    BY <1>k, ConnFacts DEF RequestInv
  <1>3. ~Coming(k, req)
    <2>1. <<"peer", None>> \in Places(req)
      BY <1>1, PlaceIs
    <2> QED BY <1>k, <2>1, Elsewhere
  <1>m. PICK m : m = [k EXCEPT !.inq = Append(k.inq, <<req, 1>>), !.half = req]
    OBVIOUS
  <1>n. PICK n : n = [k EXCEPT !.inq = k.inq \o <<<<req, 1>>, <<req, 2>>>>]
    OBVIOUS
  <1>4. /\ m \in Conns /\ ReadOrder(m)
        /\ n \in Conns /\ ReadOrder(n)
        /\ \A r \in Requests : Coming(m, r) \/ Coming(n, r) => Coming(k, r) \/ r = req
    BY <1>1, <1>2, <1>3, <1>m, <1>n, Arrives
  <1>5. SameWritten(k, m) /\ m.rreq = k.rreq /\ SameWritten(k, n) /\ n.rreq = k.rreq
    BY <1>2, <1>m, <1>n DEF SameWritten, SameBuffer, Conns
  <1>6. conn' = [conn EXCEPT ![c] = m] \/ conn' = [conn EXCEPT ![c] = n]
    <2>1. \/ conn' = [conn EXCEPT ![c].inq = @ \o <<<<req, 1>>, <<req, 2>>>>]
          \/ conn' = [conn EXCEPT ![c].inq = Append(@, <<req, 1>>), ![c].half = req]
      BY DEF PeerSends
    <2>2. conn \in [Fds -> Conns]
      BY TypeFacts
    <2>3. CASE conn' = [conn EXCEPT ![c].inq = @ \o <<<<req, 1>>, <<req, 2>>>>]
      BY <1>k, <1>n, <2>2, <2>3
    <2>4. CASE conn' = [conn EXCEPT ![c].inq = Append(@, <<req, 1>>), ![c].half = req]
      BY <1>k, <1>m, <2>2, <2>4
    <2> QED BY <2>1, <2>3, <2>4
  <1>7. \A r \in Requests : Coming(m, r) \/ Coming(n, r) =>
          Coming(k, r) \/ (r \in unsent /\ r \notin unsent')
    BY <1>1, <1>4
  <1>8. unsent' \subseteq unsent
    BY <1>1
  <1>9. CASE conn' = [conn EXCEPT ![c] = m]
    BY <1>k, <1>1, <1>4, <1>5, <1>7, <1>8, <1>9, InputRequests
  <1>a. CASE conn' = [conn EXCEPT ![c] = n]
    BY <1>k, <1>1, <1>4, <1>5, <1>7, <1>8, <1>a, InputRequests
  <1> QED BY <1>6, <1>9, <1>a

LEMMA PeerSendsRestRequests ==
  ASSUME ConnInv, RequestInv, NEW c \in Fds, PeerSendsRest(c)
  PROVE  RequestInv'
  <1>k. PICK k : k = conn[c]
    OBVIOUS
  <1>1. /\ ~k.broken /\ k.half # None /\ UNCHANGED <<worker, jobq, unsent>>
        /\ conn' = [conn EXCEPT ![c].inq = Append(@, <<conn[c].half, 2>>), ![c].half = None]
    BY <1>k DEF PeerSendsRest, serverVars, peerVars
  <1>2. k \in Conns /\ ReadOrder(k)
    BY <1>k, ConnFacts DEF RequestInv
  <1>a. PICK a : a = Append(k.inq, <<k.half, 2>>)
    OBVIOUS
  <1>3. a \in Chunks
    <2>1. k.inq \in Chunks /\ k.half \in Requests
      BY <1>1, <1>2 DEF Conns
    <2> QED BY <1>a, <2>1 DEF Chunks, PduSize
  <1>n. PICK n : n = [k EXCEPT !.inq = a]
    OBVIOUS
  <1>m. PICK m : m = [n EXCEPT !.half = None]
    OBVIOUS
  <1>4. n \in Conns
    BY <1>2, <1>3, <1>n, SetField
  <1>5. m \in Conns
    BY <1>4, <1>m, SetField
  <1>6. /\ m.inq = a /\ m.half = None /\ m.rreq = k.rreq /\ m.rlong = k.rlong
        /\ m.broken = k.broken /\ m.dead = k.dead /\ SameWritten(k, m)
    BY <1>2, <1>n, <1>m DEF Conns, SameWritten, SameBuffer
  <1>7. ReadOrder(m) /\ \A req \in Requests : Coming(m, req) => Coming(k, req)
    BY <1>1, <1>2, <1>5, <1>6, <1>a, RestFollows
  <1>8. conn' = [conn EXCEPT ![c] = m]
    <2>1. conn \in [Fds -> Conns]
      BY TypeFacts
    <2>2. conn' = [conn EXCEPT ![c] = [k EXCEPT !.inq = a, !.half = None]]
      BY <1>k, <1>1, <1>a, <2>1
    <2> QED BY <1>2, <1>n, <1>m, <2>2
  <1> QED BY <1>k, <1>1, <1>5, <1>6, <1>7, <1>8, InputRequests

\* A connection ends, and what is under way may be lost.
LEMMA BreakRequests ==
  ASSUME ConnInv, RequestInv, NEW c \in Fds, Break(c)
  PROVE  RequestInv'
  <1>k. PICK k : k = conn[c]
    OBVIOUS
  <1>r. PICK rest \in {<<>>, k.inq} :
          conn' = [conn EXCEPT ![c].broken = TRUE, ![c].inq = rest, ![c].half = None]
    BY <1>k DEF Break
  <1>1. UNCHANGED <<worker, jobq, unsent>>
    BY DEF Break, serverVars
  <1>2. k \in Conns /\ ReadOrder(k)
    BY <1>k, ConnFacts DEF RequestInv
  <1>3. rest \in Chunks
    <2>1. k.inq \in Chunks
      BY <1>2 DEF Conns
    <2>2. <<>> \in Chunks
      BY DEF Chunks
    <2> QED BY <2>1, <2>2
  <1>a. PICK a : a = [k EXCEPT !.broken = TRUE]
    OBVIOUS
  <1>b. PICK b : b = [a EXCEPT !.inq = rest]
    OBVIOUS
  <1>m. PICK m : m = [b EXCEPT !.half = None]
    OBVIOUS
  <1>4. a \in Conns
    BY <1>2, <1>a, SetField
  <1>5. b \in Conns
    BY <1>3, <1>4, <1>b, SetField
  <1>6. m \in Conns
    BY <1>5, <1>m, SetField
  <1>7. /\ m.inq = rest /\ m.broken /\ m.rreq = k.rreq /\ m.rlong = k.rlong
        /\ m.dead = k.dead /\ SameWritten(k, m)
    BY <1>2, <1>a, <1>b, <1>m DEF Conns, SameWritten, SameBuffer
  <1>8. ReadOrder(m) /\ \A req \in Requests : Coming(m, req) => Coming(k, req)
    <2>1. CASE rest = <<>>
      BY <1>2, <1>7, <2>1 DEF ReadOrder, Coming
    <2>2. CASE rest = k.inq
      BY <1>2, <1>7, <2>2 DEF ReadOrder, Coming
    <2> QED BY <2>1, <2>2
  <1>9. conn' = [conn EXCEPT ![c] = m]
    <2>1. conn \in [Fds -> Conns]
      BY TypeFacts
    <2>2. conn' = [conn EXCEPT ![c] = [k EXCEPT !.broken = TRUE, !.inq = rest, !.half = None]]
      BY <1>k, <1>r, <2>1
    <2> QED BY <1>2, <1>a, <1>b, <1>m, <2>2
  <1> QED BY <1>k, <1>1, <1>6, <1>7, <1>8, <1>9, InputRequests

LEMMA PeerRequests ==
  ASSUME ConnInv, ConnInv', RequestInv, PeerStep PROVE RequestInv'
  <1>1. ASSUME NEW c \in Fds, PeerReads(c) PROVE RequestInv'
    <2>1. UNCHANGED <<worker, jobq, unsent>> /\ conn' = [conn EXCEPT ![c].sock = @ - 1]
      BY <1>1 DEF PeerReads, serverVars, peerVars
    <2>2. ASSUME NEW d \in Fds PROVE SameStreams(conn[d], conn'[d])
      <3>1. conn[d] \in Conns /\ conn \in [Fds -> Conns]
        BY TypeFacts
      <3> QED BY <2>1, <3>1 DEF SameStreams, SameRead, SameWritten, SameBuffer, Conns
    <2> QED BY <2>1, <2>2, OutsideRequests
  <1> QED BY <1>1, PeerSendsRequests, PeerSendsRestRequests, BreakRequests DEF PeerStep
-----------------------------------------------------------------------------
(* read_cb                                                                 *)

\* What is left of q when the first piece was read: w.
TailOf(q, w) ==
    /\ Head(q) = <<Head(q)[1], Head(q)[2]>>
    /\ Head(q)[1] \in Requests /\ Head(q)[2] \in {1, 2}
    /\ \A i, j \in DOMAIN w :
          /\ j = i + 1 => w[j][2] # w[i][2]
          /\ w[i] = w[j] /\ w[i][2] = 1 => i = j
    /\ w # <<>> => /\ Head(w)[2] # Head(q)[2] /\ Head(w)[2] \in {1, 2}
                   /\ w[Len(w)] = q[Len(q)]
    /\ w = <<>> => q[Len(q)] = Head(q)
    /\ \A i \in DOMAIN w : \E j \in DOMAIN q : w[i] = q[j]
    /\ Head(q)[2] = 1 => \A i \in DOMAIN w : w[i] # Head(q)

LEMMA TailOrder ==
  ASSUME NEW k \in Conns, ReadOrder(k), k.inq # <<>>, NEW q, q = k.inq, NEW w, w = Tail(q)
  PROVE  TailOf(q, w)
  <1>1. q \in Seq(Requests \X (1..PduSize)) /\ q # <<>>
    BY DEF Conns, Chunks
  <1>2. /\ Len(w) = Len(q) - 1 /\ Len(q) \in Nat /\ Len(q) >= 1
        /\ DOMAIN w = 1..(Len(q) - 1) /\ DOMAIN q = 1..Len(q)
        /\ Head(q) = q[1] /\ w \in Seq(Requests \X (1..PduSize))
    BY <1>1
  <1>3. \A i \in 1..(Len(q) - 1) : w[i] = q[i + 1] /\ i + 1 \in 1..Len(q)
    BY <1>1, <1>2
  <1>4. \A i, j \in 1..Len(q) :
          /\ j = i + 1 => q[j][2] # q[i][2]
          /\ q[i] = q[j] /\ q[i][2] = 1 => i = j
    BY <1>2 DEF ReadOrder
  <1>5. \A i \in 1..Len(q) : q[i] = <<q[i][1], q[i][2]>> /\ q[i][1] \in Requests /\ q[i][2] \in {1, 2}
    BY <1>2, ChunkIs
  <1>6. ASSUME NEW i \in DOMAIN w, NEW j \in DOMAIN w
        PROVE  /\ j = i + 1 => w[j][2] # w[i][2]
               /\ w[i] = w[j] /\ w[i][2] = 1 => i = j
    <2>1. i \in 1..(Len(q) - 1) /\ j \in 1..(Len(q) - 1) /\ i \in Nat /\ j \in Nat
      BY <1>2
    <2>2. w[i] = q[i + 1] /\ w[j] = q[j + 1] /\ i + 1 \in 1..Len(q) /\ j + 1 \in 1..Len(q)
      BY <1>3, <2>1
    <2>3. j = i + 1 => q[j + 1][2] # q[i + 1][2]
      BY <1>4, <2>1, <2>2
    <2>4. q[i + 1] = q[j + 1] /\ q[i + 1][2] = 1 => i + 1 = j + 1
      BY <1>4, <2>2
    <2> QED BY <2>1, <2>2, <2>3, <2>4
  <1>7. ASSUME w # <<>>
        PROVE  /\ Head(w)[2] # Head(q)[2] /\ Head(w)[2] \in {1, 2}
               /\ w[Len(w)] = q[Len(q)]
    <2>1. Len(w) >= 1 /\ Head(w) = w[1]
      BY <1>2, <1>7
    <2>2. w[1] = q[2] /\ 1 \in 1..Len(q) /\ 2 \in 1..Len(q)
      BY <1>2, <1>3, <2>1
    <2>3. q[2][2] # q[1][2]
      BY <1>4, <2>2
    <2>4. w[Len(w)] = q[Len(w) + 1] /\ Len(w) + 1 = Len(q)
      BY <1>2, <1>3, <2>1
    <2> QED BY <1>2, <1>5, <2>1, <2>2, <2>3, <2>4
  <1>8. w = <<>> => q[Len(q)] = Head(q)
    <2>1. w = <<>> => Len(w) = 0
      OBVIOUS
    <2>2. Len(w) = 0 => Len(q) = 1
      BY <1>2
    <2> QED BY <1>2, <2>1, <2>2
  <1>9. \A i \in DOMAIN w : \E j \in DOMAIN q : w[i] = q[j]
    BY <1>2, <1>3
  <1>a. ASSUME Head(q)[2] = 1, NEW i \in DOMAIN w PROVE w[i] # Head(q)
    <2>1. i \in 1..(Len(q) - 1) /\ w[i] = q[i + 1] /\ i + 1 \in 1..Len(q) /\ 1 \in 1..Len(q)
      BY <1>2, <1>3
    <2>2. q[1] = q[i + 1] /\ q[1][2] = 1 => 1 = i + 1
      BY <1>4, <2>1
    <2>3. 1 # i + 1
      BY <2>1
    <2> QED BY <1>2, <1>a, <2>1, <2>2, <2>3
  <1>b. 1 \in 1..Len(q)
    BY <1>2
  <1>c. Head(q) = <<Head(q)[1], Head(q)[2]>> /\ Head(q)[1] \in Requests /\ Head(q)[2] \in {1, 2}
    BY <1>2, <1>5, <1>b
  <1> QED BY <1>6, <1>7, <1>8, <1>9, <1>a, <1>c DEF TailOf

\* The first read of readpdu takes the length of a request.
LEMMA LengthRead ==
  ASSUME NEW k \in Conns, ReadOrder(k), k.rreq = None, k.inq # <<>>, NEW m, m = ReadLength(k)
  PROVE  /\ m \in Conns /\ ReadOrder(m) /\ SameWritten(k, m)
         /\ m.rreq \in Requests /\ m.rlong = 1 /\ m.broken = k.broken
         /\ Coming(k, m.rreq) /\ ~Coming(m, m.rreq)
         /\ \A req \in Requests : Coming(m, req) => Coming(k, req)
  <1>q. PICK q, w : q = k.inq /\ w = Tail(q)
    OBVIOUS
  <1>0. TailOf(q, w)
    BY <1>q, TailOrder
  <1>1. /\ Head(q) = <<Head(q)[1], Head(q)[2]>>
        /\ Head(q)[1] \in Requests /\ Head(q)[2] \in {1, 2}
        /\ \A i, j \in DOMAIN w :
              /\ j = i + 1 => w[j][2] # w[i][2]
              /\ w[i] = w[j] /\ w[i][2] = 1 => i = j
        /\ w # <<>> => /\ Head(w)[2] # Head(q)[2] /\ Head(w)[2] \in {1, 2}
                       /\ w[Len(w)] = q[Len(q)]
        /\ w = <<>> => q[Len(q)] = Head(q)
        /\ \A i \in DOMAIN w : \E j \in DOMAIN q : w[i] = q[j]
        /\ Head(q)[2] = 1 => \A i \in DOMAIN w : w[i] # Head(q)
    BY <1>0 DEF TailOf
  <1>2. m \in Conns
    BY ReadPartIs
  <1>r. PICK r : r = Head(q)[1]
    OBVIOUS
  <1>3. /\ m.rreq = r /\ m.rlong = 1 /\ m.inq = w
        /\ m.half = k.half /\ m.broken = k.broken /\ m.dead = k.dead /\ SameWritten(k, m)
    BY <1>q, <1>r DEF ReadLength, Conns, SameWritten, SameBuffer
  <1>4. k.rlong = 0 /\ Head(q)[2] = 1
    <2>1. k.rlong = 0 /\ (Head(q)[2] = 2 <=> k.rlong = 1)
      BY <1>q DEF ReadOrder
    <2> QED BY <1>1, <2>1
  <1>5. r \in Requests /\ Head(q) = <<r, 1>>
    BY <1>1, <1>4, <1>r
  <1>6. Coming(k, r)
    <2>1. 1 \in DOMAIN q /\ q[1] = Head(q)
      <3>1. q \in Seq(Requests \X (1..PduSize)) /\ q # <<>>
        BY <1>q DEF Conns, Chunks
      <3> QED BY <3>1
    <2> QED BY <1>q, <1>5, <2>1 DEF Coming
  <1>7. ~Coming(m, r)
    <2>1. \A i \in DOMAIN w : w[i] # <<r, 1>>
      BY <1>1, <1>4, <1>5
    <2> QED BY <1>3, <2>1 DEF Coming
  <1>8. \A req \in Requests : Coming(m, req) => Coming(k, req)
    BY <1>q, <1>1, <1>3 DEF Coming
  <1>9. ReadOrder(m)
    <2>1. m.rreq = None <=> m.rlong = 0
      BY <1>3, <1>5, ConnectionAssumption
    <2>2. w # <<>> => (Head(w)[2] = 2 <=> m.rlong = 1)
      BY <1>1, <1>3, <1>4
    <2>3. ~m.broken => (m.half # None <=> IF w = <<>> THEN m.rlong = 1 ELSE w[Len(w)][2] = 1)
      <3>1. ~k.broken => (k.half # None <=> q[Len(q)][2] = 1)
        BY <1>q DEF ReadOrder
      <3>2. CASE w = <<>>
        BY <1>1, <1>3, <1>4, <3>1, <3>2
      <3>3. CASE w # <<>>
        BY <1>1, <1>3, <3>1, <3>3
      <3> QED BY <3>2, <3>3
    <2>4. m.dead => m.broken
      BY <1>3 DEF ReadOrder
    <2> QED BY <1>1, <1>3, <2>1, <2>2, <2>3, <2>4 DEF ReadOrder
  <1> QED BY <1>2, <1>3, <1>5, <1>6, <1>7, <1>8, <1>9

\* The second read takes the rest of it.
LEMMA RestRead ==
  ASSUME NEW k \in Conns, ReadOrder(k), k.rlong = 1, k.inq # <<>>, NEW m, m = ReadRest(k)
  PROVE  /\ m \in Conns /\ ReadOrder(m) /\ SameWritten(k, m)
         /\ m.rreq = k.rreq /\ m.rlong = PduSize /\ m.broken = k.broken
         /\ \A req \in Requests : Coming(m, req) => Coming(k, req)
  <1>q. PICK q, w : q = k.inq /\ w = Tail(q)
    OBVIOUS
  <1>0. TailOf(q, w)
    BY <1>q, TailOrder
  <1>1. /\ Head(q) = <<Head(q)[1], Head(q)[2]>>
        /\ Head(q)[1] \in Requests /\ Head(q)[2] \in {1, 2}
        /\ \A i, j \in DOMAIN w :
              /\ j = i + 1 => w[j][2] # w[i][2]
              /\ w[i] = w[j] /\ w[i][2] = 1 => i = j
        /\ w # <<>> => /\ Head(w)[2] # Head(q)[2] /\ Head(w)[2] \in {1, 2}
                       /\ w[Len(w)] = q[Len(q)]
        /\ w = <<>> => q[Len(q)] = Head(q)
        /\ \A i \in DOMAIN w : \E j \in DOMAIN q : w[i] = q[j]
        /\ Head(q)[2] = 1 => \A i \in DOMAIN w : w[i] # Head(q)
    BY <1>0 DEF TailOf
  <1>2. m \in Conns
    BY ReadPartIs
  <1>3. /\ m.rreq = k.rreq /\ m.rlong = PduSize /\ m.inq = w
        /\ m.half = k.half /\ m.broken = k.broken /\ m.dead = k.dead /\ SameWritten(k, m)
    BY <1>q DEF ReadRest, Conns, SameWritten, SameBuffer
  <1>4. k.rreq # None /\ Head(q)[2] = 2
    <2>1. k.rreq # None /\ (Head(q)[2] = 2 <=> k.rlong = 1)
      BY <1>q DEF ReadOrder
    <2> QED BY <2>1
  <1>8. \A req \in Requests : Coming(m, req) => Coming(k, req)
    BY <1>q, <1>1, <1>3 DEF Coming
  <1>9. ReadOrder(m)
    <2>1. m.rreq = None <=> m.rlong = 0
      BY <1>3, <1>4 DEF PduSize
    <2>2. w # <<>> => (Head(w)[2] = 2 <=> m.rlong = 1)
      BY <1>1, <1>3, <1>4 DEF PduSize
    <2>3. ~m.broken => (m.half # None <=> IF w = <<>> THEN m.rlong = 1 ELSE w[Len(w)][2] = 1)
      <3>1. ~k.broken => (k.half # None <=> q[Len(q)][2] = 1)
        BY <1>q DEF ReadOrder
      <3>2. CASE w = <<>>
        BY <1>1, <1>3, <1>4, <3>1, <3>2 DEF PduSize
      <3>3. CASE w # <<>>
        BY <1>1, <1>3, <3>1, <3>3
      <3> QED BY <3>2, <3>3
    <2>4. m.dead => m.broken
      BY <1>3 DEF ReadOrder
    <2> QED BY <1>1, <1>3, <2>1, <2>2, <2>3, <2>4 DEF ReadOrder
  <1> QED BY <1>2, <1>3, <1>8, <1>9

\* A PDU handed on, or given up at the end of the stream.
LEMMA PduDropped ==
  ASSUME NEW k \in Conns, ReadOrder(k), Whole(k) \/ (k.inq = <<>> /\ k.broken),
         NEW m, m = DropPdu(k)
  PROVE  /\ m \in Conns /\ ReadOrder(m) /\ SameWritten(k, m) /\ m.rreq = None
         /\ m.inq = k.inq /\ m.broken = k.broken
  <1>1. m \in Conns
    BY ReadPartIs
  <1>2. /\ m.rreq = None /\ m.rlong = 0 /\ m.inq = k.inq
        /\ m.half = k.half /\ m.broken = k.broken /\ m.dead = k.dead /\ SameWritten(k, m)
    BY DEF DropPdu, Conns, SameWritten, SameBuffer
  <1>3. ReadOrder(m)
    <2>1. CASE Whole(k)
      BY <1>2, <2>1 DEF ReadOrder, Whole, PduSize
    <2>2. CASE k.inq = <<>> /\ k.broken
      BY <1>2, <2>2 DEF ReadOrder
    <2> QED BY <2>1, <2>2
  <1> QED BY <1>1, <1>2, <1>3

\* How far the read of k is, after which it is m: nothing was written, and the
\* request in rpdu_ is the one that was there or comes from what was sent.
Reads(k, m) ==
    /\ m \in Conns /\ ReadOrder(m) /\ SameWritten(k, m) /\ m.broken = k.broken
    /\ \A req \in Requests : Coming(m, req) => Coming(k, req)
    /\ \A req \in Requests : m.rreq = req =>
          k.rreq = req \/ (Coming(k, req) /\ ~Coming(m, req))

LEMMA ReadOnOrder ==
  ASSUME NEW k \in Conns, ReadOrder(k), k.rlong = 1, NEW error \in BOOLEAN,
         NEW res, res = ReadOn(k, error)
  PROVE  /\ Reads(k, res.k) /\ (~res.ok => k.broken)
         /\ res.k.rreq = k.rreq \/ res.k.rreq = None
  <1>1. CASE k.inq # <<>>
    <2>m. PICK m : m = ReadRest(k)
      OBVIOUS
    <2>1. res = [k |-> m, ok |-> TRUE, again |-> errnoAgain]
      BY <1>1, <2>m DEF ReadOn
    <2>2. /\ m \in Conns /\ ReadOrder(m) /\ SameWritten(k, m)
          /\ m.rreq = k.rreq /\ m.broken = k.broken
          /\ \A req \in Requests : Coming(m, req) => Coming(k, req)
      BY <1>1, <2>m, RestRead
    <2>3. Reads(k, m)
      BY <2>2 DEF Reads
    <2> QED BY <2>1, <2>2, <2>3
  <1>2. Reads(k, k)
    BY DEF Reads, SameWritten, SameBuffer
  <1>3. CASE k.inq = <<>> /\ ~k.broken
    <2>1. res = [k |-> k, ok |-> TRUE, again |-> TRUE]
      BY <1>3 DEF ReadOn
    <2> QED BY <1>2, <2>1
  <1>4. CASE k.inq = <<>> /\ k.broken
    <2>a. PICK again : again = (errnoAgain /\ ~error)
      OBVIOUS
    <2>m. PICK m : m = IF again THEN k ELSE DropPdu(k)
      OBVIOUS
    <2>1. res = [k |-> m, ok |-> again, again |-> again]
      BY <1>4, <2>a, <2>m DEF ReadOn
    <2>2. Reads(k, m) /\ (m.rreq = k.rreq \/ m.rreq = None)
      <3>1. CASE again
        BY <1>2, <2>m, <3>1
      <3>2. CASE ~again
        <4>1. m = DropPdu(k)
          BY <2>m, <3>2
        <4>2. /\ m \in Conns /\ ReadOrder(m) /\ SameWritten(k, m) /\ m.rreq = None
              /\ m.inq = k.inq /\ m.broken = k.broken
          BY <1>4, <4>1, PduDropped
        <4> QED BY <4>2, ConnectionAssumption DEF Reads, Coming
      <3> QED BY <3>1, <3>2
    <2> QED BY <1>4, <2>1, <2>2
  <1> QED BY <1>1, <1>3, <1>4

\* readpdu.
LEMMA ReadPduOrder ==
  ASSUME NEW k \in Conns, ReadOrder(k), k.inq # <<>> \/ k.broken, NEW error \in BOOLEAN,
         NEW res, res = ReadPdu(k, error)
  PROVE  Reads(k, res.k) /\ (~res.ok => k.broken)
  <1>0. Reads(k, k) /\ k.rlong \in 0..2 /\ (k.rreq = None <=> k.rlong = 0)
    BY DEF Reads, SameWritten, SameBuffer, ReadOrder, Conns, PduSize
  <1>1. CASE Whole(k)
    <2>1. res = [k |-> k, ok |-> TRUE, again |-> errnoAgain]
      BY <1>1 DEF ReadPdu, Whole
    <2> QED BY <1>0, <2>1
  <1>2. CASE ~Whole(k) /\ k.rreq # None
    <2>1. res = ReadOn(k, error)
      BY <1>2 DEF ReadPdu
    <2>2. k.rlong = 1
      BY <1>0, <1>2 DEF Whole, PduSize
    <2> QED BY <2>1, <2>2, ReadOnOrder
  <1>3. CASE k.rreq = None /\ k.inq # <<>>
    <2>m. PICK m : m = ReadLength(k)
      OBVIOUS
    <2>1. res = ReadOn(m, error)
      BY <1>3, <2>m DEF ReadPdu, Whole
    <2>2. /\ m \in Conns /\ ReadOrder(m) /\ SameWritten(k, m)
          /\ m.rreq \in Requests /\ m.rlong = 1 /\ m.broken = k.broken
          /\ Coming(k, m.rreq) /\ ~Coming(m, m.rreq)
          /\ \A req \in Requests : Coming(m, req) => Coming(k, req)
      BY <1>3, <2>m, LengthRead
    <2>n. PICK n : n = res.k
      OBVIOUS
    <2>3. /\ Reads(m, n) /\ (~res.ok => m.broken)
          /\ n.rreq = m.rreq \/ n.rreq = None
      BY <2>1, <2>2, <2>n, ReadOnOrder
    <2>4. Reads(k, n)
      BY <2>2, <2>3, ConnectionAssumption DEF Reads, SameWritten, SameBuffer
    <2> QED BY <2>2, <2>3, <2>4, <2>n
  <1>4. CASE k.rreq = None /\ k.inq = <<>>
    <2>a. PICK again : again = (errnoAgain /\ ~error)
      OBVIOUS
    <2>1. res = [k |-> k, ok |-> FALSE, again |-> again]
      BY <1>4, <2>a DEF ReadPdu, Whole
    <2> QED BY <1>0, <1>4, <2>1
  <1> QED BY <1>1, <1>2, <1>3, <1>4

\* A job joins the queue.
LEMMA QueueGrows ==
  ASSUME jobq \in Seq(Jobs), QueuedOnce, NEW j \in Jobs, jobq' = Append(jobq, j), ~Awaits(j.req)
  PROVE  /\ QueuedOnce'
         /\ \A req \in Requests : Awaits(req)' => Awaits(req) \/ req = j.req
  <1>1. /\ DOMAIN jobq = 1..Len(jobq) /\ DOMAIN jobq' = 1..(Len(jobq) + 1) /\ Len(jobq) \in Nat
        /\ \A i \in 1..Len(jobq) : jobq'[i] = jobq[i]
        /\ jobq'[Len(jobq) + 1] = j
    OBVIOUS
  <1>2. \A i \in 1..Len(jobq) : jobq[i].req # j.req
    BY <1>1 DEF Awaits
  <1>3. ASSUME NEW a \in DOMAIN jobq', NEW b \in DOMAIN jobq', jobq'[a].req = jobq'[b].req
        PROVE  a = b
    <2>1. a \in 1..Len(jobq) \/ a = Len(jobq) + 1
      BY <1>1
    <2>2. b \in 1..Len(jobq) \/ b = Len(jobq) + 1
      BY <1>1
    <2>3. CASE a \in 1..Len(jobq) /\ b \in 1..Len(jobq)
      BY <1>1, <1>3, <2>3 DEF QueuedOnce
    <2>4. CASE a = Len(jobq) + 1
      BY <1>1, <1>2, <1>3, <2>2, <2>4
    <2>5. CASE b = Len(jobq) + 1
      BY <1>1, <1>2, <1>3, <2>1, <2>5
    <2> QED BY <2>1, <2>2, <2>3, <2>4, <2>5
  <1>4. QueuedOnce'
    BY <1>3 DEF QueuedOnce
  <1>5. ASSUME NEW req \in Requests, Awaits(req)' PROVE Awaits(req) \/ req = j.req
    <2>1. PICK i \in DOMAIN jobq' : jobq'[i].req = req
      BY <1>5 DEF Awaits
    <2>2. i \in 1..Len(jobq) \/ i = Len(jobq) + 1
      BY <1>1
    <2> QED BY <1>1, <2>1, <2>2 DEF Awaits
  <1> QED BY <1>4, <1>5

\* What the poll thread reads on c, with nothing, or a job, coming of it.
LEMMA ReadRequests ==
  ASSUME ConnInv, RequestInv, NEW c \in Fds, NEW d \in Conns, Reads(conn[c], d), ReadOrder(d),
         conn' = [conn EXCEPT ![c] = d],
         \A u \in Workers : Woken(u), UNCHANGED <<jobq, unsent>>
  PROVE  RequestInv'
  <1>1. conn'[c] = d /\ \A e \in Fds : e # c => conn'[e] = conn[e]
    BY TypeFacts, SetConn
  <1>2. WroteAt(c)' /\ conn'[c].wire = conn[c].wire
    <2>1. WroteAt(c) /\ SameWritten(conn[c], conn'[c])
      BY <1>1 DEF Reads, RequestInv
    <2>2. \A u \in Workers : worker'[u].req = worker[u].req
      BY DEF Woken
    <2> QED BY <2>1, <2>2, WroteAtKept DEF SameWritten
  <1>3. QueuedOnce'
    BY DEF RequestInv, QueuedOnce
  <1>4. \A req \in Requests : Awaits(req)' => Awaits(req)
    BY DEF Awaits
  <1>5. /\ \A req \in Requests : Coming(conn'[c], req) => Coming(conn[c], req)
        /\ \A req \in Requests : conn'[c].rreq = req =>
             conn[c].rreq = req \/ (Coming(conn[c], req) /\ ~Coming(conn'[c], req))
    BY <1>1 DEF Reads
  <1>6. ReadOrder(conn'[c])
    BY <1>1
  <1> QED BY <1>1, <1>2, <1>3, <1>4, <1>5, <1>6, ReadingRequests

LEMMA DyingRequests ==
  ASSUME ConnInv, RequestInv, NEW c \in Fds, NEW m \in Conns, Reads(conn[c], m), m.broken,
         conn' = [conn EXCEPT ![c] = [m EXCEPT !.dead = TRUE]],
         \A u \in Workers : Woken(u), UNCHANGED <<jobq, unsent>>
  PROVE  RequestInv'
  <1>d. PICK d : d = [m EXCEPT !.dead = TRUE]
    OBVIOUS
  <1>1. d \in Conns
    BY <1>d, SetField
  <1>2. /\ d.dead /\ d.wire = m.wire /\ d.wbuf = m.wbuf /\ d.wlong = m.wlong
        /\ d.inq = m.inq /\ d.rreq = m.rreq /\ d.rlong = m.rlong /\ d.half = m.half
        /\ d.broken = m.broken
    BY <1>d DEF Conns
  <1>3. conn'[c] = d /\ \A e \in Fds : e # c => conn'[e] = conn[e]
    BY <1>1, <1>d, TypeFacts, SetConn
  <1>4. SameWritten(conn[c], m)
    BY DEF Reads
  <1>5. WroteAt(c)'
    <2>1. WroteAt(c)
      BY DEF RequestInv
    <2>2. conn[c].wbuf # None => worker'[conn[c].wbuf].req = worker[conn[c].wbuf].req
      BY ConnFacts DEF Woken
    <2>3. /\ conn'[c].wire = conn[c].wire /\ conn'[c].wbuf = conn[c].wbuf
          /\ conn'[c].wlong = conn[c].wlong /\ conn'[c].dead
      BY <1>2, <1>3, <1>4 DEF SameWritten, SameBuffer
    <2> QED BY <2>1, <2>2, <2>3 DEF WroteAt
  <1>6. ReadOrder(conn'[c])
    <2>1. ReadOrder(m)
      BY DEF Reads
    <2>2. ReadOrder(d)
      BY <1>2, <2>1 DEF ReadOrder
    <2> QED BY <1>3, <2>2
  <1>7. conn'[c].wire = conn[c].wire
    BY <1>2, <1>3, <1>4 DEF SameWritten
  <1>8. QueuedOnce'
    BY DEF RequestInv, QueuedOnce
  <1>9. \A req \in Requests : Awaits(req)' => Awaits(req)
    BY DEF Awaits
  <1>a. /\ \A req \in Requests : Coming(conn'[c], req) => Coming(conn[c], req)
        /\ \A req \in Requests : conn'[c].rreq = req =>
             conn[c].rreq = req \/ (Coming(conn[c], req) /\ ~Coming(conn'[c], req))
    BY <1>2, <1>3 DEF Reads, Coming
  <1> QED BY <1>3, <1>5, <1>6, <1>7, <1>8, <1>9, <1>a, ReadingRequests

LEMMA GotPduRequests ==
  ASSUME ConnInv, RequestInv, NEW c \in Fds, NEW m \in Conns, Reads(conn[c], m), Whole(m),
         GotPdu(m, c), unsent' = unsent
  PROVE  RequestInv'
  <1>k. PICK k : k = conn[c]
    OBVIOUS
  <1>r. PICK r : r = m.rreq
    OBVIOUS
  <1>p. PICK p : p = DropPdu(m)
    OBVIOUS
  <1>n. PICK n : n = p.refno + 1
    OBVIOUS
  <1>d. PICK d : d = [p EXCEPT !.refno = n]
    OBVIOUS
  <1>j. PICK j : j = [c |-> c, req |-> r]
    OBVIOUS
  <1>1. conn' = [conn EXCEPT ![c] = d] /\ Enq(j)
    BY <1>p, <1>n, <1>d, <1>j, <1>r DEF GotPdu
  <1>2. /\ p \in Conns /\ ReadOrder(p) /\ SameWritten(m, p) /\ p.rreq = None /\ p.inq = m.inq
    BY <1>p, PduDropped DEF Reads
  <1>3. d \in Conns /\ SameStreams(p, d)
    <2>1. n \in Nat
      BY <1>2, <1>n DEF Conns
    <2> QED BY <1>2, <1>d, <2>1, RefnoSet, RefnoStreams
  <1>4. conn'[c] = d /\ \A e \in Fds : e # c => conn'[e] = conn[e]
    BY <1>1, <1>3, TypeFacts, SetConn
  <1>5. r \in Requests /\ j \in Jobs /\ j.req = r
    BY <1>j, <1>r DEF Whole, Conns, Jobs
  <1>6. jobq' = Append(jobq, j) /\ \A u \in Workers : Woken(u)
    BY <1>1, EnqueuedAreWoken DEF Enq
  <1>7. k.rreq = r \/ (Coming(k, r) /\ ~Coming(m, r))
    BY <1>k, <1>r, <1>5 DEF Reads
  <1>8. ~Awaits(r) /\ ~Coming(m, r)
    <2>1. CASE k.rreq = r
      <3>1. <<"rpdu", c>> \in Places(r)
        BY <1>k, <2>1, PlaceIs
      <3>2. ~Awaits(r) /\ ~Coming(k, r)
        BY <1>k, <1>5, <3>1, Elsewhere
      <3> QED BY <1>k, <1>5, <3>2 DEF Reads
    <2>2. CASE Coming(k, r) /\ ~Coming(m, r)
      <3>1. <<"inq", c>> \in Places(r)
        BY <1>k, <2>2, PlaceIs
      <3> QED BY <1>5, <2>2, <3>1, Elsewhere
    <2> QED BY <1>7, <2>1, <2>2
  <1>9. /\ QueuedOnce'
        /\ \A req \in Requests : Awaits(req)' => Awaits(req) \/ req = r
    <2>1. jobq \in Seq(Jobs) /\ QueuedOnce
      BY TypeFacts DEF RequestInv
    <2> QED BY <1>5, <1>6, <1>8, <2>1, QueueGrows
  <1>a. d.inq = m.inq /\ d.rreq = None /\ d.wire = k.wire /\ SameWritten(k, d)
    <2>1. SameWritten(k, m)
      BY <1>k DEF Reads
    <2> QED BY <1>2, <1>3, <2>1 DEF SameStreams, SameRead, SameWritten, SameBuffer
  <1>b. ReadOrder(conn'[c])
    <2>1. d.inq = p.inq /\ d.rreq = p.rreq /\ d.rlong = p.rlong /\ d.half = p.half
            /\ d.broken = p.broken /\ d.dead = p.dead
      BY <1>3 DEF SameStreams, SameRead, SameWritten, SameBuffer
    <2> QED BY <1>2, <1>4, <2>1 DEF ReadOrder
  <1>c. WroteAt(c)' /\ conn'[c].wire = conn[c].wire
    <2>1. WroteAt(c) /\ SameWritten(conn[c], conn'[c])
      BY <1>k, <1>4, <1>a DEF RequestInv
    <2>2. \A u \in Workers : worker'[u].req = worker[u].req
      BY <1>6 DEF Woken
    <2> QED BY <2>1, <2>2, WroteAtKept DEF SameWritten
  <1>d1. \A req \in Requests : Coming(conn'[c], req) => Coming(conn[c], req)
    BY <1>4, <1>a DEF Reads, Coming
  <1>e. \A req \in Requests : conn'[c].rreq # req
    BY <1>4, <1>a, ConnectionAssumption
  <1>f. ~Coming(conn'[c], r)
    BY <1>4, <1>8, <1>a DEF Coming
  <1>g. \A req \in Requests : Awaits(req)' =>
          \/ Awaits(req)
          \/ /\ conn[c].rreq = req \/ Coming(conn[c], req)
             /\ conn'[c].rreq # req /\ ~Coming(conn'[c], req)
    BY <1>k, <1>7, <1>9, <1>e, <1>f
  <1> QED BY <1>4, <1>6, <1>9, <1>b, <1>c, <1>d1, <1>e, <1>g, ReadingRequests

LEMMA ServeReadableRequests ==
  ASSUME ConnInv, ConnInv', RequestInv, ServeReadable PROVE RequestInv'
  <1>c. PICK c : c = Min(poll.r)
    OBVIOUS
  <1>1. /\ poll.pc = "serve" /\ poll.r # {}
        /\ IF c \in callbacks
           THEN \E error \in {FALSE, conn[c].broken} : ReadCb(c, error)
           ELSE UNCHANGED <<conn, pollVars, errnoAgain, jobq, worker, aborted>>
        /\ unsent' = unsent
    BY <1>c DEF ServeReadable, peerVars
  <1>2. c \in poll.r /\ c \in Fds
    <2>1. poll.r \in SUBSET Nat
      BY TypeFacts, ConnectionAssumption
    <2> QED BY <1>c, <1>1, <2>1, Smallest, TypeFacts
  <1>k. PICK k : k = conn[c]
    OBVIOUS
  <1>4. k \in Conns /\ ReadOrder(k)
    BY <1>2, <1>k, ConnFacts DEF RequestInv
  <1>5. CASE UNCHANGED <<conn, jobq, worker>>
    <2>1. \A d \in Fds : SameStreams(conn[d], conn'[d])
      BY <1>5 DEF SameStreams, SameRead, SameWritten, SameBuffer
    <2> QED BY <1>1, <1>5, <2>1, OutsideRequests
  <1>6. CASE c \in callbacks /\ ~k.dead
    <2>1. PICK error \in BOOLEAN : ReadCb(c, error)
      <3>1. k.broken \in BOOLEAN
        BY <1>4 DEF Conns
      <3> QED BY <1>1, <1>6, <1>k, <3>1
    <2>r. PICK res : res = ReadPdu(k, error)
      OBVIOUS
    <2>m. PICK m : m = res.k
      OBVIOUS
    <2>2. Readable(c) /\ (k.inq # <<>> \/ k.broken)
      BY <1>1, <1>2, <1>6, <1>k DEF ConnInv, RoundInv, Readable
    <2>3. /\ CASE ~res.ok ->
                    /\ conn' = [conn EXCEPT ![c] = [m EXCEPT !.dead = TRUE]]
                    /\ worker' = SignalComplete(worker, c)
                    /\ UNCHANGED jobq
               [] res.ok /\ Whole(m) /\ Len(jobq) < QueueMax -> GotPdu(m, c)
               [] OTHER ->
                    /\ conn' = [conn EXCEPT ![c] = m]
                    /\ UNCHANGED <<jobq, worker>>
      <3>1. ~conn[c].dead /\ (conn[c].inq # <<>> \/ conn[c].broken)
        BY <1>6, <1>k, <2>2
      <3>2. res = ReadPdu(conn[c], error)
        BY <1>k, <2>r
      <3> QED BY <2>1, <2>m, <3>1, <3>2 DEF ReadCb
    <2>4. Reads(k, m) /\ (~res.ok => k.broken)
      BY <1>4, <2>2, <2>r, <2>m, ReadPduOrder
    <2>5. m \in Conns /\ ReadOrder(m) /\ m.broken = k.broken
      BY <2>4 DEF Reads
    <2>o. res.ok \in BOOLEAN
      <3>1. errnoAgain \in BOOLEAN
        BY TypeFacts DEF PollType
      <3> QED BY <1>4, <2>r, <3>1, ReadPduIs
    <2>6. CASE ~res.ok
      <3>1. /\ conn' = [conn EXCEPT ![c] = [m EXCEPT !.dead = TRUE]]
            /\ worker' = SignalComplete(worker, c) /\ jobq' = jobq
        BY <2>3, <2>6
      <3> QED BY <1>1, <1>2, <1>k, <2>4, <2>5, <2>6, <3>1, SignalledAreWoken, DyingRequests
    <2>7. CASE res.ok /\ Whole(m) /\ Len(jobq) < QueueMax
      <3>1. GotPdu(m, c)
        BY <2>3, <2>7
      <3> QED BY <1>1, <1>2, <1>k, <2>4, <2>5, <2>7, <3>1, GotPduRequests
    <2>8. CASE res.ok /\ ~(Whole(m) /\ Len(jobq) < QueueMax)
      <3>1. conn' = [conn EXCEPT ![c] = m] /\ UNCHANGED <<jobq, worker>>
        BY <2>3, <2>8
      <3> QED BY <1>1, <1>2, <1>k, <2>4, <2>5, <3>1, NobodyWoken, ReadRequests
    <2> QED BY <2>o, <2>6, <2>7, <2>8
  <1>7. CASE c \in callbacks /\ k.dead
    <2>1. \E error : ReadCb(c, error)
      BY <1>1, <1>7
    <2> QED BY <1>5, <1>7, <1>k, <2>1 DEF ReadCb
  <1> QED BY <1>1, <1>5, <1>6, <1>7

\* fifo::deq: a request goes from the queue to a thread.
LEMMA QueueShrinks ==
  ASSUME jobq \in Seq(Jobs), jobq # <<>>, QueuedOnce, jobq' = Tail(jobq),
         NEW CONSTANT r, r = Head(jobq).req
  PROVE  /\ QueuedOnce' /\ r \in Requests /\ Awaits(r) /\ ~Awaits(r)'
         /\ \A req \in Requests : Awaits(req)' => Awaits(req)
  <1>1. /\ DOMAIN jobq = 1..Len(jobq) /\ DOMAIN jobq' = 1..(Len(jobq) - 1)
        /\ Len(jobq) \in Nat /\ Len(jobq) >= 1 /\ Head(jobq) = jobq[1]
    OBVIOUS
  <1>2. \A i \in 1..(Len(jobq) - 1) : jobq'[i] = jobq[i + 1] /\ i + 1 \in 1..Len(jobq)
    BY <1>1
  <1>3. 1 \in 1..Len(jobq)
    BY <1>1
  <1>4. QueuedOnce'
    <2> SUFFICES ASSUME NEW i \in DOMAIN jobq', NEW j \in DOMAIN jobq', jobq'[i].req = jobq'[j].req
                 PROVE  i = j
      BY DEF QueuedOnce
    <2>1. i + 1 \in DOMAIN jobq /\ j + 1 \in DOMAIN jobq /\ jobq[i + 1].req = jobq[j + 1].req
      BY <1>1, <1>2
    <2>2. i + 1 = j + 1
      BY <2>1 DEF QueuedOnce
    <2> QED BY <1>1, <2>2
  <1>5. r \in Requests
    <2>1. jobq[1] \in Jobs
      BY <1>1, <1>3
    <2> QED BY <1>1, <2>1 DEF Jobs
  <1>6. Awaits(r)
    BY <1>1, <1>3 DEF Awaits
  <1>7. ~Awaits(r)'
    <2> SUFFICES ASSUME NEW i \in DOMAIN jobq', jobq'[i].req = r PROVE FALSE
      BY DEF Awaits
    <2>1. i + 1 \in DOMAIN jobq /\ 1 \in DOMAIN jobq /\ jobq[i + 1].req = jobq[1].req
      BY <1>1, <1>2, <1>3
    <2>2. i + 1 = 1
      BY <2>1 DEF QueuedOnce
    <2> QED BY <1>1, <2>2
  <1>8. \A req \in Requests : Awaits(req)' => Awaits(req)
    BY <1>1, <1>2 DEF Awaits
  <1> QED BY <1>4, <1>5, <1>6, <1>7, <1>8

LEMMA TakeJobRequests ==
  ASSUME ConnInv, ConnInv', RequestInv, NEW t \in Workers, TakeJob(t) PROVE RequestInv'
  <1>1. worker[t].pc = "take" /\ UNCHANGED <<conn, unsent>>
    BY DEF TakeJob, peerVars
  <1>2. jobq \in Seq(Jobs) /\ worker \in [Workers -> Threads] /\ worker[t].req = None
    BY <1>1, TypeFacts, ThreadFacts
  <1>3. ~worker[t].ok
    BY <1>1, OkIsSent
  <1>4. \A d \in Fds : SameStreams(conn[d], conn'[d])
    BY <1>1 DEF SameStreams, SameRead, SameWritten, SameBuffer
  <1>5. CASE jobq = <<>>
    <2>1. Goto(t, "wait_job") /\ jobq' = jobq
      BY <1>5 DEF TakeJob
    <2>2. /\ worker'[t].req = worker[t].req /\ ~worker'[t].ok
          /\ \A u \in Workers : u # t => worker'[u] = worker[u]
      BY <1>2, <1>3, <2>1 DEF Goto, Threads
    <2>3. worker[t].pc \notin Sending /\ worker[t].pc # "sent"
      BY <1>1 DEF Sending, Removal
    <2> QED BY <1>1, <1>4, <2>1, <2>2, <2>3, ThreadRequests
  <1>6. CASE jobq # <<>>
    <2>r. PICK r : r = Head(jobq).req
      OBVIOUS
    <2>1. /\ worker' = [worker EXCEPT ![t] =
               [Asleep EXCEPT !.pc = "dispatch", !.c = Head(jobq).c, !.req = r]]
          /\ jobq' = Tail(jobq)
      BY <1>6, <2>r DEF TakeJob
    <2>2. /\ worker'[t].req = r /\ ~worker'[t].ok
          /\ \A u \in Workers : u # t => worker'[u] = worker[u]
      BY <1>2, <2>1 DEF Asleep
    <2>3. /\ QueuedOnce' /\ r \in Requests /\ Awaits(r) /\ ~Awaits(r)'
          /\ \A req \in Requests : Awaits(req)' => Awaits(req)
      BY <1>2, <1>6, <2>r, <2>1, QueueShrinks DEF RequestInv
    <2>4. ASSUME NEW req \in Requests
          PROVE  \/ Places(req)' \subseteq Places(req)
                 \/ \E p \in Places(req) \ ThreadPlaces : \E q : Places(req)' \subseteq {q}
      <3>1. \A d \in Fds : /\ Coming(conn'[d], req) => Coming(conn[d], req)
                           /\ conn'[d].rreq = req => conn[d].rreq = req
        BY <1>1
      <3>2. CASE req = r
        <4>1. <<"jobq", None>> \in Places(r) \ ThreadPlaces
          BY <2>3, PlaceIs DEF ThreadPlaces
        <4>2. \A u \in Workers : u # t => worker'[u].req # r
          BY <2>2, <2>3, <4>1, Elsewhere
        <4>3. \A d \in Fds : ~Coming(conn'[d], r) /\ conn'[d].rreq # r
          BY <1>1, <2>3, <4>1, Elsewhere
        <4>4. r \notin unsent'
          BY <1>1, <2>3, <4>1, Elsewhere
        <4>5. \A p \in Places(r)' : p = <<"thread", t>>
          BY <2>3, <4>2, <4>3, <4>4, PlaceIsNext
        <4> QED BY <3>2, <4>1, <4>5
      <3>3. CASE req # r
        <4>1. \A u \in Workers : worker'[u].req = req => worker[u].req = req
          BY <2>2, <3>3
        <4> QED BY <1>1, <2>3, <3>1, <4>1, PlaceIs, PlaceIsNext
      <3> QED BY <3>2, <3>3
    <2>5. ASSUME NEW u \in Workers
          PROVE  /\ worker[u].pc \in Answering =>
                      \/ worker'[u].req = None
                      \/ worker'[u].c = worker[u].c /\ worker'[u].pc \in Answering
                 /\ worker'[u].ok => /\ worker[u].ok /\ worker'[u].pc = worker[u].pc
                                     /\ worker'[u].c = worker[u].c /\ worker'[u].req = worker[u].req
      <3>1. CASE u = t
        BY <1>1, <2>2, <3>1 DEF Answering, Sending, Removal
      <3>2. CASE u # t
        BY <2>2, <3>2
      <3> QED BY <3>1, <3>2
    <2>6. ASSUME NEW d \in Fds PROVE ReadOrder(conn'[d]) /\ WroteAt(d)'
      <3>1. ReadOrder(conn[d]) /\ WroteAt(d)
        BY DEF RequestInv
      <3>2. \A u \in Workers : worker[u].pc \in Sending => worker'[u].req = worker[u].req
        BY <1>1, <2>2 DEF Sending, Removal
      <3> QED BY <1>1, <1>4, <3>1, <3>2, WroteAtKept DEF SameStreams
    <2>7. \A d \in Fds : conn'[d].wire = conn[d].wire
      BY <1>1
    <2> QED BY <2>3, <2>4, <2>5, <2>6, <2>7, MovingRequests
  <1> QED BY <1>5, <1>6
-----------------------------------------------------------------------------
(* What is written                                                         *)

\* A step of a sender, or of the poll thread for one, on c.
LEMMA WritingRequests ==
  ASSUME ConnInv, RequestInv, NEW c \in Fds,
         \A d \in Fds : d # c => conn'[d] = conn[d],
         conn'[c].inq = conn[c].inq, conn'[c].rreq = conn[c].rreq,
         ReadOrder(conn'[c]), WroteAt(c)',
         Range(conn[c].wire) \subseteq Range(conn'[c].wire),
         \A req \in Requests : <<req, 2>> \in Range(conn'[c].wire) =>
           \/ Replied(c, req)
           \/ \E t \in Workers : /\ worker[t].c = c /\ worker[t].req = req
                                 /\ worker'[t].pc \in Answering,
         \A u \in Workers :
           /\ worker'[u].c = worker[u].c /\ worker'[u].req = worker[u].req
           /\ worker[u].pc \in Answering => worker'[u].pc \in Answering
           /\ worker'[u].ok =>
                \/ worker[u].ok /\ worker'[u].pc = worker[u].pc
                \/ worker'[u].pc = "sent" /\ worker[u].c = c
                     /\ <<worker[u].req, 2>> \in Range(conn'[c].wire),
         UNCHANGED <<jobq, unsent>>
  PROVE  RequestInv'
  <1>1. \A req \in Requests : Places(req)' = Places(req)
    <2> SUFFICES ASSUME NEW req \in Requests PROVE Places(req)' = Places(req)
      OBVIOUS
    <2>1. \A d \in Fds : /\ Coming(conn'[d], req) <=> Coming(conn[d], req)
                         /\ conn'[d].rreq = conn[d].rreq
      BY DEF Coming
    <2>2. Awaits(req)' <=> Awaits(req)
      BY DEF Awaits
    <2>3. \A u \in Workers : worker'[u].req = worker[u].req
      OBVIOUS
    <2>4. \A p \in Places(req)' : p \in Places(req)
      BY <2>1, <2>2, <2>3, PlaceIs, PlaceIsNext
    <2>5. \A p \in Places(req) : p \in Places(req)'
      BY <2>1, <2>2, <2>3, PlaceIs, PlaceIsNext
    <2> QED BY <2>4, <2>5
  <1>2. OnePlace' /\ QueuedOnce'
    BY <1>1 DEF RequestInv, OnePlace, QueuedOnce
  <1>3. \A d \in Fds, req \in Requests : d # c => (Replied(d, req)' <=> Replied(d, req))
    BY DEF Replied
  <1>4. \A req \in Requests : Replied(c, req) => Replied(c, req)'
    BY DEF Replied
  <1>5. \A req \in Requests : Replied(c, req)' =>
          \/ Replied(c, req)
          \/ \E t \in Workers : /\ worker[t].c = c /\ worker[t].req = req
                                /\ worker'[t].pc \in Answering
    BY DEF Replied
  <1>6. ASSUME NEW e \in Fds, NEW req \in Requests, Replied(e, req)'
        PROVE  /\ \A p \in Places(req)' : \E t \in Workers :
                    p = <<"thread", t>> /\ Works(t, e, Sending \cup {"sent"})'
               /\ \A d \in Fds : Replied(d, req)' => d = e
    <2>1. CASE Replied(e, req)
      <3>1. ASSUME NEW p \in Places(req)
            PROVE  \E t \in Workers :
                     p = <<"thread", t>> /\ Works(t, e, Sending \cup {"sent"})'
        <4>1. PICK t \in Workers : p = <<"thread", t>> /\ Works(t, e, Sending \cup {"sent"})
          BY <2>1, <3>1 DEF RequestInv, OnceAnswered
        <4> QED BY <4>1 DEF Works, Answering
      <3>2. ASSUME NEW d \in Fds, Replied(d, req)' PROVE d = e
        <4>1. CASE Replied(d, req)
          BY <2>1, <4>1 DEF RequestInv, OnceAnswered
        <4>2. CASE ~Replied(d, req)
          <5>1. d = c
            BY <1>3, <3>2, <4>2
          <5>2. PICK t \in Workers : worker[t].c = c /\ worker[t].req = req
            BY <1>5, <3>2, <4>2, <5>1
          <5>3. <<"thread", t>> \in Places(req)
            BY <5>2, PlaceIs
          <5>4. worker[t].c = e
            BY <2>1, <5>3 DEF RequestInv, OnceAnswered, Works
          <5> QED BY <5>1, <5>2, <5>4
        <4> QED BY <4>1, <4>2
      <3> QED BY <1>1, <3>1, <3>2
    <2>2. CASE ~Replied(e, req)
      <3>1. e = c
        BY <1>3, <1>6, <2>2
      <3>2. PICK t \in Workers : /\ worker[t].c = c /\ worker[t].req = req
                                 /\ worker'[t].pc \in Answering
        BY <1>5, <1>6, <2>2, <3>1
      <3>3. <<"thread", t>> \in Places(req)
        BY <3>2, PlaceIs
      <3>4. \A p \in Places(req) : p = <<"thread", t>>
        BY <3>3 DEF RequestInv, OnePlace
      <3>5. Works(t, e, Sending \cup {"sent"})'
        BY <3>1, <3>2 DEF Works, Answering
      <3>6. ASSUME NEW d \in Fds, Replied(d, req)', d # e PROVE FALSE
        <4>1. Replied(d, req)
          BY <1>3, <3>1, <3>6
        <4>2. worker[t].c = d
          BY <3>3, <4>1 DEF RequestInv, OnceAnswered, Works
        <4> QED BY <3>1, <3>2, <3>6, <4>2
      <3> QED BY <1>1, <3>4, <3>5, <3>6
    <2> QED BY <2>1, <2>2
  <1>7. OnceAnswered'
    BY <1>6 DEF OnceAnswered
  <1>8. ASSUME NEW t \in Workers, worker'[t].ok
        PROVE  worker'[t].pc = "sent" /\ Replied(worker[t].c, worker[t].req)'
    <2>1. worker'[t].c = worker[t].c /\ worker'[t].req = worker[t].req
      OBVIOUS
    <2>2. PICK d, req : d = worker[t].c /\ req = worker[t].req
      OBVIOUS
    <2>3. worker'[t].pc = "sent" /\ <<req, 2>> \in Range(conn'[d].wire)
      <3>1. CASE worker[t].ok /\ worker'[t].pc = worker[t].pc
        <4>1. worker[t].pc = "sent" /\ Replied(d, req)
          BY <2>2, <3>1 DEF RequestInv, OkReplied
        <4>2. d \in Fds
          BY <2>2, <4>1, ThreadFacts
        <4> QED BY <3>1, <4>1, <4>2 DEF Replied
      <3>2. CASE /\ worker'[t].pc = "sent" /\ worker[t].c = c
                 /\ <<worker[t].req, 2>> \in Range(conn'[c].wire)
        BY <2>2, <3>2
      <3> QED BY <1>8, <3>1, <3>2
    <2> QED BY <2>1, <2>2, <2>3 DEF Replied
  <1>9. OkReplied'
    BY <1>8 DEF OkReplied
  <1>a. ASSUME NEW d \in Fds PROVE ReadOrder(conn'[d]) /\ WroteAt(d)'
    <2>1. CASE d = c
      BY <2>1
    <2>2. CASE d # c
      <3>1. conn'[d] = conn[d]
        BY <2>2
      <3>2. ReadOrder(conn[d]) /\ WroteAt(d)
        BY DEF RequestInv
      <3>3. SameWritten(conn[d], conn'[d])
        BY <3>1 DEF SameWritten, SameBuffer
      <3>4. \A u \in Workers : worker[u].pc \in Sending => worker'[u].req = worker[u].req
        OBVIOUS
      <3> QED BY <3>1, <3>2, <3>3, <3>4, WroteAtKept
    <2> QED BY <2>1, <2>2
  <1> QED BY <1>2, <1>7, <1>9, <1>a DEF RequestInv

\* The next n parts of the reply to r go behind the a parts that are written.
Behind(w, v, r, a, n) ==
    /\ Len(v) = Len(w) + n
    /\ \A i \in 1..Len(w) : v[i] = w[i]
    /\ \A i \in 1..n : v[Len(w) + i] = <<r, a + i>>

LEMMA PartsAdded ==
  ASSUME NEW w \in Chunks, NEW v \in Chunks, NEW r \in Requests,
         NEW a, NEW n, a \in 0..PduSize, n \in 0..(PduSize - a),
         Pairs(w), Parts(w, r, a), Behind(w, v, r, a, n)
  PROVE  /\ Pairs(v) /\ Parts(v, r, a + n) /\ Range(w) \subseteq Range(v)
         /\ \A x \in Range(v) : x \in Range(w) \/ x[1] = r
  <1>0. /\ Len(v) = Len(w) + n
        /\ \A i \in 1..Len(w) : v[i] = w[i]
        /\ \A i \in 1..n : v[Len(w) + i] = <<r, a + i>>
    BY DEF Behind
  <1>1. Len(w) \in Nat /\ DOMAIN w = 1..Len(w) /\ Len(v) \in Nat /\ DOMAIN v = 1..Len(v)
    BY DEF Chunks
  <1>2. Range(w) \subseteq Range(v)
    BY <1>0, <1>1 DEF Range
  <1>3. \A i \in DOMAIN v : i \in DOMAIN w \/ i - Len(w) \in 1..n
    BY <1>0, <1>1
  <1>4. \A i \in DOMAIN v \ DOMAIN w : v[i] = <<r, a + (i - Len(w))>>
    <2> SUFFICES ASSUME NEW i \in DOMAIN v \ DOMAIN w PROVE v[i] = <<r, a + (i - Len(w))>>
      OBVIOUS
    <2>1. PICK j : j = i - Len(w)
      OBVIOUS
    <2>2. j \in 1..n /\ Len(w) + j = i
      BY <1>0, <1>1, <1>3, <2>1
    <2>3. v[Len(w) + j] = <<r, a + j>>
      BY <1>0, <2>2
    <2> QED BY <2>1, <2>2, <2>3
  <1>5. \A x \in Range(v) : x \in Range(w) \/ x[1] = r
    <2> SUFFICES ASSUME NEW i \in DOMAIN v PROVE v[i] \in Range(w) \/ v[i][1] = r
      BY DEF Range
    <2>1. CASE i \in DOMAIN w
      BY <1>0, <1>1, <2>1 DEF Range
    <2>2. CASE i \notin DOMAIN w
      BY <1>4, <2>2
    <2> QED BY <2>1, <2>2
  <1>6. CASE n = 0
    <2>1. Len(v) = Len(w) /\ DOMAIN v = DOMAIN w /\ a + n = a
      BY <1>0, <1>1, <1>6
    <2>2. \A i \in DOMAIN w : v[i] = w[i]
      BY <1>0, <1>1
    <2>3. v = w
      <3>1. v \in Seq(Requests \X (1..PduSize)) /\ w \in Seq(Requests \X (1..PduSize))
        BY DEF Chunks
      <3>2. v = [i \in 1..Len(v) |-> v[i]] /\ w = [i \in 1..Len(w) |-> w[i]]
        BY <3>1
      <3>3. DOMAIN w = 1..Len(w)
        BY <3>1
      <3>4. \A i \in 1..Len(w) : v[i] = w[i]
        BY <2>2, <3>3
      <3>5. Len(v) = Len(w)
        BY <2>1
      <3>6. [i \in 1..Len(w) |-> v[i]] = [i \in 1..Len(w) |-> w[i]]
        BY <3>4
      <3> QED BY <3>2, <3>5, <3>6
    <2> QED BY <1>2, <1>5, <2>1, <2>3 DEF Parts
  <1>7. CASE a = 0 /\ n = 1
    <2>1. Len(w) % 2 = 0 /\ Len(v) = Len(w) + 1 /\ v[Len(v)] = <<r, 1>>
      BY <1>0, <1>7, <1>1 DEF Parts
    <2>2. Len(v) % 2 = 1
      BY <1>0, <1>1, <2>1
    <2>3. Pairs(v)
      <3> SUFFICES ASSUME NEW i \in DOMAIN v
                   PROVE  IF i % 2 = 1 THEN v[i][2] = 1 ELSE v[i] = <<v[i - 1][1], 2>>
        BY DEF Pairs
      <3>1. CASE i = Len(v)
        BY <2>1, <2>2, <3>1
      <3>2. CASE i # Len(v)
        <4>1. i \in DOMAIN w /\ v[i] = w[i]
          BY <1>0, <1>1, <2>1, <3>2
        <4>2. i % 2 # 1 => i - 1 \in 1..Len(w)
          BY <1>0, <1>1, <4>1
        <4> QED BY <1>0, <4>1, <4>2 DEF Pairs
      <3> QED BY <3>1, <3>2
    <2> QED BY <1>2, <1>5, <1>7, <2>1, <2>2, <2>3 DEF Parts, PduSize
  <1>8. CASE a = 1 /\ n = 1
    <2>1. /\ Len(w) % 2 = 1 /\ Len(v) = Len(w) + 1 /\ v[Len(v)] = <<r, 2>>
          /\ w[Len(w)] = <<r, 1>>
      BY <1>0, <1>8, <1>1 DEF Parts
    <2>2. Len(v) % 2 = 0 /\ v[Len(v) - 1] = <<r, 1>> /\ Len(v) \in DOMAIN v
      BY <1>0, <1>1, <2>1
    <2>3. Pairs(v)
      <3> SUFFICES ASSUME NEW i \in DOMAIN v
                   PROVE  IF i % 2 = 1 THEN v[i][2] = 1 ELSE v[i] = <<v[i - 1][1], 2>>
        BY DEF Pairs
      <3>1. CASE i = Len(v)
        BY <2>1, <2>2, <3>1
      <3>2. CASE i # Len(v)
        <4>1. i \in DOMAIN w /\ v[i] = w[i]
          BY <1>0, <1>1, <2>1, <3>2
        <4>2. i % 2 # 1 => i - 1 \in 1..Len(w)
          BY <1>0, <1>1, <4>1
        <4> QED BY <1>0, <4>1, <4>2 DEF Pairs
      <3> QED BY <3>1, <3>2
    <2>4. <<r, 2>> \in Range(v)
      BY <2>1, <2>2 DEF Range
    <2> QED BY <1>2, <1>5, <1>8, <2>1, <2>2, <2>3, <2>4 DEF Parts, PduSize
  <1>9. CASE a = 0 /\ n = 2
    <2>1. /\ Len(w) % 2 = 0 /\ Len(v) = Len(w) + 2 /\ v[Len(w) + 1] = <<r, 1>>
          /\ v[Len(w) + 2] = <<r, 2>>
      BY <1>0, <1>9 DEF Parts
    <2>2. /\ Len(v) % 2 = 0 /\ (Len(w) + 1) % 2 = 1 /\ Len(w) + 2 \in DOMAIN v
      BY <1>0, <1>1, <2>1
    <2>3. Pairs(v)
      <3> SUFFICES ASSUME NEW i \in DOMAIN v
                   PROVE  IF i % 2 = 1 THEN v[i][2] = 1 ELSE v[i] = <<v[i - 1][1], 2>>
        BY DEF Pairs
      <3>1. CASE i = Len(w) + 1
        BY <2>1, <2>2, <3>1
      <3>2. CASE i = Len(w) + 2
        <4>1. i % 2 # 1 /\ i - 1 = Len(w) + 1
          BY <1>0, <1>1, <2>1, <2>2, <3>2
        <4> QED BY <2>1, <3>2, <4>1
      <3>3. CASE i # Len(w) + 1 /\ i # Len(w) + 2
        <4>1. i \in DOMAIN w /\ v[i] = w[i]
          BY <1>0, <1>1, <2>1, <3>3
        <4>2. i % 2 # 1 => i - 1 \in 1..Len(w)
          BY <1>0, <1>1, <4>1
        <4> QED BY <1>0, <4>1, <4>2 DEF Pairs
      <3> QED BY <3>1, <3>2, <3>3
    <2>4. <<r, 2>> \in Range(v)
      BY <2>1, <2>2 DEF Range
    <2> QED BY <1>2, <1>5, <1>9, <2>1, <2>2, <2>3, <2>4 DEF Parts, PduSize
  <1> QED BY <1>6, <1>7, <1>8, <1>9 DEF PduSize

\* Between replies, and behind a whole one.
LEMMA PartsEven ==
  ASSUME NEW w, NEW r, NEW n, n # 1
  PROVE  Parts(w, r, n) <=> /\ Len(w) % 2 = 0
                            /\ n = PduSize => <<r, 2>> \in Range(w)
  BY DEF Parts, PduSize

\* m is k with more of the reply to r written.
Wrote(k, m, r) ==
    /\ SameRead(k, m) /\ m.wlong \in 0..PduSize
    /\ Pairs(m.wire) /\ Parts(m.wire, r, m.wlong)
    /\ Range(k.wire) \subseteq Range(m.wire)
    /\ \A x \in Range(m.wire) : x \in Range(k.wire) \/ x[1] = r

LEMMA WrittenWire ==
  ASSUME NEW k \in Conns, k.wsz = PduSize, k.wlong >= 0, k.wbuf \in Workers,
         NEW r \in Requests, r = worker[k.wbuf].req,
         Pairs(k.wire), Parts(k.wire, r, k.wlong),
         NEW m, m = Written(k)
  PROVE  Wrote(k, m, r)
  <1> DEFINE S == {SockRoom - k.sock, k.wsz - k.wlong}
  <1>n. PICK n : n = Min(S)
    OBVIOUS
  <1>a. PICK a : a = k.wlong
    OBVIOUS
  <1>w. PICK w : w = [i \in 1..n |-> <<r, a + i>>]
    OBVIOUS
  <1>v. PICK v : v = k.wire \o w
    OBVIOUS
  <1>1. /\ SockRoom \in Nat /\ k.sock \in 0..SockRoom /\ a \in 0..PduSize
        /\ k.wire \in Chunks
    BY <1>a, ConnectionAssumption DEF Conns, PduSize
  <1>2. S \in SUBSET Nat /\ S # {}
    BY <1>1, <1>a DEF PduSize
  <1>3. n \in S /\ \A x \in S : n <= x
    BY <1>2, <1>n, Smallest
  <1>4. n \in 0..(PduSize - a) /\ n \in Nat /\ a + n \in 0..PduSize
    BY <1>1, <1>2, <1>3, <1>a DEF PduSize
  <1> HIDE DEF S
  <1>5. w \in Chunks
    <2>1. \A i \in 1..n : a + i \in 1..PduSize
      BY <1>1, <1>4 DEF PduSize
    <2>2. \A i \in 1..n : <<r, a + i>> \in Requests \X (1..PduSize)
      BY <2>1
    <2>3. [i \in 1..n |-> <<r, a + i>>] \in Seq(Requests \X (1..PduSize))
      BY <1>4, <2>2
    <2> QED BY <1>w, <2>3 DEF Chunks
  <1>6. /\ v \in Chunks /\ Len(w) = n /\ Len(v) = Len(k.wire) + n
        /\ \A i \in 1..(Len(k.wire) + n) :
             v[i] = IF i <= Len(k.wire) THEN k.wire[i] ELSE w[i - Len(k.wire)]
    <2>1. Len(w) = n
      BY <1>4, <1>w
    <2>2. k.wire \in Seq(Requests \X (1..PduSize)) /\ w \in Seq(Requests \X (1..PduSize))
      BY <1>1, <1>5 DEF Chunks
    <2>u. PICK u : u = k.wire
      OBVIOUS
    <2>s. PICK T : T = Requests \X (1..PduSize)
      OBVIOUS
    <2>3. u \in Seq(T) /\ w \in Seq(T) /\ v = u \o w
      BY <1>v, <2>2, <2>u, <2>s
    <2>4. v \in Seq(T) /\ Len(v) = Len(u) + Len(w)
      BY <2>3
    <2>5. \A i \in 1..(Len(u) + Len(w)) :
            v[i] = IF i <= Len(u) THEN u[i] ELSE w[i - Len(u)]
      BY <2>3
    <2> QED BY <2>1, <2>4, <2>5, <2>u, <2>s DEF Chunks
  <1>7. \A i \in 1..Len(k.wire) : v[i] = k.wire[i]
    <2>1. Len(k.wire) \in Nat
      BY <1>1 DEF Chunks
    <2>2. \A i \in 1..Len(k.wire) : i \in 1..(Len(k.wire) + n) /\ i <= Len(k.wire)
      BY <1>4, <2>1
    <2> QED BY <1>6, <2>2
  <1>8. \A i \in 1..n : v[Len(k.wire) + i] = <<r, a + i>>
    <2> SUFFICES ASSUME NEW i \in 1..n PROVE v[Len(k.wire) + i] = <<r, a + i>>
      OBVIOUS
    <2>1. Len(k.wire) \in Nat
      BY <1>1 DEF Chunks
    <2>2. PICK j : j = Len(k.wire) + i
      OBVIOUS
    <2>3. j \in 1..(Len(k.wire) + n) /\ ~(j <= Len(k.wire)) /\ j - Len(k.wire) = i
      BY <1>4, <2>1, <2>2
    <2>4. v[j] = w[i]
      BY <1>6, <2>3
    <2> QED BY <1>w, <2>2, <2>4
  <1>9. /\ Pairs(v) /\ Parts(v, r, a + n) /\ Range(k.wire) \subseteq Range(v)
        /\ \A x \in Range(v) : x \in Range(k.wire) \/ x[1] = r
    <2>1. Pairs(k.wire) /\ Parts(k.wire, r, a)
      BY <1>a
    <2>2. PICK u : u = k.wire
      OBVIOUS
    <2>3. /\ u \in Chunks /\ v \in Chunks /\ Pairs(u) /\ Parts(u, r, a)
          /\ Behind(u, v, r, a, n)
      BY <1>1, <1>6, <1>7, <1>8, <2>1, <2>2 DEF Behind
    <2>4. a \in 0..PduSize /\ n \in 0..(PduSize - a)
      BY <1>1, <1>4
    <2>5. /\ Pairs(v) /\ Parts(v, r, a + n) /\ Range(u) \subseteq Range(v)
          /\ \A x \in Range(v) : x \in Range(u) \/ x[1] = r
      BY <2>3, <2>4, PartsAdded
    <2> QED BY <2>2, <2>5
  <1>b. m = [k EXCEPT !.wlong = a + n, !.sock = k.sock + n, !.wire = v]
    BY <1>n, <1>a, <1>w, <1>v DEF Written, S
  <1>c. m.wlong = a + n /\ m.wire = v /\ SameRead(k, m)
    BY <1>b DEF Conns, SameRead
  <1> QED BY <1>4, <1>9, <1>c DEF Wrote

\* Threads that are woken keep their requests and their answers.
LEMMA WokenGoOn ==
  ASSUME ConnInv, RequestInv, NEW u \in Workers, Woken(u)
  PROVE  /\ worker'[u].c = worker[u].c /\ worker'[u].req = worker[u].req
         /\ worker[u].pc \in Answering => worker'[u].pc \in Answering
         /\ worker'[u].ok => worker[u].ok /\ worker'[u].pc = worker[u].pc
  BY OkIsSent DEF Woken, Answering, Sending, Removal

\* A connection that is found broken, or of which wpdu_ is given up: nothing is written.
LEMMA NothingWritten ==
  ASSUME RequestInv, NEW c \in Fds, SameRead(conn[c], conn'[c]),
         conn'[c].wire = conn[c].wire,
         conn'[c].dead => conn[c].dead \/ conn[c].broken,
         conn'[c].dead \/ (conn'[c].wbuf = None /\ Len(conn[c].wire) % 2 = 0)
  PROVE  /\ conn'[c].inq = conn[c].inq /\ conn'[c].rreq = conn[c].rreq
         /\ ReadOrder(conn'[c]) /\ WroteAt(c)'
         /\ Range(conn[c].wire) \subseteq Range(conn'[c].wire)
         /\ \A req \in Requests : <<req, 2>> \in Range(conn'[c].wire) => Replied(c, req)
  <1>1. ReadOrder(conn[c]) /\ Pairs(conn[c].wire)
    BY DEF RequestInv, WroteAt
  <1>2. ReadOrder(conn'[c])
    BY <1>1, ReadOrderKept
  <1>3. WroteAt(c)'
    BY <1>1 DEF WroteAt
  <1> QED BY <1>2, <1>3 DEF SameRead, Replied

\* A connection on which a thread that is or will be answering has written more.
LEMMA MoreWritten ==
  ASSUME RequestInv, NEW c \in Fds, NEW t \in Workers, NEW r \in Requests,
         worker[t].c = c, worker[t].req = r, worker'[t].pc \in Answering, worker'[t].req = r,
         NEW k, k.wire = conn[c].wire, SameRead(conn[c], k),
         NEW m, Wrote(k, m, r), SameRead(m, conn'[c]), conn'[c].wire = m.wire,
         conn'[c].dead => conn[c].dead,
         \/ conn'[c].wbuf = t /\ conn'[c].wsz = PduSize /\ conn'[c].wlong = m.wlong
         \/ conn'[c].wbuf = None /\ m.wlong = PduSize
  PROVE  /\ conn'[c].inq = conn[c].inq /\ conn'[c].rreq = conn[c].rreq
         /\ ReadOrder(conn'[c]) /\ WroteAt(c)'
         /\ Range(conn[c].wire) \subseteq Range(conn'[c].wire)
         /\ \A req \in Requests : <<req, 2>> \in Range(conn'[c].wire) =>
              \/ Replied(c, req)
              \/ \E u \in Workers : /\ worker[u].c = c /\ worker[u].req = req
                                    /\ worker'[u].pc \in Answering
  <1>1. SameRead(conn[c], conn'[c])
    BY DEF Wrote, SameRead
  <1>2. ReadOrder(conn'[c])
    <2>1. ReadOrder(conn[c])
      BY DEF RequestInv
    <2> QED BY <1>1, <2>1, ReadOrderKept
  <1>3. WroteAt(c)'
    <2>1. Pairs(conn'[c].wire) /\ Parts(conn'[c].wire, r, m.wlong)
      BY DEF Wrote
    <2>2. CASE conn'[c].wbuf = t /\ conn'[c].wsz = PduSize /\ conn'[c].wlong = m.wlong
      <3>1. worker'[conn'[c].wbuf].req = r
        BY <2>2
      <3>2. t # None
        BY ConnectionAssumption
      <3> QED BY <2>1, <2>2, <3>1, <3>2 DEF WroteAt
    <2>3. CASE conn'[c].wbuf = None /\ m.wlong = PduSize
      <3>1. Len(conn'[c].wire) % 2 = 0
        <4>1. m.wlong # 1
          BY <2>3 DEF PduSize
        <4> QED BY <2>1, <4>1, PartsEven
      <3> QED BY <2>1, <2>3, <3>1 DEF WroteAt
    <2> QED BY <2>2, <2>3
  <1>4. ASSUME NEW req \in Requests, <<req, 2>> \in Range(conn'[c].wire), ~Replied(c, req)
        PROVE  req = r
    BY <1>4 DEF Wrote, Replied
  <1> QED BY <1>1, <1>2, <1>3, <1>4 DEF SameRead, Wrote

LEMMA ServeWritableRequests ==
  ASSUME ConnInv, ConnInv', RequestInv, ServeWritable PROVE RequestInv'
  <1>0. PICK c : c = Min(poll.w)
    OBVIOUS
  <1>1. /\ poll.pc = "serve" /\ poll.w # {}
        /\ IF c \in callbacks
           THEN WriteCb(c)
           ELSE UNCHANGED <<conn, pollVars, errnoAgain, worker, aborted>>
        /\ UNCHANGED <<jobq, unsent>>
    BY <1>0 DEF ServeWritable, peerVars
  <1>2. c \in Fds
    <2>1. poll.w \in SUBSET Nat
      BY TypeFacts, ConnectionAssumption
    <2> QED BY <1>0, <1>1, <2>1, Smallest, TypeFacts
  <1> DEFINE k == conn[c]
  <1>4. k \in Conns
    BY <1>2, ConnFacts
  <1>5. CASE UNCHANGED <<conn, worker>>
    <2>1. \A d \in Fds : SameStreams(conn[d], conn'[d])
      BY <1>5 DEF SameStreams, SameRead, SameWritten, SameBuffer
    <2> QED BY <1>1, <1>5, <2>1, OutsideRequests
  <1>6. CASE c \in callbacks /\ (k.dead \/ k.wsz = 0)
    <2>1. UNCHANGED <<conn, worker>>
      BY <1>1, <1>6 DEF WriteCb
    <2> QED BY <1>5, <2>1
  <1>8. CASE c \in callbacks /\ ~k.dead /\ k.wsz # 0 /\ k.wlong < k.wsz /\ k.broken
    <2>1. /\ worker' = SignalComplete(worker, c)
          /\ conn' = [conn EXCEPT ![c].dead = TRUE, ![c].wlong = -1, ![c].wsz = 0]
      BY <1>1, <1>8 DEF WriteCb
    <2>2. /\ conn'[c].dead /\ conn'[c].wire = conn[c].wire /\ SameRead(conn[c], conn'[c])
          /\ \A d \in Fds : d # c => conn'[d] = conn[d]
      <3>1. conn' = [conn EXCEPT ![c] = [k EXCEPT !.dead = TRUE, !.wlong = -1, !.wsz = 0]]
        BY <1>2, <2>1, TypeFacts
      <3> QED BY <1>2, <1>4, <3>1, TypeFacts DEF Conns, SameRead
    <2>3. \A u \in Workers :
            /\ worker'[u].c = worker[u].c /\ worker'[u].req = worker[u].req
            /\ worker[u].pc \in Answering => worker'[u].pc \in Answering
            /\ worker'[u].ok => worker[u].ok /\ worker'[u].pc = worker[u].pc
      BY <2>1, SignalledAreWoken, WokenGoOn
    <2>4. /\ conn'[c].inq = conn[c].inq /\ conn'[c].rreq = conn[c].rreq
          /\ ReadOrder(conn'[c]) /\ WroteAt(c)'
          /\ Range(conn[c].wire) \subseteq Range(conn'[c].wire)
          /\ \A req \in Requests : <<req, 2>> \in Range(conn'[c].wire) => Replied(c, req)
      <3>1. conn[c].broken
        BY <1>8
      <3> HIDE DEF k
      <3> QED BY <1>2, <2>2, <3>1, NothingWritten
    <2> HIDE DEF k
    <2> QED BY <1>1, <1>2, <2>2, <2>3, <2>4, WritingRequests
  <1>9. CASE c \in callbacks /\ ~k.dead /\ k.wsz # 0 /\ ~(k.wlong < k.wsz /\ k.broken)
    <2>m. PICK m : m = Written(k)
      OBVIOUS
    <2>t. PICK t : t = k.wbuf
      OBVIOUS
    <2>r. PICK r : r = worker[t].req
      OBVIOUS
    <2>1. /\ conn' = [conn EXCEPT ![c] = m]
          /\ worker' = IF m.wlong = k.wsz THEN SignalComplete(worker, c) ELSE worker
      BY <1>1, <1>9, <2>m DEF WriteCb
    <2>2. k.wsz = PduSize /\ k.wlong >= 0 /\ t \in Workers /\ r \in Requests
      BY <1>2, <1>9, <2>t, <2>r, SenderHasRequest
    <2>3. /\ m \in Conns /\ m.wsz = k.wsz /\ m.dead = k.dead /\ m.wbuf = t
      BY <1>4, <2>m, <2>t, <2>r, <2>2, WrittenType
    <2>4. conn'[c] = m /\ \A e \in Fds : e # c => conn'[e] = conn[e]
      BY <1>2, <2>1, <2>3, TypeFacts, SetConn
    <2>5. worker[t].c = c /\ worker[t].pc \in Sending
      <3>1. conn[c].wbuf # None => Works(conn[c].wbuf, c, Sending)
        BY <1>2 DEF ConnInv, WbufInv
      <3> QED BY <2>t, <2>2, <3>1, ConnectionAssumption DEF Works
    <2>6. Wrote(k, m, r)
      <3>1. Pairs(k.wire) /\ Parts(k.wire, r, k.wlong)
        <4>1. k.wbuf # None
          BY <2>t, <2>2, ConnectionAssumption
        <4> QED BY <1>2, <1>9, <2>t, <2>r, <4>1 DEF RequestInv, WroteAt
      <3>2. k.wbuf \in Workers /\ r = worker[k.wbuf].req
        BY <2>t, <2>r, <2>2
      <3> QED BY <1>4, <2>m, <2>2, <3>1, <3>2, WrittenWire
    <2>7. \A u \in Workers :
            /\ worker'[u].c = worker[u].c /\ worker'[u].req = worker[u].req
            /\ worker[u].pc \in Answering => worker'[u].pc \in Answering
            /\ worker'[u].ok => worker[u].ok /\ worker'[u].pc = worker[u].pc
      <3>1. CASE worker' = worker
        BY <3>1, NobodyWoken, WokenGoOn
      <3>2. CASE worker' = SignalComplete(worker, c)
        BY <3>2, SignalledAreWoken, WokenGoOn
      <3> QED BY <2>1, <3>1, <3>2
    <2>8. worker'[t].pc \in Answering /\ worker'[t].req = r
      BY <2>2, <2>5, <2>7, <2>r DEF Answering
    <2>9. /\ conn'[c].inq = conn[c].inq /\ conn'[c].rreq = conn[c].rreq
          /\ ReadOrder(conn'[c]) /\ WroteAt(c)'
          /\ Range(conn[c].wire) \subseteq Range(conn'[c].wire)
          /\ \A req \in Requests : <<req, 2>> \in Range(conn'[c].wire) =>
               \/ Replied(c, req)
               \/ \E u \in Workers : /\ worker[u].c = c /\ worker[u].req = req
                                     /\ worker'[u].pc \in Answering
      <3>1. /\ k.wire = conn[c].wire /\ SameRead(conn[c], k) /\ SameRead(m, conn'[c])
            /\ conn'[c].wire = m.wire /\ (conn'[c].dead => conn[c].dead)
        BY <2>3, <2>4 DEF SameRead
      <3>2. conn'[c].wbuf = t /\ conn'[c].wsz = PduSize /\ conn'[c].wlong = m.wlong
        BY <2>2, <2>3, <2>4
      <3>3. \/ conn'[c].wbuf = t /\ conn'[c].wsz = PduSize /\ conn'[c].wlong = m.wlong
            \/ conn'[c].wbuf = None /\ m.wlong = PduSize
        BY <3>2
      <3>4. t \in Workers /\ r \in Requests /\ worker[t].c = c /\ worker[t].req = r
        BY <2>2, <2>5, <2>r
      <3>5. PICK q : q = k
        OBVIOUS
      <3>6. Wrote(q, m, r) /\ q.wire = conn[c].wire /\ SameRead(conn[c], q)
        BY <2>6, <3>1, <3>5
      <3> HIDE DEF k
      <3> QED BY <1>2, <2>8, <3>1, <3>3, <3>4, <3>6, MoreWritten
    <2> HIDE DEF k
    <2> QED BY <1>1, <1>2, <2>4, <2>7, <2>9, WritingRequests
  <1>a. k.dead \in BOOLEAN /\ k.broken \in BOOLEAN
    BY <1>4 DEF Conns
  <1> QED BY <1>1, <1>5, <1>6, <1>8, <1>9, <1>a

\* The end of send, for who waits to send too.
LEMMA SendEndsGoesOn ==
  ASSUME ConnInv, RequestInv, NEW t \in Workers, NEW ok \in BOOLEAN,
         worker' = SendEnds(worker, t, ok), NEW u \in Workers
  PROVE  /\ worker'[u].c = worker[u].c /\ worker'[u].req = worker[u].req
         /\ worker[u].pc \in Answering => worker'[u].pc \in Answering
         /\ u = t => worker'[u].pc = "sent" /\ worker'[u].ok = ok
         /\ u # t /\ worker'[u].ok => worker[u].ok /\ worker'[u].pc = worker[u].pc
  <1>1. worker[u] \in Threads /\ worker[t] \in Threads
    BY TypeFacts
  <1>2. CASE u = t
    <2>1. worker'[u] = [worker[t] EXCEPT !.pc = "sent", !.ok = ok]
      BY <1>2 DEF SendEnds
    <2> QED BY <1>1, <1>2, <2>1 DEF Threads, Answering
  <1>3. CASE u # t
    <2>1. worker'[u] = IF worker[u].c = worker[t].c /\ worker[u].pc = "wait_send"
                       THEN [worker[u] EXCEPT !.pc = "send"] ELSE worker[u]
      BY <1>3 DEF SendEnds
    <2>2. worker[u].ok => worker[u].pc = "sent"
      BY OkIsSent
    <2> QED BY <1>1, <1>3, <2>1, <2>2 DEF Threads, Answering, Sending, Removal
  <1> QED BY <1>2, <1>3

\* The end of a send that writes nothing, with the answer it gives.
LEMMA SendOverRequests ==
  ASSUME ConnInv, RequestInv, NEW t \in Workers, NEW c \in Fds, worker[t].c = c,
         conn' = [conn EXCEPT ![c] = NoPdu(conn[c])], NEW ok \in BOOLEAN,
         worker' = SendEnds(worker, t, ok),
         conn[c].dead \/ Len(conn[c].wire) % 2 = 0,
         ok => Replied(c, worker[t].req),
         UNCHANGED <<jobq, unsent>>
  PROVE  RequestInv'
  <1>m. PICK m : m = NoPdu(conn[c])
    OBVIOUS
  <1>1. conn[c] \in Conns
    BY ConnFacts
  <1>2. /\ m \in Conns /\ m.wbuf = None /\ m.dead = conn[c].dead
        /\ m.wire = conn[c].wire /\ SameRead(conn[c], m)
    <2>1. m \in Conns /\ m.wbuf = None /\ m.dead = conn[c].dead
      BY <1>1, <1>m, NoPduIs
    <2>2. m.wire = conn[c].wire /\ SameRead(conn[c], m)
      BY <1>1, <1>m DEF NoPdu, Conns, SameRead
    <2> QED BY <2>1, <2>2
  <1>3. conn'[c] = m /\ \A e \in Fds : e # c => conn'[e] = conn[e]
    BY <1>m, <1>2, TypeFacts, SetConn
  <1>4. /\ conn'[c].inq = conn[c].inq /\ conn'[c].rreq = conn[c].rreq
        /\ ReadOrder(conn'[c]) /\ WroteAt(c)'
        /\ Range(conn[c].wire) \subseteq Range(conn'[c].wire)
        /\ \A req \in Requests : <<req, 2>> \in Range(conn'[c].wire) => Replied(c, req)
    <2>1. SameRead(conn[c], conn'[c]) /\ conn'[c].wire = conn[c].wire
      BY <1>2, <1>3
    <2>2. /\ conn'[c].dead => conn[c].dead \/ conn[c].broken
          /\ conn'[c].dead \/ (conn'[c].wbuf = None /\ Len(conn[c].wire) % 2 = 0)
      BY <1>2, <1>3
    <2> QED BY <2>1, <2>2, NothingWritten
  <1>5. ASSUME NEW u \in Workers
        PROVE  /\ worker'[u].c = worker[u].c /\ worker'[u].req = worker[u].req
               /\ worker[u].pc \in Answering => worker'[u].pc \in Answering
               /\ worker'[u].ok =>
                    \/ worker[u].ok /\ worker'[u].pc = worker[u].pc
                    \/ worker'[u].pc = "sent" /\ worker[u].c = c
                         /\ <<worker[u].req, 2>> \in Range(conn'[c].wire)
    <2>1. /\ worker'[u].c = worker[u].c /\ worker'[u].req = worker[u].req
          /\ worker[u].pc \in Answering => worker'[u].pc \in Answering
          /\ u = t => worker'[u].pc = "sent" /\ worker'[u].ok = ok
          /\ u # t /\ worker'[u].ok => worker[u].ok /\ worker'[u].pc = worker[u].pc
      BY SendEndsGoesOn
    <2>2. ok => <<worker[t].req, 2>> \in Range(conn'[c].wire)
      BY <1>4 DEF Replied
    <2> QED BY <2>1, <2>2
  <1> QED BY <1>3, <1>4, <1>5, WritingRequests

LEMMA RemovedRequests ==
  ASSUME ConnInv, WaitInv, RequestInv, NEW t \in Workers, Removed(t) PROVE RequestInv'
  <1>0. PICK c : c = worker[t].c
    OBVIOUS
  <1>1. /\ worker[t].pc = "removed" /\ worker' = SendEnds(worker, t, FALSE)
        /\ conn' = [conn EXCEPT ![c] = NoPdu(conn[c])]
        /\ UNCHANGED <<jobq, unsent>>
    BY <1>0 DEF Removed, peerVars
  <1>2. c \in Fds
    BY <1>0, <1>1, ThreadFacts
  <1>3. conn[c].dead
    BY <1>0, <1>1, <1>2 DEF ConnInv, DeadInv, Works, Removal
  <1> QED BY <1>0, <1>1, <1>2, <1>3, SendOverRequests

LEMMA CompletedRequests ==
  ASSUME ConnInv, WaitInv, RequestInv, NEW t \in Workers, Completed(t) PROVE RequestInv'
  <1>0. PICK c : c = worker[t].c
    OBVIOUS
  <1>k. PICK k : k = conn[c]
    OBVIOUS
  <1>1. worker[t].pc = "completed" /\ UNCHANGED <<jobq, unsent>>
    BY DEF Completed, peerVars
  <1>2. c \in Fds /\ k \in Conns
    BY <1>0, <1>1, <1>k, ThreadFacts, ConnFacts
  <1>3. k.wbuf = t /\ (k.dead \/ k.wlong = k.wsz)
    BY <1>0, <1>1, <1>2, <1>k DEF WaitInv, WaitAt, Serving, Sending
  <1>4. ~(~k.dead /\ k.wlong >= 0 /\ k.wlong < k.wsz)
    <2>1. k.wsz \in {0, PduSize}
      BY <1>2 DEF Conns
    <2> QED BY <1>3, <2>1 DEF PduSize
  <1>5. PICK ok : ok = (~k.dead /\ k.wlong = k.wsz)
    OBVIOUS
  <1>6. /\ worker' = SendEnds(worker, t, ok) /\ ok \in BOOLEAN
        /\ conn' = [conn EXCEPT ![c] = NoPdu(conn[c])]
    BY <1>0, <1>k, <1>4, <1>5 DEF Completed
  <1>7. ~k.dead => Len(k.wire) % 2 = 0 /\ <<worker[t].req, 2>> \in Range(k.wire)
    <2>1. WroteAt(c)
      BY <1>2 DEF RequestInv
    <2>2. t # None
      BY ConnectionAssumption
    <2>3. ~k.dead => Parts(k.wire, worker[t].req, PduSize)
      BY <1>k, <1>3, <2>1, <2>2 DEF WroteAt
    <2>4. PduSize # 1
      BY DEF PduSize
    <2> QED BY <2>3, <2>4, PartsEven
  <1>8. ok => Replied(c, worker[t].req)
    BY <1>k, <1>5, <1>7 DEF Replied
  <1>9. conn[c].dead \/ Len(conn[c].wire) % 2 = 0
    BY <1>k, <1>7
  <1> QED BY <1>0, <1>1, <1>2, <1>6, <1>8, <1>9, SendOverRequests

\* send up to its first wait or its end: what it writes is the start of its reply.
LEMMA SendRequests ==
  ASSUME ConnInv, ConnInv', RequestInv, NEW t \in Workers, Send(t) PROVE RequestInv'
  <1>0. PICK c : c = worker[t].c
    OBVIOUS
  <1>k. PICK k : k = Loaded(conn[c], t)
    OBVIOUS
  <1>r. PICK r : r = worker[t].req
    OBVIOUS
  <1>1. worker[t].pc = "send" /\ UNCHANGED <<jobq, unsent>>
    BY DEF Send, peerVars
  <1>2. c \in Fds /\ conn[c] \in Conns /\ r \in Requests
    BY <1>0, <1>1, <1>r, ThreadFacts, ConnFacts
  <1>3. /\ k \in Conns /\ k.wbuf = t /\ k.wsz = PduSize /\ k.wlong = 0 /\ k.dead = conn[c].dead
        /\ k.wire = conn[c].wire /\ SameRead(conn[c], k) /\ k.broken = conn[c].broken
    <2>1. /\ k \in Conns /\ k.wbuf = t /\ k.wsz = PduSize /\ k.wlong = 0
          /\ k.dead = conn[c].dead /\ k.broken = conn[c].broken
      BY <1>2, <1>k, NewPdu
    <2>2. k.wire = conn[c].wire /\ SameRead(conn[c], k)
      BY <1>2, <1>k DEF Loaded, Conns, SameRead
    <2> QED BY <2>1, <2>2
  <1>4. \/ /\ conn[c].dead
           /\ worker' = [worker EXCEPT ![t].pc = "sent", ![t].ok = FALSE]
           /\ conn' = conn
        \/ Busy(c) /\ Goto(t, "wait_send") /\ conn' = conn
        \/ /\ ~conn[c].dead /\ ~Busy(c) /\ k.broken
           /\ conn' = [conn EXCEPT ![c] = [k EXCEPT !.dead = TRUE, !.wlong = -1, !.wsz = 0]]
           /\ Goto(t, "remove")
        \/ /\ ~conn[c].dead /\ ~Busy(c) /\ ~k.broken
           /\ IF Written(k).wlong = PduSize
              THEN /\ conn' = [conn EXCEPT ![c] = NoPdu(Written(k))]
                   /\ worker' = SendEnds(worker, t, TRUE)
              ELSE /\ conn' = [conn EXCEPT ![c] = Written(k)]
                   /\ Goto(t, "wait_complete")
    BY <1>0, <1>k DEF Send, Loaded
  <1>5. worker \in [Workers -> Threads] /\ worker[t] \in Threads /\ ~worker[t].ok
    BY <1>1, TypeFacts, OkIsSent
  <1>6. worker[t].pc \notin Sending /\ worker[t].pc # "sent"
    BY <1>1 DEF Sending, Removal
  <1>7. ASSUME conn' = conn, worker'[t].req = worker[t].req, ~worker'[t].ok,
               \A u \in Workers : u # t => worker'[u] = worker[u]
        PROVE  RequestInv'
    <2>1. \A d \in Fds : SameStreams(conn[d], conn'[d])
      BY <1>7 DEF SameStreams, SameRead, SameWritten, SameBuffer
    <2> QED BY <1>1, <1>6, <1>7, <2>1, ThreadRequests
  <1>8. CASE worker' = [worker EXCEPT ![t].pc = "sent", ![t].ok = FALSE] /\ conn' = conn
    BY <1>5, <1>7, <1>8 DEF Threads
  <1>9. CASE Goto(t, "wait_send") /\ conn' = conn
    BY <1>5, <1>7, <1>9 DEF Goto, Threads
  <1>a. ASSUME NEW p \in Answering, Goto(t, p)
        PROVE  /\ worker'[t].pc = p /\ worker'[t].req = r
               /\ \A u \in Workers :
                    /\ worker'[u].c = worker[u].c /\ worker'[u].req = worker[u].req
                    /\ worker[u].pc \in Answering => worker'[u].pc \in Answering
                    /\ worker'[u].ok => worker[u].ok /\ worker'[u].pc = worker[u].pc
    <2>1. worker'[t] = [worker[t] EXCEPT !.pc = p] /\ \A u \in Workers : u # t => worker'[u] = worker[u]
      BY <1>5, <1>a DEF Goto
    <2>2. /\ worker'[t].pc = p /\ worker'[t].req = worker[t].req
          /\ worker'[t].c = worker[t].c /\ ~worker'[t].ok
      BY <1>5, <2>1 DEF Threads
    <2> QED BY <1>a, <1>r, <2>1, <2>2
  <1>b. CASE /\ k.broken /\ Goto(t, "remove")
             /\ conn' = [conn EXCEPT ![c] = [k EXCEPT !.dead = TRUE, !.wlong = -1, !.wsz = 0]]
    <2>1. /\ conn'[c].dead /\ conn'[c].wire = conn[c].wire /\ SameRead(conn[c], conn'[c])
          /\ \A d \in Fds : d # c => conn'[d] = conn[d]
      BY <1>2, <1>3, <1>b, TypeFacts DEF Conns, SameRead
    <2>2. \A u \in Workers :
            /\ worker'[u].c = worker[u].c /\ worker'[u].req = worker[u].req
            /\ worker[u].pc \in Answering => worker'[u].pc \in Answering
            /\ worker'[u].ok => worker[u].ok /\ worker'[u].pc = worker[u].pc
      <3>1. "remove" \in Answering
        BY DEF Answering, Sending, Removal
      <3> QED BY <1>a, <1>b, <3>1
    <2>3. /\ conn'[c].inq = conn[c].inq /\ conn'[c].rreq = conn[c].rreq
          /\ ReadOrder(conn'[c]) /\ WroteAt(c)'
          /\ Range(conn[c].wire) \subseteq Range(conn'[c].wire)
          /\ \A req \in Requests : <<req, 2>> \in Range(conn'[c].wire) => Replied(c, req)
      BY <1>2, <1>3, <1>b, <2>1, NothingWritten
    <2> QED BY <1>1, <1>2, <2>1, <2>2, <2>3, WritingRequests
  <1>c. CASE ~conn[c].dead /\ ~Busy(c) /\ ~k.broken
    <2>m. PICK m : m = Written(k)
      OBVIOUS
    <2>1. m \in Conns /\ m.wlong >= 0 /\ m.wsz = PduSize /\ m.dead = k.dead /\ m.wbuf = t
      <3>1. worker[k.wbuf].req \in Requests
        BY <1>2, <1>3, <1>r
      <3>2. k.wbuf \in Workers /\ k.wlong >= 0
        BY <1>3
      <3> QED BY <1>3, <2>m, <3>1, <3>2, WrittenType
    <2>2. Wrote(k, m, r)
      <3>1. Pairs(k.wire) /\ Len(k.wire) % 2 = 0
        BY <1>2, <1>3, <1>c DEF RequestInv, WroteAt, Busy
      <3>2. Parts(k.wire, r, k.wlong)
        <4>1. 0 # 1 /\ 0 # PduSize
          BY DEF PduSize
        <4> QED BY <1>3, <3>1, <4>1, PartsEven
      <3>3. k.wbuf \in Workers /\ k.wlong >= 0 /\ r = worker[k.wbuf].req
        BY <1>3, <1>r
      <3> QED BY <1>2, <1>3, <2>m, <3>1, <3>2, <3>3, WrittenWire
    <2>3. CASE m.wlong = PduSize
      <3>n. PICK m1 : m1 = NoPdu(m)
        OBVIOUS
      <3>1. conn' = [conn EXCEPT ![c] = m1] /\ worker' = SendEnds(worker, t, TRUE)
        BY <1>4, <1>6, <1>c, <2>m, <2>3, <3>n, <1>5, <1>1 DEF Goto, Threads
      <3>2. m1 \in Conns /\ m1.wbuf = None /\ m1.dead = m.dead /\ SameRead(m, m1) /\ m1.wire = m.wire
        <4>1. m1 \in Conns /\ m1.wbuf = None /\ m1.dead = m.dead
          BY <2>1, <3>n, NoPduIs
        <4>2. SameRead(m, m1) /\ m1.wire = m.wire
          BY <2>1, <3>n DEF NoPdu, Conns, SameRead
        <4> QED BY <4>1, <4>2
      <3>3. conn'[c] = m1 /\ \A d \in Fds : d # c => conn'[d] = conn[d]
        BY <1>2, <3>1, <3>2, TypeFacts, SetConn
      <3>4. \A u \in Workers :
              /\ worker'[u].c = worker[u].c /\ worker'[u].req = worker[u].req
              /\ worker[u].pc \in Answering => worker'[u].pc \in Answering
              /\ u = t => worker'[u].pc = "sent"
              /\ u # t /\ worker'[u].ok => worker[u].ok /\ worker'[u].pc = worker[u].pc
        BY <3>1, SendEndsGoesOn
      <3>5. worker'[t].pc \in Answering /\ worker'[t].req = r
        BY <1>r, <3>4 DEF Answering
      <3>6. /\ conn'[c].inq = conn[c].inq /\ conn'[c].rreq = conn[c].rreq
            /\ ReadOrder(conn'[c]) /\ WroteAt(c)'
            /\ Range(conn[c].wire) \subseteq Range(conn'[c].wire)
            /\ \A req \in Requests : <<req, 2>> \in Range(conn'[c].wire) =>
                 \/ Replied(c, req)
                 \/ \E u \in Workers : /\ worker[u].c = c /\ worker[u].req = req
                                       /\ worker'[u].pc \in Answering
        <4>1. SameRead(m, conn'[c]) /\ conn'[c].wire = m.wire /\ (conn'[c].dead => conn[c].dead)
          BY <1>3, <2>1, <3>2, <3>3
        <4>2. conn'[c].wbuf = None /\ m.wlong = PduSize
          BY <2>3, <3>2, <3>3
        <4> QED BY <1>0, <1>2, <1>3, <1>r, <2>2, <3>5, <4>1, <4>2, MoreWritten
      <3>7. <<r, 2>> \in Range(conn'[c].wire)
        BY <2>2, <2>3, <3>2, <3>3 DEF Wrote, Parts, PduSize
      <3>8. \A u \in Workers :
              /\ worker'[u].c = worker[u].c /\ worker'[u].req = worker[u].req
              /\ worker[u].pc \in Answering => worker'[u].pc \in Answering
              /\ worker'[u].ok =>
                   \/ worker[u].ok /\ worker'[u].pc = worker[u].pc
                   \/ worker'[u].pc = "sent" /\ worker[u].c = c
                        /\ <<worker[u].req, 2>> \in Range(conn'[c].wire)
        BY <1>0, <1>r, <3>4, <3>7
      <3> QED BY <1>1, <1>2, <3>3, <3>6, <3>8, WritingRequests
    <2>4. CASE m.wlong # PduSize
      <3>1. conn' = [conn EXCEPT ![c] = m] /\ Goto(t, "wait_complete")
        BY <1>4, <1>c, <2>m, <2>4
      <3>2. conn'[c] = m /\ \A d \in Fds : d # c => conn'[d] = conn[d]
        BY <1>2, <2>1, <3>1, TypeFacts, SetConn
      <3>3. /\ worker'[t].pc \in Answering /\ worker'[t].req = r
            /\ \A u \in Workers :
                 /\ worker'[u].c = worker[u].c /\ worker'[u].req = worker[u].req
                 /\ worker[u].pc \in Answering => worker'[u].pc \in Answering
                 /\ worker'[u].ok => worker[u].ok /\ worker'[u].pc = worker[u].pc
        <4>1. "wait_complete" \in Answering
          BY DEF Answering, Sending
        <4> QED BY <1>a, <3>1, <4>1
      <3>4. /\ conn'[c].inq = conn[c].inq /\ conn'[c].rreq = conn[c].rreq
            /\ ReadOrder(conn'[c]) /\ WroteAt(c)'
            /\ Range(conn[c].wire) \subseteq Range(conn'[c].wire)
            /\ \A req \in Requests : <<req, 2>> \in Range(conn'[c].wire) =>
                 \/ Replied(c, req)
                 \/ \E u \in Workers : /\ worker[u].c = c /\ worker[u].req = req
                                       /\ worker'[u].pc \in Answering
        <4>1. SameRead(m, conn'[c]) /\ conn'[c].wire = m.wire /\ (conn'[c].dead => conn[c].dead)
          BY <1>3, <2>1, <3>2 DEF SameRead
        <4>2. conn'[c].wbuf = t /\ conn'[c].wsz = PduSize /\ conn'[c].wlong = m.wlong
          BY <2>1, <3>2
        <4>3. \/ conn'[c].wbuf = t /\ conn'[c].wsz = PduSize /\ conn'[c].wlong = m.wlong
              \/ conn'[c].wbuf = None /\ m.wlong = PduSize
          BY <4>2
        <4>4. worker[t].c = c /\ worker[t].req = r /\ k.wire = conn[c].wire /\ SameRead(conn[c], k)
          BY <1>0, <1>3, <1>r
        <4>5. worker'[t].pc \in Answering /\ worker'[t].req = r
          BY <3>3
        <4> QED BY <1>2, <2>2, <4>1, <4>3, <4>4, <4>5, MoreWritten
      <3> QED BY <1>1, <1>2, <3>2, <3>3, <3>4, WritingRequests
    <2> QED BY <2>3, <2>4
  <1> QED BY <1>4, <1>8, <1>9, <1>b, <1>c
-----------------------------------------------------------------------------
(* The invariant and what follows from it                                  *)

\* All requests are with their peers when the server starts.
LEMMA InitRequests == Init => RequestInv
  <1> SUFFICES ASSUME Init PROVE RequestInv
    OBVIOUS
  <1>1. ASSUME NEW c \in Fds PROVE Blank(conn[c])
    <2>1. conn[c] = CASE c = 1 -> [Fresh(1) EXCEPT !.refno = 2, !.sock = 1]
                      [] c = 2 -> Fresh(2)
                      [] OTHER -> Closed
      BY DEF Init
    <2>2. Blank([Fresh(1) EXCEPT !.refno = 2, !.sock = 1])
      BY DEF Blank, Fresh
    <2> QED BY <2>1, <2>2, FreshIsBlank, ClosedIsBlank
  <1>2. ASSUME NEW req \in Requests, NEW p \in Places(req) PROVE p = <<"peer", None>>
    <2>1. \A c \in Fds : ~Coming(conn[c], req) /\ conn[c].rreq # req
      BY <1>1, BlankHolds
    <2>2. ~Awaits(req)
      BY DEF Awaits, Init
    <2>3. \A t \in Workers : worker[t].req # req
      BY ConnectionAssumption DEF Init, Asleep
    <2> QED BY <1>2, <2>1, <2>2, <2>3, PlaceIs
  <1>3. OnePlace
    BY <1>2 DEF OnePlace
  <1>4. QueuedOnce
    BY DEF QueuedOnce, Init
  <1>5. OkReplied
    BY DEF OkReplied, Init, Asleep
  <1>6. OnceAnswered
    <2>1. \A c \in Fds, req \in Requests : ~Replied(c, req)
      BY <1>1, BlankHolds DEF Replied
    <2> QED BY <2>1 DEF OnceAnswered
  <1>7. ASSUME NEW c \in Fds PROVE ReadOrder(conn[c]) /\ WroteAt(c)
    <2>1. Blank(conn[c])
      BY <1>1
    <2>2. ReadOrder(conn[c])
      BY <2>1 DEF Blank, ReadOrder
    <2>3. WroteAt(c)
      <3>1. Len(conn[c].wire) % 2 = 0
        BY <2>1 DEF Blank
      <3> QED BY <2>1, <3>1 DEF Blank, WroteAt, Pairs
    <2> QED BY <2>2, <2>3
  <1> QED BY <1>3, <1>4, <1>5, <1>6, <1>7 DEF RequestInv

\* Every step of every thread, of the peers and of the network preserves it.
LEMMA RequestNext ==
  ConnInv /\ ConnInv' /\ WaitInv /\ RequestInv /\ [Next]_vars => RequestInv'
  <1> SUFFICES ASSUME ConnInv, ConnInv', WaitInv, RequestInv, [Next]_vars PROVE RequestInv'
    OBVIOUS
  <1>1. CASE UNCHANGED vars
    <2>1. UNCHANGED <<conn, jobq, unsent, worker>>
      BY <1>1 DEF vars, peerVars
    <2>2. \A d \in Fds : SameStreams(conn[d], conn'[d])
      BY <2>1 DEF SameStreams, SameRead, SameWritten, SameBuffer
    <2> QED BY <2>1, <2>2, OutsideRequests
  <1>2. CASE PollStep
    BY <1>2, StartRoundRequests, SelectRequests, ServeReadableRequests, ServeWritableRequests
       DEF PollStep
  <1>3. ASSUME NEW t \in Workers, WorkerStep(t) PROVE RequestInv'
    BY <1>3, TakeJobRequests, DispatchRequests, PickConnectionRequests, SendRequests,
       CompletedRequests, BlockRemoveRequests, RemovedRequests, ReturnRequests DEF WorkerStep
  <1>4. CASE Accept \/ AcceptorStep
    BY <1>4, AcceptRequests, AcceptorRequests
  <1>5. CASE PeerStep
    BY <1>5, PeerRequests
  <1> QED BY <1>1, <1>2, <1>3, <1>4, <1>5 DEF Next, AtRest

\* The invariant of the transport holds in every reachable state: a request moves from
\* one place to the next, each part of a reply is written after the one before, and
\* references and waits are as in ConnInv and WaitInv (readpdu, got_pdu, fifo, send).
THEOREM TransportInvariant == Spec => []TransportInv
  <1>1. Init => TransportInv
    BY InitInv, InitWaits, InitRequests DEF TransportInv
  <1>2. TransportInv /\ [Next]_vars => TransportInv'
    BY ConnNext, WaitNext, RequestNext DEF TransportInv
  <1> QED BY <1>1, <1>2, PTL DEF Spec

\* A set of which any two members are the same.
LEMMA AtMostOne ==
  ASSUME NEW S, \A x, y \in S : x = y
  PROVE  Cardinality(S) \in {0, 1} /\ (S = {} <=> Cardinality(S) = 0)
  <1>1. CASE S = {}
    BY <1>1, FS_EmptySet
  <1>2. CASE S # {}
    <2>1. PICK x : x \in S
      BY <1>2
    <2>2. S = {x}
      BY <2>1
    <2> QED BY <2>2, FS_Singleton
  <1> QED BY <1>1, <1>2

\* Every request is dispatched once and answered on one connection at most, however
\* often the queue is full, descriptors are used again and replies change connections.
THEOREM TakenOnceHolds == Spec => []TakenOnce
  <1>1. TransportInv => TakenOnce
    <2> SUFFICES ASSUME TransportInv, NEW req \in Requests
                 PROVE  LET read == Cardinality({c \in Fds : conn[c].rreq = req})
                            queued == Cardinality({i \in DOMAIN jobq : jobq[i].req = req})
                            running == Cardinality({t \in Workers : worker[t].req = req})
                            replied == {c \in Fds : <<req, 2>> \in Range(conn[c].wire)} IN
                        /\ read + queued + running <= 1
                        /\ Cardinality(replied) <= 1
                        /\ replied # {} => read + queued = 0
      BY DEF TakenOnce
    <2>0. RequestInv
      BY DEF TransportInv
    <2> DEFINE R == {c \in Fds : conn[c].rreq = req}
               Q == {i \in DOMAIN jobq : jobq[i].req = req}
               W == {t \in Workers : worker[t].req = req}
               A == {c \in Fds : <<req, 2>> \in Range(conn[c].wire)}
    <2>1. \A c \in R : <<"rpdu", c>> \in Places(req)
      BY PlaceIs
    <2>2. Q # {} => <<"jobq", None>> \in Places(req)
      BY PlaceIs DEF Awaits
    <2>3. \A t \in W : <<"thread", t>> \in Places(req)
      BY PlaceIs
    <2>4. \A p, q \in Places(req) : p = q
      BY <2>0 DEF RequestInv, OnePlace
    <2>5. /\ \A x, y \in R : x = y
          /\ \A x, y \in W : x = y
      BY <2>1, <2>3, <2>4
    <2>6. \A x, y \in Q : x = y
      BY <2>0 DEF RequestInv, QueuedOnce
    <2>7. \A x, y \in A : x = y
      BY <2>0 DEF RequestInv, OnceAnswered, Replied
    <2>8. /\ R = {} \/ Q = {}
          /\ R = {} \/ W = {}
          /\ Q = {} \/ W = {}
      BY <2>1, <2>2, <2>3, <2>4
    <2>9. A # {} => R = {} /\ Q = {}
      <3>1. A # {} => \A p \in Places(req) : \E t \in Workers : p = <<"thread", t>>
        BY <2>0 DEF RequestInv, OnceAnswered, Replied
      <3> QED BY <2>1, <2>2, <3>1
    <2> HIDE DEF R, Q, W, A
    <2>a. /\ Cardinality(R) \in {0, 1} /\ (R = {} <=> Cardinality(R) = 0)
          /\ Cardinality(Q) \in {0, 1} /\ (Q = {} <=> Cardinality(Q) = 0)
          /\ Cardinality(W) \in {0, 1} /\ (W = {} <=> Cardinality(W) = 0)
          /\ Cardinality(A) \in {0, 1}
      BY <2>5, <2>6, <2>7, AtMostOne
    <2>b. /\ Cardinality(R) + Cardinality(Q) + Cardinality(W) <= 1
          /\ Cardinality(A) <= 1
          /\ A # {} => Cardinality(R) + Cardinality(Q) = 0
      BY <2>8, <2>9, <2>a
    <2> QED BY <2>b DEF R, Q, W, A
  <1> QED BY <1>1, TransportInvariant, PTL

\* The parts of two replies never mix on a connection, and a send that returned true
\* has written its reply, whichever threads send and however the writes are cut.
THEOREM WireWholeHolds == Spec => []WireWhole
  <1>1. TransportInv => WireWhole
    BY DEF TransportInv, RequestInv, WroteAt, OkReplied, Replied, WireWhole, Opened
  <1> QED BY <1>1, TransportInvariant, PTL

=============================================================================
