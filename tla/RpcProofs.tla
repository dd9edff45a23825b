----------------------------- MODULE RpcProofs ------------------------------
(***************************************************************************)
(* RpcInv is an inductive invariant of Rpc, whatever the numbers of calls, *)
(* connections and server instances; at-most-once execution follows.  With *)
(* it AnswerInv is one as well: what the caller is told is true.           *)
(***************************************************************************)
EXTENDS Rpc, TLAPS

USE BoundAssumption, FlagAssumption DEF Xids, Conns, Srvs

\* update_xid_rep moves the acknowledged front at most to the number inserted
\* or to one inserted before.
LEMMA UpdateXidRepBounded ==
  ASSUME NEW n \in Nat, NEW x \in Xids, x < n,
         repFront \in 0..MaxXid, repFront < n,
         repAbove \subseteq Xids, \A y \in repAbove : y < n,
         UpdateXidRep(x)
  PROVE  /\ repFront' \in 0..MaxXid /\ repFront' < n
         /\ repAbove' \subseteq Xids /\ \A y \in repAbove' : y < n
<1>1. CASE x <= repFront
  BY <1>1 DEF UpdateXidRep
<1>2. CASE ~ (x <= repFront)
  <2>1. PICK f \in {repFront} \cup (repAbove \cup {x}) :
          /\ repFront' = f
          /\ repAbove' = {y \in repAbove \cup {x} : y > f}
    BY <1>2 DEF UpdateXidRep
  <2>2. f \in 0..MaxXid /\ f < n
    BY <2>1
  <2>. QED BY <2>1, <2>2
<1>. QED BY <1>1, <1>2

-----------------------------------------------------------------------------
(* Initially                                                               *)

\* The initial state of client and server satisfies the invariant.
LEMMA RpcInit == Init => RpcInv
<1>. SUFFICES ASSUME Init PROVE RpcInv
  OBVIOUS
<1>. USE DEF Init
<1>1. TypeOK
  BY DEF TypeOK, CallTypes, RepTypes, ConnTypes, NetTypes, ServerTypes
<1>2. HeaderInv
  BY DEF HeaderInv
<1>3. RanInv
  BY DEF RanInv, RanIsSeen, RunsOnce, RightInstance, ClientKnown, Running
<1>4. AtMostOnce
  BY DEF AtMostOnce
<1>. QED BY <1>1, <1>2, <1>3, <1>4 DEF RpcInv

-----------------------------------------------------------------------------
(* Client and network: one step per action.  The server's part of the      *)
(* invariant only depends on its state and the headers of started calls.   *)

\* What holds of the server is kept by a step that leaves its state and the
\* headers of started calls alone.
LEMMA ServerPartKept ==
  ASSUME RpcInv, UNCHANGED srvVars, xid' \in Nat, xid <= xid',
         \A x \in Xids : x < xid => hdr'[x] = hdr[x]
  PROVE  ServerTypes' /\ RanInv' /\ AtMostOnce'
<1>. USE DEF srvVars
<1>1. \A j \in jobs : j.xid \in Xids /\ j.xid < xid
  BY DEF RpcInv, TypeOK, ServerTypes, HeaderInv
<1>2. \A x \in Xids, s \in Srvs : times[x][s] > 0 => x < xid
  BY DEF RpcInv, RanInv, RightInstance
<1>3. xid \in Nat /\ srv \in Nat
  BY DEF RpcInv, TypeOK, CallTypes, ServerTypes
<1>4. ServerTypes'
  BY DEF RpcInv, TypeOK, ServerTypes
<1>5. RanIsSeen'
  BY DEF RpcInv, RanInv, RanIsSeen, Running, Seen
<1>6. RunsOnce'
  BY DEF RpcInv, RanInv, RunsOnce, Running
<1>7. RightInstance'
  <2>1. ASSUME NEW j \in jobs', j.stage # "queued"
        PROVE  (hdr[j.xid].srv \in {0, srv})'
    BY <1>1, <2>1 DEF RpcInv, RanInv, RightInstance
  <2>2. ASSUME NEW x \in Xids, NEW s \in Srvs, times'[x][s] > 0
        PROVE  (s <= srv /\ x < xid /\ hdr[x].srv \in {0, s})'
    BY <1>2, <1>3, <2>2 DEF RpcInv, RanInv, RightInstance
  <2>. QED BY <2>1, <2>2 DEF RightInstance
<1>8. AtMostOnce'
  <2>1. ASSUME NEW x \in Xids, NEW s \in Srvs
        PROVE  (times[x][s] <= 1 /\ (times[x][s] = 1 /\ hdr[x].srv # 0 => s = hdr[x].srv))'
    BY <1>2 DEF RpcInv, AtMostOnce
  <2>. QED BY <2>1 DEF AtMostOnce
<1>9. ClientKnown'
  BY DEF RpcInv, RanInv, ClientKnown
<1>. QED BY <1>4, <1>5, <1>6, <1>7, <1>8, <1>9 DEF RanInv

\* rpcc::call1, first part.
LEMMA StartCallKeeps ==
  ASSUME RpcInv, NEW x \in Xids, StartCall(x) PROVE RpcInv'
<1>. USE DEF StartCall
<1>1. CallTypes'
  BY DEF RpcInv, TypeOK, CallTypes, RepTypes
<1>2. RepTypes' /\ ConnTypes' /\ NetTypes'
  BY DEF RpcInv, TypeOK, RepTypes, ConnTypes, NetTypes, repVars, connVars, netVars
<1>3. HeaderInv'
  <2>1. \A y \in Xids : (y >= xid => call[y] = "idle")'
    BY DEF RpcInv, TypeOK, CallTypes, HeaderInv
  <2>2. (repFront < xid /\ dupReq < xid /\ \A y \in repAbove : y < xid)'
    BY DEF RpcInv, TypeOK, CallTypes, RepTypes, HeaderInv, repVars
  <2>3. \A y \in Xids : (hdr[y].rep < y)'
    BY DEF RpcInv, TypeOK, CallTypes, HeaderInv
  <2>4. \A m \in (reqs \cup reps \cup jobs)' : (m.xid < xid)'
    <3>1. \A m \in reqs \cup reps \cup jobs : m.xid < xid
      BY DEF RpcInv, HeaderInv
    <3>2. \A m \in reqs \cup reps \cup jobs : m.xid \in Nat
      BY DEF RpcInv, TypeOK, NetTypes, ServerTypes
    <3>3. xid \in Nat
      BY DEF RpcInv, TypeOK, CallTypes
    <3>. QED BY <3>1, <3>2, <3>3 DEF netVars, srvVars
  <2>. QED BY <2>1, <2>2, <2>3, <2>4 DEF HeaderInv
<1>4. ServerTypes' /\ RanInv' /\ AtMostOnce'
  <2>1. \A y \in Xids : y < xid => hdr'[y] = hdr[y]
    BY DEF RpcInv, TypeOK, CallTypes
  <2>. QED BY <2>1, ServerPartKept DEF RpcInv, TypeOK, CallTypes
<1>. QED BY <1>1, <1>2, <1>3, <1>4 DEF RpcInv, TypeOK

\* rpcc::call1, (re)transmission.
LEMMA TransmitKeeps ==
  ASSUME RpcInv, NEW x \in Xids, Transmit(x) PROVE RpcInv'
<1>1. x < xid
  BY DEF Transmit, RpcInv, HeaderInv, TypeOK, CallTypes
<1>2. PICK c \in Conns, old \in SUBSET (Xids \cap {dupReq}) :
        /\ chan' = c
        /\ cch' = [cch EXCEPT ![x] = c]
        /\ reqs' = reqs \cup Sent([xid : old \cup {x}, conn : {c}])
        /\ dupReq' \in {0, dupReq}
  <2>1. dupReq # 0 => {dupReq} \in SUBSET (Xids \cap {dupReq})
    BY DEF RpcInv, TypeOK, RepTypes
  <2>. QED BY <2>1 DEF Transmit
<1>3. \A m \in reqs' \ reqs : m \in [xid : Xids, conn : Conns] /\ m.xid < xid
  BY <1>1, <1>2 DEF Sent, RpcInv, HeaderInv
<1>. USE DEF Transmit
<1>4. CallTypes'
  BY <1>2 DEF RpcInv, TypeOK, CallTypes
<1>5. RepTypes' /\ ConnTypes'
  BY <1>2 DEF RpcInv, TypeOK, RepTypes, ConnTypes
<1>5b. NetTypes'
  BY <1>3 DEF RpcInv, TypeOK, NetTypes
<1>6. HeaderInv'
  <2>1. \A y \in Xids : (y >= xid => call[y] = "idle")'
    BY <1>1 DEF RpcInv, TypeOK, CallTypes, HeaderInv
  <2>2. (repFront < xid /\ dupReq < xid /\ \A y \in repAbove : y < xid)'
    BY <1>1, <1>2 DEF RpcInv, HeaderInv, TypeOK, CallTypes
  <2>3. \A m \in (reqs \cup reps \cup jobs)' : (m.xid < xid)'
    BY <1>3 DEF RpcInv, HeaderInv, srvVars
  <2>. QED BY <2>1, <2>2, <2>3 DEF RpcInv, HeaderInv
<1>7. ServerTypes' /\ RanInv' /\ AtMostOnce'
  <2>1. xid \in Nat /\ UNCHANGED <<xid, hdr, srvVars>>
    BY DEF RpcInv, TypeOK, CallTypes
  <2>. QED BY <2>1, ServerPartKept
<1>. QED BY <1>4, <1>5, <1>5b, <1>6, <1>7 DEF RpcInv, TypeOK

\* rpcc::got_pdu and the end of call1.
LEMMA GotReplyKeeps ==
  ASSUME RpcInv, NEW m \in reps, GotReply(m) PROVE RpcInv'
<1>0. /\ xid \in Nat /\ repFront \in 0..MaxXid /\ repFront < xid
      /\ repAbove \subseteq Xids /\ \A y \in repAbove : y < xid
  BY DEF RpcInv, TypeOK, CallTypes, RepTypes, HeaderInv
<1>1. m.xid \in Xids /\ m.ret \in Results /\ m.srv \in Srvs /\ m.xid < xid
  BY DEF RpcInv, TypeOK, NetTypes, HeaderInv, Outcomes, Results
<1>2. /\ repFront' \in 0..MaxXid /\ repFront' < xid
      /\ repAbove' \subseteq Xids /\ \A y \in repAbove' : y < xid
  BY <1>0, <1>1, UpdateXidRepBounded DEF GotReply
<1>3. /\ call' \in {call, [call EXCEPT ![m.xid] = m.ret]}
      /\ bound' \in {bound, m.srv}
      /\ dupReq' \in {dupReq, m.xid}
      /\ repDone' \in {repDone, hdr[m.xid].rep}
  BY DEF GotReply
<1>. USE DEF GotReply
<1>4. CallTypes'
  <2>1. call' \in [Xids -> {"idle", "new", "waiting"} \cup Results]
    BY <1>1, <1>3 DEF RpcInv, TypeOK, CallTypes
  <2>2. bound' \in 0..MaxSrv
    <3>1. bound \in 0..MaxSrv
      BY DEF RpcInv, TypeOK, CallTypes
    <3>. QED BY <1>1, <1>3, <3>1
  <2>. QED BY <2>1, <2>2 DEF RpcInv, TypeOK, CallTypes
<1>5. RepTypes'
  <2>1. hdr[m.xid].rep \in 0..MaxXid
    BY <1>1 DEF RpcInv, TypeOK, CallTypes
  <2>. QED BY <1>1, <1>2, <1>3, <2>1 DEF RpcInv, TypeOK, RepTypes
<1>5b. ConnTypes' /\ NetTypes'
  BY DEF RpcInv, TypeOK, ConnTypes, NetTypes, connVars
<1>6. HeaderInv'
  <2>1. \A y \in Xids : (y >= xid => call[y] = "idle")'
    <3>1. \A y \in Xids : y >= xid => call[y] = "idle" /\ y # m.xid
      BY <1>0, <1>1 DEF RpcInv, HeaderInv
    <3>. QED BY <1>3, <3>1 DEF RpcInv, TypeOK, CallTypes
  <2>2. (dupReq < xid)'
    BY <1>1, <1>3 DEF RpcInv, HeaderInv
  <2>3. \A n \in (reqs \cup reps \cup jobs)' : (n.xid < xid)'
    BY DEF RpcInv, HeaderInv, srvVars
  <2>. QED BY <1>2, <2>1, <2>2, <2>3 DEF RpcInv, HeaderInv
<1>7. ServerTypes' /\ RanInv' /\ AtMostOnce'
  <2>1. xid \in Nat /\ UNCHANGED <<xid, hdr, srvVars>>
    BY DEF RpcInv, TypeOK, CallTypes
  <2>. QED BY <2>1, ServerPartKept
<1>. QED BY <1>4, <1>5, <1>5b, <1>6, <1>7 DEF RpcInv, TypeOK

\* The end of call1 without a reply.
LEMMA TimeoutKeeps ==
  ASSUME RpcInv, NEW x \in Xids, Timeout(x) PROVE RpcInv'
<1>0. /\ xid \in Nat /\ repFront \in 0..MaxXid /\ repFront < xid
      /\ repAbove \subseteq Xids /\ \A y \in repAbove : y < xid
  BY DEF RpcInv, TypeOK, CallTypes, RepTypes, HeaderInv
<1>1. x < xid
  BY DEF Timeout, RpcInv, HeaderInv, TypeOK, CallTypes
<1>2. /\ repFront' \in 0..MaxXid /\ repFront' < xid
      /\ repAbove' \subseteq Xids /\ \A y \in repAbove' : y < xid
  BY <1>0, <1>1, UpdateXidRepBounded DEF Timeout
<1>. USE DEF Timeout
<1>3. CallTypes'
  BY DEF RpcInv, TypeOK, CallTypes, Results
<1>4. RepTypes' /\ ConnTypes' /\ NetTypes'
  BY <1>2 DEF RpcInv, TypeOK, RepTypes, ConnTypes, NetTypes, connVars, netVars
<1>5. HeaderInv'
  <2>1. \A y \in Xids : (y >= xid => call[y] = "idle")'
    BY <1>1 DEF RpcInv, TypeOK, CallTypes, HeaderInv
  <2>2. \A n \in (reqs \cup reps \cup jobs)' : (n.xid < xid)'
    BY DEF RpcInv, HeaderInv, netVars, srvVars
  <2>. QED BY <1>2, <2>1, <2>2 DEF RpcInv, HeaderInv
<1>6. ServerTypes' /\ RanInv' /\ AtMostOnce'
  <2>1. xid \in Nat /\ UNCHANGED <<xid, hdr, srvVars>>
    BY DEF RpcInv, TypeOK, CallTypes
  <2>. QED BY <2>1, ServerPartKept
<1>. QED BY <1>3, <1>4, <1>5, <1>6 DEF RpcInv, TypeOK

\* Connections break and are found dead: calls and server are as before.
LEMMA ConnectionKeeps ==
  ASSUME RpcInv, NEW c \in Conns, Break(c) \/ ClientNotices(c) \/ ServerNotices(c)
  PROVE  RpcInv'
<1>1. /\ UNCHANGED <<callVars, repVars, srvVars, chan>>
      /\ reqs' \subseteq reqs /\ reps' \subseteq reps
      /\ broken' \in {broken, broken \cup {c}}
      /\ cdead' \in {cdead, cdead \cup {c}} /\ sdead' \in {sdead, sdead \cup {c}}
  BY DEF Break, ClientNotices, ServerNotices, netVars
<1>2. CallTypes' /\ RepTypes' /\ ConnTypes'
  BY <1>1 DEF RpcInv, TypeOK, CallTypes, RepTypes, ConnTypes, callVars, repVars
<1>3. NetTypes'
  BY <1>1 DEF RpcInv, TypeOK, NetTypes
<1>4. HeaderInv'
  BY <1>1 DEF RpcInv, HeaderInv, callVars, repVars, srvVars
<1>5. ServerTypes' /\ RanInv' /\ AtMostOnce'
  BY <1>1, ServerPartKept DEF RpcInv, TypeOK, CallTypes, callVars
<1>. QED BY <1>2, <1>3, <1>4, <1>5 DEF RpcInv, TypeOK

-----------------------------------------------------------------------------
(* The server's dispatch threads: one step per action.                     *)

\* What holds of client and connections is kept by a server step that only
\* adds replies to requests it holds.
LEMMA ClientPartKept ==
  ASSUME RpcInv, UNCHANGED <<callVars, repVars, connVars>>,
         reqs' \subseteq reqs,
         \A m \in reps' \ reps :
           /\ m \in [xid : Xids, conn : Conns, ret : Outcomes, srv : Srvs]
           /\ m.xid < xid,
         \A j \in jobs' : j.xid < xid
  PROVE  CallTypes' /\ RepTypes' /\ ConnTypes' /\ NetTypes' /\ HeaderInv'
<1>1. CallTypes' /\ RepTypes'
  BY DEF RpcInv, TypeOK, CallTypes, RepTypes, callVars, repVars
<1>2. ConnTypes'
  BY DEF RpcInv, TypeOK, ConnTypes, connVars
<1>3. NetTypes'
  BY DEF RpcInv, TypeOK, NetTypes
<1>4. HeaderInv'
  <2>1. \A m \in (reqs \cup reps \cup jobs)' : (m.xid < xid)'
    BY DEF RpcInv, HeaderInv, callVars
  <2>. QED BY <2>1 DEF RpcInv, HeaderInv, callVars, repVars
<1>. QED BY <1>1, <1>2, <1>3, <1>4

\* A reply to a request that exists is well typed.
LEMMA ReplyTyped ==
  ASSUME RpcInv, NEW x \in Xids, x < xid, NEW c \in Conns, NEW ret \in Outcomes,
         Reply(x, c, ret)
  PROVE  \A m \in reps' \ reps :
           /\ m \in [xid : Xids, conn : Conns, ret : Outcomes, srv : Srvs]
           /\ m.xid < xid
  BY DEF Reply, Sent, RpcInv, TypeOK, ConnTypes, ServerTypes

\* The jobs of the server belong to calls that were started; those that passed
\* the checks have a connection to answer on and the right instance.
LEMMA JobTyped ==
  ASSUME RpcInv, NEW j \in jobs
  PROVE  /\ j.xid \in Xids /\ j.xid < xid /\ j.conn \in Conns
         /\ j.stage # "queued" => /\ hdr[j.xid].srv \in {0, srv}
                                 /\ j.conn <= latest /\ latest \in Conns
  BY DEF RpcInv, TypeOK, ServerTypes, HeaderInv, RanInv, RightInstance, ClientKnown

\* A job that ends takes nothing of the server's part with it.
LEMMA FewerJobs ==
  ASSUME RpcInv, jobs' \subseteq jobs,
         UNCHANGED <<callVars, srv, latest, window, present, times>>
  PROVE  ServerTypes' /\ RanInv' /\ AtMostOnce'
<1>1. ServerTypes'
  BY DEF RpcInv, TypeOK, ServerTypes
<1>2. RanIsSeen' /\ RunsOnce'
  BY DEF RpcInv, RanInv, RanIsSeen, RunsOnce, Running, Seen
<1>3. RightInstance' /\ ClientKnown'
  BY DEF RpcInv, RanInv, RightInstance, ClientKnown, callVars
<1>4. AtMostOnce'
  BY DEF RpcInv, AtMostOnce, callVars
<1>. QED BY <1>1, <1>2, <1>3, <1>4 DEF RanInv

\* rpcs::got_pdu hands a request to a dispatch thread.
LEMMA ReceiveKeeps ==
  ASSUME RpcInv, NEW m \in reqs, Receive(m) PROVE RpcInv'
<1>. USE DEF Receive
<1>1. m.xid \in Xids /\ m.xid < xid /\ m.conn \in Conns
  BY DEF RpcInv, TypeOK, NetTypes, HeaderInv
<1>2. \A j \in jobs' \ jobs :
        j.xid = m.xid /\ j.stage = "queued"
  OBVIOUS
<1>3. CallTypes' /\ RepTypes' /\ ConnTypes' /\ NetTypes' /\ HeaderInv'
  BY <1>1, <1>2, ClientPartKept, JobTyped
<1>4. ServerTypes'
  <2>1. [xid |-> m.xid, conn |-> m.conn, stage |-> "queued"]
          \in [xid : Xids, conn : Conns, stage : Stages]
    BY <1>1 DEF Stages
  <2>. QED BY <2>1 DEF RpcInv, TypeOK, ServerTypes
<1>5. RanIsSeen' /\ RunsOnce'
  BY <1>2 DEF RpcInv, RanInv, RanIsSeen, RunsOnce, Running, Seen
<1>6. RightInstance' /\ ClientKnown'
  BY <1>2 DEF RpcInv, RanInv, RightInstance, ClientKnown, callVars
<1>7. AtMostOnce'
  BY DEF RpcInv, AtMostOnce, callVars
<1>. QED BY <1>3, <1>4, <1>5, <1>6, <1>7 DEF RpcInv, TypeOK, RanInv

\* rpcs::dispatch up to the choice of the latest connection.
LEMMA IdentifyClientKeeps ==
  ASSUME RpcInv, NEW j \in jobs, IdentifyClient(j) PROVE RpcInv'
<1>1. /\ UNCHANGED <<callVars, repVars, connVars, reqs>>
      /\ UNCHANGED <<srv, window, present, times>>
  BY DEF IdentifyClient
<1>2. CASE Finish(j) /\ Reply(j.xid, j.conn, "OLDSRV") /\ UNCHANGED latest
  <2>1. jobs' \subseteq jobs
    BY <1>2 DEF Finish
  <2>2. CallTypes' /\ RepTypes' /\ ConnTypes' /\ NetTypes' /\ HeaderInv'
    BY <1>1, <1>2, <2>1, ClientPartKept, JobTyped, ReplyTyped DEF Outcomes
  <2>3. ServerTypes' /\ RanInv' /\ AtMostOnce'
    BY <1>1, <1>2, <2>1, FewerJobs
  <2>. QED BY <2>2, <2>3 DEF RpcInv, TypeOK
<1>3. CASE /\ hdr[j.xid].srv \in {0, srv}
           /\ Advance(j, "known")
           /\ latest' = IF latest < j.conn THEN j.conn ELSE latest
           /\ UNCHANGED reps
  <2>1. \A k \in jobs' \ jobs :
          k.xid = j.xid /\ k.conn = j.conn /\ k.stage = "known"
    BY <1>3, JobTyped DEF Advance, RpcInv, TypeOK, ServerTypes
  <2>2. CallTypes' /\ RepTypes' /\ ConnTypes' /\ NetTypes' /\ HeaderInv'
    BY <1>1, <1>3, <2>1, ClientPartKept, JobTyped
  <2>3. latest' \in 0..MaxConn /\ latest <= latest' /\ j.conn <= latest'
    <3>1. latest \in 0..MaxConn
      BY DEF RpcInv, TypeOK, ServerTypes
    <3>2. j.conn \in Conns
      BY JobTyped
    <3>. QED BY <1>3, <3>1, <3>2
  <2>4. ServerTypes'
    <3>1. jobs' \subseteq [xid : Xids, conn : Conns, stage : Stages]
      BY <1>3 DEF Advance, RpcInv, TypeOK, ServerTypes, Stages
    <3>. QED BY <1>1, <2>3, <3>1 DEF RpcInv, TypeOK, ServerTypes
  <2>5. RanIsSeen' /\ RunsOnce'
    BY <1>1, <2>1 DEF RpcInv, RanInv, RanIsSeen, RunsOnce, Running, Seen
  <2>6. RightInstance'
    BY <1>1, <1>3, <2>1 DEF RpcInv, RanInv, RightInstance, callVars
  <2>7. ClientKnown'
    <3>1. ASSUME NEW k \in jobs', k.stage # "queued", k \in jobs
          PROVE  k.conn <= latest'
      <4>1. k.conn \in Nat /\ k.conn <= latest
        BY <3>1, JobTyped
      <4>2. latest \in Nat /\ latest' \in Nat
        BY <2>3 DEF RpcInv, TypeOK, ServerTypes
      <4>. QED BY <2>3, <4>1, <4>2
    <3>. QED BY <2>1, <2>3, <3>1 DEF ClientKnown
  <2>8. AtMostOnce'
    BY <1>1 DEF RpcInv, AtMostOnce, callVars
  <2>. QED BY <2>2, <2>4, <2>5, <2>6, <2>7, <2>8 DEF RpcInv, TypeOK, RanInv
<1>. QED BY <1>2, <1>3 DEF IdentifyClient, RpcInv, TypeOK, CallTypes, ServerTypes

\* checkduplicate_and_update: a new request enters the window, and what leaves
\* the window is still refused.
LEMMA NewRequest ==
  ASSUME RpcInv, NEW x \in Xids, x \notin window, ~ Forgotten(x),
         window' = Kept(window \cup {x}, hdr[x].rep)
  PROVE  /\ ~ Seen(x) /\ Seen(x)' /\ window' \subseteq Xids
         /\ \A y \in Xids : Seen(y) => Seen(y)'
<1>1. hdr[x].rep \in Nat /\ hdr[x].rep < x /\ window \subseteq Xids
  BY DEF RpcInv, TypeOK, CallTypes, ServerTypes, HeaderInv
<1>2. x \in window' /\ window' \subseteq window \cup {x}
  BY <1>1 DEF Kept
<1>3. ASSUME NEW y \in Xids, y \in window PROVE Seen(y)'
  BY <1>1, <1>2, <1>3 DEF Seen, Kept
<1>4. ASSUME NEW y \in Xids, window # {}, \A z \in window : z > y PROVE Seen(y)'
  <2>1. PICK z \in window : ~ (z > x)
    BY <1>4 DEF Forgotten
  <2>2. x > y
    BY <1>1, <1>4, <2>1
  <2>. QED BY <1>2, <1>4, <2>2 DEF Seen
<1>. QED BY <1>1, <1>2, <1>3, <1>4 DEF Seen, Forgotten

\* checkduplicate_and_update and the switch on its result.
LEMMA CheckDuplicateKeeps ==
  ASSUME RpcInv, NEW j \in jobs, CheckDuplicate(j) PROVE RpcInv'
<1>. DEFINE x == j.xid
<1>0. x \in Xids /\ x < xid /\ j.conn \in Conns /\ j.stage = "known"
  BY JobTyped DEF CheckDuplicate
<1>1. /\ UNCHANGED <<callVars, repVars, connVars, reqs>>
      /\ UNCHANGED <<srv, latest, times>> /\ present' = present \cap window'
  BY DEF CheckDuplicate
<1>2. CASE /\ Finish(j) /\ UNCHANGED window
           /\ (\E ret \in {"OK", "FORGOTTEN"} : Reply(x, j.conn, ret)) \/ UNCHANGED reps
  <2>1. jobs' \subseteq jobs
    BY <1>2 DEF Finish
  <2>2. CallTypes' /\ RepTypes' /\ ConnTypes' /\ NetTypes' /\ HeaderInv'
    <3>1. ASSUME NEW ret \in Outcomes, Reply(x, j.conn, ret)
          PROVE  \A m \in reps' \ reps :
                   /\ m \in [xid : Xids, conn : Conns, ret : Outcomes, srv : Srvs]
                   /\ m.xid < xid
      BY <1>0, <3>1, ReplyTyped
    <3>2. {"OK", "FORGOTTEN"} \subseteq Outcomes
      BY DEF Outcomes
    <3>. QED BY <1>1, <1>2, <2>1, <3>1, <3>2, ClientPartKept, JobTyped
  <2>3. present' = present
    BY <1>1, <1>2 DEF RpcInv, TypeOK, ServerTypes
  <2>4. ServerTypes' /\ RanInv' /\ AtMostOnce'
    BY <1>1, <1>2, <2>1, <2>3, FewerJobs
  <2>. QED BY <2>2, <2>4 DEF RpcInv, TypeOK
<1>3. CASE /\ x \notin window /\ ~ Forgotten(x)
           /\ window' = Kept(window \cup {x}, hdr[x].rep)
           /\ Advance(j, "running") /\ UNCHANGED reps
  <2>1. \A k \in jobs' \ jobs :
          k.xid = x /\ k.conn = j.conn /\ k.stage = "running"
    BY <1>3, JobTyped DEF Advance, RpcInv, TypeOK, ServerTypes
  <2>2. \A k, l \in jobs' \ jobs : k = l
    BY <1>3 DEF Advance
  <2>3. CallTypes' /\ RepTypes' /\ ConnTypes' /\ NetTypes' /\ HeaderInv'
    BY <1>0, <1>1, <1>3, <2>1, ClientPartKept, JobTyped
  <2>4. /\ ~ Seen(x) /\ Seen(x)' /\ window' \subseteq Xids
        /\ \A y \in Xids : Seen(y) => Seen(y)'
    BY <1>0, <1>3, NewRequest
  <2>5. times[x][srv] = 0 /\ ~ Running(x)
    <3>1. ~ (times[x][srv] > 0) /\ ~ Running(x)
      BY <1>0, <2>4 DEF RpcInv, RanInv, RanIsSeen
    <3>2. times[x][srv] \in Nat
      BY <1>0 DEF RpcInv, TypeOK, ServerTypes
    <3>. QED BY <3>1, <3>2
  <2>6. ServerTypes'
    <3>1. jobs' \subseteq [xid : Xids, conn : Conns, stage : Stages]
      BY <1>3 DEF Advance, RpcInv, TypeOK, ServerTypes, Stages
    <3>. QED BY <1>1, <2>4, <3>1 DEF RpcInv, TypeOK, ServerTypes
  <2>7. RanIsSeen'
    <3>1. \A y \in Xids : Running(y)' => Running(y) \/ y = x
      BY <2>1 DEF Running
    <3>. QED BY <1>1, <2>4, <3>1 DEF RpcInv, RanInv, RanIsSeen
  <2>8. RunsOnce'
    <3>1. ASSUME NEW y \in Xids, Running(y)' PROVE (times[y][srv] = 0)'
      BY <1>1, <2>1, <2>5, <3>1 DEF RpcInv, RanInv, RunsOnce, Running
    <3>2. ASSUME NEW k \in jobs', NEW l \in jobs', k.stage = "running",
                 l.stage = "running", k.xid = l.xid
          PROVE  k = l
      BY <2>1, <2>2, <2>5, <3>2 DEF RpcInv, RanInv, RunsOnce, Running
    <3>. QED BY <3>1, <3>2 DEF RunsOnce
  <2>9. RightInstance' /\ ClientKnown'
    <3>1. hdr[x].srv \in {0, srv} /\ j.conn <= latest
      BY <1>0, JobTyped
    <3>2. ASSUME NEW k \in jobs', k.stage # "queued"
          PROVE  (hdr[k.xid].srv \in {0, srv} /\ k.conn <= latest)'
      BY <1>1, <2>1, <3>1, <3>2
      DEF RpcInv, RanInv, RightInstance, ClientKnown, callVars
    <3>. QED BY <1>1, <3>2 DEF RpcInv, RanInv, RightInstance, ClientKnown, callVars
  <2>10. AtMostOnce'
    BY <1>1 DEF RpcInv, AtMostOnce, callVars
  <2>. QED BY <2>3, <2>6, <2>7, <2>8, <2>9, <2>10 DEF RpcInv, TypeOK, RanInv
<1>. QED BY <1>2, <1>3 DEF CheckDuplicate

\* The handler runs, once, and its reply is kept.
LEMMA RunKeeps ==
  ASSUME RpcInv, NEW j \in jobs, Run(j) PROVE RpcInv'
<1>. DEFINE x == j.xid
<1>1. /\ x \in Xids /\ x < xid /\ j.conn \in Conns /\ j.stage = "running"
      /\ hdr[x].srv \in {0, srv} /\ j.conn <= latest /\ srv \in Srvs
  BY JobTyped DEF Run, RpcInv, TypeOK, ServerTypes
<1>2. /\ UNCHANGED <<callVars, repVars, connVars, netVars, srv, latest, window>>
      /\ present' \in {present, present \cup ({x} \cap window)}
  BY DEF Run, AddReply
<1>3. \A k \in jobs' \ jobs :
        k.xid = x /\ k.conn = j.conn /\ k.stage = "replying"
  BY <1>1 DEF Run, Advance, RpcInv, TypeOK, ServerTypes
<1>4. /\ times[x][srv] = 0 /\ Seen(x)
      /\ \A k \in jobs' : k.stage = "running" => k \in jobs /\ k.xid # x
  <2>1. Running(x)
    BY <1>1 DEF Running
  <2>2. times[x][srv] = 0 /\ Seen(x)
    BY <1>1, <2>1 DEF RpcInv, RanInv, RanIsSeen, RunsOnce
  <2>3. ASSUME NEW k \in jobs', k.stage = "running"
        PROVE  k \in jobs /\ k # j
    BY <1>1, <2>3 DEF Run, Advance, RpcInv, TypeOK, ServerTypes
  <2>. QED BY <1>1, <2>2, <2>3 DEF RpcInv, RanInv, RunsOnce
<1>5. /\ times' \in [Xids -> [Srvs -> Nat]] /\ times'[x][srv] = 1
      /\ \A y \in Xids, s \in Srvs :
           y # x \/ s # srv => times'[y][s] = times[y][s]
  <2>1. times' = [times EXCEPT ![x] = [times[x] EXCEPT ![srv] = times[x][srv] + 1]]
    BY DEF Run
  <2>2. times \in [Xids -> [Srvs -> Nat]]
    BY DEF RpcInv, TypeOK, ServerTypes
  <2>3. /\ times' \in [Xids -> [Srvs -> Nat]]
        /\ times'[x] = [times[x] EXCEPT ![srv] = 1]
        /\ \A y \in Xids : y # x => times'[y] = times[y]
    <3>1. times[x] \in [Srvs -> Nat] /\ times[x][srv] + 1 = 1
      <4>1. times[x] \in [Srvs -> Nat]
        BY <1>1, <2>2
      <4>. QED BY <1>4, <4>1
    <3>2. [times[x] EXCEPT ![srv] = 1] \in [Srvs -> Nat]
      BY <1>1, <3>1
    <3>3. times' = [times EXCEPT ![x] = [times[x] EXCEPT ![srv] = 1]]
      BY <2>1, <3>1
    <3>. QED BY <1>1, <2>2, <3>2, <3>3
  <2>. QED BY <1>1, <2>2, <2>3
<1>6. CallTypes' /\ RepTypes' /\ ConnTypes' /\ NetTypes' /\ HeaderInv'
  BY <1>1, <1>2, <1>3, ClientPartKept, JobTyped DEF netVars
<1>7. ServerTypes'
  <2>1. jobs' \subseteq [xid : Xids, conn : Conns, stage : Stages]
    BY DEF Run, Advance, RpcInv, TypeOK, ServerTypes, Stages
  <2>. QED BY <1>2, <1>5, <2>1 DEF RpcInv, TypeOK, ServerTypes
<1>8. RanIsSeen'
  <2>1. \A y \in Xids : Running(y)' => Running(y)
    BY <1>4 DEF Running
  <2>2. \A y \in Xids : Seen(y)' <=> Seen(y)
    BY <1>2 DEF Seen
  <2>3. ASSUME NEW y \in Xids, Running(y)' \/ times'[y][srv'] > 0
        PROVE  Seen(y)'
    <3>1. CASE y = x
      BY <1>4, <2>2, <3>1
    <3>2. CASE y # x
      BY <1>1, <1>2, <1>5, <2>1, <2>2, <2>3, <3>2 DEF RpcInv, RanInv, RanIsSeen
    <3>. QED BY <3>1, <3>2
  <2>. QED BY <2>3 DEF RanIsSeen
<1>9. RunsOnce'
  <2>1. \A y \in Xids : Running(y)' => Running(y) /\ y # x
    BY <1>4 DEF Running
  <2>2. \A y \in Xids : Running(y)' => (times[y][srv] = 0)'
    BY <1>1, <1>2, <1>5, <2>1 DEF RpcInv, RanInv, RunsOnce
  <2>3. ASSUME NEW k \in jobs', NEW l \in jobs', k.stage = "running",
               l.stage = "running", k.xid = l.xid
        PROVE  k = l
    BY <1>4, <2>3 DEF RpcInv, RanInv, RunsOnce
  <2>. QED BY <2>2, <2>3 DEF RunsOnce
<1>10. RightInstance' /\ ClientKnown'
  <2>1. ASSUME NEW k \in jobs', k.stage # "queued"
        PROVE  (hdr[k.xid].srv \in {0, srv} /\ k.conn <= latest)'
    BY <1>1, <1>2, <1>3, <2>1
    DEF RpcInv, RanInv, RightInstance, ClientKnown, callVars
  <2>2. ASSUME NEW y \in Xids, NEW s \in Srvs, times'[y][s] > 0
        PROVE  (s <= srv /\ y < xid /\ hdr[y].srv \in {0, s})'
    <3>1. CASE y = x /\ s = srv
      BY <1>1, <1>2, <3>1 DEF callVars
    <3>2. CASE y # x \/ s # srv
      BY <1>2, <1>5, <2>2, <3>2 DEF RpcInv, RanInv, RightInstance, callVars
    <3>. QED BY <3>1, <3>2
  <2>. QED BY <2>1, <2>2 DEF RightInstance, ClientKnown
<1>11. AtMostOnce'
  <2>1. ASSUME NEW y \in Xids, NEW s \in Srvs
        PROVE  (/\ times[y][s] <= 1
                /\ times[y][s] = 1 /\ hdr[y].srv # 0 => s = hdr[y].srv)'
    <3>1. CASE y = x /\ s = srv
      <4>1. times'[y][s] = 1
        BY <1>5, <3>1
      <4>2. hdr'[y].srv \in {0, s}
        BY <1>1, <1>2, <3>1 DEF callVars
      <4>. QED BY <4>1, <4>2
    <3>2. CASE y # x \/ s # srv
      BY <1>2, <1>5, <3>2 DEF RpcInv, AtMostOnce, callVars
    <3>. QED BY <3>1, <3>2
  <2>. QED BY <2>1 DEF AtMostOnce
<1>. QED BY <1>6, <1>7, <1>8, <1>9, <1>10, <1>11 DEF RpcInv, TypeOK, RanInv

\* The reply leaves on the request's connection or on the latest one.
LEMMA SendReplyKeeps ==
  ASSUME RpcInv, NEW j \in jobs, SendReply(j) PROVE RpcInv'
<1>1. jobs' \subseteq jobs
  BY DEF SendReply, Finish
<1>2. ReplyConn(j) \in Conns
  BY JobTyped DEF SendReply, ReplyConn
<1>3. CallTypes' /\ RepTypes' /\ ConnTypes' /\ NetTypes' /\ HeaderInv'
  BY <1>1, <1>2, ClientPartKept, JobTyped, ReplyTyped DEF SendReply, Outcomes
<1>4. ServerTypes' /\ RanInv' /\ AtMostOnce'
  BY <1>1, FewerJobs DEF SendReply
<1>. QED BY <1>3, <1>4 DEF RpcInv, TypeOK

\* A new instance of the server has run nothing.
LEMMA RestartKeeps == ASSUME RpcInv, Restart PROVE RpcInv'
<1>1. /\ UNCHANGED <<callVars, repVars, chan, cdead, times>>
      /\ srv \in Srvs /\ srv' = srv + 1 /\ srv' \in Srvs /\ chan \in 0..MaxConn
      /\ window' = {} /\ present' = {} /\ jobs' = {} /\ latest' = 0
      /\ broken' = 1..chan /\ sdead' = 1..chan /\ reqs' = {} /\ reps' = {}
  BY DEF Restart, RpcInv, TypeOK, ServerTypes, ConnTypes
<1>2. CallTypes' /\ RepTypes'
  BY <1>1 DEF RpcInv, TypeOK, CallTypes, RepTypes, callVars, repVars
<1>3. ConnTypes' /\ NetTypes'
  BY <1>1 DEF RpcInv, TypeOK, ConnTypes, NetTypes
<1>4. ServerTypes'
  BY <1>1 DEF RpcInv, TypeOK, ServerTypes
<1>5. HeaderInv'
  BY <1>1 DEF RpcInv, HeaderInv, callVars, repVars
<1>6. \A y \in Xids : times[y][srv'] = 0
  BY <1>1 DEF RpcInv, TypeOK, ServerTypes, RanInv, RightInstance
<1>7. RanIsSeen' /\ RunsOnce' /\ ClientKnown'
  BY <1>1, <1>6 DEF RanIsSeen, RunsOnce, ClientKnown, Running
<1>8. RightInstance'
  BY <1>1 DEF RpcInv, RanInv, RightInstance, callVars
<1>9. AtMostOnce'
  BY <1>1 DEF RpcInv, AtMostOnce, callVars
<1>. QED BY <1>2, <1>3, <1>4, <1>5, <1>7, <1>8, <1>9 DEF RpcInv, TypeOK, RanInv

-----------------------------------------------------------------------------
(* The theorems                                                            *)

\* Every step of client, network and server keeps the invariant.
LEMMA RpcNext == RpcInv /\ [Next]_vars => RpcInv'
<1>. SUFFICES ASSUME RpcInv, [Next]_vars PROVE RpcInv'
  OBVIOUS
<1>1. ASSUME NEW x \in Xids, StartCall(x) \/ Transmit(x) \/ Timeout(x)
      PROVE  RpcInv'
  BY <1>1, StartCallKeeps, TransmitKeeps, TimeoutKeeps
<1>2. ASSUME NEW c \in Conns, Break(c) \/ ClientNotices(c) \/ ServerNotices(c)
      PROVE  RpcInv'
  BY <1>2, ConnectionKeeps
<1>3. CASE Deliver
  BY <1>3, ReceiveKeeps, GotReplyKeeps DEF Deliver
<1>4. CASE Dispatch
  BY <1>4, IdentifyClientKeeps, CheckDuplicateKeeps, RunKeeps, SendReplyKeeps
  DEF Dispatch
<1>5. CASE Restart
  BY <1>5, RestartKeeps
<1>6. CASE UNCHANGED vars
  <2>1. ServerTypes' /\ RanInv' /\ AtMostOnce'
    BY <1>6, ServerPartKept DEF vars, callVars, RpcInv, TypeOK, CallTypes
  <2>2. \A j \in jobs' : j.xid < xid
    BY <1>6, JobTyped DEF vars, srvVars
  <2>3. CallTypes' /\ RepTypes' /\ ConnTypes' /\ NetTypes' /\ HeaderInv'
    BY <1>6, <2>2, ClientPartKept DEF vars, netVars
  <2>. QED BY <2>1, <2>3 DEF RpcInv, TypeOK
<1>. QED BY <1>1, <1>2, <1>3, <1>4, <1>5, <1>6 DEF Next

\* In every reachable state the variables have their types, numbers that exist
\* belong to started calls, and what ran is still refused.
THEOREM RpcInvariant == Spec => []RpcInv
  BY RpcInit, RpcNext, PTL DEF Spec

\* No request is executed twice by one server instance, nor by an instance its
\* header does not name: for any number of calls, connections, restarts and
\* whatever is lost, repeated or reordered.
THEOREM AtMostOnceHolds == Spec => []AtMostOnce
<1>1. RpcInv => AtMostOnce
  BY DEF RpcInv
<1>. QED BY RpcInvariant, <1>1, PTL

-----------------------------------------------------------------------------
(* What callers are told                                                   *)

\* Initially nothing is answered, acknowledged or in the window.
LEMMA AnswerInit == Init => AnswerInv
BY DEF Init, AnswerInv, OkInv, BindInv, AckInv, FloorInv, Pending, Ran

\* How often handlers ran only grows.
LEMMA TimesGrow ==
  ASSUME RpcInv, [Next]_vars
  PROVE  \A x \in Xids, s \in Srvs : times[x][s] > 0 => times'[x][s] > 0
<1>. USE DEF srvVars
<1>1. times \in [Xids -> [Srvs -> Nat]] /\ srv \in Srvs
  BY DEF RpcInv, TypeOK, ServerTypes
<1>2. ASSUME NEW j \in jobs, Run(j)
      PROVE  \A x \in Xids, s \in Srvs : times[x][s] > 0 => times'[x][s] > 0
  <2>1. j.xid \in Xids
    BY JobTyped
  <2>2. times' = [times EXCEPT ![j.xid] = [times[j.xid] EXCEPT ![srv] = times[j.xid][srv] + 1]]
    BY <1>2 DEF Run
  <2>3. ASSUME NEW x \in Xids, NEW s \in Srvs
        PROVE  times'[x][s] \in {times[x][s], times[x][s] + 1} /\ times[x][s] \in Nat
    BY <1>1, <2>1, <2>2
  <2>. QED BY <2>3
<1>3. (\A j \in jobs : ~ Run(j)) => times' = times
  BY DEF Next, Deliver, Dispatch, StartCall, Transmit, Timeout, Break, ClientNotices,
         ServerNotices, Receive, GotReply, IdentifyClient, CheckDuplicate, SendReply,
         Restart, vars
<1>. QED BY <1>2, <1>3

\* A step that puts only true answers on the way keeps OkInv, if it takes only
\* true answers.
LEMMA OkKept ==
  ASSUME RpcInv, OkInv, [Next]_vars, srv' = srv,
         \A x \in present' : x \in present \/ Ran(x)',
         \A j \in jobs' : j.stage = "replying" => j \in jobs \/ Ran(j.xid)',
         \A m \in reps' : m \in reps \/ (m.srv = srv /\ (m.ret = "OK" => Ran(m.xid)')),
         \A x \in Xids : call'[x] = "OK" => call[x] = "OK" \/ Ran(x)'
  PROVE  OkInv'
<1>1. \A x \in Xids : Ran(x) => Ran(x)'
  BY TimesGrow DEF Ran, RpcInv, TypeOK, ServerTypes
<1>2. /\ present \subseteq Xids /\ srv \in Srvs
      /\ \A j \in jobs : j.xid \in Xids
      /\ \A m \in reps : m.xid \in Xids
  BY DEF RpcInv, TypeOK, ServerTypes, NetTypes
<1>3. \A x \in Xids : call'[x] = "OK" => \E s \in Srvs : times'[x][s] > 0
  BY <1>2, TimesGrow DEF OkInv, Ran
<1>. QED BY <1>1, <1>2, <1>3 DEF OkInv

\* Every step keeps OkInv.
LEMMA OkNext == ASSUME RpcInv, OkInv, [Next]_vars PROVE OkInv'
<1>0. srv \in Srvs /\ times \in [Xids -> [Srvs -> Nat]] /\ call \in [Xids -> {"idle", "new", "waiting"} \cup Results]
  BY DEF RpcInv, TypeOK, ServerTypes, CallTypes
<1>1. ASSUME NEW x \in Xids, StartCall(x) \/ Transmit(x) \/ Timeout(x)
      PROVE  OkInv'
  <2>1. UNCHANGED <<reps, srvVars>> /\ \A y \in Xids : call'[y] = "OK" => call[y] = "OK"
    BY <1>0, <1>1 DEF StartCall, Transmit, Timeout, netVars
  <2>. QED BY <2>1, OkKept DEF srvVars
<1>2. ASSUME NEW c \in Conns, Break(c) \/ ClientNotices(c) \/ ServerNotices(c)
      PROVE  OkInv'
  <2>1. reps' \subseteq reps /\ UNCHANGED <<callVars, srvVars>>
    BY <1>2 DEF Break, ClientNotices, ServerNotices, netVars
  <2>. QED BY <2>1, OkKept DEF srvVars, callVars
<1>3. ASSUME NEW m \in reqs, Receive(m) PROVE OkInv'
  <2>1. /\ UNCHANGED <<callVars, reps, srv, present>>
        /\ \A j \in jobs' : j.stage = "replying" => j \in jobs
    BY <1>3 DEF Receive
  <2>. QED BY <2>1, OkKept DEF callVars
<1>4. ASSUME NEW m \in reps, GotReply(m) PROVE OkInv'
  <2>1. UNCHANGED srvVars /\ reps' \subseteq reps
    BY <1>4 DEF GotReply
  <2>2. call' = call \/ call' = [call EXCEPT ![m.xid] = m.ret]
    BY <1>4 DEF GotReply
  <2>3. m.xid \in Xids /\ (m.ret = "OK" => Ran(m.xid))
    BY DEF OkInv, RpcInv, TypeOK, NetTypes
  <2>4. \A x \in Xids : call'[x] = "OK" => call[x] = "OK" \/ Ran(x)
    BY <1>0, <2>2, <2>3
  <2>5. \A x \in Xids : Ran(x)' <=> Ran(x)
    BY <2>1 DEF Ran, srvVars
  <2>. QED BY <2>1, <2>4, <2>5, OkKept DEF srvVars
<1>5. ASSUME NEW j \in jobs, IdentifyClient(j) PROVE OkInv'
  <2>1. UNCHANGED <<callVars, srv, present>> /\ \A k \in jobs' : k.stage = "replying" => k \in jobs
    BY <1>5, JobTyped DEF IdentifyClient, Finish, Advance, RpcInv, TypeOK, ServerTypes
  <2>2. \A m \in reps' : m \in reps \/ (m.srv = srv /\ m.ret # "OK")
    BY <1>5 DEF IdentifyClient, Reply, Sent
  <2>. QED BY <2>1, <2>2, OkKept DEF callVars
<1>6. ASSUME NEW j \in jobs, CheckDuplicate(j) PROVE OkInv'
  <2>1. /\ UNCHANGED <<callVars, srv, times>> /\ present' \subseteq present
        /\ \A k \in jobs' : k.stage = "replying" => k \in jobs
    BY <1>6, JobTyped DEF CheckDuplicate, Finish, Advance, RpcInv, TypeOK, ServerTypes
  <2>2. \A m \in reps' : m \in reps \/ (m.srv = srv /\ (m.ret = "OK" => m.xid \in present))
    BY <1>6 DEF CheckDuplicate, Reply, Sent, HasReply
  <2>3. \A m \in reps' : m \in reps \/ (m.srv = srv /\ (m.ret = "OK" => Ran(m.xid)'))
    BY <2>1, <2>2 DEF OkInv, Ran
  <2>. QED BY <2>1, <2>3, OkKept DEF callVars
<1>7. ASSUME NEW j \in jobs, Run(j) PROVE OkInv'
  <2>1. /\ UNCHANGED <<callVars, reps, srv>> /\ present' \subseteq present \cup {j.xid}
        /\ \A k \in jobs' : k.stage = "replying" => k \in jobs \/ k.xid = j.xid
    BY <1>7, JobTyped DEF Run, AddReply, Advance, netVars, RpcInv, TypeOK, ServerTypes
  <2>2. Ran(j.xid)'
    <3>1. j.xid \in Xids
      BY JobTyped
    <3>2. times'[j.xid][srv] = times[j.xid][srv] + 1
      BY <1>0, <1>7, <3>1 DEF Run
    <3>3. times[j.xid][srv] \in Nat /\ srv' = srv
      BY <1>0, <2>1, <3>1
    <3>4. times'[j.xid][srv] > 0
      BY <3>2, <3>3
    <3>. QED BY <3>3, <3>4 DEF Ran
  <2>. QED BY <2>1, <2>2, OkKept DEF callVars
<1>8. ASSUME NEW j \in jobs, SendReply(j) PROVE OkInv'
  <2>1. UNCHANGED <<callVars, srv, present, times>> /\ jobs' \subseteq jobs
    BY <1>8 DEF SendReply, Finish
  <2>2. \A m \in reps' : m \in reps \/ (m.srv = srv /\ m.xid = j.xid)
    BY <1>8 DEF SendReply, Reply, Sent
  <2>3. Ran(j.xid)'
    BY <1>8, <2>1 DEF SendReply, OkInv, Ran
  <2>. QED BY <2>1, <2>2, <2>3, OkKept DEF callVars
<1>9. CASE Restart
  <2>1. /\ UNCHANGED <<callVars, times>> /\ present' = {} /\ jobs' = {} /\ reps' = {}
    BY <1>9 DEF Restart
  <2>. QED BY <2>1 DEF OkInv, callVars
<1>10. CASE UNCHANGED vars
  BY <1>10, OkKept DEF vars, callVars, netVars, srvVars
<1>. QED BY <1>1, <1>2, <1>3, <1>4, <1>5, <1>6, <1>7, <1>8, <1>9, <1>10 DEF Next, Deliver, Dispatch

\* Until a call times out, all of AnswerInv holds; a step after which no call
\* has timed out starts from such a state.
Answers == RpcInv /\ OkInv /\ NoTimeout /\ BindInv /\ AckInv /\ FloorInv
AnswersAgain == BindInv' /\ AckInv' /\ FloorInv'

\* Types that all steps need.
LEMMA AnswerTypes ==
  ASSUME RpcInv
  PROVE  /\ xid \in 1..MaxXid + 1 /\ bound \in 0..MaxSrv /\ srv \in Srvs
         /\ call \in [Xids -> {"idle", "new", "waiting"} \cup Results]
         /\ hdr \in [Xids -> [rep : 0..MaxXid, srv : 0..MaxSrv]]
         /\ window \subseteq Xids /\ repFront \in 0..MaxXid /\ repAbove \subseteq Xids
         /\ repFront < xid /\ \A y \in repAbove : y < xid
         /\ \A m \in reps : m.xid \in Xids /\ m.xid < xid /\ m.ret \in Outcomes
         /\ 1..xid - 1 = {x \in Xids : x < xid}
<1>1. /\ xid \in 1..MaxXid + 1 /\ bound \in 0..MaxSrv /\ srv \in Srvs
      /\ call \in [Xids -> {"idle", "new", "waiting"} \cup Results]
      /\ hdr \in [Xids -> [rep : 0..MaxXid, srv : 0..MaxSrv]]
      /\ window \subseteq Xids /\ repFront \in 0..MaxXid /\ repAbove \subseteq Xids
  BY DEF RpcInv, TypeOK, CallTypes, RepTypes, ServerTypes
<1>2. /\ repFront < xid /\ \A y \in repAbove : y < xid
      /\ \A m \in reps : m.xid < xid
  BY DEF RpcInv, HeaderInv
<1>3. \A m \in reps : m.xid \in Xids /\ m.ret \in Outcomes
  BY DEF RpcInv, TypeOK, NetTypes
<1>4. 1..xid - 1 = {x \in Xids : x < xid}
  BY <1>1
<1>. QED BY <1>1, <1>2, <1>3, <1>4

\* update_xid_rep acknowledges nothing new but the number inserted.
LEMMA UpdateXidRepAcks ==
  ASSUME NEW x \in Xids, repFront \in 0..MaxXid, repAbove \subseteq Xids, UpdateXidRep(x),
         NEW y \in Xids, y # x, repFront < y, y \notin repAbove
  PROVE  repFront' < y /\ y \notin repAbove'
<1>1. CASE x <= repFront
  BY <1>1 DEF UpdateXidRep
<1>2. CASE ~ (x <= repFront)
  <2>1. PICK n \in {repFront} \cup (repAbove \cup {x}) :
          /\ repFront + 1 .. n \subseteq repAbove \cup {x}
          /\ repFront' = n
          /\ repAbove' = {z \in repAbove \cup {x} : z > n}
    BY <1>2 DEF UpdateXidRep
  <2>2. n \in Nat /\ y \notin repFront + 1 .. n
    BY <2>1
  <2>. QED BY <2>1, <2>2
<1>. QED BY <1>1, <1>2

\* A window with no awaited call below it, a reply that may be on its way, and
\* that no run is undone.
Floor(w) ==
  /\ \A y \in w : y \in Xids /\ y < xid
  /\ \A x \in Xids : Pending(x) /\ w # {} => \E y \in w : y <= x
Allowed(m) ==
  /\ m.ret = "FORGOTTEN" => ~ Pending(m.xid)
  /\ m.ret = "OLDSRV" => hdr[m.xid].srv \notin {0, srv}
RunsStay == \A x \in Xids : Ran(x) => Ran(x)'

\* What is said of requests and calls is kept by a step of network or server
\* that answers only what it may and leaves no awaited call below the window.
LEMMA AnswersKept ==
  ASSUME Answers, UNCHANGED <<callVars, repVars, srv>>, RunsStay, Floor(window'),
         \A m \in reps' : m \in reps \/ Allowed(m)
  PROVE  AnswersAgain
<1>. USE DEF Answers, callVars, repVars, RunsStay, Floor, Allowed
<1>1. \A x : Pending(x)' <=> Pending(x)
  BY DEF Pending
<1>2. BindInv'
  BY <1>1 DEF BindInv
<1>3. AckInv'
  BY <1>1 DEF AckInv
<1>4. FloorInv'
  <2>1. bound = srv => \A y \in 1..xid - 1 : ~ Pending(y) => Ran(y)'
    BY AnswerTypes DEF FloorInv
  <2>2. \A x \in Xids : Pending(x) /\ window' # {} => \E y \in window' : y <= x
    BY DEF FloorInv
  <2>3. \A m \in reps' : m.ret = "FORGOTTEN" => ~ Pending(m.xid)
    BY DEF FloorInv
  <2>4. \A m \in reps' : m.ret = "OLDSRV" => hdr[m.xid].srv \notin {0, srv}
    BY DEF FloorInv
  <2>. QED BY <1>1, <2>1, <2>2, <2>3, <2>4 DEF FloorInv
<1>. QED BY <1>2, <1>3, <1>4 DEF AnswersAgain

\* A call starts with a number above all in the window, for the instance that
\* answered the first one.
LEMMA StartCallAnswers ==
  ASSUME Answers, NEW x \in Xids, StartCall(x) PROVE AnswersAgain
<1>. USE DEF Answers, StartCall, repVars, netVars, srvVars
<1>0. /\ x = xid /\ xid' = xid + 1 /\ call'[x] = "new" /\ ~ Pending(x)
      /\ hdr'[x].rep = repFront /\ hdr'[x].srv = bound
      /\ \A y \in Xids : y # x => call'[y] = call[y] /\ hdr'[y] = hdr[y]
      /\ xid \in Nat /\ 1..xid - 1 \subseteq Xids \ {x} /\ 1..xid' - 1 = (1..xid - 1) \cup {x}
  BY AnswerTypes DEF Pending, RpcInv, HeaderInv
<1>1. \A y \in Xids : Pending(y)' <=> Pending(y) \/ y = x
  BY <1>0 DEF Pending
<1>2. BindInv'
  <2>1. bound = 0 <=> x = 1
    BY <1>0, AnswerTypes DEF BindInv
  <2>2. bound = 0 <=> xid' = 1 \/ Pending(1)'
    BY <1>0, <1>1, <2>1, AnswerTypes DEF BindInv
  <2>3. \A y \in 1..xid' - 1 : call'[y] # "idle"
    BY <1>0 DEF BindInv
  <2>4. \A y \in 1..xid' - 1 : hdr'[y].srv = IF y = 1 THEN 0 ELSE bound
    BY <1>0, <2>1 DEF BindInv
  <2>5. \A y \in window' : y < xid'
    BY <1>0, AnswerTypes DEF BindInv
  <2>6. bound = 0 => xid' <= 2
    BY <1>0, <2>1
  <2>7. bound <= srv
    BY DEF BindInv
  <2>. QED BY <2>2, <2>3, <2>4, <2>5, <2>6, <2>7 DEF BindInv
<1>3. AckInv'
  <2>1. ASSUME NEW y \in Xids, Pending(y)'
        PROVE  /\ repFront < y /\ y \notin repAbove
               /\ \A z \in 1..xid' - 1 : hdr'[z].rep < y
    <3>1. CASE y = x
      <4>1. \A z \in 1..xid - 1 : hdr[z].rep < z /\ z < x /\ z \in Nat /\ hdr[z].rep \in Nat
        BY <1>0, AnswerTypes DEF RpcInv, HeaderInv
      <4>2. repFront < x /\ x \notin repAbove
        BY <1>0, AnswerTypes
      <4>. QED BY <1>0, <3>1, <4>1, <4>2
    <3>2. CASE y # x
      BY <1>0, <1>1, <2>1, <3>2 DEF AckInv
    <3>. QED BY <3>1, <3>2
  <2>. QED BY <2>1 DEF AckInv
<1>4. FloorInv'
  <2>1. \A y \in Xids : Pending(y)' /\ window # {} => \E z \in window : z <= y
    <3>1. \A z \in window : z <= x
      BY <1>0, AnswerTypes DEF BindInv
    <3>. QED BY <1>1, <3>1 DEF FloorInv
  <2>2. \A m \in reps : m.xid \in Xids /\ m.xid # x
    BY <1>0, AnswerTypes
  <2>3. bound = srv => \A y \in 1..xid' - 1 : ~ Pending(y)' => Ran(y)
    BY <1>0, <1>1 DEF FloorInv
  <2>4. \A y \in Xids : call'[y] # "FORGOTTEN"
    BY <1>0 DEF FloorInv
  <2>5. \A y \in Xids : Ran(y)' <=> Ran(y)
    BY DEF Ran
  <2>6. \A m \in reps' : m.ret = "FORGOTTEN" => ~ Pending(m.xid)'
    BY <1>1, <2>2 DEF FloorInv
  <2>7. \A m \in reps' : m.ret = "OLDSRV" => hdr'[m.xid].srv \notin {0, srv'}
    BY <1>0, <2>2 DEF FloorInv
  <2>8. \A y \in 1..xid' - 1 : y \in Xids
    BY <1>0
  <2>. QED BY <2>1, <2>3, <2>4, <2>5, <2>6, <2>7, <2>8 DEF FloorInv
<1>. QED BY <1>2, <1>3, <1>4 DEF AnswersAgain

\* A call stays awaited while it is transmitted.
LEMMA TransmitAnswers ==
  ASSUME Answers, NEW x \in Xids, Transmit(x) PROVE AnswersAgain
<1>. USE DEF Answers, Transmit
<1>1. \A y \in Xids : /\ Pending(y)' <=> Pending(y)
                      /\ call[y] # "idle" => call'[y] # "idle"
                      /\ call[y] # "FORGOTTEN" => call'[y] # "FORGOTTEN"
  BY AnswerTypes DEF Pending
<1>2. UNCHANGED <<xid, bound, hdr, repFront, repAbove, reps, srvVars>>
  OBVIOUS
<1>3. 1..xid - 1 \subseteq Xids /\ \A m \in reps : m.xid \in Xids
  BY AnswerTypes
<1>4. BindInv'
  <2>1. bound = 0 <=> xid = 1 \/ Pending(1)'
    <3>1. xid # 1 => 1 \in Xids
      BY AnswerTypes
    <3>. QED BY <1>1, <3>1 DEF BindInv
  <2>2. \A y \in 1..xid - 1 : call'[y] # "idle"
    BY <1>1, <1>3 DEF BindInv
  <2>. QED BY <1>2, <2>1, <2>2 DEF BindInv, srvVars
<1>5. AckInv'
  BY <1>1, <1>2 DEF AckInv
<1>6. FloorInv'
  BY <1>1, <1>2, <1>3 DEF FloorInv, Ran, srvVars
<1>. QED BY <1>4, <1>5, <1>6 DEF AnswersAgain

\* A reply ends the wait of one call: FORGOTTEN it cannot be; OLDSRV is for a
\* client bound to another instance; OK has run, and may bind the client.
LEMMA GotReplyAnswers ==
  ASSUME Answers, NEW m \in reps, GotReply(m) PROVE AnswersAgain
<1>. USE DEF Answers
<1>. DEFINE x == m.xid
<1>0. /\ x \in Xids /\ x < xid /\ m.srv = srv /\ srv \in Nat \ {0} /\ xid \in Nat
      /\ m.ret = "OK" => Ran(x)
  <2>1. x \in Xids /\ x < xid /\ srv \in Nat \ {0} /\ xid \in Nat
    BY AnswerTypes
  <2>. QED BY <2>1 DEF OkInv
<1>1. UNCHANGED <<xid, hdr, srvVars>> /\ reps' = reps \ {m} /\ UpdateXidRep(x)
  BY DEF GotReply
<1>2. \A y \in Xids : Ran(y)' <=> Ran(y)
  BY <1>1 DEF Ran, srvVars
<1>3. \A y \in Xids : y # x /\ repFront < y /\ y \notin repAbove => repFront' < y /\ y \notin repAbove'
  BY <1>0, <1>1, AnswerTypes, UpdateXidRepAcks
<1>4. CASE ~ Pending(x)
  <2>1. UNCHANGED <<call, bound>>
    BY <1>4 DEF GotReply
  <2>2. \A y : Pending(y)' <=> Pending(y)
    BY <2>1 DEF Pending
  <2>3. BindInv'
    BY <1>1, <2>1, <2>2 DEF BindInv, srvVars
  <2>4. AckInv'
    BY <1>1, <1>3, <1>4, <2>2 DEF AckInv
  <2>5. FloorInv'
    BY <1>1, <1>2, <2>1, <2>2, AnswerTypes DEF FloorInv, srvVars
  <2>. QED BY <2>3, <2>4, <2>5 DEF AnswersAgain
<1>5. CASE Pending(x)
  <2>1. /\ call' = [call EXCEPT ![x] = m.ret]
        /\ bound' = IF hdr[x].srv = 0 /\ m.ret = "OK" THEN srv ELSE bound
    BY <1>0, <1>5 DEF GotReply
  <2>2. m.ret \in {"OK", "OLDSRV"}
    BY <1>5, AnswerTypes DEF FloorInv, Outcomes
  <2>3. /\ \A y \in Xids : Pending(y)' <=> Pending(y) /\ y # x
        /\ call'[x] = m.ret /\ \A y \in Xids : y # x => call'[y] = call[y]
    BY <1>0, <2>1, <2>2, AnswerTypes DEF Pending
  <2>4. hdr[x].srv = IF x = 1 THEN 0 ELSE bound
    BY <1>0, AnswerTypes DEF BindInv
  <2>5. CASE x = 1
    <3>1. bound = 0 /\ xid = 2 /\ m.ret = "OK" /\ bound' = srv
      <4>1. bound = 0 /\ xid <= 2
        BY <1>5, <2>5 DEF BindInv
      <4>2. m.ret # "OLDSRV"
        BY <2>4, <2>5 DEF FloorInv
      <4>. QED BY <1>0, <2>1, <2>2, <2>4, <2>5, <4>1, <4>2
    <3>2. 1..xid - 1 = {1}
      BY <3>1
    <3>3. BindInv'
      BY <1>0, <1>1, <2>3, <2>5, <3>1, <3>2 DEF BindInv, srvVars
    <3>4. FloorInv'
      <4>1. \A y \in 1..xid - 1 : Ran(y)
        BY <1>0, <2>5, <3>1, <3>2
      <4>2. \A y \in Xids : call'[y] # "FORGOTTEN"
        BY <2>3, <3>1 DEF FloorInv
      <4>3. \A y \in Xids : Pending(y)' /\ window # {} => \E z \in window : z <= y
        BY <2>3 DEF FloorInv
      <4>4. \A n \in reps' : n \in reps /\ n.xid \in Xids
        BY <1>1, AnswerTypes
      <4>5. \A y \in 1..xid - 1 : y \in Xids
        BY AnswerTypes
      <4>. QED BY <1>1, <1>2, <2>3, <4>1, <4>2, <4>3, <4>4, <4>5 DEF FloorInv, srvVars
    <3>5. AckInv'
      BY <1>1, <1>3, <2>3 DEF AckInv
    <3>. QED BY <3>3, <3>4, <3>5 DEF AnswersAgain
  <2>6. CASE x # 1
    <3>1. bound' = bound /\ bound # 0
      <4>1. 1 \in Xids /\ 2 <= x
        BY <1>0, <2>6
      <4>2. bound # 0
        BY <1>0, <4>1 DEF BindInv
      <4>. QED BY <2>1, <2>4, <2>6, <4>2
    <3>2. bound = srv => m.ret = "OK"
      BY <2>2, <2>4, <2>6 DEF FloorInv
    <3>3. BindInv'
      <4>1. 1 \in Xids /\ (Pending(1)' <=> Pending(1))
        BY <1>0, <2>3, <2>6
      <4>. QED BY <1>1, <2>2, <2>3, <3>1, <4>1, AnswerTypes DEF BindInv, srvVars
    <3>4. FloorInv'
      <4>1. bound = srv => \A y \in 1..xid - 1 : ~ Pending(y)' => Ran(y)
        BY <1>0, <2>3, <3>2, AnswerTypes DEF FloorInv
      <4>2. \A y \in Xids : call'[y] # "FORGOTTEN"
        BY <2>2, <2>3 DEF FloorInv
      <4>3. \A y \in Xids : Pending(y)' /\ window # {} => \E z \in window : z <= y
        BY <2>3 DEF FloorInv
      <4>4. \A n \in reps' : n \in reps /\ n.xid \in Xids
        BY <1>1, AnswerTypes
      <4>. QED BY <1>1, <1>2, <2>3, <3>1, <4>1, <4>2, <4>3, <4>4, AnswerTypes DEF FloorInv, srvVars
    <3>5. AckInv'
      BY <1>1, <1>3, <2>3 DEF AckInv
    <3>. QED BY <3>3, <3>4, <3>5 DEF AnswersAgain
  <2>. QED BY <2>5, <2>6
<1>. QED BY <1>4, <1>5

\* A new request moves the window up to the number it acknowledges, which is in
\* the window or below it: no awaited call is left below.
LEMMA WindowFloor ==
  ASSUME Answers, NEW j \in jobs, j.stage = "known", NEW x, x = j.xid, x \notin window,
         window' = Kept(window \cup {x}, hdr[x].rep)
  PROVE  \A y \in Xids : Pending(y) /\ window' # {} => \E z \in window' : z <= y
<1>. USE DEF Answers
<1>0. /\ x \in Xids /\ x < xid /\ xid \in Nat /\ window \subseteq Xids
      /\ hdr[x].srv \in {0, srv} /\ hdr[x].rep \in Nat /\ hdr[x].rep < x
      /\ hdr[x].srv = IF x = 1 THEN 0 ELSE bound
      /\ x \in 1..xid - 1
  <2>1. /\ x \in Xids /\ x < xid /\ xid \in Nat /\ window \subseteq Xids
        /\ hdr[x].srv \in {0, srv} /\ x \in 1..xid - 1
    <3>1. RpcInv /\ j \in jobs /\ j.stage # "queued"
      OBVIOUS
    <3>. HIDE DEF Answers
    <3>2. x \in Xids /\ x < xid /\ hdr[x].srv \in {0, srv}
      BY <3>1, JobTyped
    <3>3. xid \in Nat /\ window \subseteq Xids
      BY <3>1, AnswerTypes
    <3>. QED BY <3>2, <3>3
  <2>2. hdr[x].rep \in Nat /\ hdr[x].rep < x
    BY <2>1, AnswerTypes DEF RpcInv, HeaderInv
  <2>. QED BY <2>1, <2>2 DEF BindInv
<1>1. CASE x = 1
  <2>1. x \in window'
    BY <1>0 DEF Kept
  <2>. QED BY <1>1, <2>1
<1>2. CASE x # 1
  <2>1. bound = srv /\ 1 \in 1..xid - 1 /\ ~ Pending(1)
    <3>1. bound # 0
      BY <1>0, <1>2 DEF BindInv
    <3>. QED BY <1>0, <1>2, <3>1 DEF BindInv
  <2>2. \A y \in 1..xid - 1 : y \in Xids /\ (~ Pending(y) => Ran(y) /\ Seen(y))
    BY <2>1, AnswerTypes DEF FloorInv, RpcInv, RanInv, RanIsSeen, Ran
  <2>3. window # {}
    BY <2>1, <2>2 DEF Seen
  <2>4. ASSUME NEW y \in Xids, Pending(y) PROVE \E z \in window' : z <= y
    <3>1. hdr[x].rep < y
      BY <1>0, <2>4 DEF AckInv
    <3>2. PICK z \in window : z <= y
      BY <2>3, <2>4 DEF FloorInv
    <3>3. CASE z >= hdr[x].rep
      BY <3>2, <3>3 DEF Kept
    <3>4. CASE ~ z >= hdr[x].rep
      <4>1. hdr[x].rep \in 1..xid - 1
        BY <1>0, <3>4
      <4>2. ~ Pending(hdr[x].rep)
        <5>1. hdr[x].rep \in Xids
          BY <4>1, AnswerTypes
        <5>2. ~ hdr[x].rep < hdr[x].rep
          BY <1>0
        <5>. QED BY <1>0, <5>1, <5>2 DEF AckInv
      <4>3. hdr[x].rep \in window
        BY <1>0, <2>2, <3>4, <4>1, <4>2 DEF Seen
      <4>. QED BY <1>0, <3>1, <4>3 DEF Kept
    <3>. QED BY <3>3, <3>4
  <2>. QED BY <2>4
<1>. QED BY <1>1, <1>2

\* The server's steps.
LEMMA DispatchAnswers ==
  ASSUME Answers, [Next]_vars, NEW j \in jobs,
         IdentifyClient(j) \/ CheckDuplicate(j) \/ Run(j) \/ SendReply(j)
  PROVE  AnswersAgain
<1>. USE DEF Answers
<1>1. /\ j.xid \in Xids /\ j.xid < xid /\ Floor(window)
      /\ window \subseteq Xids /\ \A y \in window : y < xid
  BY JobTyped, AnswerTypes DEF BindInv, FloorInv, Floor
<1>2. UNCHANGED <<callVars, repVars, srv>>
  BY DEF IdentifyClient, CheckDuplicate, Run, SendReply
<1>3. RunsStay
  BY <1>2, TimesGrow, AnswerTypes DEF Ran, RunsStay
<1>4. CASE IdentifyClient(j)
  <2>1. window' = window /\ \A m \in reps' : m \in reps \/ Allowed(m)
    BY <1>4 DEF IdentifyClient, Reply, Sent, Allowed
  <2>. QED BY <1>1, <1>2, <1>3, <2>1, AnswersKept
<1>5. CASE Run(j) \/ SendReply(j)
  <2>1. window' = window /\ \A m \in reps' : m \in reps \/ Allowed(m)
    BY <1>5 DEF Run, SendReply, Reply, Sent, netVars, Allowed
  <2>. QED BY <1>1, <1>2, <1>3, <2>1, AnswersKept
<1>6. CASE CheckDuplicate(j)
  <2>0. j.stage = "known"
    BY <1>6 DEF CheckDuplicate
  <2>1. CASE window' = window
    <3>1. \A m \in reps' : m \in reps \/ m.ret = "OK" \/ (m.ret = "FORGOTTEN" /\ m.xid = j.xid /\ Forgotten(j.xid))
      BY <1>6 DEF CheckDuplicate, Reply, Sent
    <3>2. Forgotten(j.xid) => ~ Pending(j.xid)
      BY <1>1 DEF Forgotten, FloorInv
    <3>3. \A m \in reps' : m \in reps \/ Allowed(m)
      BY <3>1, <3>2 DEF Allowed
    <3>. QED BY <1>1, <1>2, <1>3, <2>1, <3>3, AnswersKept
  <2>2. CASE /\ j.xid \notin window /\ window' = Kept(window \cup {j.xid}, hdr[j.xid].rep)
             /\ UNCHANGED reps
    <3>1. \A y \in Xids : Pending(y) /\ window' # {} => \E z \in window' : z <= y
      BY <2>0, <2>2, WindowFloor
    <3>2. \A y \in window' : y \in Xids /\ y < xid
      BY <1>1, <2>2 DEF Kept
    <3>3. Floor(window')
      BY <3>1, <3>2 DEF Floor
    <3>. QED BY <1>2, <1>3, <2>2, <3>3, AnswersKept
  <2>. QED BY <1>6, <2>1, <2>2 DEF CheckDuplicate
<1>. QED BY <1>4, <1>5, <1>6

\* A new instance has no window, and the client is not bound to it.
LEMMA RestartAnswers == ASSUME Answers, Restart PROVE AnswersAgain
<1>. USE DEF Answers
<1>1. /\ UNCHANGED <<callVars, repVars>> /\ window' = {} /\ reps' = {} /\ srv' = srv + 1
      /\ bound <= srv /\ bound \in Nat /\ srv \in Nat
  BY AnswerTypes DEF Restart, BindInv
<1>2. bound # srv' /\ bound <= srv'
  BY <1>1
<1>3. \A x : Pending(x)' <=> Pending(x)
  BY <1>1 DEF Pending, callVars
<1>4. BindInv'
  BY <1>1, <1>2, <1>3 DEF BindInv, callVars
<1>5. AckInv'
  BY <1>1, <1>3 DEF AckInv, callVars, repVars
<1>6. FloorInv'
  BY <1>1, <1>2, <1>3 DEF FloorInv, callVars
<1>. QED BY <1>4, <1>5, <1>6 DEF AnswersAgain

\* Every step keeps what is said of answers, unless it is a timeout.
LEMMA AnswerNext == RpcInv /\ AnswerInv /\ [Next]_vars => AnswerInv'
<1>. SUFFICES ASSUME RpcInv, AnswerInv, [Next]_vars PROVE AnswerInv'
  OBVIOUS
<1>1. OkInv'
  BY OkNext DEF AnswerInv
<1>2. ASSUME NoTimeout' PROVE AnswersAgain
  <2>1. NoTimeout
    <3>1. ASSUME NEW x \in Xids, call[x] = "TIMEOUT" PROVE call'[x] = "TIMEOUT"
      <4>1. xid \in Nat /\ call[xid] = "TIMEOUT" => xid \notin Xids
        BY AnswerTypes DEF RpcInv, HeaderInv
      <4>2. call' = call \/ \E y \in Xids :
              /\ y = xid \/ Pending(y)
              /\ \E c : call' = [call EXCEPT ![y] = c]
        BY AnswerTypes DEF Next, Deliver, Dispatch, StartCall, Transmit, Timeout, Break,
           ClientNotices, ServerNotices, Receive, GotReply, IdentifyClient, CheckDuplicate,
           Run, SendReply, Restart, vars, callVars, Pending
      <4>3. CASE call' = call
        BY <3>1, <4>3
      <4>4. ASSUME NEW y \in Xids, y = xid \/ Pending(y), NEW c, call' = [call EXCEPT ![y] = c]
            PROVE  call'[x] = "TIMEOUT"
        <5>1. y # x
          BY <3>1, <4>1, <4>4 DEF Pending
        <5>. QED BY <3>1, <4>4, <5>1, AnswerTypes
      <4>. QED BY <4>2, <4>3, <4>4
    <3>. QED BY <1>2, <3>1 DEF NoTimeout
  <2>2. Answers
    BY <2>1 DEF AnswerInv, Answers
  <2>3. Floor(window)
    BY <2>2, AnswerTypes DEF Answers, BindInv, FloorInv, Floor
  <2>4. ASSUME NEW x \in Xids, StartCall(x) \/ Transmit(x) PROVE AnswersAgain
    BY <2>2, <2>4, StartCallAnswers, TransmitAnswers
  <2>5. ASSUME NEW x \in Xids, Timeout(x) PROVE FALSE
    <3>1. call'[x] = "TIMEOUT"
      BY <2>5, AnswerTypes DEF Timeout
    <3>. QED BY <1>2, <3>1 DEF NoTimeout
  <2>6. ASSUME NEW c \in Conns, Break(c) \/ ClientNotices(c) \/ ServerNotices(c)
        PROVE  AnswersAgain
    <3>1. reps' \subseteq reps /\ UNCHANGED <<callVars, repVars, srvVars>>
      BY <2>6 DEF Break, ClientNotices, ServerNotices, netVars
    <3>. QED BY <2>2, <2>3, <3>1, AnswersKept DEF srvVars, Ran, RunsStay
  <2>7. ASSUME NEW m \in reqs, Receive(m) PROVE AnswersAgain
    <3>1. UNCHANGED <<callVars, repVars, srv, window, times, reps>>
      BY <2>7 DEF Receive
    <3>. QED BY <2>2, <2>3, <3>1, AnswersKept DEF Ran, RunsStay
  <2>8. CASE UNCHANGED vars
    <3>1. UNCHANGED <<callVars, repVars, srv, window, times, reps>>
      BY <2>8 DEF vars, srvVars, netVars
    <3>. QED BY <2>2, <2>3, <3>1, AnswersKept DEF Ran, RunsStay
  <2>9. CASE Dispatch
    BY <2>2, <2>9, DispatchAnswers DEF Dispatch
  <2>10. CASE Restart
    BY <2>2, <2>10, RestartAnswers
  <2>11. ASSUME NEW m \in reps, GotReply(m) PROVE AnswersAgain
    BY <2>2, <2>11, GotReplyAnswers
  <2>. QED BY <2>4, <2>5, <2>6, <2>7, <2>8, <2>9, <2>10, <2>11 DEF Next, Deliver
<1>. QED BY <1>1, <1>2 DEF AnswerInv, AnswersAgain

\* In every reachable state an answer of a handler stands for a run, and until
\* a call times out nothing awaited lies below the server's window.
THEOREM AnswerInvariant == Spec => []AnswerInv
BY AnswerInit, AnswerNext, RpcInvariant, PTL DEF Spec

\* A call returns OK only if its handler ran in some instance of the server.
THEOREM RepliedWasRunHolds == Spec => []RepliedWasRun
<1>1. RpcInv /\ AnswerInv => RepliedWasRun
  <2>. SUFFICES ASSUME RpcInv, AnswerInv, NEW x \in Xids, call[x] = "OK"
                PROVE  \E s \in Srvs : times[x][s] = 1
    BY DEF RepliedWasRun
  <2>1. PICK s \in Srvs : times[x][s] > 0
    BY DEF AnswerInv, OkInv
  <2>2. times[x][s] \in Nat /\ times[x][s] <= 1
    BY DEF RpcInv, TypeOK, ServerTypes, AtMostOnce
  <2>. QED BY <2>1, <2>2
<1>. QED BY RpcInvariant, AnswerInvariant, <1>1, PTL

\* Unless a call gave up, no caller is told that its request was forgotten: for
\* any number of calls, connections and restarts.
THEOREM AwaitedNotForgottenHolds == Spec => []AwaitedNotForgotten
<1>1. AnswerInv => AwaitedNotForgotten
  BY DEF AnswerInv, AwaitedNotForgotten, NoTimeout, FloorInv
<1>. QED BY AnswerInvariant, <1>1, PTL
=============================================================================
