-------------------------------- MODULE Rpc ---------------------------------
(***************************************************************************)
(* Remote procedure calls: one rpcc (client endpoint) with many calling    *)
(* threads, and the part of an rpcs (server endpoint) that belongs to it   *)
(* (the server keeps its window of replies and its latest connection per   *)
(* client nonce, so clients do not meet there).                            *)
(*                                                                         *)
(* A call is named by its xid.  TCP connections are numbered in the order  *)
(* they are opened; a connection may break at any time, and each side      *)
(* notices it (isdead()) in its own time.  Requests and replies under way  *)
(* are sets: a connection keeps their order, but dispatch threads take up  *)
(* requests and send replies in any order.  A restart of the server loses  *)
(* its state.                                                              *)
(***************************************************************************)
EXTENDS Integers, FiniteSets

CONSTANTS
  MaxXid,         \* bound: number of calls of the client, bind calls included
  MaxConn,        \* bound: number of connections opened
  MaxSrv,         \* bound: number of server instances (restarts + 1)
  MayTimeOut,     \* the calls whose final deadline may expire
  Lossy,          \* RPC_LOSSY is set: the client sends old requests again
  PromptServer    \* assume that the server notices a broken connection before
                  \* the client has opened the next one

ASSUME BoundAssumption ==
  MaxXid \in Nat /\ MaxConn \in Nat /\ MaxSrv \in Nat \ {0}
ASSUME FlagAssumption == Lossy \in BOOLEAN /\ PromptServer \in BOOLEAN

Xids == 1..MaxXid
Conns == 1..MaxConn
Srvs == 1..MaxSrv

VARIABLES
  xid,            \* client: next xid
  bound,          \* client: srv_nonce_, 0 before bind_done_
  call,           \* client, per xid: progress or result of call1
  hdr,            \* client, per xid: the fields of its request header
  repFront,       \* client: front of xid_rep_window_
  repAbove,       \* client: the rest of xid_rep_window_
  dupReq,         \* client: dup_req_.xid, 0 if not valid
  repDone,        \* client: xid_rep_done_
  chan,           \* client: chan_, 0 if none was opened
  cch,            \* client, per xid: the connection call1 sent on
  cdead,          \* client: connections it knows to be dead
  broken,         \* network: connections that carry nothing any more
  reqs,           \* network: requests under way
  reps,           \* network: replies under way
  srv,            \* server: its nonce
  sdead,          \* server: connections it knows to be dead
  latest,         \* server: conns_[clt_nonce]
  window,         \* server: xids in reply_window_[clt_nonce], a sorted list
  present,        \* server: those with cb_present
  jobs,           \* server: requests in the hands of dispatch threads
  times           \* how often the handler ran, per xid and server instance

callVars == <<xid, bound, call, hdr, cch>>
repVars == <<repFront, repAbove, dupReq, repDone>>
connVars == <<chan, cdead, broken, sdead>>
netVars == <<reqs, reps>>
srvVars == <<srv, latest, window, present, jobs, times>>
vars == <<callVars, repVars, connVars, netVars, srvVars>>

Results == {"OK", "FORGOTTEN", "OLDSRV", "TIMEOUT"}
Outcomes == {"OK", "FORGOTTEN", "OLDSRV"}
Stages == {"queued", "known", "running", "replying"}

CallTypes ==
  /\ xid \in 1..MaxXid + 1
  /\ bound \in 0..MaxSrv
  /\ call \in [Xids -> {"idle", "new", "waiting"} \cup Results]
  /\ hdr \in [Xids -> [rep : 0..MaxXid, srv : 0..MaxSrv]]
  /\ cch \in [Xids -> 0..MaxConn]

RepTypes ==
  /\ repFront \in 0..MaxXid /\ repAbove \subseteq Xids
  /\ dupReq \in 0..MaxXid /\ repDone \in -1..MaxXid

ConnTypes ==
  /\ chan \in 0..MaxConn
  /\ cdead \subseteq Conns /\ broken \subseteq Conns /\ sdead \subseteq Conns

NetTypes ==
  /\ reqs \subseteq [xid : Xids, conn : Conns]
  /\ reps \subseteq [xid : Xids, conn : Conns, ret : Outcomes, srv : Srvs]

ServerTypes ==
  /\ srv \in Srvs /\ latest \in 0..MaxConn
  /\ window \subseteq Xids /\ present \subseteq window
  /\ jobs \subseteq [xid : Xids, conn : Conns, stage : Stages]
  /\ times \in [Xids -> [Srvs -> Nat]]

TypeOK == CallTypes /\ RepTypes /\ ConnTypes /\ NetTypes /\ ServerTypes

Init ==
  /\ xid = 1 /\ bound = 0
  /\ call = [x \in Xids |-> "idle"]
  /\ hdr = [x \in Xids |-> [rep |-> 0, srv |-> 0]]
  /\ repFront = 0 /\ repAbove = {}
  /\ dupReq = 0 /\ repDone = -1
  /\ chan = 0 /\ cch = [x \in Xids |-> 0]
  /\ cdead = {} /\ broken = {} /\ sdead = {}
  /\ reqs = {} /\ reps = {}
  /\ srv = 1 /\ latest = 0 /\ window = {} /\ present = {} /\ jobs = {}
  /\ times = [x \in Xids |-> [s \in Srvs |-> 0]]

Pending(x) == call[x] \in {"new", "waiting"}

-----------------------------------------------------------------------------
(* rpcc::call1                                                             *)

\* A new xid and its header; before bind is done the only call is bind.
StartCall(x) ==
  /\ x = xid
  /\ bound = 0 => \A y \in Xids : ~ Pending(y)
  /\ xid' = xid + 1
  /\ hdr' = [hdr EXCEPT ![x] = [rep |-> repFront, srv |-> bound]]
  /\ call' = [call EXCEPT ![x] = "new"]
  /\ UNCHANGED <<bound, cch, repVars, connVars, netVars, srvVars>>

\* get_refconn: the current connection, or a new one if it is dead.
Connected(c) ==
  IF chan = 0 \/ chan \in cdead
  THEN c = chan + 1 /\ c <= MaxConn /\ (PromptServer => broken \subseteq sdead)
  ELSE c = chan

\* What connection::send() puts on a connection; a broken one loses it.
Sent(msgs) == {m \in msgs : m.conn \notin broken}

\* Send, or send again after the connection of the last attempt died; with
\* Lossy an old request may go first.
Transmit(x) ==
  /\ call[x] = "new" \/ (call[x] = "waiting" /\ cch[x] \in cdead)
  /\ \E c \in Conns :
       /\ Connected(c)
       /\ chan' = c
       /\ cch' = [cch EXCEPT ![x] = c]
       /\ LET old == IF dupReq # 0 /\ repDone > dupReq THEN {dupReq} ELSE {} IN
          /\ reqs' = reqs \cup Sent([xid : old \cup {x}, conn : {c}])
          /\ dupReq' = IF old = {} THEN dupReq ELSE 0
  /\ call' = [call EXCEPT ![x] = "waiting"]
  /\ UNCHANGED <<xid, bound, hdr, repFront, repAbove, repDone, cdead, broken,
                 sdead, reps, srvVars>>

\* update_xid_rep: insert x, then drop the front while its successor is there.
UpdateXidRep(x) ==
  IF x <= repFront
  THEN UNCHANGED <<repFront, repAbove>>
  ELSE LET done == repAbove \cup {x} IN
       \E n \in {repFront} \cup done :
         /\ repFront + 1 .. n \subseteq done
         /\ n + 1 \notin done
         /\ repFront' = n
         /\ repAbove' = {y \in done : y > n}

\* got_pdu hands the reply to the call that waits for it, and call1 returns; a
\* reply nobody waits for only counts as received.
GotReply(m) ==
  /\ m \in reps
  /\ reps' = reps \ {m}
  /\ UpdateXidRep(m.xid)
  /\ IF Pending(m.xid)
     THEN /\ call' = [call EXCEPT ![m.xid] = m.ret]
          /\ bound' = IF hdr[m.xid].srv = 0 /\ m.ret = "OK" THEN m.srv ELSE bound
          /\ dupReq' = IF Lossy /\ dupReq = 0 THEN m.xid ELSE dupReq
          /\ repDone' = IF Lossy /\ hdr[m.xid].rep > repDone
                        THEN hdr[m.xid].rep ELSE repDone
     ELSE UNCHANGED <<call, bound, dupReq, repDone>>
  /\ UNCHANGED <<xid, hdr, cch, connVars, reqs, srvVars>>

\* The final deadline of the call passes.
Timeout(x) ==
  /\ x \in MayTimeOut /\ call[x] = "waiting"
  /\ call' = [call EXCEPT ![x] = "TIMEOUT"]
  /\ UpdateXidRep(x)
  /\ UNCHANGED <<xid, bound, hdr, cch, dupReq, repDone, connVars, netVars,
                 srvVars>>

-----------------------------------------------------------------------------
(* Connections                                                             *)

\* A connection breaks (or a lossy send shuts it down) with what it carries.
Break(c) ==
  /\ c <= chan /\ c \notin broken
  /\ broken' = broken \cup {c}
  /\ reqs' = {m \in reqs : m.conn # c}
  /\ reps' = {m \in reps : m.conn # c}
  /\ UNCHANGED <<callVars, repVars, chan, cdead, sdead, srvVars>>

\* End of file or a failed write: dead_ = true.
ClientNotices(c) ==
  /\ c \in broken \ cdead
  /\ cdead' = cdead \cup {c}
  /\ UNCHANGED <<callVars, repVars, chan, broken, sdead, netVars, srvVars>>

ServerNotices(c) ==
  /\ c \in broken \ sdead
  /\ sdead' = sdead \cup {c}
  /\ UNCHANGED <<callVars, repVars, chan, cdead, broken, netVars, srvVars>>

-----------------------------------------------------------------------------
(* rpcs: got_pdu and dispatch                                              *)

Receive(m) ==
  /\ m \in reqs
  /\ reqs' = reqs \ {m}
  /\ jobs' = jobs \cup {[xid |-> m.xid, conn |-> m.conn, stage |-> "queued"]}
  /\ UNCHANGED <<callVars, repVars, connVars, reps, srv, latest, window,
                 present, times>>

Reply(x, c, ret) ==
  reps' = reps \cup Sent({[xid |-> x, conn |-> c, ret |-> ret, srv |-> srv]})

Finish(j) == jobs' = jobs \ {j}
Advance(j, stage) == jobs' = (jobs \ {j}) \cup {[j EXCEPT !.stage = stage]}

\* A request for an earlier instance of the server is refused; any other
\* makes its connection the latest one if it is younger.
IdentifyClient(j) ==
  /\ j \in jobs /\ j.stage = "queued"
  /\ IF hdr[j.xid].srv \notin {0, srv}
     THEN Finish(j) /\ Reply(j.xid, j.conn, "OLDSRV") /\ UNCHANGED latest
     ELSE /\ Advance(j, "known")
          /\ latest' = IF latest < j.conn THEN j.conn ELSE latest
          /\ UNCHANGED reps
  /\ UNCHANGED <<callVars, repVars, connVars, reqs, srv, window, present, times>>

\* The entries checkduplicate_and_update keeps; the mutant erases the one for
\* xid_rep itself too, as the comment above the function has it.
MutantKept(w, rep) == {y \in w : y > rep}
Kept(w, rep) == {y \in w : y >= rep}

\* Older than everything in the window; the mutant takes such a request.
MutantForgotten(x) == FALSE
Forgotten(x) == window # {} /\ \A y \in window : y > x

\* cb_present: the reply is kept; the mutant does not look.
MutantHasReply(x) == TRUE
HasReply(x) == x \in present

\* checkduplicate_and_update and the switch on its result.
CheckDuplicate(j) ==
  LET x == j.xid IN
  /\ j \in jobs /\ j.stage = "known"
  /\ \/ /\ x \in window /\ HasReply(x)             \* DONE
        /\ Finish(j) /\ Reply(x, j.conn, "OK")
        /\ UNCHANGED window
     \/ /\ x \in window /\ ~ HasReply(x)           \* INPROGRESS
        /\ Finish(j)
        /\ UNCHANGED <<window, reps>>
     \/ /\ x \notin window /\ Forgotten(x)         \* FORGOTTEN
        /\ Finish(j) /\ Reply(x, j.conn, "FORGOTTEN")
        /\ UNCHANGED window
     \/ /\ x \notin window /\ ~ Forgotten(x)       \* NEW
        /\ window' = Kept(window \cup {x}, hdr[x].rep)
        /\ Advance(j, "running")
        /\ UNCHANGED reps
  /\ present' = present \cap window'
  /\ UNCHANGED <<callVars, repVars, connVars, reqs, srv, latest, times>>

\* The registered handler runs; add_reply keeps its reply, unless the entry
\* was erased meanwhile.  The mutant forgets add_reply.
MutantAddReply(x) == UNCHANGED present
AddReply(x) == present' = present \cup ({x} \cap window)

Run(j) ==
  /\ j \in jobs /\ j.stage = "running"
  /\ times' = [times EXCEPT ![j.xid][srv] = @ + 1]
  /\ AddReply(j.xid)
  /\ Advance(j, "replying")
  /\ UNCHANGED <<callVars, repVars, connVars, netVars, srv, latest, window>>

\* The reply goes to the latest connection if the request's own is dead.
ReplyConn(j) == IF j.conn \in sdead /\ j.conn # latest THEN latest ELSE j.conn

SendReply(j) ==
  /\ j \in jobs /\ j.stage = "replying"
  /\ Reply(j.xid, ReplyConn(j), "OK")
  /\ Finish(j)
  /\ UNCHANGED <<callVars, repVars, connVars, reqs, srv, latest, window,
                 present, times>>

\* The server process ends and is started again, with a new nonce.
Restart ==
  /\ srv < MaxSrv
  /\ srv' = srv + 1
  /\ latest' = 0 /\ window' = {} /\ present' = {} /\ jobs' = {}
  /\ broken' = 1..chan
  /\ sdead' = 1..chan
  /\ reqs' = {} /\ reps' = {}
  /\ UNCHANGED <<callVars, repVars, chan, cdead, times>>

-----------------------------------------------------------------------------
Dispatch ==
  \E j \in jobs : IdentifyClient(j) \/ CheckDuplicate(j) \/ Run(j) \/ SendReply(j)

Deliver == (\E m \in reqs : Receive(m)) \/ (\E m \in reps : GotReply(m))

Next ==
  \/ \E x \in Xids : StartCall(x) \/ Transmit(x) \/ Timeout(x)
  \/ \E c \in Conns : Break(c) \/ ClientNotices(c) \/ ServerNotices(c)
  \/ Deliver \/ Dispatch \/ Restart

Spec == Init /\ [][Next]_vars

\* Calls under way are transmitted, what a connection carries arrives, both
\* ends notice a dead connection (end of file), dispatch threads run.
Fairness ==
  /\ \A x \in Xids : WF_vars(Transmit(x))
  /\ \A c \in Conns : WF_vars(ClientNotices(c)) /\ WF_vars(ServerNotices(c))
  /\ \A m \in [xid : Xids, conn : Conns] : WF_vars(Receive(m))
  /\ WF_vars(\E m \in reps : GotReply(m))
  /\ WF_vars(Dispatch)

FairSpec == Spec /\ Fairness

-----------------------------------------------------------------------------
(* Properties                                                              *)

\* At most once: however often a request is sent, one instance of the server
\* runs its handler once, and no other instance runs it, bind excepted.
AtMostOnce ==
  \A x \in Xids, s \in Srvs :
    /\ times[x][s] <= 1
    /\ times[x][s] = 1 /\ hdr[x].srv # 0 => s = hdr[x].srv

\* A call that returns the reply of its handler was executed.
RepliedWasRun ==
  \A x \in Xids : call[x] = "OK" => \E s \in Srvs : times[x][s] = 1

\* As long as no call has given up, no caller is told that its request is
\* forgotten: what the client acknowledges, the server has seen, in whatever
\* order requests arrive.
AwaitedNotForgotten ==
  (\A x \in Xids : call[x] # "TIMEOUT") => \A x \in Xids : call[x] # "FORGOTTEN"

\* FORGOTTEN: "duplicate of an old RPC whose reply we've forgotten" (rpc.h).
ForgottenWasRun ==
  \A x \in Xids : call[x] = "FORGOTTEN" => \E s \in Srvs : times[x][s] = 1

\* Every call is answered by its handler in the end, as long as the network
\* offers a connection that stays (the bound's last one did not break).
CallAnswered ==
  \A x \in Xids : call[x] = "new" ~> call[x] = "OK" \/ MaxConn \in broken

-----------------------------------------------------------------------------
(* The inductive invariant behind AtMostOnce                               *)

\* What the window still refuses: the request is in it, or older than it.
Seen(x) == x \in window \/ (window # {} /\ \A y \in window : y > x)

Running(x) == \E j \in jobs : j.xid = x /\ j.stage = "running"

\* Requests exist only for calls that were started, and acknowledge less.
HeaderInv ==
  /\ \A x \in Xids : x >= xid => call[x] = "idle"
  /\ repFront < xid /\ \A y \in repAbove : y < xid
  /\ dupReq < xid
  /\ \A x \in Xids : hdr[x].rep < x
  /\ \A m \in reqs \cup reps \cup jobs : m.xid < xid

\* What ran or runs in this instance is still refused.
RanIsSeen == \A x \in Xids : Running(x) \/ times[x][srv] > 0 => Seen(x)

\* One job runs the handler of a request, and it has not run before.
RunsOnce ==
  /\ \A x \in Xids : Running(x) => times[x][srv] = 0
  /\ \A j, k \in jobs :
       j.stage = "running" /\ k.stage = "running" /\ j.xid = k.xid => j = k

\* Handlers run in the instance that the request's header names.
RightInstance ==
  /\ \A j \in jobs : j.stage # "queued" => hdr[j.xid].srv \in {0, srv}
  /\ \A x \in Xids, s \in Srvs :
       times[x][s] > 0 => s <= srv /\ x < xid /\ hdr[x].srv \in {0, s}

\* A request that passed the checks left a connection to answer on.
ClientKnown == \A j \in jobs : j.stage # "queued" => j.conn <= latest

RanInv == RanIsSeen /\ RunsOnce /\ RightInstance /\ ClientKnown

RpcInv == TypeOK /\ HeaderInv /\ RanInv /\ AtMostOnce

-----------------------------------------------------------------------------
(* The inductive invariant behind RepliedWasRun and AwaitedNotForgotten    *)

NoTimeout == \A x \in Xids : call[x] # "TIMEOUT"
Ran(x) == times[x][srv] > 0

\* A reply of a handler is there only after it ran: kept, on its way, or taken.
OkInv ==
  /\ \A x \in present : Ran(x)
  /\ \A j \in jobs : j.stage = "replying" => Ran(j.xid)
  /\ \A m \in reps : m.srv = srv /\ (m.ret = "OK" => Ran(m.xid))
  /\ \A x \in Xids : call[x] = "OK" => \E s \in Srvs : times[x][s] > 0

\* The first call binds the client to the server, no other is made before it is
\* answered, and all the others are for that instance.
BindInv ==
  /\ \A x \in 1..xid - 1 : call[x] # "idle"
  /\ \A x \in 1..xid - 1 : hdr[x].srv = IF x = 1 THEN 0 ELSE bound
  /\ bound = 0 <=> xid = 1 \/ Pending(1)
  /\ (bound = 0 => xid <= 2) /\ bound <= srv
  /\ \A y \in window : y < xid

\* What the client acknowledges it does not wait for.
AckInv ==
  \A y \in Xids : Pending(y) =>
    /\ repFront < y /\ y \notin repAbove
    /\ \A x \in 1..xid - 1 : hdr[x].rep < y

\* The window is never above a call that is waited for, so that none is told it
\* was forgotten; and in the instance the client is bound to, what is answered
\* has run, so that the number a request acknowledges is a floor of the window.
FloorInv ==
  /\ \A x \in Xids : Pending(x) /\ window # {} => \E y \in window : y <= x
  /\ \A m \in reps : m.ret = "FORGOTTEN" => ~ Pending(m.xid)
  /\ \A m \in reps : m.ret = "OLDSRV" => hdr[m.xid].srv \notin {0, srv}
  /\ bound = srv => \A y \in 1..xid - 1 : ~ Pending(y) => Ran(y)
  /\ \A x \in Xids : call[x] # "FORGOTTEN"

AnswerInv == OkInv /\ (NoTimeout => BindInv /\ AckInv /\ FloorInv)
=============================================================================
