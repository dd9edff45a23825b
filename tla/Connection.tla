----------------------------- MODULE Connection -----------------------------
(***************************************************************************)
(* The transport of an RPC server (lab4/rpc): its connections, the poll    *)
(* thread that calls them back when a descriptor is ready, the pool of     *)
(* dispatch threads that run the requests and send the replies, and the    *)
(* thread that accepts connections and deletes the dead ones.              *)
(*                                                                         *)
(* What a request does, and which requests are duplicates, is module Rpc.  *)
(* Here a request only has a kind: what dispatch does with the connection. *)
(*   "new"        runs a handler and sends on the client's latest          *)
(*                connection if its own died meanwhile                     *)
(*   "resend"     DONE or FORGOTTEN: sends on its own connection           *)
(*   "inprogress" sends nothing                                            *)
(*   "oldsrv"     meant for an earlier instance of the server              *)
(*                                                                         *)
(* A connection is named by its descriptor, which a later connection may   *)
(* have again.  A PDU is two chunks: on the way in the length and the      *)
(* rest, on the way out any two parts.                                     *)
(***************************************************************************)
EXTENDS Integers, Sequences, FiniteSets, SequencesExt, FiniteSetsExt, Functions

CONSTANTS
    Fds,          \* descriptors, numbers: the kernel gives the lowest free one
    Workers,      \* threads of dispatchpool_ (ten in the code)
    Requests,     \* the requests the peers may send, each once
    KindsOf,      \* [Requests -> SUBSET of the kinds above]: what it may be
    SentOn,       \* [Requests -> SUBSET Fds]: where its peer may send it
    Slow,         \* requests whose length comes ahead of the rest
    QueueMax,     \* capacity of the job queue (1000 in the code)
    SockRoom,     \* chunks a socket takes before its peer reads
    MaxAccepts,   \* bound: connections opened after the initial ones
    Fragile,      \* descriptors whose connection the network or the peer may end
    MaxBreaks,    \* bound: how often that happens
    None          \* no request, no worker, no connection

Kinds == {"new", "resend", "inprogress", "oldsrv"}

ASSUME ConnectionAssumption ==
    /\ Fds \subseteq Nat /\ IsFiniteSet(Fds) /\ {1, 2} \subseteq Fds
    /\ IsFiniteSet(Workers)
    /\ KindsOf \in [Requests -> SUBSET Kinds]
    /\ SentOn \in [Requests -> SUBSET Fds] /\ Slow \subseteq Requests /\ Fragile \subseteq Fds
    /\ {QueueMax, SockRoom} \subseteq Nat \ {0}
    /\ {MaxAccepts, MaxBreaks} \subseteq Nat
    /\ None \notin Fds \cup Workers \cup Requests

PduSize == 2

VARIABLES
    conn,           \* the connection objects, by descriptor
    table,          \* tcpsconn::conns_: descriptors the accepting thread keeps
    acceptor,       \* where that thread is in process_accept
    latest,         \* rpcs::conns_ of the one client modelled
    rfds, wfds,     \* SelectAIO: descriptors watched for reading, for writing
    callbacks,      \* PollMgr::callbacks_: descriptors that have one
    pendingChange,  \* PollMgr::pending_change_
    wake,           \* something is in SelectAIO's pipe
    poll,           \* the poll thread: the sets it selects on, or has to serve
    errnoAgain,     \* the errno of the poll thread is EAGAIN
    jobq,           \* ThrPool::jobq_
    worker,         \* the dispatch threads
    unsent,         \* requests no peer has sent yet
    accepts, breaks,
    aborted         \* the VERIFY that ended the process, or "no"

pollVars == <<rfds, wfds, callbacks, pendingChange, wake>>
peerVars == <<unsent, accepts, breaks>>
vars == <<conn, table, acceptor, latest, pollVars, poll, errnoAgain, jobq,
          worker, peerVars, aborted>>
-----------------------------------------------------------------------------
(***************************************************************************)
(* A connection object and its socket.  inq holds what the peer sent and   *)
(* the server has not read, half the request of which the peer has sent    *)
(* the length only, sock the number of chunks the peer has not taken, wire *)
(* all that was written, leaked (history) the references nobody will drop. *)
(***************************************************************************)
Fresh(time) ==
    [open |-> TRUE, dead |-> FALSE, refno |-> 1, createTime |-> time,
     wbuf |-> None, wsz |-> 0, wlong |-> 0,         \* wpdu_
     rreq |-> None, rlong |-> 0,                    \* rpdu_
     broken |-> FALSE, inq |-> <<>>, half |-> None, sock |-> 0, wire |-> <<>>,
     leaked |-> 0]

Closed == [Fresh(0) EXCEPT !.open = FALSE, !.refno = 0]

Asleep == [pc |-> "wait_job", c |-> None, req |-> None, ok |-> FALSE, leaks |-> FALSE]

\* A client was served over one connection, has yet to read a part of the reply,
\* and has just opened another: the accepting thread is about to look at the
\* old one.
Init ==
    /\ conn = [c \in Fds |-> CASE c = 1 -> [Fresh(1) EXCEPT !.refno = 2, !.sock = 1]
                               [] c = 2 -> Fresh(2)
                               [] OTHER -> Closed]
    /\ latest = 1
    /\ table = {1}
    /\ acceptor = [pc |-> "collect", new |-> 2, todo |-> {1}]
    /\ rfds = {1, 2} /\ wfds = {} /\ callbacks = {1, 2}
    /\ pendingChange = FALSE /\ wake = FALSE
    /\ poll = [pc |-> "top", r |-> {}, w |-> {}]
    /\ errnoAgain = FALSE
    /\ jobq = <<>>
    /\ worker = [t \in Workers |-> Asleep]
    /\ unsent = Requests /\ accepts = 0 /\ breaks = 0
    /\ aborted = "no"

\* decref, with the destructor when the last reference to a dead connection
\* goes: it closes the descriptor.
Decref(cn, c) ==
    IF cn[c].refno = 1 /\ cn[c].dead
    THEN [cn EXCEPT ![c] = Closed]
    ELSE [cn EXCEPT ![c].refno = @ - 1]

\* ~connection: VERIFY(!wpdu_.buf), connection.cc:48.
DestructorFails(c) ==
    conn[c].refno = 1 /\ conn[c].dead /\ conn[c].wbuf # None

Incref(cn, c) == [cn EXCEPT ![c].refno = @ + 1]

\* SelectAIO: a change of the watched sets; writing to the pipe ends select.
WatchFd(c, flag) ==
    /\ rfds' = IF flag = "RDONLY" THEN rfds \cup {c} ELSE rfds
    /\ wfds' = IF flag = "WRONLY" THEN wfds \cup {c} ELSE wfds
    /\ wake' = TRUE

UnwatchFd(c, flag) ==
    /\ rfds' = IF flag = "RDWR" THEN rfds \ {c} ELSE rfds
    /\ wfds' = wfds \ {c}
    /\ wake' = (wake \/ flag = "RDWR")

AddCallback(c, flag) ==
    /\ WatchFd(c, flag)
    /\ callbacks' = callbacks \cup {c}
    /\ UNCHANGED pendingChange

\* The callback goes when nothing of c is watched any more.
DelCallback(c, flag) ==
    /\ UnwatchFd(c, flag)
    /\ callbacks' = IF c \in rfds' \cup wfds' THEN callbacks ELSE callbacks \ {c}
    /\ UNCHANGED pendingChange

\* writepdu on a socket that is not broken: as much as it takes.
Written(k) ==
    LET n == Min({SockRoom - k.sock, k.wsz - k.wlong}) IN
    [k EXCEPT !.wlong = @ + n, !.sock = @ + n,
              !.wire = @ \o [i \in 1..n |-> <<worker[k.wbuf].req, k.wlong + i>>]]

\* Mutant: signals send_wait_.
MutantSignalComplete(ws, c) ==
    [t \in Workers |->
        IF ws[t].c = c /\ ws[t].pc = "wait_send"
        THEN [ws[t] EXCEPT !.pc = "send"] ELSE ws[t]]

\* pthread_cond_signal(&send_complete_) wakes the sender that owns wpdu_.
SignalComplete(ws, c) ==
    [t \in Workers |->
        IF ws[t].c = c /\ ws[t].pc = "wait_complete"
        THEN [ws[t] EXCEPT !.pc = "completed"] ELSE ws[t]]

\* Mutant: wakes nobody.
MutantSendEnds(ws, t, ok) == [ws EXCEPT ![t].pc = "sent", ![t].ok = ok]

\* The end of send: the answer, wpdu_ given up, the waiters woken.
SendEnds(ws, t, ok) ==
    [u \in Workers |->
        CASE u = t -> [ws[t] EXCEPT !.pc = "sent", !.ok = ok]
          [] u # t /\ ws[u].c = ws[t].c /\ ws[u].pc = "wait_send"
               -> [ws[u] EXCEPT !.pc = "send"]
          [] OTHER -> ws[u]]

NoPdu(k) == [k EXCEPT !.wbuf = None, !.wsz = 0, !.wlong = 0]
-----------------------------------------------------------------------------
(***************************************************************************)
(* The poll thread, PollMgr::wait_loop.                                    *)
(***************************************************************************)
Readable(c) == conn[c].inq # <<>> \/ conn[c].broken
Writable(c) == conn[c].sock < SockRoom \/ conn[c].broken

\* A round starts: whoever removes a descriptor is released, and the watched
\* sets are copied for select.
StartRound ==
    /\ poll.pc = "top"
    /\ pendingChange' = FALSE
    /\ worker' = [t \in Workers |->
          IF pendingChange /\ worker[t].pc = "wait_removed"
          THEN [worker[t] EXCEPT !.pc = "removed"] ELSE worker[t]]
    /\ poll' = [pc |-> "select", r |-> rfds, w |-> wfds]
    /\ UNCHANGED <<conn, table, acceptor, latest, rfds, wfds, callbacks, wake,
                   errnoAgain, jobq, peerVars, aborted>>

\* select returns: a descriptor is ready or the pipe has something.
Select ==
    LET r == {c \in poll.r : Readable(c)}
        w == {c \in poll.w : Writable(c)} IN
    /\ poll.pc = "select"
    /\ r \cup w # {} \/ wake
    /\ wake' = FALSE
    /\ poll' = [pc |-> IF r \cup w = {} THEN "top" ELSE "serve", r |-> r, w |-> w]
    /\ UNCHANGED <<conn, table, acceptor, latest, rfds, wfds, callbacks,
                   pendingChange, errnoAgain, jobq, worker, peerVars, aborted>>

\* readpdu on connection k: the connection after it, whether it succeeded, and
\* whether errno is EAGAIN then.  On a connection that ended, read returns 0 and
\* leaves errno alone, or fails with an error.
ReadLength(k) == [k EXCEPT !.rreq = Head(k.inq)[1], !.rlong = 1, !.inq = Tail(@)]
ReadRest(k)   == [k EXCEPT !.rlong = PduSize, !.inq = Tail(@)]
DropPdu(k)    == [k EXCEPT !.rreq = None, !.rlong = 0]

\* The second read of readpdu, with the length known.  At the end of the stream
\* it asks errno, which an earlier call may have set (connection.cc:286).
ReadOn(k, error) ==
    LET again == errnoAgain /\ ~error IN
    CASE k.inq # <<>> -> [k |-> ReadRest(k), ok |-> TRUE, again |-> errnoAgain]
      [] k.inq = <<>> /\ ~k.broken -> [k |-> k, ok |-> TRUE, again |-> TRUE]
      [] k.inq = <<>> /\ k.broken ->
           [k |-> IF again THEN k ELSE DropPdu(k), ok |-> again, again |-> again]

Whole(k) == k.rreq # None /\ k.rlong = PduSize

ReadPdu(k, error) ==
    CASE Whole(k) -> [k |-> k, ok |-> TRUE, again |-> errnoAgain]
      [] ~Whole(k) /\ k.rreq # None -> ReadOn(k, error)
      [] k.rreq = None /\ k.inq # <<>> -> ReadOn(ReadLength(k), error)
      [] k.rreq = None /\ k.inq = <<>> ->
           [k |-> k, ok |-> FALSE, again |-> errnoAgain /\ ~error]

\* fifo::enq when there is room: one thread that waits for a job is signalled.
Enq(job) ==
    /\ jobq' = Append(jobq, job)
    /\ \/ \E t \in Workers : /\ worker[t].pc = "wait_job"
                             /\ worker' = [worker EXCEPT ![t].pc = "take"]
       \/ (\A t \in Workers : worker[t].pc # "wait_job") /\ UNCHANGED worker

\* Mutant: the PDU stays in rpdu_.
MutantGotPdu(k, c) ==
    /\ Enq([c |-> c, req |-> k.rreq])
    /\ conn' = [conn EXCEPT ![c] = [k EXCEPT !.refno = @ + 1]]

\* rpcs::got_pdu, and rpdu_ empty again: the job holds a reference.
GotPdu(k, c) ==
    /\ Enq([c |-> c, req |-> k.rreq])
    /\ conn' = [conn EXCEPT ![c] = [DropPdu(k) EXCEPT !.refno = @ + 1]]

\* read_cb: nothing on a dead connection; a failure kills it; a complete PDU is
\* handed on, or stays in rpdu_ until the descriptor is readable again.
ReadCb(c, error) ==
    LET k == conn[c]
        res == ReadPdu(k, error) IN
    CASE k.dead ->
           UNCHANGED <<conn, pollVars, errnoAgain, jobq, worker, aborted>>
      [] ~k.dead /\ k.rreq = None /\ k.inq = <<>> /\ ~k.broken ->
           \* nothing to read after all: VERIFY(errno!=EAGAIN), connection.cc:258
           /\ aborted' = "readpdu"
           /\ UNCHANGED <<conn, pollVars, errnoAgain, jobq, worker>>
      [] OTHER ->
           /\ IF res.ok
              THEN UNCHANGED pollVars
              ELSE DelCallback(c, "RDWR")
           /\ CASE ~res.ok ->
                     /\ conn' = [conn EXCEPT ![c] = [res.k EXCEPT !.dead = TRUE]]
                     /\ worker' = SignalComplete(worker, c)
                     /\ UNCHANGED jobq
                [] res.ok /\ Whole(res.k) /\ Len(jobq) < QueueMax -> GotPdu(res.k, c)
                [] OTHER ->
                     /\ conn' = [conn EXCEPT ![c] = res.k]
                     /\ UNCHANGED <<jobq, worker>>
           /\ errnoAgain' = res.again
           /\ UNCHANGED aborted

\* write_cb: VERIFY(!dead_) first; nothing left to write ends the watch.
WriteCb(c) ==
    LET k == conn[c] IN
    CASE k.dead ->
           /\ aborted' = "write_cb"
           /\ UNCHANGED <<conn, pollVars, errnoAgain, worker>>
      [] ~k.dead /\ k.wsz = 0 ->
           /\ DelCallback(c, "WRONLY")
           /\ UNCHANGED <<conn, errnoAgain, worker, aborted>>
      [] ~k.dead /\ k.wsz # 0 /\ k.wlong < k.wsz /\ k.broken ->
           /\ DelCallback(c, "RDWR")
           /\ conn' = [conn EXCEPT ![c].dead = TRUE, ![c].wlong = -1, ![c].wsz = 0]
           /\ worker' = SignalComplete(worker, c)
           /\ errnoAgain' = FALSE
           /\ UNCHANGED aborted
      [] OTHER ->
           /\ conn' = [conn EXCEPT ![c] = Written(k)]
           /\ worker' = IF Written(k).wlong = k.wsz THEN SignalComplete(worker, c)
                        ELSE worker
           /\ errnoAgain' = (errnoAgain \/ (k.wlong < k.wsz /\ k.sock = SockRoom))
           /\ UNCHANGED <<pollVars, aborted>>

\* One entry of the readable list, then one of the writable list, in the order
\* of the descriptors, if it still has a callback.
Served(r, w) == [pc |-> IF r \cup w = {} THEN "top" ELSE "serve", r |-> r, w |-> w]

ServeReadable ==
    /\ poll.pc = "serve" /\ poll.r # {}
    /\ LET c == Min(poll.r) IN
         /\ poll' = Served(poll.r \ {c}, poll.w)
         /\ IF c \in callbacks
            THEN \E error \in {FALSE, conn[c].broken} : ReadCb(c, error)
            ELSE UNCHANGED <<conn, pollVars, errnoAgain, jobq, worker, aborted>>
    /\ UNCHANGED <<table, acceptor, latest, peerVars>>

ServeWritable ==
    /\ poll.pc = "serve" /\ poll.r = {} /\ poll.w # {}
    /\ LET c == Min(poll.w) IN
         /\ poll' = Served({}, poll.w \ {c})
         /\ IF c \in callbacks
            THEN WriteCb(c)
            ELSE UNCHANGED <<conn, pollVars, errnoAgain, worker, aborted>>
    /\ UNCHANGED <<table, acceptor, latest, jobq, peerVars>>

PollStep == StartRound \/ Select \/ ServeReadable \/ ServeWritable
-----------------------------------------------------------------------------
(***************************************************************************)
(* A dispatch thread t: fifo::deq, then rpcs::dispatch with its send.      *)
(***************************************************************************)
Goto(t, pc) == worker' = [worker EXCEPT ![t].pc = pc]

TakeJob(t) ==
    /\ worker[t].pc = "take"
    /\ IF jobq = <<>>
       THEN Goto(t, "wait_job") /\ UNCHANGED jobq
       ELSE /\ worker' = [worker EXCEPT ![t] =
                  [Asleep EXCEPT !.pc = "dispatch", !.c = Head(jobq).c, !.req = Head(jobq).req]]
            /\ jobq' = Tail(jobq)
    /\ UNCHANGED <<conn, table, acceptor, latest, pollVars, poll, errnoAgain,
                   peerVars, aborted>>

\* Up to the switch on the request's state.  For an old instance the reply is
\* sent and dispatch returns without decref; otherwise the connection becomes
\* the client's latest unless that one is at least as young.
AfterLookup(kind) ==
    CASE kind = "new" -> "handler"
      [] kind = "resend" -> "send"
      [] kind = "inprogress" -> "sent"

Dispatch(t) ==
    LET c == worker[t].c
        older == latest # None /\ conn[latest].createTime < conn[c].createTime IN
    /\ worker[t].pc = "dispatch"
    /\ \/ /\ "oldsrv" \in KindsOf[worker[t].req]
          /\ worker' = [worker EXCEPT ![t].pc = "send", ![t].leaks = TRUE]
          /\ UNCHANGED <<conn, latest>>
       \/ /\ \E kind \in KindsOf[worker[t].req] \ {"oldsrv"} : Goto(t, AfterLookup(kind))
          /\ IF latest = None \/ older
             THEN /\ conn' = IF older THEN Incref(Decref(conn, latest), c) ELSE Incref(conn, c)
                  /\ latest' = c
             ELSE UNCHANGED <<conn, latest>>
    /\ UNCHANGED <<table, acceptor, pollVars, poll, errnoAgain, jobq, peerVars, aborted>>

\* Mutant: the latest connection is used without a reference.
MutantPickConnection(t) ==
    LET c == worker[t].c IN
    /\ worker[t].pc = "handler"
    /\ IF conn[c].dead /\ c # latest
       THEN /\ conn' = Decref(conn, c)
            /\ worker' = [worker EXCEPT ![t].pc = "send", ![t].c = latest]
       ELSE Goto(t, "send") /\ UNCHANGED conn
    /\ UNCHANGED <<table, acceptor, latest, pollVars, poll, errnoAgain, jobq,
                   peerVars, aborted>>

\* The handler is done: the reply goes to the latest connection if this died.
PickConnection(t) ==
    LET c == worker[t].c IN
    /\ worker[t].pc = "handler"
    /\ IF conn[c].dead /\ c # latest
       THEN /\ conn' = Incref(Decref(conn, c), latest)
            /\ worker' = [worker EXCEPT ![t].pc = "send", ![t].c = latest]
       ELSE Goto(t, "send") /\ UNCHANGED conn
    /\ UNCHANGED <<table, acceptor, latest, pollVars, poll, errnoAgain, jobq,
                   peerVars, aborted>>

\* A sender has its PDU in wpdu_ (MutantBusy: nobody looks).
MutantBusy(c) == FALSE

Busy(c) == conn[c].wbuf # None

\* send, from its lock to the first wait or to the end.
Send(t) ==
    LET c == worker[t].c
        k == [conn[c] EXCEPT !.wbuf = t, !.wsz = PduSize, !.wlong = 0] IN
    /\ worker[t].pc = "send"
    /\ \/ /\ conn[c].dead
          /\ worker' = [worker EXCEPT ![t].pc = "sent", ![t].ok = FALSE]
          /\ UNCHANGED <<conn, pollVars>>
       \/ /\ ~conn[c].dead /\ Busy(c)
          /\ Goto(t, "wait_send")
          /\ UNCHANGED <<conn, pollVars>>
       \/ /\ ~conn[c].dead /\ ~Busy(c) /\ k.broken
          /\ conn' = [conn EXCEPT ![c] = [k EXCEPT !.dead = TRUE, !.wlong = -1, !.wsz = 0]]
          /\ Goto(t, "remove")
          /\ UNCHANGED pollVars
       \/ /\ ~conn[c].dead /\ ~Busy(c) /\ ~k.broken
          /\ IF Written(k).wlong = PduSize
             THEN /\ conn' = [conn EXCEPT ![c] = NoPdu(Written(k))]
                  /\ worker' = SendEnds(worker, t, TRUE)
                  /\ UNCHANGED pollVars
             ELSE /\ conn' = [conn EXCEPT ![c] = Written(k)]
                  /\ Goto(t, "wait_complete")
                  /\ AddCallback(c, "WRONLY")
    /\ UNCHANGED <<table, acceptor, latest, poll, errnoAgain, jobq, peerVars, aborted>>

\* send wakes from send_complete_.
Completed(t) ==
    LET k == conn[worker[t].c] IN
    /\ worker[t].pc = "completed"
    /\ IF ~k.dead /\ k.wlong >= 0 /\ k.wlong < k.wsz
       THEN Goto(t, "wait_complete") /\ UNCHANGED conn
       ELSE /\ worker' = SendEnds(worker, t, ~k.dead /\ k.wlong = k.wsz)
            /\ conn' = [conn EXCEPT ![worker[t].c] = NoPdu(k)]
    /\ UNCHANGED <<table, acceptor, latest, pollVars, poll, errnoAgain, jobq,
                   peerVars, aborted>>

\* Mutant: does not wait for the poll thread.
MutantBlockRemove(t) ==
    LET c == worker[t].c IN
    /\ worker[t].pc = "remove"
    /\ UnwatchFd(c, "RDWR")
    /\ pendingChange' = TRUE
    /\ Goto(t, "removed")
    /\ UNCHANGED <<conn, table, acceptor, latest, callbacks, poll, errnoAgain, jobq,
                   peerVars, aborted>>

\* block_remove_fd up to its wait, called by send without the connection's lock.
BlockRemove(t) ==
    LET c == worker[t].c IN
    /\ worker[t].pc = "remove"
    /\ UnwatchFd(c, "RDWR")
    /\ pendingChange' = TRUE
    /\ Goto(t, "wait_removed")
    /\ UNCHANGED <<conn, table, acceptor, latest, callbacks, poll, errnoAgain, jobq,
                   peerVars, aborted>>

\* Mutant: the callback stays.
MutantRemoved(t) ==
    LET c == worker[t].c IN
    /\ worker[t].pc = "removed"
    /\ worker' = SendEnds(worker, t, FALSE)
    /\ conn' = [conn EXCEPT ![c] = NoPdu(@)]
    /\ UNCHANGED <<table, acceptor, latest, pollVars, poll, errnoAgain, jobq,
                   peerVars, aborted>>

\* The poll thread came round: the callback goes, and send ends.
Removed(t) ==
    LET c == worker[t].c IN
    /\ worker[t].pc = "removed"
    /\ callbacks' = callbacks \ {c}
    /\ worker' = SendEnds(worker, t, FALSE)
    /\ conn' = [conn EXCEPT ![c] = NoPdu(@)]
    /\ UNCHANGED <<table, acceptor, latest, rfds, wfds, pendingChange, wake, poll,
                   errnoAgain, jobq, peerVars, aborted>>

\* dispatch returns: it drops its reference, except in the oldsrv branch.
Return(t) ==
    LET c == worker[t].c
        leaks == worker[t].leaks IN
    /\ worker[t].pc = "sent"
    /\ worker' = [worker EXCEPT ![t] = [Asleep EXCEPT !.pc = "take"]]
    /\ conn' = IF leaks THEN [conn EXCEPT ![c].leaked = @ + 1] ELSE Decref(conn, c)
    /\ aborted' = IF ~leaks /\ DestructorFails(c) THEN "destructor" ELSE aborted
    /\ UNCHANGED <<table, acceptor, latest, pollVars, poll, errnoAgain, jobq, peerVars>>

WorkerStep(t) ==
    \/ TakeJob(t) \/ Dispatch(t) \/ PickConnection(t) \/ Send(t) \/ Completed(t)
    \/ BlockRemove(t) \/ Removed(t) \/ Return(t)
-----------------------------------------------------------------------------
(***************************************************************************)
(* The accepting thread: process_accept makes the new connection first,    *)
(* then looks for dead connections that only the table refers to.          *)
(***************************************************************************)
Accept ==
    LET free == {c \in Fds : ~conn[c].open}
        c == Min(free) IN
    /\ acceptor.pc = "accept" /\ accepts < MaxAccepts /\ free # {}
    /\ accepts' = accepts + 1
    /\ conn' = [conn EXCEPT ![c] = Fresh(accepts + 3)]
    /\ AddCallback(c, "RDONLY")
    \* VERIFY(!callbacks_[fd] || callbacks_[fd]==ch), pollmgr.cc:53
    /\ aborted' = IF c \in callbacks THEN "add_callback" ELSE aborted
    /\ acceptor' = [pc |-> "collect", new |-> c, todo |-> table]
    /\ UNCHANGED <<table, latest, poll, errnoAgain, jobq, worker, unsent, breaks>>

\* isdead() and then ref() of the next connection of the table.
Examine ==
    LET c == Min(acceptor.todo) IN
    /\ acceptor.pc = "collect" /\ acceptor.todo # {}
    /\ acceptor' = IF conn[c].dead /\ conn[c].refno = 1
                   THEN [acceptor EXCEPT !.pc = "delete"]
                   ELSE [acceptor EXCEPT !.todo = @ \ {c}]
    /\ UNCHANGED <<conn, table, latest, pollVars, poll, errnoAgain, jobq, worker,
                   peerVars, aborted>>

Collect ==
    LET c == Min(acceptor.todo) IN
    /\ acceptor.pc = "delete"
    /\ conn' = Decref(conn, c)
    /\ aborted' = IF DestructorFails(c) THEN "destructor" ELSE aborted
    /\ table' = table \ {c}
    /\ acceptor' = [acceptor EXCEPT !.pc = "collect", !.todo = @ \ {c}]
    /\ UNCHANGED <<latest, pollVars, poll, errnoAgain, jobq, worker, peerVars>>

Accepted ==
    /\ acceptor.pc = "collect" /\ acceptor.todo = {}
    /\ table' = table \cup {acceptor.new}
    /\ acceptor' = [pc |-> "accept", new |-> None, todo |-> {}]
    /\ UNCHANGED <<conn, latest, pollVars, poll, errnoAgain, jobq, worker, peerVars,
                   aborted>>

AcceptorStep == Examine \/ Collect \/ Accepted
-----------------------------------------------------------------------------
(***************************************************************************)
(* The peers and the network: a request comes in one piece or its length   *)
(* first, replies are taken, a connection ends with or without delivering  *)
(* what is under way.                                                      *)
(***************************************************************************)
serverVars == <<table, acceptor, latest, pollVars, poll, errnoAgain, jobq, worker,
                aborted>>

PeerSends(c, req) ==
    /\ conn[c].open /\ ~conn[c].broken /\ conn[c].half = None
    /\ req \in unsent /\ c \in SentOn[req]
    /\ unsent' = unsent \ {req}
    /\ \/ /\ req \notin Slow
          /\ conn' = [conn EXCEPT ![c].inq = @ \o <<<<req, 1>>, <<req, 2>>>>]
       \/ /\ req \in Slow
          /\ conn' = [conn EXCEPT ![c].inq = Append(@, <<req, 1>>), ![c].half = req]
    /\ UNCHANGED <<serverVars, accepts, breaks>>

PeerSendsRest(c) ==
    /\ conn[c].open /\ ~conn[c].broken /\ conn[c].half # None
    /\ conn' = [conn EXCEPT ![c].inq = Append(@, <<conn[c].half, 2>>), ![c].half = None]
    /\ UNCHANGED <<serverVars, peerVars>>

PeerReads(c) ==
    /\ conn[c].open /\ ~conn[c].broken /\ conn[c].sock > 0
    /\ conn' = [conn EXCEPT ![c].sock = @ - 1]
    /\ UNCHANGED <<serverVars, peerVars>>

Break(c) ==
    /\ c \in Fragile /\ conn[c].open /\ ~conn[c].broken /\ breaks < MaxBreaks
    /\ breaks' = breaks + 1
    /\ \E rest \in {<<>>, conn[c].inq} :
         conn' = [conn EXCEPT ![c].broken = TRUE, ![c].inq = rest, ![c].half = None]
    /\ UNCHANGED <<serverVars, unsent, accepts>>

PeerStep ==
    \E c \in Fds : \/ \E req \in Requests : PeerSends(c, req)
                   \/ PeerSendsRest(c) \/ PeerReads(c) \/ Break(c)
-----------------------------------------------------------------------------
\* Nothing is left to do: the threads wait for work that no peer will send.
AtRest ==
    /\ \/ aborted # "no"
       \/ /\ poll.pc = "select" /\ acceptor.pc = "accept"
          /\ \A t \in Workers : worker[t].pc = "wait_job"
    /\ UNCHANGED vars

Next ==
    \/ /\ aborted = "no"
       /\ PollStep \/ (\E t \in Workers : WorkerStep(t)) \/ Accept \/ AcceptorStep
          \/ PeerStep
    \/ AtRest

Spec == Init /\ [][Next]_vars

\* The threads run, and a peer reads the replies it is sent.
Running(A) == aborted = "no" /\ A

FairSpec ==
    /\ Spec
    /\ WF_vars(Running(PollStep))
    /\ \A t \in Workers : WF_vars(Running(WorkerStep(t)))
    /\ WF_vars(Running(\E c \in Fds : PeerReads(c)))
-----------------------------------------------------------------------------
(***************************************************************************)
(* What must hold.                                                         *)
(***************************************************************************)
Opened == {c \in Fds : conn[c].open}

\* The jobs and the dispatches under way of a connection.
Queued(c) == {i \in DOMAIN jobq : jobq[i].c = c}
Serving(c) == {t \in Workers : worker[t].c = c}

\* Who holds a reference to c.
Holders(c) ==
    (IF c \in table \/ acceptor.new = c THEN 1 ELSE 0)
    + (IF latest = c THEN 1 ELSE 0)
    + Cardinality(Queued(c)) + Cardinality(Serving(c)) + conn[c].leaked

\* refno_ counts who can reach the connection: the table or the accepting thread,
\* the latest connection of the client, each job in the queue, each dispatch under
\* way and the references the oldsrv branch never drops.  So a connection is
\* deleted when nobody can use it any more, and only then its descriptor is free
\* for another (incref, decref, process_accept, got_pdu, dispatch).
RefsCounted == \A c \in Fds : conn[c].refno = Holders(c)

\* The poll thread never selects on a closed descriptor and never calls back a
\* deleted connection, and what it found ready is never taken for a later
\* connection with the same descriptor: no VERIFY fails in readpdu,
\* add_callback or the destructor (block_remove_fd: its "return guarantees that
\* callbacks related to fd will never be called again").
PollSound ==
    /\ rfds \cup wfds \cup callbacks \subseteq Opened
    /\ poll.pc = "select" => poll.r \cup poll.w \subseteq Opened
    /\ aborted \in {"no", "write_cb"}

\* The two parts of a reply follow each other.
Pairs(w) ==
    \A i \in DOMAIN w : IF i % 2 = 1 THEN w[i][2] = 1 ELSE w[i] = <<w[i - 1][1], 2>>

\* The peer reads whole replies: the parts of two of them never mix on a
\* connection, although any dispatch thread may send and write_cb finishes what
\* send began; and a send that returns true has written all of its own.
WireWhole ==
    \A c \in Opened :
        LET w == conn[c].wire IN
        /\ Pairs(w)
        /\ \A t \in Workers : worker[t].c = c /\ worker[t].ok
                                 => <<worker[t].req, 2>> \in Range(w)

\* One request is dispatched once: whether the queue was full when it came, or
\* it came in pieces, it is in rpdu_, in the queue or with one thread, and it
\* has left all three when its reply is on the wire.
TakenOnce ==
    \A req \in Requests :
        LET read == Cardinality({c \in Fds : conn[c].rreq = req})
            queued == Cardinality({i \in DOMAIN jobq : jobq[i].req = req})
            running == Cardinality({t \in Workers : worker[t].req = req})
            replied == {c \in Fds : <<req, 2>> \in Range(conn[c].wire)} IN
        /\ read + queued + running <= 1
        /\ Cardinality(replied) <= 1
        /\ replied # {} => read + queued = 0

\* The threads at one place.
At(pc) == {t \in Workers : worker[t].pc = pc}

\* While a dispatch thread sleeps for want of a job, enough others are on the way
\* to the queue for all that is in it (fifo::enq signals for each job).
JobsTaken == At("wait_job") # {} => Cardinality(At("take")) >= Len(jobq)

\* A sender that waits for wpdu_ has a sender before it that will wake it.
SendersWoken ==
    \A t \in At("wait_send") :
        \E u \in Workers : u = conn[worker[t].c].wbuf /\ worker[u].c = worker[t].c

\* A sender that waits for the rest to be written is watched for and alive.
WritesWatched ==
    \A t \in At("wait_complete") :
        LET c == worker[t].c IN
        /\ ~conn[c].dead /\ conn[c].wbuf = t /\ conn[c].wlong < conn[c].wsz
        /\ c \in wfds \cap callbacks

\* A sender that waits for the poll thread to come round has told it, and select
\* does not sleep over it.
RoundsTold == At("wait_removed") # {} => pendingChange /\ (wake \/ poll.pc # "select")

\* Nobody waits for a signal that is gone: not for a job, for wpdu_, for the rest of
\* a PDU to be written, or for the poll thread to come round (the condition
\* variables of fifo, connection::send and PollMgr::block_remove_fd).
NobodyForgotten == JobsTaken /\ SendersWoken /\ WritesWatched /\ RoundsTold

\* Every send returns, and dispatch with it: the reply is written, or the
\* connection is found dead, however threads, replies and failures meet.
SendReturns ==
    \A t \in Workers :
        (worker[t].pc \in {"send", "wait_send", "wait_complete", "completed",
                           "remove", "wait_removed", "removed"})
            ~> (worker[t].pc = "sent" \/ aborted # "no")
-----------------------------------------------------------------------------
(***************************************************************************)
(* The inductive invariants behind RefsCounted and PollSound, behind       *)
(* NobodyForgotten, and behind TakenOnce and WireWhole.                    *)
(***************************************************************************)
\* The types of the variables.
Chunks == Seq(Requests \X (1..PduSize))

Conns ==
    [open : BOOLEAN, dead : BOOLEAN, refno : Nat, createTime : Nat,
     wbuf : Workers \cup {None}, wsz : {0, PduSize}, wlong : -1..PduSize,
     rreq : Requests \cup {None}, rlong : 0..PduSize,
     broken : BOOLEAN, inq : Chunks, half : Requests \cup {None},
     sock : 0..SockRoom, wire : Chunks, leaked : Nat]

\* Where a dispatch thread is inside send, while it owns wpdu_.
Removal == {"remove", "wait_removed", "removed"}
Sending == {"wait_complete", "completed"} \cup Removal

\* Thread t serves c and is at one of pcs.
Works(t, c, pcs) == worker[t].c = c /\ worker[t].pc \in pcs

WorkerPcs == {"wait_job", "take", "dispatch", "handler", "send", "wait_send", "sent"}
                 \cup Sending

\* No length is left of a PDU that failed.
ConnType ==
    /\ conn \in [Fds -> Conns]
    /\ \A c \in Fds : conn[c].wlong = -1 => conn[c].wsz = 0

KeeperType ==
    /\ table \subseteq Fds /\ latest \in Fds \cup {None}
    /\ acceptor \in [pc : {"accept", "collect", "delete"},
                     new : Fds \cup {None}, todo : SUBSET Fds]

PollType ==
    /\ rfds \subseteq Fds /\ wfds \subseteq Fds /\ callbacks \subseteq Fds
    /\ {pendingChange, wake, errnoAgain} \subseteq BOOLEAN
    /\ poll \in [pc : {"top", "select", "serve"}, r : SUBSET Fds, w : SUBSET Fds]

Jobs == [c : Fds, req : Requests]

Threads == [pc : WorkerPcs, c : Fds \cup {None}, req : Requests \cup {None},
            ok : BOOLEAN, leaks : BOOLEAN]

WorkType == jobq \in Seq(Jobs) /\ worker \in [Workers -> Threads]

PeerType == unsent \subseteq Requests /\ accepts \in Nat /\ breaks \in Nat

TypeOK == ConnType /\ KeeperType /\ PollType /\ WorkType /\ PeerType

\* A dispatch thread works on a connection exactly while it has a request, and
\* has made one the client's latest before its handler runs.
WorkInv ==
    \A t \in Workers :
        /\ worker[t].pc \in {"wait_job", "take"} <=> worker[t].c = None
        /\ worker[t].c = None <=> worker[t].req = None
        /\ worker[t].pc = "handler" => latest # None

\* The connection just accepted is not in the table, those to look at are.
AcceptInv ==
    IF acceptor.pc = "accept"
    THEN acceptor.new = None
    ELSE /\ acceptor.new \in Fds \ table
         /\ acceptor.todo \subseteq table
         /\ acceptor.pc = "delete" => acceptor.todo # {}

\* A descriptor that is free belongs to no connection.
FreeInv ==
    \A c \in Fds : ~conn[c].open =>
        conn[c].refno = 0 /\ ~conn[c].dead /\ conn[c].wbuf = None

\* What is in wpdu_ belongs to a thread that is inside send on this connection.
WbufInv ==
    \A c \in Fds :
        /\ conn[c].wbuf # None => Works(conn[c].wbuf, c, Sending)
        /\ conn[c].wsz # 0 => conn[c].wbuf # None

\* A dead connection is watched no more, or a thread that found it broken is
\* about to see to that, and keeps it until the poll thread has come round.
Watched == rfds \cup wfds \cup callbacks

DeadInv ==
    /\ Watched \subseteq Opened
    /\ \A c \in Fds : conn[c].dead /\ c \in Watched =>
          \E t \in Workers : Works(t, c, Removal)
    /\ \A c \in Fds, t \in Workers :
          /\ Works(t, c, Removal) => conn[c].dead
          /\ Works(t, c, {"wait_removed", "removed"}) => c \notin rfds \cup wfds

\* What the poll thread waits for or has to serve is a connection that was
\* there when the round began: it is alive, and as ready as it was, or in the
\* hands of a thread that waits for the end of the round.
Leaving(c) == \E t \in Workers : Works(t, c, {"remove", "wait_removed"})

RoundInv ==
    /\ poll.pc = "select" => \A c \in poll.r \cup poll.w :
          conn[c].open /\ (conn[c].dead => Leaving(c))
    /\ poll.pc = "serve" => \A c \in poll.r :
          conn[c].open /\ IF conn[c].dead THEN Leaving(c) ELSE Readable(c)

ConnInv ==
    /\ TypeOK
    /\ WorkInv /\ AcceptInv /\ FreeInv /\ WbufInv /\ DeadInv /\ RoundInv
    /\ RefsCounted
    /\ aborted \in {"no", "write_cb"}

\* Behind NobodyForgotten, given ConnInv, connection by connection: who is inside
\* send owns wpdu_, and is woken when it is written or the connection dead; who
\* waits for wpdu_ waits for somebody.
WaitAt(c) ==
    LET k == conn[c] IN
    \A t \in Serving(c) :
        /\ worker[t].pc \in Sending => k.wbuf = t
        /\ worker[t].pc = "completed" => k.dead \/ k.wlong = k.wsz
        /\ worker[t].pc = "wait_send" => k.wbuf # None
        /\ worker[t].pc = "wait_complete" =>
              ~k.dead /\ k.wlong \in 0..(k.wsz - 1) /\ c \in wfds \cap callbacks

\* Nobody who waits in send, for a job or for the poll thread is forgotten (send,
\* write_cb, fifo::enq, block_remove_fd).
WaitInv == JobsTaken /\ RoundsTold /\ \A c \in Fds : WaitAt(c)

\* Where a request is that no thread is done with: with its peer, on the way, being
\* read, queued, or with a dispatch thread.
Coming(k, req) == \E i \in DOMAIN k.inq : k.inq[i] = <<req, 1>>
Awaits(req) == \E i \in DOMAIN jobq : jobq[i].req = req

Places(req) ==
    {<<"peer", x>> : x \in IF req \in unsent THEN {None} ELSE {}}
    \cup {<<"inq", c>> : c \in {d \in Fds : Coming(conn[d], req)}}
    \cup {<<"rpdu", c>> : c \in {d \in Fds : conn[d].rreq = req}}
    \cup {<<"jobq", x>> : x \in IF Awaits(req) THEN {None} ELSE {}}
    \cup {<<"thread", t>> : t \in {u \in Workers : worker[u].req = req}}

\* What is to be read next: lengths and rests alternate, no length twice.
ReadOrder(k) ==
    LET q == k.inq IN
    /\ k.rreq = None <=> k.rlong = 0
    /\ q # <<>> => (Head(q)[2] = 2 <=> k.rlong = 1)
    /\ \A i, j \in DOMAIN q :
          /\ j = i + 1 => q[j][2] # q[i][2]
          /\ q[i] = q[j] /\ q[i][2] = 1 => i = j
    /\ ~k.broken => (k.half # None <=> IF q = <<>> THEN k.rlong = 1 ELSE q[Len(q)][2] = 1)
    /\ k.dead => k.broken

\* What is written ends with n parts of the reply to r.
Parts(w, r, n) ==
    /\ IF n = 1 THEN Len(w) % 2 = 1 /\ w[Len(w)] = <<r, 1>> ELSE Len(w) % 2 = 0
    /\ n = PduSize => <<r, PduSize>> \in Range(w)

WroteAt(c) ==
    LET k == conn[c] IN
    /\ Pairs(k.wire)
    /\ ~k.dead => IF k.wbuf = None THEN Len(k.wire) % 2 = 0
                  ELSE k.wsz = PduSize /\ Parts(k.wire, worker[k.wbuf].req, k.wlong)

Replied(c, req) == <<req, 2>> \in Range(conn[c].wire)

\* A request that is answered is nowhere but with the thread that answered it.
OnceAnswered ==
    \A c \in Fds, req \in Requests : Replied(c, req) =>
        /\ \A p \in Places(req) : \E t \in Workers :
              p = <<"thread", t>> /\ Works(t, c, Sending \cup {"sent"})
        /\ \A d \in Fds : Replied(d, req) => d = c

\* A request is at one place, and in the queue once.
OnePlace == \A req \in Requests : \A p, q \in Places(req) : p = q
QueuedOnce == \A i, j \in DOMAIN jobq : jobq[i].req = jobq[j].req => i = j

\* A send that returned true has written its reply.
OkReplied ==
    \A t \in Workers : worker[t].ok =>
        worker[t].pc = "sent" /\ Replied(worker[t].c, worker[t].req)

\* Behind TakenOnce and WireWhole, given the invariants above: a request moves from
\* one place to the next and each part of a reply is written after the one before
\* (readpdu, got_pdu, fifo, dispatch, send, write_cb).
RequestInv ==
    /\ OnePlace /\ QueuedOnce /\ OkReplied /\ OnceAnswered
    /\ \A c \in Fds : ReadOrder(conn[c]) /\ WroteAt(c)

\* All of it: what the references, the waiting threads and the requests need is
\* inductive together.
TransportInv == ConnInv /\ WaitInv /\ RequestInv
=============================================================================
