# Specifications of the YFS lab system

The repository holds five successive versions of one system (`lab1`,
`lab1_plus`, `lab2`, `lab3`, `lab4`): a distributed file system (YFS) that
keeps its files in an extent server and synchronises through a lock server, and
a transactional key-value server (ydb) on top of the same two services, all
over one RPC library.  This directory models its core logic in TLA+, checks the
models with TLC on small instances and proves the most important results with
TLAPS for every value of the constants.  `PROJECT.json` is the index: components,
runs, mutants, the source lines of each definition, findings, hazards, theorems.

`lab4` is the reference for locks, caching and RPC, `lab3` for the database and
the inode manager, whose copies in `lab4` differ in layout and logging and, for
the inode manager, in optional results of reads and writes.

## 1. The system

| Component | State | Operations | Talks to |
|---|---|---|---|
| Caching lock service (`lock_client_cache.cc`, `lock_server_cache.cc`) | per lock: at the server FREE/USED/TOREVOKE, holder, queue; at a client NONE/FREE/ACQUIRING/USED/RELEASING, `toRevoke`, `toRetry`, two condition variables | `acquire`, `release` (both sides), `revoke_handler`, `retry_handler` | RPC both ways, handle manager |
| RPC endpoints (`rpc/rpc.cc`) | client: xids, `xid_rep_window_`, current connection; server: `reply_window_` and latest connection per client nonce | `call1`, `got_pdu`, `dispatch`, `checkduplicate_and_update`, `add_reply` | connections, thread pool |
| Connections, poll manager (`rpc/connection.cc`, `pollmgr.cc`) | socket, `dead_`, write buffer, callbacks | `send`, `read_cb`, `write_cb`, `block_remove_fd` | kernel, RPC endpoints |
| Thread pool, queue (`rpc/thr_pool.cc`, `fifo.h`) | bounded queue, ten threads | `addObjJob`, `takeJob` | RPC endpoints |
| Handle manager (`handle.cc`) | reference-counted clients, bound lazily | `safebind`, `get_handle`, `done_handle` | both servers |
| Inode and block manager (`inode_manager.cc`) | inode table, blocks, `freed_data`, `freed_inode` | `create_file`, `write_file`, `read_file`, `remove_file` | extent server |
| Extent cache (`extent_client.cc`, `extent_server.cc`) | client: EXCLUSIVE/SHARED/MODIFIED copies; server: `owner_map` | get, put, remove, `share`, `invalidate` | inode manager, RPC both ways |
| File system client (`yfs_client.cc`) | none of its own | create, lookup, read, write, unlink, symlink | locks, extent cache |
| Plain lock service (`lab3/lock_server.cc`) | owner per lock | `acquire` (waits in its dispatch thread), `release` | ydb server |
| Optimistic transactions (`ydb_server_occ.cc`) | `tMap`: keys used, with generation and flags; `commitLock` | begin, get, set, del, commit, abort | plain locks, extent server |
| Two-phase locking (`ydb_server_2pl.cc`) | `tMap`, `lockInfos` (owner, followers), `lockInfosLock` | the same, `checkAcquire`, `hasPath`, `finishT` | plain locks, extent server |

What is hard about them, and what makes each correct:

* **Caching locks.** RPCs nest four deep across processes, callbacks overtake the
  replies they refer to, a lock may be revoked before its grant arrived, sleepers
  are signalled one at a time. Correct: one holder, nobody waits in vain, a
  revoked lock is not reused.
* **RPC.** Requests are resent on new connections, run in any order, time out,
  outlive a server. Correct: a handler runs at most once, the caller is told the
  truth, a live network answers.
* **Inode manager.** Blocks move between files, the indirect block comes and goes
  at one size. Correct: no block shared or lost, reads return what was written.
* **Optimistic transactions.** A commit writes key by key while others read;
  everything rests on generations. Correct: serializable.
* **Two-phase locking.** `lockInfosLock` is handed from one thread to another
  through the lock of a key. Correct: serializable, locks released once, every
  deadlock found, everybody ends.
* **Extent cache and file system.** Call-backs between dispatch threads, locks of
  the parent only, inode numbers used again. Correct: the cache is invisible,
  directories name live inodes, lock chains end.
* **Connections and thread pool.** Ten threads send on connections that a poll
  thread calls back and an accepting thread deletes, descriptors are used again, a
  full queue pushes back. Correct: references count holders, replies stay whole,
  nobody waits for a signal that is gone.

`PROJECT.json` lists the 40 concrete hazards with their lines and the properties
that cover them, and says why where none does.

## 2. Modules

    LockSpec <---refines--- LockCache <-- LockCacheProofs
                            Rpc       <-- RpcProofs
    FsSpec   <---refines--- Yfs       <-- ExtentCacheProofs <-- YfsProofs
                             |-EXTENDS--> ExtentCache
                            Connection <-- ConnectionProofs
    FileSpec <---refines--- InodeManager <-- InodeManagerProofs
                                ^ INSTANCE Store    ^ INSTANCE
    SerialSpec <--refines-- YdbOCC       <-- YdbOCCProofs
    SerialSpec <--refines-- Ydb2PL       <-- Ydb2PLProofs

An `MC...` module beside each gives TLC its model values; the abstract
specifications (`LockSpec`, `FsSpec`, `FileSpec`, `SerialSpec`) say in a page what a
component promises; `PartialMaps` holds the maps with few keys that the last three
share. A definition called `Mutant...` is a plausible error in the
definition after it and is used by nothing; it shows that a property depends on
that piece of code.

**LockCache.** The server's and the clients' entries are variables of the code's
names. Calls are synchronous, so a chain of nested RPCs has one active end, and
`pc[t]` says how far the call of application thread `t` got, whoever executes it:
`revokeRelease` is the release sent by the revoke handler that the server called
while handling the acquire of `t`. A section under `lockMapMutex` is one action.
Condition variables are modelled as in POSIX: `Signalled` wakes one waiter,
`SpuriousWake` any, and a woken thread must find the lock again. `ServerPool` and
`ClientPool` are the dispatch threads, kept by a handler while its nested call
runs. Callers follow the code's discipline: what one holds and asks for is
bounded by `Before`, nobody asks for what it holds.

**Rpc.** A call is its xid; connections are numbered; requests and replies under
way are sets, since ten dispatch threads take and answer them in any order. A
connection breaks at any time, losing what it carries, and each end notices in
its own time (`cdead`, `sdead`). `dispatch` is four steps (`IdentifyClient`,
`CheckDuplicate`, `Run`, `SendReply`) because locks are dropped in between.
`Restart` loses the reply windows and changes the nonce. One client suffices: all
server state of the protocol is kept per client nonce. `RPC_LOSSY` (resending old
requests) is the constant `Lossy`.

**Connection.** The transport below Rpc, in one server process. `poll.pc` follows
`PollMgr::wait_loop`: `StartRound` releases those in `block_remove_fd` and copies
the watched sets, `Select` is `wait_ready`, `ServeReadable` and `ServeWritable` call
back one descriptor each, without the lock of the poll manager, as the code does.
`worker[t]` follows a dispatch thread through `fifo::deq`, `dispatch` and the waits
of `send` (`wait_send`, `wait_complete`, `wait_removed`); everything under a
connection's mutex is one action. `acceptor` is `process_accept`, whose test of
`isdead()` and `ref()` and the `decref` are separate steps. A connection is named by
its descriptor, which `Collect` frees and `Accept` gives out again. A PDU is two
chunks, so that requests arrive and replies leave in parts; a request is nothing but
the branch of `dispatch` it takes (`Kinds`), the rest is Rpc's. `aborted` records a
failed `VERIFY`, which ends the process, `leaked` the references that the branch for
an old server instance never drops. `errnoAgain` is the errno `readpdu` consults.

**ExtentCache.** A client calls from one thread, so `rpc[c]` is its one call,
followed through the server's handler: the owners are looked up, then called back
one by one, then the handler ends. `put` is two actions, for a copy of its own
(`PutLocal`) and through the server (`PutThrough`); the fall-through of its `switch`
is in `PutLocal`. The inode manager below is a type and a text per inode, with its
habit of handing out the lowest free number and of keeping the text of a removed
file. Who calls what when is left to the module that EXTENDS it. `owner_map` has
a sequence for each file, as the code has a `vector`. The invariant of
the protocol, `CacheInv`, is at the end of the module.

**Yfs.** `yfs_client.cc` under the handlers of `fuse.cc`, over ExtentCache and locks
with one holder (what `LockSpec` promises and LockCache is proved to implement).
`call[c]` is the FUSE request a client serves: lock, read, make or remove an inode,
put, unlock, then the looks (`getattr`: twice locked and read) that the handler goes
on with. `FsSpec` is one tree of files that changes in single steps; the refinement
mapping hides an entry while an unlink has removed its inode but not yet put the
directory, or while a symbolic link has no text yet (`Hiding`). `Spec` is what the code
does. It fails when a client starts after others have begun to work, and when a file is
unlinked while another client's call is about it, so the properties are stated for
`OrderlySpec`, whose `OrderlyJoin`, `OrderlyStart` and `OrderlyLockEntry` are the actions
of `Spec` under the condition that this does not happen. The inductive invariant
`YfsInv`, and `FsInv` that the refinement needs, are stated in the module, so that TLC
checks what the proofs use.

**InodeManager.** One step per operation, sizes in blocks, an indirect block that
holds a list of block numbers. The order in which `write_file` takes blocks is
kept, and `alloc_block` takes the smallest free one. `UsesRemoved` allows writes
to removed files, which the file system does not do and the database does.

**YdbOCC.** Composed with InodeManager: each value with its generation is one
block of the inode that `hash()` gives the key, so that `del` has the effect
`remove_file` has. The locks of keys and of `tMap` guard single accesses and make
these steps atomic; `commitLock` is held over several and is `committing`.
`got` records what clients were told, which the code does not keep. Generations
are natural numbers: the code's `int` is taken not to overflow.

**Ydb2PL.** `at[t]` follows a call through `checkAcquire` and `finishT`, one step
per lock operation or section under `lockInfosLock`. The lock server is `free`,
and a release of a free lock (a `VERIFY` that ends the process) sets `crashed`.
`HasPath` is the closure that the recursive `hasPath` computes. The store is the
map `stored`. `del` is not modelled here.

## 3. Runs

Passing runs:

| Run | Instance | What it shows |
|---|---|---|
| `lockcache_clients` | 1 lock, 3 clients, one with 2 threads, pools of 2, fairness; 14 221 states | `MutualExclusion`, `CacheMatchesServer`, `QueueSound`, `CallbackPending`, `NoLostWakeup`, `RevokedNotReused`, the inductive invariant `IndInv`, refinement of `LockSpec`; `RequestGranted` and `WaitersServed` |
| `rpc_safety` | 3 calls (one of them bind), 2 connections, 1 restart, any call may time out, lossy; 379 439 states | `RpcInv`, `AnswerInv`, `AtMostOnce`, `RepliedWasRun`, `AwaitedNotForgotten` |
| `rpc_liveness` | 3 calls, 2 connections, no deadline, fairness; 11 907 states | `CallAnswered` |
| `connection_server` | 2 descriptors (the second connection just accepted), 1 more accepted, 2 dispatch threads, queue of 1, sockets of 2 chunks, 2 requests of which one arrives in parts, 1 connection breaks, fairness; 371 862 states | `RefsCounted`, `PollSound`, `WireWhole`, `TakenOnce`, `NobodyForgotten`, the inductive invariant `TransportInv`, `SendReturns` |
| `yfs_shared` | `OrderlySpec`; 3 clients with 6 kinds of request, 3 inodes, 2 names, files of up to 2 units; 196 734 states | `Coherent`, `CallBackSafe`, `NamesSound`, `WaitsEnd`, the inductive invariant `FsInv` (with `YfsInv`), refinement of `FsSpec` |
| `inode_files` | 2 inodes, 4 blocks, files of up to 3 blocks, 1 direct; 65 461 states up to symmetry | `InodeInv` (with `NoSharing`), `NoLeak`, refinement of `FileSpec` |
| `occ_serial` | 3 transactions, 2 keys, 2 values, keys read before they are set; 27 964 states up to symmetry | `OccInv`, `WrittenVersionGrows`, refinement of `SerialSpec` |
| `twopl_serial` | 3 transactions over a ring of 3 keys, fairness; 164 623 states | `TwoPLInv`, `NeverReleasedTwice`, `NoWaitCycle`, refinement of `SerialSpec`, `EveryTxnEnds` |

Runs that find a property violated, and the statement of the repository it takes
at its word (details under "findings"):

| Run | Violated | What happens |
|---|---|---|
| `rpc_forgotten` | `ForgottenWasRun`: FORGOTTEN means "duplicate of an old RPC whose reply we've forgotten" (`lab4/rpc/rpc.h:273`) | a call that timed out counts as acknowledged, so a later request cuts the window above one that is still on its way; that one is refused without ever having run |
| `occ_blind` | `ImplementsSerialSpec` when keys may be set unread | a blind write is not validated and stores the generation it saw plus one, which another commit may have stored already; a reader of the other value then passes validation |
| `twopl_handover` | `NeverReleasedTwice` when the lock server serves waiters in any order | `checkAcquire` becomes owner before it has the key; a follower gets the key first and releases `lockInfosLock` as if it had been handed over |
| `yfs_stale` | `CalleesHaveEntry`: `assert(iter != extent_map.end())` (`lab4/extent_client.cc:149`) | a lookup unlocks the directory before its caller looks at the inode; an unlink removes it, a create gets its number, and the look makes the server ask the creator, whose create has not returned, to share an entry it does not have |

`MCYdbOCC_delete.cfg` is a configuration beside the runs: with keys deleted
(`Deletes`) TLC finds `WrittenIsStored` violated, since `remove_file` clears the type of
the inode only and the old value of the key is still read.

In `connection_server` the process may abort: `write_cb` asserts that its connection
is not dead, but `send` sets `dead_` and gives up its mutex before `block_remove_fd`
has ended the callbacks, so that a reply which fails while the descriptor is still in
the poll thread's list of writable ones ends the server (`connection.cc:174`; TLC
reaches it in 22 steps). The properties hold up to that point, and `PollSound` says
that no other `VERIFY` fails.

Deadlock is checked except in the Rpc runs (the client ends after `MaxXid` calls)
and the ydb runs (every transaction ends).

### Bounds, and why they are enough

* **LockCache.** Three clients give a holder and two waiters, so that a lock is
  revoked again before its grant is answered (the queue is not empty after
  `pop_front`). Two threads of one client give local hand-over and sleepers on
  `lockCond`. Steps about different locks share the pools only; with pools no larger
  than the number of chains that can block they deadlock. What holds of many locks
  is proved: `IndInv` and the refinement, for any set of them.
* **Rpc.** At-most-once is endangered by one resend, one reconnection, one restart
  and one overtaking request; the instance has each. xids, connections and
  instances are bounded by `MaxXid`, `MaxConn`, `MaxSrv`, nothing else is.
* **Connection.** Two threads give a sender and one that waits for it, or a sender
  and a full queue. The connection that breaks is served by both ways out: a failing
  write in a dispatch thread, a failing read in the poll thread. Of its two replies
  the second may fail while the poll thread still holds the descriptor as writable
  from the first; and the other connection may become the client's latest, so that
  the dead one is deleted and its descriptor given to a third. Bounds: `MaxAccepts`,
  `MaxBreaks`, `Fragile`, and each request sent once, on a descriptor of `SentOn`.
* **Yfs.** One client creates a file and truncates it, one writes it and looks it up, a
  third unlinks it and makes a symbolic link: both numbers below the root are used
  again, by a client that may have a copy. Directories are made in the root only.
  `create` waits while no inode is free, which is a bound: `create_file` returns -1 as
  a `uint32_t` then, which `extent_server.cc:12` compares as a 64-bit number, so that
  the code would go on with inode 4294967295. `OrderlySpec` excludes two things that
  the code lets happen. One is a file that is unlinked while another client's call
  names it; `yfs_stale` shows what follows (there a call may be about the file when
  the unlink begins, all else is orderly). The other is a client that starts while
  others start or work: its constructor puts an empty root without its lock, which
  takes the names created so far with it. With `SPECIFICATION Spec` in
  `MCYfs_shared.cfg` TLC finds `CalleesHaveEntry` violated after 12 states: three
  clients start at once, the puts of two invalidate the copy of the third, and the
  second finds none.
* **InodeManager.** `NDIRECT` 1 and three blocks: sizes below, at and above the
  boundary, and two blocks listed in an indirect one. Four blocks are fewer than
  two files of full size need, so that the disk does fill up. A write that does
  not fit is no step (the code goes on with block number -1, a hazard not covered).
* **YdbOCC, Ydb2PL.** Violations of serializability of the kinds in question need
  two transactions and two keys, the duplicate generation needs three; a deadlock
  that pairwise checks miss needs a ring of three. In `twopl_serial` a client
  program (`Ring`) limits which keys each transaction uses, and reads, sets of
  keys read before, and blind sets all occur.

### Fairness, and why the code justifies it

* **LockCache**: strong fairness of `Continue(t)`: dispatch queues are FIFO and a
  handler's nested call ends, so a call that finds a free dispatch thread again
  and again is served. Strong fairness of `ClientRelease`: applications release
  what they hold. Two threads per client *and* two locks would fail
  `RequestGranted`: a thread signalled on `lockCond` may find the cached lock
  taken again each time, while it holds another lock. That is starvation by its
  own client, and in the code as well.
* **Rpc**: weak fairness of sending, delivery, dispatch threads and of both ends
  noticing a broken connection; none of `StartCall`, `Break`, `Restart`. No call
  times out, and the bound's last connection does not break (`CallAnswered` says
  so). `PromptServer` assumes that the server notices a broken connection before
  the client opens the next one: `call1` looks at `isdead()` only after a wait of
  at least a second. Without it the property is false: a reply is written to a
  connection that is half dead after its duplicate was dropped as in progress.
* **Connection**: weak fairness of the poll thread, of each dispatch thread and of the
  peers' reading: threads are scheduled, and a living peer takes its replies (a client's
  poll thread reads whatever arrives). None of new connections, requests or failures.
* **Yfs**: no liveness property is checked; three clients with fairness exceed TLC's
  reach here. Deadlock is checked, and `WaitsEnd` shows that chains of waiting
  clients have length one, whatever they hold.
* **Ydb2PL**: weak fairness of the server's threads and of `Commit`: a client ends
  the transaction it began. `TakersFirst` assumes that a lock goes to a
  transaction that found it without owner before a follower gets it. The lock
  server does not promise that; `twopl_handover` drops it.

## 4. Proofs

| Theorem | Module | Statement |
|---|---|---|
| `TypeCorrect` | LockCacheProofs | `TypeOK`, and a TOREVOKE lock has waiters |
| `IndInvariant` | LockCacheProofs | `Spec => []IndInv` |
| `MutualExclusionHolds`, `CacheMatchesServerHolds`, `QueueSoundHolds` | LockCacheProofs | follow from `IndInv` |
| `CallbackPendingHolds`, `NoLostWakeupHolds` | LockCacheProofs | inductive given `IndInv` |
| `RevokedNotReusedHolds` | LockCacheProofs | the action property, from `IndInv` |
| `Implementation` | LockCacheProofs | `Spec => ImplementsLockSpec` |
| `RpcInvariant` | RpcProofs | `Spec => []RpcInv` |
| `AtMostOnceHolds` | RpcProofs | follows from `RpcInv` |
| `AnswerInvariant` | RpcProofs | `Spec => []AnswerInv` |
| `RepliedWasRunHolds`, `AwaitedNotForgottenHolds` | RpcProofs | follow from `AnswerInv` |
| `ConnInvariant` | ConnectionProofs | `Spec => []ConnInv` |
| `RefsCountedHolds`, `PollSoundHolds` | ConnectionProofs | follow from `ConnInv` |
| `NobodyForgottenHolds` | ConnectionProofs | from `WaitInv`, inductive given `ConnInv` |
| `TransportInvariant` | ConnectionProofs | `Spec => []TransportInv`, which is `ConnInv`, `WaitInv` and `RequestInv` |
| `TakenOnceHolds`, `WireWholeHolds` | ConnectionProofs | follow from `TransportInv` |
| `YfsInvariant` | YfsProofs | `OrderlySpec => []YfsInv`, if `DirsStay`: all clients start before the first request, no file is unlinked while another client's call is about it, directories are not unlinked |
| `CoherentHolds`, `CallBackSafeHolds`, `NamesSoundHolds`, `WaitsEndHolds` | YfsProofs | follow from `YfsInv`, for `OrderlySpec` with `DirsStay` |
| `FsInvariant` | YfsProofs | `OrderlySpec => []FsInv`, if `DirsStay` |
| `OneTreeOfFiles` | YfsProofs | `OrderlySpec => ImplementsFsSpec`, if `DirsStay` |
| `InodeInvariant` | InodeManagerProofs | `Spec => []InodeInv`, if removed files are not written |
| `NoLeakHolds` | InodeManagerProofs | follows from `InodeInv` |
| `FilesImplemented` | InodeManagerProofs | `Spec => ImplementsFileSpec`, under the same condition |
| `OccInvariant` | YdbOCCProofs | `Spec => []OccInv`, if keys are read before they are set and none is deleted |
| `WrittenVersionGrowsHolds` | YdbOCCProofs | the action property, under the same conditions |
| `Serializable` | YdbOCCProofs | `Spec => ImplementsSerialSpec`, under the same conditions |
| `LockedInvariant`, `Serializable` | Ydb2PLProofs | keys, owners and values agree; `Spec => ImplementsSerialSpec` |
| `TwoPLInvariant` | Ydb2PLProofs | `Spec => []TwoPLInv`, with takers first |
| `NeverReleasedTwiceHolds`, `NoWaitCycleHolds` | Ydb2PLProofs | under the same condition |

The assumptions are those of the modules: any sets of clients, threads, locks, keys,
blocks, descriptors and transactions (finite where the code allocates from them), any
assignment of threads to clients, any pool, queue and file sizes and any order of
locks; any bounds on calls, connections and restarts, and both values of each flag.
Some theorems hold under a condition, which they state, and a run shows what happens
without it or section 3 says who keeps it: `~UsesRemoved` (the file system writes no
removed file), `~BlindWrites` (`occ_blind`), `~Deletes` (`MCYdbOCC_delete.cfg`),
`TakersFirst` (`twopl_handover`), and `DirsStay` (no process calls unlink for a name
under which another makes a directory: the kernel answers an unlink of a directory
itself, and the handlers have no rmdir). The theorems of `YfsProofs` are about
`OrderlySpec`, not `Spec`: nothing in the code keeps a client from starting late or a
file from being unlinked under another's call, so they say what users get who see to it
that neither happens, and `yfs_stale` that they must.

**Locks.** `MutualExclusion` is not inductive: a step that grants a lock looks only
at the server's entry or only at a client's. `IndInv` says what ties them:

1. for each client and lock one thread acts (`EngagedOnce`), in a way the client's
   entry shows (`EngagedState`), or a revoke handler acts alone (`HandlerInv`);
2. the server books the lock to exactly the client whose thread has it, was granted
   it in a reply under way, or is sending it back (`ThreadTenure`, `EntryTenure`);
3. a revoke is sent once per tenure, and `toRevoke` belongs to the present tenure
   (`RevokeSent`, `RevokeNoted`): so a client never gives back a lock it does not
   have, which `lock_server_cache::release` would not notice;
4. a retry goes to the front of the queue while nobody has the lock, once
   (`RetryQueued`, `QueuedAcquires`, `RetryAgain`, `RetrySent`, `RetryNoted`): so
   only the front may ask while the lock waits for it.

`LockCacheProofs` has types, facts about queues and signals and one lemma per action
(or case of one), then puts them together. For the refinement, a step that adds to `held` is `AcquireDone` or a
cache hit, and by 1 and 2 nobody else holds the lock then. `CallbackPending` and
`NoLostWakeup` speak of one lock at a time, as each step of a thread does: what
`IndInv` says of the lock the step is about shows that it hands the duty to call
back, or to wake, to somebody else or is done with it.

**RPC.** That a request is not run again rests on the reply window refusing it for
as long as its server instance lives, although entries are erased. `RpcInv` adds to
`AtMostOnce`: requests acknowledge only smaller xids (`HeaderInv`); what ran or runs
is in the window or older than all of it (`RanIsSeen`: erasing below `xid_rep` keeps
a window that is not empty, for the request that causes it is larger); one job runs
a request (`RunsOnce`); handlers run in the instance the header names
(`RightInstance`).

`AnswerInv` is what the callers see. That an OK stands for a run (`OkInv`) holds
whatever happens. That a call still waiting is never told FORGOTTEN needs more, and
only until the first call gives up: what a request acknowledges is smaller than every
xid the client still waits for (`BindInv`, `AckInv`), so the floor of the server's
window never passes one (`FloorInv`). `rpc_forgotten` shows the case after a timeout.

**Connections.** `RefsCounted` alone is not inductive: whether the last `decref` may
delete depends on who is inside `send`. `ConnInv` adds

1. what is in `wpdu_` belongs to a thread that is in `send` on that connection and so
   holds a reference (`WbufInv`): the destructor's `VERIFY` follows, since no thread in
   `send` gives up the last reference;
2. what is watched or has a callback is open, and a dead connection is watched only
   while the thread that found it broken is removing it (`Watched`, `DeadInv`). A
   descriptor that `accept` returns is closed until then (`FreeInv`), so
   `add_callback` finds no callback there;
3. what the poll thread selects on or found readable is open, and still alive and
   readable, unless a thread waits in `block_remove_fd` for this very round to end
   (`RoundInv`): so `readpdu` has something to read. That thread keeps its reference
   meanwhile, which is why the descriptor is not given to another connection under
   the poll thread's hands.

The proof of `RefsCounted` moves references along: `DecrefKeeps` says that whoever is
not in `send` may drop one and at worst deletes a dead connection nobody watches,
`RefsMoved` and `RefsOfTable` that the count follows the holder.

`NobodyForgotten` needs, beside `ConnInv`, that each wait has its reason at the
connection it is about (`WaitAt`): a thread in `send` owns `wpdu_`, one that woke from
`send_complete_` finds the PDU written or the connection dead, and one that waits for
`wpdu_` finds it taken. `WaitAtKept` says that a step elsewhere leaves these alone, so
what remains is the signal each of `write_cb`, `read_cb` and the end of `send` owes. For
the queue the count of threads on their way to it moves with its length.

`TakenOnce` and `WireWhole` speak of what passes through, and are proved together
since whether a request was answered once depends on where it can still be.
`RequestInv` gives each request one place, `Places`: its peer, a socket, `rpdu_`, the
job queue or a thread (`OnePlace`). A step takes it from one to the next
(`MovingRequests`) or leaves it where it is (`QuietRequests`). What is read alternates
between lengths and rests, no length comes twice, and half a request in `rpdu_` waits
for its own rest (`ReadOrder`): so `readpdu` cannot take one request for another when
it goes on. What is written is whole replies and, while `wpdu_` is owned, as many
parts of the owner's reply as it has counted (`WroteAt`); only a dead connection may
end in half a reply. An answered request is nowhere but with its thread
(`OnceAnswered`), which either drops it or is still in that `send`.

**File system.** The caches are coherent because of the locks, and the locks are on the
right inodes because the caches are coherent, so that everything is one invariant,
`YfsInv`:

1. `CacheInv`, the protocol: for a file nobody calls about, `owner_map` names the
   clients with a copy, and a copy that may be written without asking is the only one
   (`Settled`); for one that a client calls about, what its call has found and done so
   far (`GetInv`, `PutInv`, `RemoveInv`, `CreateInv`), and that no other client calls
   about it (`Busy`).
2. `BufInv`: from its read to its put a client works on what the file still contains.
   A `share` or `invalidate` in between would have to come from a client that holds the
   same lock (`LockInv`), or that makes the inode anew.
3. `TreeInv`: the directories are a tree, each inode with one name, but for the entry
   that an unlink has not yet taken out; that entry is in a directory the client has
   locked (`Stale`). `RemoveInode` leaves it dangling, another client may be given the
   number at once and name it elsewhere, before the first has put its directory.
4. `ClaimInv`: an inode that is being made or removed is the business of no other call.
   A new one has no name or the one its maker gave it; one to be removed is no
   directory, and has been locked through its only name.
5. `OwnInv`, `PhaseInv`, `TargetInv`, `StartInv`: what a client knows at each point, that
   what it is about exists, and that the clients' constructors have put the root before
   anybody works (which `OrderlyJoin` and `OrderlyStart` see to).

`ExtentCacheProofs` shows each step of a client's call and of the server's handlers to
keep `CacheInv`, and says what it does to the contents of a file as its lock holder sees
it: nothing, but for the one step at which a put takes effect. `YfsProofs` has a lemma for
each action of `Yfs`. `QuietStep` covers those that change no contents, `WorkStep` those
of one client inside its call; both say for all other clients that what the invariant
demands of them is as before. `Coherent` and `CallBackSafe` then come from 1 and 2,
`NamesSound` from 3, `WaitsEnd` from 3 and 4: who waits with a lock held is at work in a
directory and waits for what is none.

That the whole is one tree of files (`OneTreeOfFiles`) is the end-to-end result: an
update of a client rests on what it has seen, and nobody has changed the file since.
`YfsInv` says that a client works on what the file contains until its put, but a call
goes on after the put, and processes do not see what `Contents` has. `FsInv` adds

1. `WorkInv`: the type a client has in its cache is that on the disk; a directory an
   unlink or symlink has put contains just that change until the client unlocks it
   (`Landed`); a new inode is empty;
2. `NamedInv`: what a call is about has a name, from the lookup that found it to the end
   (what `OrderlyStart` and `OrderlyLockEntry` are needed for);
3. `TextInv`: files that have a name hold a text.

From these, what processes see of a directory is its contents without the one entry
its lock holder hides (`VisibleOpen`, `ShownIs`, about the loop of `Without`), and what a
client has seen is what the tree has (`SeenIs`). Then every action has a second
lemma. Most steps are calm (`CalmStep`): the tree stays as it is, and the client looks,
forgets, or neither. The others are updates (`UpdateStep`), and the proof says where
each takes effect: a write, setattr, create or mkdir where its new contents land
(`Lands`), in the client's own copy if it is the only one, or at the server when it
looks at the put, before the other copies are invalidated; an unlink where it begins
to remove the inode, which is why a directory that still lists it is not what is seen;
a symlink where the new inode gets its text, the put of the directory before it being
hidden. `NothingAssumption` says that no file, and no pair of inode and file, is the value
`NoEntry` that stands for none.

**Inode manager.** `InodeInv` says that the blocks of all files and of the free list
are distinct and that an inode's size fits its blocks. `write_file` takes its blocks by
repeated `alloc_block` calls; the lemmas show that these are different free blocks and
that the blocks of the file afterwards are the old ones it keeps and these. The
refinement then is a map from each file's blocks to their contents that no other
file's operation changes.

**Optimistic transactions.** `OccInv` says that a generation identifies a value: who
read a key and finds its generation unchanged at commit has read what is stored. Each
commit then is a single step of `SerialSpec`, at its validation. A blind write breaks the
first, a deleted key (whose value can still be read) the second, hence the conditions.
The module instantiates the lemmas of InodeManagerProofs for its store.

**Two-phase locking.** Serializability rests on `LockedInv` only: a key is locked for
one transaction at most, and what a transaction read stays as it was while it has the
key. That `lockInfos` names the owner of each locked key, that `lockInfosLock` is held
by one thread and handed over through a key's lock, and hence `NeverReleasedTwice`, is
`TwoPLInv`, which needs takers first. `NoWaitCycle` follows since `hasPath` is asked
while `lockInfosLock` is held: a new edge closes no circle, of whatever length.

Only model-checked: all liveness properties (fairness and ENABLED are beyond the
prover). Every other property of a passing run is stated by a theorem.

## 5. Not modelled

* **Handle manager**: the modelled services take the client at the other end as
  bound; it would be a model of its own (references, and a failed bind that dooms the
  handle), with no bearing on the others.
* **Ends of a server**: `closeconn`, `~tcpsconn`, `~ThrPool`. No server of the
  repository ends, only `rpctest.cc` deletes one. Reading shows that `closeconn` sets
  `dead_` without signalling `send_complete_`: a dispatch thread that waits there
  would never return and `~ThrPool` would join it for ever.
* **Extent cache**: the `std::map` at a client is shared between the FUSE thread and
  the dispatch threads that call back, without a lock; `CallBackSafe` shows that they
  do not work on the same entry, the race on the map itself is not modelled. Times
  and sizes in attributes are left out.
* **Blocking queue** (`enq` that waits): every pool of the repository is non-blocking.
* **Plain lock service**: only as the ydb server uses it, without the limit of its
  thread pool; a waiting acquire keeps one of ten threads.
* **RPC failures below the lock service**: the client takes a failed acquire for
  RETRY.
* **Errors of the transport that do not change its protocol**: a PDU that is too short
  or too big for `readpdu`, which ends the connection as a failed read does, and a
  spurious wake-up of `block_remove_fd`, which waits at `pollmgr.cc:66` without a loop
  and would go on before the poll thread's round has ended.
* **ydb client and base server** (discipline of the clients only), **marshalling**
  (no state), **earlier versions** (superseded), **tests and fxmark**.
* Data races of the inode manager under the threads of the extent server, which
  holds no lock: each operation is one step here.

## 6. Plan

Modules, in the order of the weight of what they decide:

1. `del` in `Ydb2PL`, thread limits of the lock server, failing RPCs in `LockCache`.
2. The handle manager with `safebind`.
3. What `Spec` of `Yfs`, with clients that start late and files unlinked under a call,
   still promises once a failed assert ends the client it fails at.

Theorems: those of the new modules.
