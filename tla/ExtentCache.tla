---------------------------- MODULE ExtentCache -----------------------------
(***************************************************************************)
(* The extent cache: extent_client.cc and extent_server.cc.                *)
(*                                                                         *)
(* A client keeps whole files.  The server knows who has a copy of a file  *)
(* (owner_map); before it answers a get it makes a sole owner share its    *)
(* copy, before it carries out a put or a remove it invalidates the copies *)
(* of the others, by calls back to the clients.  A client calls from one   *)
(* thread (the FUSE loop), so rpc[c] is its one call to the server, and    *)
(* follows it through the server's handler.  Each section between two RPCs *)
(* is one step.  Who calls what when is up to the module that uses this.   *)
(***************************************************************************)
EXTENDS Naturals, Sequences, SequencesExt

CONSTANTS
  Clients,        \* extent_client objects, named by host_id
  Inums,          \* inode numbers (1 .. INODE_NUM - 1)
  Root,           \* the inode inode_manager's constructor allocates
  DirType, FileType, LinkType,   \* T_DIR, T_FILE, T_SYMLINK
  NoType,         \* the type 0 of an inode that was removed or never used
  NoEntry         \* extent_map has no entry for the inode

ASSUME InumsAssumption == Inums \subseteq Nat /\ Root \in Inums
ASSUME TypesAssumption ==
  /\ NoType \notin {DirType, FileType, LinkType}
  /\ DirType \notin {FileType, LinkType}

VARIABLES
  extent_map,     \* per client and inode: copy with its type and status
  owner_map,      \* server, per inode: clients with a copy, oldest first
  disk,           \* server, per inode: type and data of inode_manager
  rpc             \* per client: its call to the server

cacheVars == <<extent_map, owner_map, disk, rpc>>

Entry(data, type, status) == [data |-> data, type |-> type, status |-> status]

NoCall == [op |-> "none", at |-> "none", eid |-> Root, data |-> <<>>,
           type |-> NoType, todo |-> <<>>, is_share |-> FALSE, update |-> FALSE]

Cached(c, e) == extent_map[c][e] # NoEntry
SetEntry(c, e, entry) == extent_map' = [extent_map EXCEPT ![c][e] = entry]

CacheInit ==
  /\ extent_map = [c \in Clients |-> [e \in Inums |-> NoEntry]]
  /\ owner_map = [e \in Inums |-> <<>>]
  /\ disk = [e \in Inums |-> [type |-> IF e = Root THEN DirType ELSE NoType,
                              data |-> <<>>]]
  /\ rpc = [c \in Clients |-> NoCall]

-----------------------------------------------------------------------------
(* extent_client: the part of a call before its RPC, or all of it          *)

Call(c, op, e, data, type) ==
  /\ rpc[c] = NoCall
  /\ rpc' = [rpc EXCEPT ![c] = [NoCall EXCEPT !.op = op, !.at = "request",
               !.eid = e, !.data = data, !.type = type]]
  /\ UNCHANGED <<owner_map, disk>>

\* get and getattr of a file without a copy here: pull_helper.
Pull(c, e) ==
  /\ ~Cached(c, e)
  /\ Call(c, "get", e, <<>>, NoType)
  /\ UNCHANGED extent_map

CallCreate(c, type) == Call(c, "create", Root, <<>>, type) /\ UNCHANGED extent_map

\* put to a copy nobody else has.
PutLocal(c, e, data) ==
  /\ rpc[c] = NoCall
  /\ Cached(c, e) /\ extent_map[c][e].status # "SHARED"
  /\ SetEntry(c, e, Entry(data, extent_map[c][e].type, "MODIFIED"))
  /\ UNCHANGED <<owner_map, disk, rpc>>

\* put to a shared copy, or without a copy: then a new entry comes first.
PutThrough(c, e, data) ==
  /\ Cached(c, e) => extent_map[c][e].status = "SHARED"
  /\ IF Cached(c, e) THEN UNCHANGED extent_map
                     ELSE SetEntry(c, e, Entry(<<>>, NoType, "EXCLUSIVE"))
  /\ Call(c, "put", e, data, NoType)

\* remove drops the copy before the server hears of it.
CallRemove(c, e) == SetEntry(c, e, NoEntry) /\ Call(c, "remove", e, <<>>, NoType)

-----------------------------------------------------------------------------
(* extent_server: the handlers, with the calls back to clients             *)

\* The members of s that are not in T, in their order.
Without(s, T) ==
  LET rest[n \in 0..Len(s)] ==
        IF n = 0 THEN <<>>
        ELSE IF s[n] \in T THEN rest[n - 1] ELSE Append(rest[n - 1], s[n])
  IN  rest[Len(s)]

OthersThan(c, owners) == Without(owners, {c})

\* A handler that calls its caller back as well.
MutantCallBacks(c, op, owners) ==
  IF op = "get" THEN IF Len(owners) = 1 THEN owners ELSE <<>> ELSE owners

\* Whom the handler calls back: get a sole owner, put and remove all others.
CallBacks(c, op, owners) ==
  IF op = "get" THEN IF Len(owners) = 1 THEN owners ELSE <<>>
                ELSE OthersThan(c, owners)

\* The handler starts and looks up the owners.
ServerLookup(c) ==
  /\ rpc[c].at = "request" /\ rpc[c].op \in {"get", "put", "remove"}
  /\ LET owners == owner_map[rpc[c].eid] IN
       rpc' = [rpc EXCEPT ![c].at = "callback",
                          ![c].todo = CallBacks(c, rpc[c].op, owners),
                          ![c].is_share = rpc[c].op = "get" /\ owners # <<>>]
  /\ UNCHANGED <<extent_map, owner_map, disk>>

\* The client that is called back.
Callee(c) == Head(rpc[c].todo)

\* Its handlers assert that they find the entry.
CalleeHasEntry(c) == Cached(Callee(c), rpc[c].eid)

\* An owner that shares its copy and keeps what it modified to itself.
MutantShareHandler(c) ==
  /\ rpc[c].at = "callback" /\ rpc[c].todo # <<>> /\ rpc[c].op = "get"
  /\ CalleeHasEntry(c)
  /\ SetEntry(Callee(c), rpc[c].eid,
              [extent_map[Callee(c)][rpc[c].eid] EXCEPT !.status = "SHARED"])
  /\ rpc' = [rpc EXCEPT ![c].todo = Tail(@)]
  /\ UNCHANGED <<owner_map, disk>>

\* extent_client::share_handler
ShareHandler(c) ==
  /\ rpc[c].at = "callback" /\ rpc[c].todo # <<>> /\ rpc[c].op = "get"
  /\ CalleeHasEntry(c)
  /\ LET copy == extent_map[Callee(c)][rpc[c].eid]
         update == copy.status = "MODIFIED" IN
       /\ SetEntry(Callee(c), rpc[c].eid, [copy EXCEPT !.status = "SHARED"])
       /\ rpc' = [rpc EXCEPT ![c].todo = Tail(@), ![c].update = update,
                             ![c].data = IF update THEN copy.data ELSE <<>>]
  /\ UNCHANGED <<owner_map, disk>>

\* extent_client::invalidate_handler
InvalidateHandler(c) ==
  /\ rpc[c].at = "callback" /\ rpc[c].todo # <<>> /\ rpc[c].op \in {"put", "remove"}
  /\ CalleeHasEntry(c)
  /\ SetEntry(Callee(c), rpc[c].eid, NoEntry)
  /\ rpc' = [rpc EXCEPT ![c].todo = Tail(@)]
  /\ UNCHANGED <<owner_map, disk>>

\* All calls back have returned.
CalledBack(c, op) ==
  rpc[c].at = "callback" /\ rpc[c].todo = <<>> /\ rpc[c].op = op

Reply(c, data, type) ==
  rpc' = [rpc EXCEPT ![c].at = "reply", ![c].data = data, ![c].type = type]

ServerGet(c) ==
  /\ CalledBack(c, "get")
  /\ LET e == rpc[c].eid
         data == IF rpc[c].update THEN rpc[c].data ELSE disk[e].data IN
       /\ disk' = [disk EXCEPT ![e].data = data]
       /\ owner_map' = [owner_map EXCEPT ![e] = Append(@, c)]
       /\ Reply(c, data, disk[e].type)
  /\ UNCHANGED extent_map

\* A put that does not clear the list of owners first.
MutantServerPut(c) ==
  /\ CalledBack(c, "put")
  /\ LET e == rpc[c].eid IN
       /\ owner_map' = [owner_map EXCEPT ![e] = Append(@, c)]
       /\ disk' = [disk EXCEPT ![e].data = rpc[c].data]
       /\ Reply(c, rpc[c].data, disk[e].type)
  /\ UNCHANGED extent_map

ServerPut(c) ==
  /\ CalledBack(c, "put")
  /\ LET e == rpc[c].eid IN
       /\ owner_map' = [owner_map EXCEPT ![e] = <<c>>]
       /\ disk' = [disk EXCEPT ![e].data = rpc[c].data]
       /\ Reply(c, rpc[c].data, disk[e].type)
  /\ UNCHANGED extent_map

\* remove_file clears the type; the old data can still be read.
ServerRemove(c) ==
  /\ CalledBack(c, "remove")
  /\ owner_map' = [owner_map EXCEPT ![rpc[c].eid] = <<>>]
  /\ disk' = [disk EXCEPT ![rpc[c].eid].type = NoType]
  /\ Reply(c, <<>>, NoType)
  /\ UNCHANGED extent_map

\* create_file takes the smallest free number; insert keeps an owner there is.
ServerCreate(c) ==
  /\ rpc[c].at = "request" /\ rpc[c].op = "create"
  /\ \E e \in Inums :
       /\ disk[e].type = NoType
       /\ \A f \in Inums : disk[f].type = NoType => e <= f
       /\ disk' = [disk EXCEPT ![e] = [type |-> rpc[c].type, data |-> <<>>]]
       /\ owner_map' = [owner_map EXCEPT ![e] = IF @ = <<>> THEN <<c>> ELSE @]
       /\ rpc' = [rpc EXCEPT ![c].at = "reply", ![c].eid = e]
  /\ UNCHANGED extent_map

ServerStep(c) ==
  \/ ServerLookup(c) \/ ShareHandler(c) \/ InvalidateHandler(c)
  \/ ServerGet(c) \/ ServerPut(c) \/ ServerRemove(c) \/ ServerCreate(c)

-----------------------------------------------------------------------------
(* extent_client: the part of a call after its RPC                         *)

\* The copy after the call; a created file does not replace an entry there is.
ReturnedEntry(c) ==
  LET r == rpc[c] IN
    CASE r.op = "get" -> Entry(r.data, r.type, IF r.is_share THEN "SHARED" ELSE "EXCLUSIVE")
      [] r.op = "put" -> Entry(r.data, r.type, "EXCLUSIVE")
      [] r.op = "remove" -> NoEntry
      [] r.op = "create" -> IF Cached(c, r.eid) THEN extent_map[c][r.eid]
                                                ELSE Entry(<<>>, r.type, "EXCLUSIVE")

Return(c) ==
  /\ rpc[c].at = "reply"
  /\ SetEntry(c, rpc[c].eid, ReturnedEntry(c))
  /\ rpc' = [rpc EXCEPT ![c] = NoCall]
  /\ UNCHANGED <<owner_map, disk>>

-----------------------------------------------------------------------------
(* Vocabulary of the properties                                            *)

\* A call about e is under way.
InCall(e) ==
  \E c \in Clients :
    /\ rpc[c] # NoCall
    /\ rpc[c].eid = e /\ (rpc[c].op = "create" => rpc[c].at = "reply")

Holders(e) == {c \in Clients : Cached(c, e)}
Modified(e) == {c \in Clients : Cached(c, e) /\ extent_map[c][e].status = "MODIFIED"}

\* Data on its way to the disk: with a put the server has started, or taken
\* from the owner by share.
Carrying(e) ==
  {c \in Clients : rpc[c].eid = e /\ rpc[c].at = "callback" /\
                     (rpc[c].op = "put" \/ rpc[c].update)}

\* What the caches and the server, taken together, have for e.
Contents(e) ==
  IF Carrying(e) # {} THEN rpc[CHOOSE c \in Carrying(e) : TRUE].data
  ELSE IF Modified(e) # {} THEN extent_map[CHOOSE c \in Modified(e) : TRUE][e].data
  ELSE disk[e].data

-----------------------------------------------------------------------------
(* The invariant of the protocol                                           *)

\* While nobody calls about e, owner_map names exactly the clients with a
\* copy, each once; a copy that may be written without asking is the only one,
\* and all copies but a modified one are what the disk has.
Settled(e) ==
  /\ IsInjective(owner_map[e]) /\ Range(owner_map[e]) = Holders(e)
  /\ \A c \in Holders(e) :
       /\ extent_map[c][e].status # "SHARED" <=> Len(owner_map[e]) = 1
       /\ extent_map[c][e].status # "MODIFIED" => extent_map[c][e].data = disk[e].data
       /\ extent_map[c][e].type = disk[e].type
  /\ disk[e].type = NoType => owner_map[e] = <<>>

\* The call of c matters for e: a removal is done with when the server answers,
\* and another client's create may have the number at once.
Busy(c, e) ==
  /\ rpc[c].eid = e
  /\ \/ rpc[c].op \in {"get", "put"}
     \/ rpc[c].op = "remove" /\ rpc[c].at # "reply"
     \/ rpc[c].op = "create" /\ rpc[c].at = "reply"

\* All copies of e are shared and have its data.
AllShare(e, data) ==
  \A d \in Holders(e) :
    extent_map[d][e] = Entry(data, disk[e].type, "SHARED")

GetInv(c, e) ==
  /\ ~Cached(c, e) /\ disk[e].type # NoType
  /\ rpc[c].at = "request" => Settled(e)
  /\ rpc[c].at = "callback" =>
       /\ IsInjective(owner_map[e]) /\ Range(owner_map[e]) = Holders(e)
       /\ rpc[c].is_share <=> owner_map[e] # <<>>
       /\ rpc[c].todo # <<>> =>
            Settled(e) /\ ~rpc[c].update /\ rpc[c].todo = owner_map[e] /\ Len(owner_map[e]) = 1
       /\ rpc[c].todo = <<>> =>
            AllShare(e, IF rpc[c].update THEN rpc[c].data ELSE disk[e].data)
       /\ rpc[c].update => owner_map[e] # <<>>
  /\ rpc[c].at = "reply" =>
       /\ IsInjective(owner_map[e]) /\ Range(owner_map[e]) = Holders(e) \cup {c}
       /\ rpc[c].is_share <=> Len(owner_map[e]) # 1
       /\ rpc[c].data = disk[e].data /\ rpc[c].type = disk[e].type
       /\ AllShare(e, disk[e].data)

\* A put to a shared copy, or to an entry made for it that the server ignores.
PutInv(c, e) ==
  /\ Cached(c, e) /\ disk[e].type # NoType
  /\ rpc[c].at = "request" =>
       \/ Settled(e) /\ extent_map[c][e].status = "SHARED"
       \/ /\ extent_map[c][e].status = "EXCLUSIVE"
          /\ IsInjective(owner_map[e]) /\ Range(owner_map[e]) = Holders(e) \ {c}
  /\ rpc[c].at = "callback" =>
       /\ extent_map[c][e].status # "MODIFIED"
       /\ IsInjective(rpc[c].todo) /\ Range(rpc[c].todo) = Holders(e) \ {c}
  /\ rpc[c].at = "reply" =>
       /\ extent_map[c][e].status # "MODIFIED"
       /\ owner_map[e] = <<c>> /\ Holders(e) = {c}
       /\ rpc[c].data = disk[e].data /\ rpc[c].type = disk[e].type

RemoveInv(c, e) ==
  /\ ~Cached(c, e)
  /\ rpc[c].at # "reply" => disk[e].type # NoType
  /\ rpc[c].at = "request" =>
       IsInjective(owner_map[e]) /\ Range(owner_map[e]) \ {c} = Holders(e)
  /\ rpc[c].at = "callback" =>
       IsInjective(rpc[c].todo) /\ Range(rpc[c].todo) = Holders(e)

CreateInv(c, e) ==
  rpc[c].at = "reply" =>
    /\ Holders(e) = {} /\ owner_map[e] = <<c>>
    /\ disk[e] = [type |-> rpc[c].type, data |-> <<>>] /\ rpc[c].type # NoType

\* What a call has found and done so far, and that at most one is under way.
CallInv(c) ==
  LET r == rpc[c] IN
    /\ r.at = "none" <=> r = NoCall
    /\ r.at # "callback" => r.todo = <<>>
    /\ r.update => r.op = "get" /\ r.at \in {"callback", "reply"}
    /\ r.op = "none" => r.at = "none"
    /\ r.op = "get" => GetInv(c, r.eid)
    /\ r.op = "put" => PutInv(c, r.eid)
    /\ r.op = "remove" => RemoveInv(c, r.eid)
    /\ r.op = "create" => r.at \in {"request", "reply"} /\ CreateInv(c, r.eid)

CacheInv ==
  /\ \A c \in Clients : CallInv(c)
  /\ \A e \in Inums :
       /\ \A c, d \in Clients : Busy(c, e) /\ Busy(d, e) => c = d
       /\ (\A c \in Clients : ~Busy(c, e)) => Settled(e)
=============================================================================
