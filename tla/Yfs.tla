-------------------------------- MODULE Yfs ---------------------------------
(***************************************************************************)
(* The file system: yfs_client.cc under the handlers of fuse.cc, over the  *)
(* extent cache and the lock service (LockSpec: a lock has one holder).    *)
(*                                                                         *)
(* A yfs_client serves one FUSE request at a time; call[c] is it.  Most    *)
(* operations lock an inode, read it, and put its new contents back.       *)
(* create, mkdir and symlink make an inode in between, unlink removes one, *)
(* and symlink fills the new inode afterwards.  FUSE handlers go on with   *)
(* getattr, twice a locked look at the inode (getType, then getfile or     *)
(* getdir).                                                                *)
(***************************************************************************)
EXTENDS ExtentCache

CONSTANTS
  Names,          \* file names
  Nul, Values,    \* contents of a file: units of data, Nul for padding
  MaxFile,        \* bound: units in a file
  Requests        \* Requests[c]: what processes ask of client c

Entries == [name : Names, inum : Inums]
Units == Values \cup {Nul}
Texts == UNION {[1..n -> Units] : n \in 0..MaxFile}

Request ==
  [op : {"lookup", "unlink"}, name : Names]
    \cup [op : {"create"}, name : Names, type : {FileType, DirType}]
    \cup [op : {"symlink"}, name : Names, type : {LinkType}, text : Texts]
    \cup [op : {"write"}, off : 0..(MaxFile - 1), val : Values]
    \cup [op : {"setattr"}, size : 0..MaxFile]
    \cup [op : {"look"}, looks : Nat]

ASSUME RequestsAssumption ==
  MaxFile \in Nat /\ \A c \in Clients : Requests[c] \subseteq Request

VARIABLES
  call,           \* per client: the request it serves
  held            \* per client: the locks it holds

vars == <<cacheVars, call, held>>

Idle == [op |-> "none", at |-> "user", x |-> Root, ino |-> Root, buf |-> <<>>,
         req |-> <<>>, looks |-> 0]

\* A client that has not run yfs_client's constructor.
NotStarted == [Idle EXCEPT !.at = "out"]

Init ==
  /\ CacheInit
  /\ call = [c \in Clients |-> NotStarted]
  /\ held = [c \in Clients |-> {}]

At(c, at) == call[c].at = at
Op(c) == call[c].op
X(c) == call[c].x
Req(c) == call[c].req

Set(c, new) == call' = [call EXCEPT ![c] = new]
GoTo(c, at) == call' = [call EXCEPT ![c].at = at]

Acquire(c, i) ==
  /\ \A d \in Clients : i \notin held[d]
  /\ held' = [held EXCEPT ![c] = @ \cup {i}]

Release(c, i) == held' = [held EXCEPT ![c] = @ \ {i}]

-----------------------------------------------------------------------------
(* Directories: a list of entries                                          *)

Positions(dir, name) == {k \in 1..Len(dir) : dir[k].name = name}
Found(c) == Positions(call[c].buf, Req(c).name) # {}
Position(c) == CHOOSE k \in Positions(call[c].buf, Req(c).name) :
                 \A j \in Positions(call[c].buf, Req(c).name) : k <= j
FoundInum(c) == call[c].buf[Position(c)].inum

\* lookup refuses what is no directory.
LookupFound(c) == extent_map[c][X(c)].type = DirType /\ Found(c)

-----------------------------------------------------------------------------
(* Start: the constructor, and requests                                    *)

\* The constructor puts an empty root directory, without a lock.
Join(c) ==
  /\ At(c, "out")
  /\ Set(c, [Idle EXCEPT !.op = "join", !.at = "put"])
  /\ UNCHANGED <<cacheVars, held>>

\* Requests name an inode a lookup has returned, of the type the kernel has
\* checked; it does not unlink a directory.
Fits(i, req) ==
  CASE req.op \in {"lookup", "create", "symlink"} ->
         /\ disk[i].type = DirType
         /\ req.op = "create" /\ req.type = DirType => i = Root   \* (bound)
    [] req.op = "unlink" ->
         /\ disk[i].type = DirType
         /\ \A k \in Positions(Contents(i), req.name) :
              disk[Contents(i)[k].inum].type # DirType
    [] req.op \in {"write", "setattr"} -> disk[i].type = FileType
    [] req.op = "look" -> TRUE

\* c has removed an inode and not yet its name, or has not finished the
\* symbolic link.
Hiding(c) ==
  \/ call[c].at \in {"removing", "removed", "put"} /\ Op(c) = "unlink"
  \/ call[c].at \in {"put", "link", "fill"} /\ Op(c) = "symlink"

Hides(c, d, entry) == Hiding(c) /\ X(c) = d /\ Req(c).name = entry.name

Visible(d) ==
  Without(Contents(d), {entry \in Entries : \E c \in Clients : Hides(c, d, entry)})

Dirs == {d \in Inums : disk[d].type = DirType}

Named(i) ==
  \E d \in Dirs : LET dir == Visible(d) IN \E k \in 1..Len(dir) : dir[k].inum = i

Start(c) ==
  /\ At(c, "user")
  /\ \E req \in Requests[c], i \in Inums :
       /\ i = Root \/ Named(i)
       /\ Fits(i, req)
       /\ Set(c, [Idle EXCEPT !.op = req.op, !.at = "lock", !.x = i, !.req = req,
                              !.looks = IF req.op = "look" THEN req.looks ELSE 1])
  /\ UNCHANGED <<cacheVars, held>>

-----------------------------------------------------------------------------
(* Lock the inode and read it                                              *)

Lock(c) ==
  /\ At(c, "lock")
  /\ Acquire(c, X(c))
  /\ GoTo(c, "read")
  /\ UNCHANGED cacheVars

Read(c) ==
  /\ At(c, "read") /\ rpc[c] = NoCall
  /\ \/ /\ Cached(c, X(c))
        /\ Set(c, [call[c] EXCEPT !.at = "got", !.buf = extent_map[c][X(c)].data])
        /\ UNCHANGED cacheVars
     \/ Pull(c, X(c)) /\ UNCHANGED call
  /\ UNCHANGED held

-----------------------------------------------------------------------------
(* create and symlink make an inode, unlink removes one                    *)

\* kreate without the test for the name.
MutantMake(c) ==
  /\ At(c, "got") /\ Op(c) \in {"create", "symlink"}
  /\ CallCreate(c, Req(c).type)
  /\ GoTo(c, "make")
  /\ UNCHANGED held

\* kreate: EXIST if the name is there.
Make(c) ==
  /\ At(c, "got") /\ Op(c) \in {"create", "symlink"} /\ ~Found(c)
  /\ CallCreate(c, Req(c).type)
  /\ GoTo(c, "make")
  /\ UNCHANGED held

LockEntry(c) ==
  /\ At(c, "got") /\ Op(c) = "unlink" /\ Found(c)
  /\ Acquire(c, FoundInum(c))
  /\ Set(c, [call[c] EXCEPT !.at = "remove", !.ino = FoundInum(c)])
  /\ UNCHANGED cacheVars

RemoveInode(c) ==
  /\ At(c, "remove")
  /\ CallRemove(c, call[c].ino)
  /\ GoTo(c, "removing")
  /\ UNCHANGED held

-----------------------------------------------------------------------------
(* Put the new contents                                                    *)

\* text with one unit written at offset off, after padding.
Written(text, off, val) ==
  [k \in 1..(IF off < Len(text) THEN Len(text) ELSE off + 1) |->
     IF k = off + 1 THEN val ELSE IF k <= Len(text) THEN text[k] ELSE Nul]

Resized(text, size) ==
  [k \in 1..size |-> IF k <= Len(text) THEN text[k] ELSE Nul]

NewContents(c) ==
  CASE Op(c) = "join" -> <<>>
    [] Op(c) \in {"create", "symlink"} ->
         Append(call[c].buf, [name |-> Req(c).name, inum |-> call[c].ino])
    [] Op(c) = "unlink" -> RemoveAt(call[c].buf, Position(c))
    [] Op(c) = "write" -> Written(call[c].buf, Req(c).off, Req(c).val)
    [] Op(c) = "setattr" -> Resized(call[c].buf, Req(c).size)

AfterPut(c) ==
  CASE Op(c) = "join" -> Idle
    [] Op(c) = "symlink" -> [call[c] EXCEPT !.at = "link"]
    [] OTHER -> [call[c] EXCEPT !.at = "unlock"]

HasNewContents(c) == At(c, "put") \/ (At(c, "got") /\ Op(c) \in {"write", "setattr"})

Put(c) ==
  /\ HasNewContents(c)
  /\ \/ PutLocal(c, X(c), NewContents(c)) /\ Set(c, AfterPut(c))
     \/ PutThrough(c, X(c), NewContents(c)) /\ GoTo(c, "put")
  /\ UNCHANGED held

\* symlink: the text of the link goes to the new inode, under its lock too.
LockLink(c) ==
  /\ At(c, "link")
  /\ Acquire(c, call[c].ino)
  /\ GoTo(c, "fill")
  /\ UNCHANGED cacheVars

Fill(c) ==
  /\ At(c, "fill")
  /\ \/ PutLocal(c, call[c].ino, Req(c).text) /\ GoTo(c, "filled")
     \/ PutThrough(c, call[c].ino, Req(c).text) /\ UNCHANGED call
  /\ UNCHANGED held

-----------------------------------------------------------------------------
(* An RPC of the extent client returns, locks are released                 *)

Returned(c) ==
  /\ Return(c)
  /\ Set(c, CASE At(c, "read") -> [call[c] EXCEPT !.at = "got", !.buf = rpc[c].data]
              [] At(c, "make") -> [call[c] EXCEPT !.at = "put", !.ino = rpc[c].eid]
              [] At(c, "removing") -> [call[c] EXCEPT !.at = "removed"]
              [] At(c, "put") -> AfterPut(c)
              [] At(c, "fill") -> [call[c] EXCEPT !.at = "filled"])
  /\ UNCHANGED held

\* The lock of the entry is not released.
MutantUnlockEntry(c) ==
  /\ At(c, "removed") \/ At(c, "filled")
  /\ GoTo(c, IF At(c, "removed") THEN "put" ELSE "unlock")
  /\ UNCHANGED <<cacheVars, held>>

UnlockEntry(c) ==
  /\ At(c, "removed") \/ At(c, "filled")
  /\ Release(c, call[c].ino)
  /\ GoTo(c, IF At(c, "removed") THEN "put" ELSE "unlock")
  /\ UNCHANGED cacheVars

LookAt(i, n) == [Idle EXCEPT !.op = "look", !.at = "lock", !.x = i, !.looks = n]

\* What follows when the inode is released: a further look of the same
\* handler, getattr of the inode found or made, or the next request.
AfterUnlock(c) ==
  CASE Op(c) = "look" /\ call[c].looks > 1 -> LookAt(X(c), call[c].looks - 1)
    [] Op(c) = "lookup" /\ LookupFound(c) -> LookAt(FoundInum(c), 2)
    [] Op(c) \in {"create", "symlink"} /\ At(c, "unlock") -> LookAt(call[c].ino, 2)
    [] Op(c) = "setattr" -> LookAt(X(c), 2)
    [] OTHER -> Idle

\* Only looked, or kreate found the name (EXIST), or unlink did not (NOENT).
NothingToDo(c) ==
  \/ Op(c) \in {"look", "lookup"}
  \/ Op(c) \in {"create", "symlink"} /\ Found(c)
  \/ Op(c) = "unlink" /\ ~Found(c)

Unlock(c) ==
  /\ At(c, "unlock") \/ (At(c, "got") /\ NothingToDo(c))
  /\ Release(c, X(c))
  /\ Set(c, AfterUnlock(c))
  /\ UNCHANGED cacheVars

ClientStep(c) ==
  \/ Read(c) \/ Make(c) \/ RemoveInode(c) \/ Put(c) \/ Fill(c)
  \/ Returned(c) \/ UnlockEntry(c) \/ Unlock(c)

Server(c) == ServerStep(c) /\ UNCHANGED <<call, held>>

Next ==
  \E c \in Clients :
    \/ Join(c) \/ Start(c)
    \/ Lock(c) \/ LockEntry(c) \/ LockLink(c)
    \/ ClientStep(c) \/ Server(c)

Spec == Init /\ [][Next]_vars

-----------------------------------------------------------------------------
(* Behaviours that are orderly.  Spec lets a client start at any time, and *)
(* lets a file be unlinked while another call is about it, as the code     *)
(* does.  Then its asserts may fail (CalleesHaveEntry) and work is lost.   *)
(* The other properties hold of OrderlySpec, in which users see to it that *)
(* neither happens.                                                        *)

\* Clients start one after the other, and nobody works before all have started.
OrderlyJoin(c) == Join(c) /\ \A d \in Clients : call[d].at \in {"out", "user"}

AllJoined == \A c \in Clients : ~At(c, "out") /\ Op(c) # "join"

\* An unlink is about to remove i.
Removing(i) ==
  \E d \in Clients : Op(d) = "unlink" /\ At(d, "remove") /\ call[d].ino = i

\* No request names an inode that is being removed,
OrderlyStart(c) == Start(c) /\ AllJoined /\ ~Removing(call'[c].x)

\* Another client's call is about i.
InUse(c, i) == \E d \in Clients \ {c} : X(d) = i /\ call[d].at # "user"

\* and no file is unlinked while another client's call is about it.
OrderlyLockEntry(c) == LockEntry(c) /\ ~InUse(c, FoundInum(c))

OrderlyNext ==
  \E c \in Clients :
    \/ OrderlyJoin(c) \/ OrderlyStart(c)
    \/ Lock(c) \/ OrderlyLockEntry(c) \/ LockLink(c)
    \/ ClientStep(c) \/ Server(c)

OrderlySpec == Init /\ [][OrderlyNext]_vars

-----------------------------------------------------------------------------
(* Properties                                                              *)

\* While nobody calls about a file, owner_map names exactly the clients with
\* a copy, each once; a copy that may be written without asking is the only
\* one, and all copies but a modified one are what the disk has.
Coherent == \A e \in Inums : ~InCall(e) => Settled(e)

\* A client that is called back has the entry its handler asserts to find
\* (extent_client.cc:139, 149), and its FUSE thread is not at work on it.
CallBackSafe ==
  \A c \in Clients : rpc[c].at = "callback" /\ rpc[c].todo # <<>> =>
    CalleeHasEntry(c) /\ rpc[c].eid \notin held[Callee(c)]

\* share_handler and invalidate_handler find the entry they are called for:
\* assert(iter != extent_map.end()).
CalleesHaveEntry ==
  \A c \in Clients : rpc[c].at = "callback" /\ rpc[c].todo # <<>> => CalleeHasEntry(c)

\* In a directory nobody has locked, names are unique and lead to inodes in
\* use, and no inode has two names.
NamesSound ==
  \A d \in Dirs : (\A c \in Clients : d \notin held[c]) =>
    LET dir == Contents(d) IN
      \A k \in 1..Len(dir) :
        /\ disk[dir[k].inum].type # NoType
        /\ \A j \in 1..Len(dir) : j # k =>
             dir[j].name # dir[k].name /\ dir[j].inum # dir[k].inum

WaitsFor(c, i) ==
  \/ At(c, "lock") /\ X(c) = i
  \/ At(c, "link") /\ call[c].ino = i
  \/ At(c, "got") /\ Op(c) = "unlink" /\ Found(c) /\ FoundInum(c) = i

\* Locks are taken from a directory to its entry: a client that is waited for
\* by one that holds a lock does not wait itself.
WaitsEnd ==
  \A c, d \in Clients, i \in Inums :
    held[c] # {} /\ WaitsFor(c, i) /\ i \in held[d] => \A j \in Inums : ~WaitsFor(d, j)

-----------------------------------------------------------------------------
(* The inductive invariant                                                 *)

Types == {DirType, FileType, LinkType, NoType}
Data == Seq(Entries \cup Units)
Copies == [data : Data, type : Types, status : {"EXCLUSIVE", "SHARED", "MODIFIED"}]

ASSUME NoEntryAssumption == NoEntry \notin Copies

\* No process unlinks a name by which another makes a directory.
DirsStay ==
  \A c, d \in Clients : \A p \in Requests[c], q \in Requests[d] :
    (p.op = "create" /\ q.op = "unlink") /\ p.type = DirType => p.name # q.name

FileOps == {"look", "lookup", "create", "symlink", "unlink", "write", "setattr"}
Makers == {"create", "symlink"}

\* What a client may be doing at each point.
OpsAt ==
  [out |-> {"none"}, user |-> {"none"}, lock |-> FileOps, read |-> FileOps,
   got |-> FileOps, make |-> Makers, remove |-> {"unlink"}, removing |-> {"unlink"},
   removed |-> {"unlink"}, put |-> (FileOps \ {"look", "lookup"}) \cup {"join"},
   link |-> {"symlink"}, fill |-> {"symlink"}, filled |-> {"symlink"},
   unlock |-> FileOps \ {"look", "lookup"}]

TypeOK ==
  /\ extent_map \in [Clients -> [Inums -> Copies \cup {NoEntry}]]
  /\ owner_map \in [Inums -> Seq(Clients)]
  /\ disk \in [Inums -> [type : Types, data : Data]]
  /\ rpc \in [Clients ->
       [op : {"none", "get", "put", "remove", "create"}, eid : Inums,
        at : {"none", "request", "callback", "reply"}, data : Data, type : Types,
        todo : Seq(Clients), is_share : BOOLEAN, update : BOOLEAN]]
  /\ call \in [Clients ->
       [op : FileOps \cup {"none", "join"}, at : DOMAIN OpsAt, x : Inums, ino : Inums,
        buf : Data, req : Request \cup {<<>>}, looks : Nat]]
  /\ held \in [Clients -> SUBSET Inums]

\* Which RPC a client waits for.
AtCall(c) ==
  \/ /\ rpc[c].op = "none" /\ call[c].at \notin {"make", "removing"}
     /\ At(c, "put") => Op(c) \notin {"write", "setattr"}
  \/ rpc[c].op = "get" /\ At(c, "read") /\ rpc[c].eid = X(c)
  \/ rpc[c].op = "create" /\ At(c, "make") /\ rpc[c].type = Req(c).type
  \/ rpc[c].op = "remove" /\ At(c, "removing") /\ rpc[c].eid = call[c].ino
  \/ /\ rpc[c].op = "put" /\ At(c, "put") /\ rpc[c].eid = X(c)
     /\ rpc[c].data = NewContents(c)

Phase(c) ==
  /\ Op(c) \in OpsAt[call[c].at] /\ AtCall(c)
  /\ Op(c) \in {"none", "join"} => X(c) = Root /\ Req(c) = <<>>
  /\ Op(c) \in FileOps \ {"look"} => Req(c) \in Requests[c] /\ Req(c).op = Op(c)

PhaseInv == \A c \in Clients : Phase(c)

\* The locks a call holds at each point.
LocksOf(c) ==
  CASE call[c].at \in {"out", "user", "lock"} \/ Op(c) = "join" -> {}
    [] call[c].at \in {"remove", "removing", "removed", "fill", "filled"} ->
         {X(c), call[c].ino}
    [] OTHER -> {X(c)}

LockInv ==
  /\ \A c \in Clients : held[c] = LocksOf(c)
  /\ \A c, d \in Clients : c # d => held[c] \cap held[d] = {}

\* Clients start one by one, before anybody works.
Starting == \E c \in Clients : At(c, "out") \/ Op(c) = "join"

StartInv ==
  Starting =>
    /\ \A c \in Clients : call[c].at \in {"out", "user"} \/ Op(c) = "join"
    /\ \A c, d \in Clients : Op(c) = "join" /\ Op(d) = "join" => c = d
    /\ \A c \in Clients : rpc[c].data = <<>>
    /\ disk[Root].data = <<>>
    /\ \A c \in Clients : Cached(c, Root) => extent_map[c][Root].data = <<>>
    /\ \A e \in Inums \ {Root} : disk[e].type = NoType

PutPending(c) == At(c, "put") /\ rpc[c].at \in {"none", "request"}

\* What c works on is what it has read.
Holding(c) ==
  \/ call[c].at \in {"got", "make", "remove", "removing", "removed"}
  \/ PutPending(c) /\ Op(c) # "join"

Buffer(c) ==
  Holding(c) =>
    /\ Cached(c, X(c)) /\ extent_map[c][X(c)].data = call[c].buf
    /\ Contents(X(c)) = call[c].buf

BufInv == \A c \in Clients : Buffer(c)

InDir(d, i) == \E k \in 1..Len(Contents(d)) : Contents(d)[k].inum = i

\* c is about to remove an inode.
Unlinking(c) ==
  At(c, "remove") \/ (At(c, "removing") /\ rpc[c].at # "reply")

\* c has removed an inode and not yet taken its name out of the directory.
Leaving(c) ==
  /\ Op(c) = "unlink"
  /\ \/ At(c, "removed") \/ PutPending(c)
     \/ At(c, "removing") /\ rpc[c].at = "reply"

\* The entry for i in d is being taken out, and what it names is gone.
Stale(d, i) == \E c \in Clients : Leaving(c) /\ X(c) = d /\ call[c].ino = i

\* c has made an inode and not yet put its name into the directory.
Making(c) ==
  /\ Op(c) \in Makers
  /\ PutPending(c) \/ (At(c, "make") /\ rpc[c].at = "reply")

NewInum(c) == IF At(c, "make") THEN rpc[c].eid ELSE call[c].ino

\* The new inode of c has its name.
Made(c) ==
  /\ Op(c) \in Makers
  /\ call[c].at \in {"link", "fill", "filled", "unlock"}
       \/ (At(c, "put") /\ ~PutPending(c))

\* The new symbolic link of c has no text yet.
Filling(c) == Op(c) = "symlink" /\ call[c].at \in {"put", "link", "fill"}

DirNames ==
  {req.name : req \in {q \in UNION {Requests[c] : c \in Clients} :
                         q.op = "create" /\ q.type = DirType}}

\* What a call is about exists and has the right type.
TargetInv ==
  /\ disk[Root].type = DirType
  /\ \A c \in Clients : Op(c) # "none" =>
       /\ disk[X(c)].type # NoType
       /\ Op(c) \in {"lookup", "create", "symlink", "unlink"} => disk[X(c)].type = DirType
       /\ Op(c) \in {"write", "setattr"} => disk[X(c)].type = FileType
       /\ Op(c) = "create" /\ Req(c).type = DirType => X(c) = Root

\* The directories form a tree, but for entries that are being taken out.
TreeInv ==
  /\ \A d \in Dirs : LET dir == Contents(d) IN
       /\ dir \in Seq(Entries)
       /\ ~InDir(d, Root)
       /\ \A j, k \in 1..Len(dir) : j # k =>
            dir[j].name # dir[k].name /\ dir[j].inum # dir[k].inum
       /\ \A k \in 1..Len(dir) :
            LET entry == dir[k] IN
              ~Stale(d, entry.inum) =>
                /\ disk[entry.inum].type # NoType
                /\ disk[entry.inum].type = DirType => d = Root /\ entry.name \in DirNames
  /\ \A d, f \in Dirs, i \in Inums :
       InDir(d, i) /\ InDir(f, i) => d = f \/ Stale(d, i) \/ Stale(f, i)

\* What a call makes or removes is in nobody else's hands: a new inode has no
\* name yet, or just the one its maker gave it; one to be removed is a file.
ClaimInv ==
  \A c \in Clients :
    /\ Making(c) =>
         /\ disk[NewInum(c)].type = Req(c).type
         /\ \A d \in Dirs : InDir(d, NewInum(c)) => Stale(d, NewInum(c))
         /\ \A d \in Clients : X(d) # NewInum(c)
         /\ \A d \in Clients \ {c} : Making(d) => NewInum(d) # NewInum(c)
    /\ Made(c) =>
         /\ \E k \in 1..Len(Contents(X(c))) :
              Contents(X(c))[k] = [name |-> Req(c).name, inum |-> call[c].ino]
         /\ Op(c) = "symlink" => disk[call[c].ino].type = LinkType
    /\ Filling(c) => \A d \in Clients : X(d) # call[c].ino
    /\ Unlinking(c) =>
         /\ disk[call[c].ino].type \notin {NoType, DirType}
         /\ \A d \in Clients : X(d) # call[c].ino

\* What a call knows from what it has read and done.
Own(c) ==
  /\ Op(c) \in Makers /\ (At(c, "make") \/ PutPending(c)) => ~Found(c)
  /\ Filling(c) => Cached(c, call[c].ino) /\ owner_map[call[c].ino] = <<c>>
  /\ Op(c) = "unlink" /\ call[c].at \in {"remove", "removing", "removed", "put"} =>
       Found(c) /\ call[c].ino = FoundInum(c) /\ call[c].ino # X(c)

OwnInv == \A c \in Clients : Own(c)

YfsInv ==
  /\ TypeOK /\ PhaseInv /\ LockInv /\ StartInv /\ CacheInv
  /\ BufInv /\ TargetInv /\ TreeInv /\ ClaimInv /\ OwnInv

-----------------------------------------------------------------------------
(* The file system as processes see it                                     *)

\* The file system looks like one tree of files, changed in one step each.
\* An entry counts while nobody hides it; a client has seen an inode from its
\* read until its change takes effect.
content ==
  [i \in Inums |->
     IF i = Root \/ Named(i)
     THEN [type |-> disk[i].type,
           data |-> IF i \in Dirs THEN Visible(i) ELSE Contents(i)]
     ELSE NoEntry]

HasSeen(c) ==
  CASE Op(c) = "join" -> FALSE
    [] Op(c) = "symlink" -> call[c].at \in {"got", "make", "put", "link", "fill"}
    [] Op(c) = "unlink" -> call[c].at \in {"got", "remove"}
    [] OTHER -> call[c].at \in {"got", "make"} \/ PutPending(c)

seen ==
  [c \in Clients |->
     IF HasSeen(c)
     THEN <<X(c), [type |-> extent_map[c][X(c)].type, data |-> call[c].buf]>>
     ELSE NoEntry]

Fs == INSTANCE FsSpec WITH None <- NoEntry, Types <- {DirType, FileType, LinkType}
ImplementsFsSpec == Fs!Spec

-----------------------------------------------------------------------------
(* The invariant of the refinement                                         *)

\* The change c makes to its directory has reached it, and c still hides it.
Landed(c) ==
  /\ Op(c) \in {"unlink", "symlink"}
  /\ call[c].at \in {"link", "fill"} \/ (At(c, "put") /\ ~PutPending(c))

\* What a call has seen it still works on, its change is there once it has
\* landed, what it makes is empty, and what it is about has a name.
Work(c) ==
  /\ HasSeen(c) => extent_map[c][X(c)].type = disk[X(c)].type
  /\ Landed(c) => Contents(X(c)) = NewContents(c)
  /\ Landed(c) /\ Op(c) = "unlink" =>
       \A k \in 1..Len(NewContents(c)) : NewContents(c)[k].name # Req(c).name
  /\ Making(c) => Contents(NewInum(c)) = <<>>

WorkInv == \A c \in Clients : Work(c)

\* A call is about an inode that has a name, and a file holds a text.
NamedInv == \A c \in Clients : Op(c) # "none" => X(c) = Root \/ Named(X(c))
TextInv == \A i \in Inums \ Dirs : Named(i) => Contents(i) \in Texts

FsInv == YfsInv /\ WorkInv /\ NamedInv /\ TextInv

\* A file, and the pair of an inode and a file, are not NoEntry.
Files == [type : Types, data : Data]
ASSUME NothingAssumption == NoEntry \notin Files \cup (Inums \X Files)
=============================================================================
