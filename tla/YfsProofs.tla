------------------------------ MODULE YfsProofs ------------------------------
(***************************************************************************)
(* Proofs about the file system, for any number of clients, inodes and     *)
(* names.  The theorems are conditional.  They speak of OrderlySpec: the   *)
(* clients all start before the first request, and no file is unlinked     *)
(* while another client's call is about it.  The code ensures neither (see *)
(* CalleesHaveEntry, which fails without); whoever runs it has to.  They   *)
(* also assume DirsStay: no process unlinks the name of a directory that   *)
(* another makes.                                                          *)
(*                                                                         *)
(* YfsInv joins the invariant of the caches with three arguments: a client *)
(* works on what it has read, because its lock keeps the server's calls    *)
(* back away from the file (BufInv); the directories form a tree but for   *)
(* entries whose inode is just gone, and those are locked (TreeInv); an    *)
(* inode that is made or removed is in no other hands (ClaimInv).  There is*)
(* a lemma for each action; Frame, QuietStep and WorkStep say what steps   *)
(* of one client leave alone in the others.                                *)
(*                                                                         *)
(* FsInv adds what a call has seen: it works on it to the end (WorkInv),   *)
(* under names that stay (NamedInv).  From it, a second lemma for each     *)
(* action (LockFs, ...) shows that the step keeps FsInv and is a step of   *)
(* FsSpec or changes nothing that processes see: a change takes effect     *)
(* where the new contents land (Lands), in the client's copy or when the   *)
(* server looks at the put, but an unlink when it begins to remove the     *)
(* inode, and a symbolic link when it has its text.                        *)
(***************************************************************************)
EXTENDS ExtentCacheProofs

-----------------------------------------------------------------------------
(* Turning to another inode                                                *)

\* c goes on to another request, or to none.
Retarget(c, i) ==
  /\ \A f \in Inums : disk'[f].type = disk[f].type
  /\ \A f \in Dirs : Contents(f)' = Contents(f)
  /\ \A d \in Clients \ {c} : call'[d] = call[d] /\ rpc'[d] = rpc[d]
  /\ X(c)' = i /\ i \in Inums
  /\ ~Making(c)' /\ ~Made(c)' /\ ~Filling(c)' /\ ~Unlinking(c)' /\ ~Leaving(c)' /\ ~Leaving(c)
  /\ Op(c)' # "none" =>
       /\ disk[i].type # NoType
       /\ Op(c)' \in {"lookup", "create", "symlink", "unlink"} => disk[i].type = DirType
       /\ Op(c)' \in {"write", "setattr"} => disk[i].type = FileType
       /\ Op(c)' = "create" /\ Req(c)'.type = DirType => i = Root
  /\ \A d \in Clients \ {c} :
       /\ Making(d) => NewInum(d) # i
       /\ Filling(d) \/ Unlinking(d) => call[d].ino # i

\* A client that turns to another inode, which nobody claims.
LEMMA RetargetStep ==
  ASSUME YfsInv, NEW c \in Clients, NEW i, Retarget(c, i)
  PROVE  TargetInv' /\ TreeInv' /\ ClaimInv'
  <1>1. Dirs' = Dirs /\ Root \in Inums /\ \A f \in Inums : disk'[f].type = disk[f].type
    BY InumsAssumption DEF Dirs, Retarget
  <1>2. \A d \in Dirs : Contents(d)' = Contents(d) /\ \A f : InDir(d, f)' <=> InDir(d, f)
    BY DEF InDir, Retarget
  <1>3. \A d \in Clients \ {c} :
          /\ Op(d)' = Op(d) /\ Req(d)' = Req(d) /\ X(d)' = X(d)
          /\ Making(d)' <=> Making(d)
          /\ NewInum(d)' = NewInum(d)
          /\ Made(d)' <=> Made(d)
          /\ Unlinking(d)' <=> Unlinking(d)
          /\ Leaving(d)' <=> Leaving(d)
          /\ Filling(d)' <=> Filling(d)
          /\ call'[d].ino = call[d].ino
    BY SameClient DEF Retarget
  <1>4. \A d, f : Stale(d, f)' <=> Stale(d, f)
    BY <1>3 DEF Stale, Retarget
  <1>5. TargetInv'
    <2>1. ASSUME NEW d \in Clients, Op(d)' # "none"
          PROVE  /\ disk'[X(d)'].type # NoType
                 /\ Op(d)' \in {"lookup", "create", "symlink", "unlink"} => disk'[X(d)'].type = DirType
                 /\ Op(d)' \in {"write", "setattr"} => disk'[X(d)'].type = FileType
                 /\ Op(d)' = "create" /\ Req(d)'.type = DirType => X(d)' = Root
      <3>1. CASE d = c
        <4>1. X(c)' = i /\ disk'[i].type = disk[i].type
          BY DEF Retarget
        <4> QED BY <2>1, <3>1, <4>1 DEF Retarget
      <3>2. CASE d # c
        <4>1. Op(d)' = Op(d) /\ X(d)' = X(d) /\ Req(d)' = Req(d) /\ X(d) \in Inums
          BY <1>3, <3>2, Parts, CallTyped
        <4> QED BY <1>1, <2>1, <4>1, Parts DEF TargetInv
      <3> QED BY <3>1, <3>2
    <2>2. disk'[Root].type = DirType
      BY <1>1, Parts DEF TargetInv
    <2> QED BY <2>1, <2>2 DEF TargetInv
  <1>6. TreeInv'
    <2>1. ASSUME NEW d \in Dirs
          PROVE  /\ Contents(d)' \in Seq(Entries)
                 /\ ~InDir(d, Root)'
                 /\ \A j, k \in 1..Len(Contents(d)') : j # k =>
                      /\ Contents(d)'[j].name # Contents(d)'[k].name
                      /\ Contents(d)'[j].inum # Contents(d)'[k].inum
                 /\ \A k \in 1..Len(Contents(d)') :
                      ~Stale(d, Contents(d)[k].inum)' =>
                        /\ disk'[Contents(d)'[k].inum].type # NoType
                        /\ disk'[Contents(d)'[k].inum].type = DirType =>
                             d = Root /\ Contents(d)'[k].name \in DirNames
      <3>1. Contents(d) \in Seq(Entries) /\ ~InDir(d, Root)
              /\ \A j, k \in 1..Len(Contents(d)) : j # k =>
                      /\ Contents(d)[j].name # Contents(d)[k].name
                      /\ Contents(d)[j].inum # Contents(d)[k].inum
        BY Parts DEF TreeInv
      <3>2. ASSUME NEW k \in 1..Len(Contents(d)), ~Stale(d, Contents(d)[k].inum)
            PROVE  /\ disk'[Contents(d)[k].inum].type # NoType
                   /\ disk'[Contents(d)[k].inum].type = DirType =>
                             d = Root /\ Contents(d)[k].name \in DirNames
        <4>1. Contents(d)[k].inum \in Inums
          <5>1. Contents(d)[k] \in Entries
            BY <3>1
          <5> QED BY <5>1 DEF Entries
        <4> QED BY <1>1, <3>2, <4>1, Parts DEF TreeInv
      <3>3. Contents(d)' = Contents(d) /\ ~InDir(d, Root)'
        BY <1>2, <3>1
      <3> QED BY <1>4, <3>1, <3>2, <3>3
    <2>2. ASSUME NEW d \in Dirs, NEW f \in Dirs, NEW j \in Inums, InDir(d, j)', InDir(f, j)'
          PROVE  d = f \/ Stale(d, j)' \/ Stale(f, j)'
      BY <1>2, <1>4, <2>2, Parts DEF TreeInv
    <2> QED BY <1>1, <2>1, <2>2 DEF TreeInv
  <1>7. \A d \in Clients \ {c} :
          /\ Making(d) => NewInum(d) # X(c)'
          /\ Filling(d) \/ Unlinking(d) => call[d].ino # X(c)'
    BY DEF Retarget
  <1>8. ClaimInv'
    <2>1. ASSUME NEW g \in Clients, Making(g)'
          PROVE  /\ disk'[NewInum(g)'].type = Req(g)'.type
                 /\ \A d \in Dirs' : InDir(d, NewInum(g))' => Stale(d, NewInum(g))'
                 /\ \A d \in Clients : X(d)' # NewInum(g)'
                 /\ \A d \in Clients \ {g} : Making(d)' => NewInum(d)' # NewInum(g)'
      <3>1. g # c /\ Making(g) /\ NewInum(g)' = NewInum(g) /\ Req(g)' = Req(g)
              /\ NewInum(g) \in Inums
        <4>1. g # c
          BY <2>1 DEF Retarget
        <4>2. NewInum(g) \in Inums
          BY Parts, CallTyped, Typed DEF NewInum
        <4> QED BY <1>3, <2>1, <4>1, <4>2
      <3>2. /\ disk[NewInum(g)].type = Req(g).type
            /\ \A d \in Dirs : InDir(d, NewInum(g)) => Stale(d, NewInum(g))
            /\ \A d \in Clients : X(d) # NewInum(g)
            /\ \A d \in Clients \ {g} : Making(d) => NewInum(d) # NewInum(g)
        BY <3>1, Parts DEF ClaimInv
      <3>3. \A d \in Dirs : InDir(d, NewInum(g))' => Stale(d, NewInum(g))'
        BY <1>2, <1>4, <3>1, <3>2
      <3>4. \A d \in Clients : X(d)' # NewInum(g)
        BY <1>3, <1>7, <3>1, <3>2
      <3>5. \A d \in Clients \ {g} : Making(d)' => NewInum(d)' # NewInum(g)
        BY <1>3, <3>2 DEF Retarget
      <3> QED BY <1>1, <3>1, <3>2, <3>3, <3>4, <3>5
    <2>2. ASSUME NEW g \in Clients, Made(g)'
          PROVE  /\ \E k \in 1..Len(Contents(X(g))') :
                      Contents(X(g))'[k] = [name |-> Req(g)'.name, inum |-> call'[g].ino]
                 /\ Op(g)' = "symlink" => disk'[call'[g].ino].type = LinkType
      <3>1. g # c
        BY <2>2 DEF Retarget
      <3>2. Made(g) /\ X(g)' = X(g) /\ Req(g)' = Req(g) /\ call'[g].ino = call[g].ino
              /\ Op(g)' = Op(g) /\ call[g].ino \in Inums
        BY <1>3, <2>2, <3>1, Parts, CallTyped
      <3>3. X(g) \in Dirs
        BY <3>2, MadeEntry
      <3>4. Contents(X(g))' = Contents(X(g))
        BY <1>2, <3>2, <3>3
      <3>5. /\ \E k \in 1..Len(Contents(X(g))) :
                 Contents(X(g))[k] = [name |-> Req(g).name, inum |-> call[g].ino]
            /\ Op(g) = "symlink" => disk[call[g].ino].type = LinkType
        BY <3>2, Parts DEF ClaimInv
      <3> QED BY <1>1, <3>2, <3>4, <3>5
    <2>3. ASSUME NEW g \in Clients, Filling(g)' PROVE \A d \in Clients : X(d)' # call'[g].ino
      <3>1. g # c
        BY <2>3 DEF Retarget
      <3>2. Filling(g) /\ call'[g].ino = call[g].ino
        BY <1>3, <2>3, <3>1
      <3>3. \A d \in Clients : X(d) # call[g].ino
        BY <3>2, Parts DEF ClaimInv
      <3> QED BY <1>3, <1>7, <3>1, <3>2, <3>3
    <2>4. ASSUME NEW g \in Clients, Unlinking(g)'
          PROVE  /\ disk'[call'[g].ino].type \notin {NoType, DirType}
                 /\ \A d \in Clients : X(d)' # call'[g].ino
      <3>1. g # c
        BY <2>4 DEF Retarget
      <3>2. Unlinking(g) /\ call'[g].ino = call[g].ino /\ call[g].ino \in Inums
        BY <1>3, <2>4, <3>1, Parts, CallTyped
      <3>3. /\ disk[call[g].ino].type \notin {NoType, DirType}
            /\ \A d \in Clients : X(d) # call[g].ino
        BY <3>2, Parts DEF ClaimInv
      <3> QED BY <1>1, <1>3, <1>7, <3>1, <3>2, <3>3
    <2> QED BY <2>1, <2>2, <2>3, <2>4 DEF ClaimInv
  <1> QED BY <1>5, <1>6, <1>8

\* Root is nobody's new, and nobody removes it.
LEMMA RootFree ==
  ASSUME YfsInv, NEW d \in Clients
  PROVE  /\ Making(d) => NewInum(d) # Root
         /\ Filling(d) \/ Unlinking(d) => call[d].ino # Root
  <1>1. Making(d) => NewInum(d) \in Inums /\ Claims(d, NewInum(d)) /\ ~Made(d)
    BY Parts, CallTyped, Typed DEF Claims, NewInum, Making, Made, At, PutPending
  <1>2. Filling(d) => call[d].ino \in Inums /\ Claims(d, call[d].ino)
    BY Parts, CallTyped DEF Claims
  <1>3. Unlinking(d) => call[d].ino \in Inums /\ Claims(d, call[d].ino) /\ ~Made(d)
    BY Parts, CallTyped, LeavingHolds DEF Claims, Made, Makers
  <1> QED BY <1>1, <1>2, <1>3, ClaimsFree

-----------------------------------------------------------------------------
(* Puts                                                                    *)

\* A client without a request.
LEMMA IdleIs ==
  /\ Idle \in CallRec
  /\ Idle.op = "none" /\ Idle.at = "user" /\ Idle.x = Root /\ Idle.ino = Root
  /\ Idle.buf = <<>> /\ Idle.req = <<>> /\ Idle.looks = 0
  <1>1. "user" \in DOMAIN OpsAt /\ Root \in Inums /\ <<>> \in Data
    BY Points, InumsAssumption, EmptyData
  <1>2. Idle \in CallRec
    BY <1>1 DEF CallRec, Idle
  <1> QED BY <1>2 DEF Idle

\* While clients start the root directory is empty.
LEMMA StartEmpty ==
  ASSUME YfsInv, Starting
  PROVE  Contents(Root) = <<>>
  <1>1. CASE Carrying(Root) # {}
    <2>1. (CHOOSE c \in Carrying(Root) : TRUE) \in Carrying(Root)
      BY <1>1
    <2>2. (CHOOSE c \in Carrying(Root) : TRUE) \in Clients
      BY <2>1 DEF Carrying
    <2> QED BY <1>1, <2>2, Parts DEF Contents, StartInv
  <1>2. CASE Carrying(Root) = {} /\ Modified(Root) # {}
    <2>1. (CHOOSE c \in Modified(Root) : TRUE) \in Modified(Root)
      BY <1>2
    <2>2. (CHOOSE c \in Modified(Root) : TRUE) \in Clients
            /\ Cached(CHOOSE c \in Modified(Root) : TRUE, Root)
      BY <2>1 DEF Modified
    <2> QED BY <1>2, <2>2, Parts DEF Contents, StartInv
  <1>3. CASE Carrying(Root) = {} /\ Modified(Root) = {}
    BY <1>3, Parts DEF Contents, StartInv
  <1> QED BY <1>1, <1>2, <1>3

\* Where a client goes after its put.
LEMMA AfterPutIs ==
  ASSUME YfsInv, NEW c \in Clients, Op(c) # "join", Set(c, AfterPut(c))
  PROVE  \E at \in {"link", "unlock"} :
           /\ GoTo(c, at) /\ at \in DOMAIN OpsAt
           /\ at = "link" <=> Op(c) = "symlink"
  <1>1. CASE Op(c) = "symlink"
    <2>1. AfterPut(c) = [call[c] EXCEPT !.at = "link"]
      BY <1>1 DEF AfterPut
    <2>2. GoTo(c, "link")
      BY <2>1 DEF Set, GoTo
    <2> QED BY <1>1, <2>2, Points
  <1>2. CASE Op(c) # "symlink"
    <2>1. AfterPut(c) = [call[c] EXCEPT !.at = "unlock"]
      BY <1>2 DEF AfterPut
    <2>2. GoTo(c, "unlock")
      BY <2>1 DEF Set, GoTo
    <2> QED BY <1>2, <2>2, Points
  <1> QED BY <1>1, <1>2

\* What a put of new contents to the only copy does.
LEMMA PutLocalFacts ==
  ASSUME YfsInv, NEW c \in Clients, HasNewContents(c), NEW e \in Inums, e = X(c),
         NEW data \in Data, data = NewContents(c), PutLocal(c, e, data), held' = held,
         call' \in [Clients -> CallRec], \A d \in Clients \ {c} : call'[d] = call[d]
  PROVE  /\ TypeOK' /\ CacheInv' /\ Untouched(c) /\ rpc[c] = NoCall
         /\ rpc' = rpc /\ owner_map' = owner_map /\ disk' = disk
         /\ Cached(c, e)
         /\ \A f \in Inums \ {e} : extent_map'[c][f] = extent_map[c][f]
         /\ \A d \in Clients \ {c} : extent_map'[d] = extent_map[d]
         /\ Contents(e)' = data
         /\ \A f \in Inums \ {e} : Contents(f)' = Contents(f)
         /\ extent_map'[c][e].data = data
  <1>1. /\ rpc[c] = NoCall /\ rpc' = rpc /\ owner_map' = owner_map /\ disk' = disk
        /\ Cached(c, e)
        /\ \A f \in Inums \ {e} : extent_map'[c][f] = extent_map[c][f]
        /\ \A d \in Clients \ {c} : extent_map'[d] = extent_map[d]
    BY Parts, PutLocalIs
  <1>2. \A d \in Clients : ~Busy(d, e)
    BY <1>1, PutAlone
  <1>3. CacheInv' /\ Contents(e)' = data /\ \A f \in Inums \ {e} : Contents(f)' = Contents(f)
    BY <1>2, Parts, PutLocalStep
  <1>4. TypeOK'
    <2>1. CacheTypes'
      BY Parts, TypesTwo, PutLocalTypes
    <2>2. held' \in [Clients -> SUBSET Inums]
      BY Parts DEF TypeOK
    <2> QED BY <2>1, <2>2, Parts, TypesKept
  <1>5. Untouched(c)
    <2>1. \A d \in Clients \ {c} : call'[d] = call[d] /\ held'[d] = held[d] /\ rpc'[d] = rpc[d]
      BY <1>1
    <2>2. \A d \in Clients \ {c}, f \in Inums : extent_map'[d][f] = extent_map[d][f]
      BY <1>1
    <2>3. \A d \in Clients \ {c} : Holding(d) => Contents(X(d))' = Contents(X(d))
      <3>1. \A d \in Clients \ {c} : X(d)' = X(d)
        BY DEF X
      <3>2. \A d \in Clients \ {c} : Holding(d) => X(d) # e
        BY <1>1, PutAlone
      <3> QED BY <1>3, <3>1, <3>2, Parts, CallTyped
    <2> QED BY <1>1, <2>1, <2>2, <2>3, UntouchedIf
  <1>6. extent_map'[c][e].data = data
    <2>1. \A x : SetEntry(c, e, x) => extent_map'[c][e] = x
      BY Parts, SetEntryIs
    <2>2. extent_map'[c][e] = Entry(data, extent_map[c][e].type, "MODIFIED")
      BY <2>1 DEF PutLocal
    <2> QED BY <2>2 DEF Entry
  <1> QED BY <1>1, <1>3, <1>4, <1>5, <1>6

\* A put to the only copy takes effect at once.
LEMMA PutLocalWork ==
  ASSUME YfsInv, NEW c \in Clients, HasNewContents(c), NEW e \in Inums, e = X(c),
         NEW data \in Data, data = NewContents(c), PutLocal(c, e, data), held' = held,
         Set(c, AfterPut(c)), Op(c) # "join"
  PROVE  YfsInv'
  <1>1. PICK at \in {"link", "unlock"} :
          GoTo(c, at) /\ at \in DOMAIN OpsAt /\ (at = "link" <=> Op(c) = "symlink")
    BY AfterPutIs
  <1>2. /\ call' \in [Clients -> CallRec]
        /\ call'[c].at = at /\ call'[c].ino = call[c].ino /\ call'[c].buf = call[c].buf
        /\ SameWork(c)
        /\ \A d \in Clients \ {c} : call'[d] = call[d]
        /\ \A p : At(c, p)' <=> p = at
    BY <1>1, Parts, GoToIs
  <1>3. /\ TypeOK' /\ CacheInv' /\ Untouched(c) /\ rpc[c] = NoCall
        /\ rpc' = rpc /\ owner_map' = owner_map /\ disk' = disk
        /\ \A f \in Inums \ {e} : extent_map'[c][f] = extent_map[c][f]
        /\ Contents(e)' = data
        /\ \A f \in Inums \ {e} : Contents(f)' = Contents(f)
    BY <1>2, PutLocalFacts
  <1>4. /\ held[c] = {X(c)} /\ Holding(c) /\ call[c].at \notin {"out", "user"}
        /\ \A d \in Clients : Filling(d) => call[d].ino # X(c)
    BY <1>3, PutAlone
  <1>5. Op(c) \in {"create", "symlink", "unlink", "write", "setattr"}
          /\ (call[c].at = "put" \/ (call[c].at = "got" /\ Op(c) \in {"write", "setattr"}))
          /\ rpc[c].at = "none" /\ rpc[c].op = "none"
    BY <1>3, Parts, OpIs, NoCallIs DEF HasNewContents, At, FileOps
  <1>6. Fine(c)
    <2>1. Phase(c)'
      BY <1>1, <1>2, <1>3, <1>5, PhaseOf DEF Phase, AtCall, SameWork, OpsAt, FileOps
    <2>2. Buffer(c)'
      BY <1>1, <1>2 DEF Buffer, Holding, PutPending
    <2>3. Own(c)'
      <3>1. Filling(c)' => Filling(c)
        BY <1>1, <1>2, <1>5 DEF Filling, SameWork
      <3>2. Filling(c)' => Cached(c, call[c].ino)' /\ owner_map'[call[c].ino] = <<c>>
        <4>1. Filling(c) => Cached(c, call[c].ino) /\ owner_map[call[c].ino] = <<c>>
                              /\ call[c].ino # e /\ call[c].ino \in Inums
          BY <1>4, Parts, CallTyped DEF OwnInv, Own
        <4> QED BY <1>2, <1>3, <3>1, <4>1 DEF Cached
      <3> QED BY <1>1, <1>2, <3>2 DEF Own, SameWork, PutPending
    <2>4. held'[c] = LocksOf(c)'
      BY <1>1, <1>2, <1>4, <1>5 DEF LocksOf, SameWork
    <2>5. \A d \in Clients \ {c} : held'[c] \cap held[d] = {}
      BY Parts DEF LockInv
    <2> QED BY <2>1, <2>2, <2>3, <2>4, <2>5 DEF Fine
  <1>7. call'[c].op # "join" /\ call'[c].at # "out"
    BY <1>1, <1>2 DEF SameWork, Op
  <1>8. StartInv'
    BY <1>2, <1>4, <1>7, StartedStep
  <1>9. TargetInv' /\ TreeInv' /\ ClaimInv'
    <2>1. CASE Op(c) \in {"write", "setattr"}
      <3>1. SameRole(c)
        BY <1>1, <1>2, <1>3, <1>5, <2>1 DEF SameRole, SameWork, Making, Made, Filling, Unlinking,
                                   Leaving, PutPending, NewInum, At, Makers
      <3>2. \A d \in Clients : SameRole(d)
        BY <1>2, <1>3, <3>1, SameRoles
      <3>3. disk[e].type = FileType
        BY <2>1, Parts DEF TargetInv
      <3>4. \A d \in Dirs : Contents(d)' = Contents(d)
        BY <1>3, <3>3, TypesAssumption DEF Dirs
      <3> QED BY <1>3, <3>2, <3>4, QuietStep
    <2>2. CASE Op(c) \notin {"write", "setattr"}
      <3>1. PutPending(c)
        BY <1>5, <2>2 DEF PutPending, At
      <3>2. ~Making(c)' /\ ~Unlinking(c)' /\ ~Leaving(c)' /\ (Filling(c)' => Filling(c))
        BY <1>1, <1>2, <1>3, <1>5, <2>2 DEF SameWork, Making, Filling, Unlinking, Leaving, PutPending
      <3>3. Made(c)' <=> Op(c) \in Makers
        BY <1>1, <1>2 DEF SameWork, Made
      <3>4. X(c)' = X(c)
        BY <1>2 DEF SameWork
      <3>5. DirPut(c)
        BY <1>2, <1>3, <3>2, <3>3, <3>4 DEF DirPut, SameWork, Dirs
      <3> QED BY <1>5, <2>2, <3>1, <3>5, DirPutMake, DirPutUnlink DEF Makers
    <2> QED BY <2>1, <2>2
  <1> QED BY <1>3, <1>6, <1>8, <1>9, StepParts

\* c has finished the constructor.
LEMMA Joined ==
  ASSUME YfsInv, NEW c \in Clients, Op(c) = "join", Set(c, Idle), held' = held
  PROVE  /\ call' \in [Clients -> CallRec] /\ call'[c] = Idle
         /\ \A d \in Clients \ {c} : call'[d] = call[d]
         /\ rpc'[c] = NoCall => Fine(c)
         /\ /\ \A f \in Inums : disk'[f].type = disk[f].type
            /\ \A f \in Dirs : Contents(f)' = Contents(f)
            /\ \A d \in Clients \ {c} : rpc'[d] = rpc[d]
            => TargetInv' /\ TreeInv' /\ ClaimInv'
         /\ /\ \A d \in Clients : rpc'[d].data = <<>>
            /\ disk'[Root].data = <<>> /\ \A f \in Inums : disk'[f].type = disk[f].type
            /\ \A d \in Clients : Cached(d, Root)' => extent_map'[d][Root].data = <<>>
            => StartInv'
  <1>1. /\ call' \in [Clients -> CallRec] /\ call'[c] = Idle
        /\ \A d \in Clients \ {c} : call'[d] = call[d]
    BY IdleIs, Parts, SetIs
  <1>2. Op(c)' = "none" /\ X(c)' = Root /\ Req(c)' = <<>> /\ call'[c].at = "user"
    BY <1>1, IdleIs DEF Op, X, Req
  <1>3. ASSUME rpc'[c] = NoCall PROVE Fine(c)
    <2>1. Phase(c)'
      BY <1>2, <1>3, NoCallIs DEF Phase, AtCall, At, OpsAt, FileOps
    <2>2. Buffer(c)' /\ Own(c)'
      BY <1>2 DEF Buffer, Own, Holding, PutPending, Filling, At, Makers
    <2>3. held'[c] = LocksOf(c)' /\ held[c] = {}
      BY <1>2, Parts, HeldIs DEF LocksOf
    <2> QED BY <2>1, <2>2, <2>3 DEF Fine
  <1>4. ASSUME /\ \A f \in Inums : disk'[f].type = disk[f].type
               /\ \A f \in Dirs : Contents(f)' = Contents(f)
               /\ \A d \in Clients \ {c} : rpc'[d] = rpc[d]
        PROVE  TargetInv' /\ TreeInv' /\ ClaimInv'
    <2>1. ~Leaving(c)
      BY DEF Leaving
    <2>2. ~Making(c)' /\ ~Made(c)' /\ ~Filling(c)' /\ ~Unlinking(c)' /\ ~Leaving(c)'
      BY <1>2 DEF Making, Made, Filling, Unlinking, Leaving, PutPending, At, Makers
    <2>3. Retarget(c, Root)
      BY <1>1, <1>2, <1>4, <2>1, <2>2, RootFree, InumsAssumption DEF Retarget
    <2> QED BY <2>3, RetargetStep
  <1>5. ASSUME /\ \A d \in Clients : rpc'[d].data = <<>>
               /\ disk'[Root].data = <<>> /\ \A f \in Inums : disk'[f].type = disk[f].type
               /\ \A d \in Clients : Cached(d, Root)' => extent_map'[d][Root].data = <<>>
        PROVE  StartInv'
    <2>1. Starting /\ \A d \in Clients \ {c} : call[d].at \in {"out", "user"}
      BY StartAlone
    <2>2. \A d \in Clients \ {c} : Op(d) # "join"
      BY <2>1, Parts, OpIs
    <2>3. \A e \in Inums \ {Root} : disk[e].type = NoType
      BY <2>1, Parts DEF StartInv
    <2>4. \A d \in Clients : call'[d].at \in {"out", "user"} /\ Op(d)' # "join"
      BY <1>1, <1>2, <2>1, <2>2 DEF Op
    <2> QED BY <1>5, <2>3, <2>4 DEF StartInv
  <1> QED BY <1>1, <1>3, <1>4, <1>5

\* The constructor puts the empty root directory.
LEMMA PutJoin ==
  ASSUME YfsInv, NEW c \in Clients, HasNewContents(c), NEW e \in Inums, e = X(c),
         NEW data \in Data, data = NewContents(c), held' = held, Op(c) = "join",
         \/ PutLocal(c, e, data) /\ Set(c, AfterPut(c))
         \/ PutThrough(c, e, data) /\ GoTo(c, "put")
  PROVE  YfsInv'
  <1>1. /\ data = <<>> /\ e = Root /\ Starting /\ Contents(Root) = <<>>
        /\ disk[Root].data = <<>> /\ \A d \in Clients : rpc[d].data = <<>>
        /\ \A d \in Clients : Cached(d, Root) => extent_map[d][Root].data = <<>>
        /\ Root \in Inums
    BY StartAlone, StartEmpty, Parts, InumsAssumption DEF NewContents, StartInv
  <1>2. CASE PutLocal(c, e, data) /\ Set(c, AfterPut(c))
    <2>1. Set(c, Idle)
      BY <1>2 DEF AfterPut
    <2>2. /\ call' \in [Clients -> CallRec] /\ call'[c] = Idle
          /\ \A d \in Clients \ {c} : call'[d] = call[d]
      BY <2>1, Joined
    <2>3. /\ TypeOK' /\ CacheInv' /\ Untouched(c) /\ rpc[c] = NoCall
          /\ rpc' = rpc /\ owner_map' = owner_map /\ disk' = disk
          /\ \A d \in Clients \ {c} : extent_map'[d] = extent_map[d]
          /\ Contents(e)' = data
          /\ \A f \in Inums \ {e} : Contents(f)' = Contents(f)
          /\ extent_map'[c][e].data = data
      BY <1>2, <2>2, PutLocalFacts
    <2>4. Fine(c)
      BY <2>1, <2>3, Joined
    <2>5. \A f \in Dirs : Contents(f)' = Contents(f)
      BY <1>1, <2>3 DEF Dirs
    <2>6. TargetInv' /\ TreeInv' /\ ClaimInv'
      BY <2>1, <2>3, <2>5, Joined
    <2>7. \A d \in Clients : Cached(d, Root)' => extent_map'[d][Root].data = <<>>
      BY <1>1, <2>3 DEF Cached
    <2>8. StartInv'
      <3>1. \A d \in Clients : rpc'[d].data = <<>>
        BY <1>1, <2>3
      <3>2. disk'[Root].data = <<>> /\ \A f \in Inums : disk'[f].type = disk[f].type
        BY <1>1, <2>3
      <3> QED BY <2>1, <2>7, <3>1, <3>2, Joined
    <2> QED BY <2>3, <2>4, <2>6, <2>8, StepParts
  <1>3. CASE PutThrough(c, e, data) /\ GoTo(c, "put")
    <2>1. /\ rpc[c] = NoCall /\ owner_map' = owner_map /\ disk' = disk
          /\ \A d \in Clients \ {c} : rpc'[d] = rpc[d]
          /\ rpc'[c].op = "put" /\ rpc'[c].at = "request" /\ rpc'[c].eid = e
          /\ rpc'[c].data = data
          /\ CacheInv' /\ TypeOK'
          /\ \A f \in Inums : Contents(f)' = Contents(f)
          /\ Cached(c, e) => extent_map' = extent_map
          /\ ~Cached(c, e) => extent_map'[c][e] = Entry(<<>>, NoType, "EXCLUSIVE")
          /\ \A d \in Clients, f \in Inums :
               d # c \/ f # e => extent_map'[d][f] = extent_map[d][f]
          /\ Untouched(c)
          /\ call'[c].at = "put" /\ call'[c].ino = call[c].ino
          /\ SameWork(c) /\ NewContents(c)' = NewContents(c)
          /\ \A d \in Clients \ {c} : call'[d] = call[d]
          /\ \A p : At(c, p)' <=> p = "put"
      BY <1>3, PutThroughIs
    <2>2. Op(c)' = "join" /\ X(c)' = Root /\ call[c].at = "put" /\ held[c] = {}
      BY <1>1, <2>1, Parts, OpIs, HeldIs DEF SameWork
    <2>3. Fine(c)
      <3>1. Phase(c)'
        <4>1. Req(c)' = <<>>
          BY <2>1, PhaseOf DEF SameWork
        <4>2. "join" \in OpsAt["put"] /\ "join" \notin FileOps
          BY DEF OpsAt, FileOps
        <4>3. AtCall(c)'
          BY <1>1, <2>1, <2>2 DEF AtCall
        <4> QED BY <2>1, <2>2, <4>1, <4>2, <4>3 DEF Phase
      <3>2. Buffer(c)' /\ Own(c)'
        BY <2>1, <2>2 DEF Buffer, Own, Holding, Filling, Makers
      <3>3. held'[c] = LocksOf(c)'
        BY <2>1, <2>2 DEF LocksOf
      <3> QED BY <2>2, <3>1, <3>2, <3>3 DEF Fine
    <2>4. SameRole(c)
      BY <2>1, <2>2 DEF SameRole, SameWork, Making, Made, Filling, Unlinking, Leaving, At, Makers
    <2>5. \A d \in Clients : SameRole(d)
      BY <2>1, <2>4, SameRoles
    <2>6. TargetInv' /\ TreeInv' /\ ClaimInv'
      BY <2>1, <2>5, QuietStep DEF Dirs
    <2>7. StartInv'
      <3>1. \A d \in Clients : rpc'[d].data = <<>>
        BY <1>1, <2>1
      <3>2. \A d \in Clients : Cached(d, Root)' => extent_map'[d][Root].data = <<>>
        <4>1. Entry(<<>>, NoType, "EXCLUSIVE").data = <<>>
          BY DEF Entry
        <4> QED BY <1>1, <2>1, <4>1 DEF Cached
      <3>3. \A d \in Clients : (call'[d].at \in {"out", "user"} \/ Op(d)' = "join")
                                 /\ (Op(d)' = "join" <=> Op(d) = "join")
        BY <1>1, <2>1, <2>2, Parts DEF StartInv, Op
      <3>4. /\ \A d, g \in Clients : Op(d) = "join" /\ Op(g) = "join" => d = g
            /\ \A f \in Inums \ {Root} : disk[f].type = NoType
        BY <1>1, Parts DEF StartInv
      <3> QED BY <1>1, <2>1, <3>1, <3>2, <3>3, <3>4 DEF StartInv
    <2> QED BY <2>1, <2>3, <2>6, <2>7, StepParts
  <1> QED BY <1>2, <1>3

\* A client puts its new contents.
LEMMA PutStep ==
  ASSUME YfsInv, NEW c \in Clients, Put(c)
  PROVE  YfsInv'
  <1>1. HasNewContents(c) /\ held' = held /\ rpc[c] = NoCall
    BY DEF Put, PutLocal, PutThrough, Call
  <1>2. PICK e \in Inums : e = X(c)
    BY Parts, CallTyped
  <1>3. PICK data \in Data : data = NewContents(c)
    BY <1>1, NewTyped
  <1>4. \/ PutLocal(c, e, data) /\ Set(c, AfterPut(c))
        \/ PutThrough(c, e, data) /\ GoTo(c, "put")
    BY <1>2, <1>3 DEF Put
  <1>5. CASE Op(c) = "join"
    BY <1>1, <1>2, <1>3, <1>4, <1>5, PutJoin
  <1>6. CASE Op(c) # "join"
    BY <1>1, <1>2, <1>3, <1>4, <1>6, PutLocalWork, PutThroughQuiet
  <1> QED BY <1>5, <1>6

-----------------------------------------------------------------------------
(* Starting                                                                *)

\* A client starts, while nobody is at work.
LEMMA JoinStep ==
  ASSUME YfsInv, NEW c \in Clients, OrderlyJoin(c)
  PROVE  YfsInv'
  <1> DEFINE new == [Idle EXCEPT !.op = "join", !.at = "put"]
  <1>1. /\ Set(c, new) /\ cacheVars' = cacheVars /\ held' = held /\ At(c, "out")
        /\ \A d \in Clients : call[d].at \in {"out", "user"}
    BY DEF OrderlyJoin, Join, cacheVars
  <1>2. /\ new \in CallRec /\ new.op = "join" /\ new.at = "put" /\ new.x = Root /\ new.req = <<>>
    <2>1. "put" \in DOMAIN OpsAt /\ "join" \in FileOps \cup {"none", "join"}
      BY Points
    <2>2. new \in CallRec
      BY <2>1, IdleIs, Zenon DEF CallRec
    <2> QED BY <2>2 DEF Idle
  <1> HIDE DEF new
  <1>3. /\ call' \in [Clients -> CallRec] /\ call'[c] = new
        /\ \A d \in Clients \ {c} : call'[d] = call[d]
    BY <1>1, <1>2, Parts, SetIs
  <1>4. Op(c)' = "join" /\ X(c)' = Root /\ Req(c)' = <<>> /\ call'[c].at = "put"
          /\ \A p : At(c, p)' <=> p = "put"
    BY <1>2, <1>3 DEF Op, X, Req, At
  <1>5. /\ CacheTypes' /\ CacheInv' /\ rpc' = rpc /\ disk' = disk /\ extent_map' = extent_map
        /\ \A f : Contents(f)' = Contents(f)
    BY <1>1, CacheSame
  <1>6. TypeOK'
    <2>1. held' \in [Clients -> SUBSET Inums]
      BY <1>1, Parts DEF TypeOK
    <2> QED BY <1>3, <1>5, <2>1, Parts, TypesKept
  <1>7. Untouched(c)
    BY <1>1, <1>3, UntouchedCache
  <1>8. rpc[c].op = "none" /\ held[c] = {} /\ Op(c) = "none" /\ Starting
    BY <1>1, Parts, RpcAt, HeldIs, OpIs DEF At, Starting
  <1>9. Fine(c)
    <2>1. Phase(c)'
      <3>1. "join" \in OpsAt["put"] /\ "join" \notin FileOps
        BY DEF OpsAt, FileOps
      <3>2. AtCall(c)'
        BY <1>4, <1>5, <1>8 DEF AtCall
      <3> QED BY <1>4, <3>1, <3>2 DEF Phase
    <2>2. Buffer(c)' /\ Own(c)'
      BY <1>4 DEF Buffer, Own, Holding, Filling, Makers
    <2>3. held'[c] = LocksOf(c)'
      BY <1>1, <1>4, <1>8 DEF LocksOf
    <2> QED BY <1>1, <1>8, <2>1, <2>2, <2>3 DEF Fine
  <1>10. TargetInv' /\ TreeInv' /\ ClaimInv'
    <2>1. ~Making(c)' /\ ~Made(c)' /\ ~Filling(c)' /\ ~Unlinking(c)' /\ ~Leaving(c)' /\ ~Leaving(c)
      BY <1>4, <1>8 DEF Making, Made, Filling, Unlinking, Leaving, Makers
    <2>2. disk[Root].type # NoType
      BY Parts, TypesAssumption DEF TargetInv
    <2>3. Retarget(c, Root)
      BY <1>3, <1>4, <1>5, <2>1, <2>2, RootFree, InumsAssumption DEF Retarget
    <2> QED BY <2>3, RetargetStep
  <1>11. StartInv'
    <2>1. \A d \in Clients \ {c} : Op(d)' # "join" /\ call'[d].at \in {"out", "user"}
      BY <1>1, <1>3, Parts, OpIs DEF Op
    <2>2. /\ \A d \in Clients : rpc[d].data = <<>>
          /\ disk[Root].data = <<>>
          /\ \A d \in Clients : Cached(d, Root) => extent_map[d][Root].data = <<>>
          /\ \A e \in Inums \ {Root} : disk[e].type = NoType
      BY <1>8, Parts DEF StartInv
    <2> QED BY <1>4, <1>5, <2>1, <2>2 DEF StartInv, Cached
  <1> QED BY <1>5, <1>6, <1>7, <1>9, <1>10, <1>11, StepParts

\* c goes on to request req on inode i.
LEMMA Begin ==
  ASSUME YfsInv, NEW c \in Clients, NEW i \in Inums, NEW new \in CallRec, Set(c, new),
         new.at = "lock", new.op \in FileOps, new.x = i,
         new.op # "look" => new.req \in Requests[c] /\ new.req.op = new.op,
         disk[i].type # NoType,
         new.op \in {"lookup", "create", "symlink", "unlink"} => disk[i].type = DirType,
         new.op \in {"write", "setattr"} => disk[i].type = FileType,
         new.op = "create" /\ new.req.type = DirType => i = Root,
         \A d \in Clients \ {c} :
           /\ Making(d) => NewInum(d) # i
           /\ Filling(d) \/ Unlinking(d) => call[d].ino # i,
         cacheVars' = cacheVars, held' \in [Clients -> SUBSET Inums], held'[c] = {},
         \A d \in Clients \ {c} : held'[d] = held[d],
         call[c].at \in {"user", "got", "unlock"},
         \A d \in Clients : ~At(d, "out") /\ Op(d) # "join"
  PROVE  YfsInv'
  <1>3. /\ call' \in [Clients -> CallRec] /\ call'[c] = new
        /\ \A d \in Clients \ {c} : call'[d] = call[d]
    BY Parts, SetIs
  <1>4. Op(c)' = new.op /\ X(c)' = i /\ Req(c)' = new.req /\ call'[c].at = "lock"
          /\ \A p : At(c, p)' <=> p = "lock"
    BY <1>3 DEF Op, X, Req, At
  <1>5. /\ CacheTypes' /\ CacheInv' /\ rpc' = rpc /\ disk' = disk /\ extent_map' = extent_map
        /\ \A f : Contents(f)' = Contents(f)
    BY CacheSame
  <1>6. TypeOK'
    BY <1>3, <1>5, Parts, TypesKept
  <1>7. Untouched(c)
    BY <1>3, UntouchedCache
  <1>8. rpc[c].op = "none"
    BY Parts, RpcAt
  <1>9. Fine(c)
    <2>1. Phase(c)'
      <3>1. OpsAt["lock"] = FileOps /\ "none" \notin FileOps /\ "join" \notin FileOps
        BY DEF OpsAt, FileOps
      <3>2. AtCall(c)'
        BY <1>4, <1>5, <1>8 DEF AtCall
      <3>3. Op(c)' \in FileOps \ {"look"} => Req(c)' \in Requests[c] /\ Req(c)'.op = Op(c)'
        BY <1>4
      <3> QED BY <1>4, <3>1, <3>2, <3>3 DEF Phase
    <2>2. Buffer(c)' /\ Own(c)'
      BY <1>4 DEF Buffer, Own, Holding, Filling, PutPending
    <2>3. held'[c] = LocksOf(c)'
      BY <1>4 DEF LocksOf, FileOps
    <2> QED BY <2>1, <2>2, <2>3 DEF Fine
  <1>10. TargetInv' /\ TreeInv' /\ ClaimInv'
    <2>1. ~Making(c)' /\ ~Made(c)' /\ ~Filling(c)' /\ ~Unlinking(c)' /\ ~Leaving(c)'
      BY <1>4 DEF Making, Made, Filling, Unlinking, Leaving, PutPending
    <2>2. ~Leaving(c)
      BY DEF Leaving, PutPending, At
    <2>3. Retarget(c, i)
      BY <1>3, <1>4, <1>5, <2>1, <2>2 DEF Retarget
    <2> QED BY <2>3, RetargetStep
  <1>11. StartInv'
    <2>1. ~Starting'
      BY <1>3, <1>4 DEF Starting, At, Op, FileOps
    <2> QED BY <2>1 DEF StartInv
  <1> QED BY <1>5, <1>6, <1>7, <1>9, <1>10, <1>11, StepParts

\* A client takes a request.
LEMMA StartStep ==
  ASSUME YfsInv, NEW c \in Clients, OrderlyStart(c)
  PROVE  YfsInv'
  <1>1. PICK req \in Requests[c], i \in Inums :
          /\ i = Root \/ Named(i)
          /\ ~Removing(i) /\ Fits(i, req)
          /\ Set(c, [Idle EXCEPT !.op = req.op, !.at = "lock", !.x = i, !.req = req,
                                 !.looks = IF req.op = "look" THEN req.looks ELSE 1])
    <2>1. PICK req \in Requests[c], i \in Inums :
            /\ i = Root \/ Named(i)
            /\ Fits(i, req)
            /\ Set(c, [Idle EXCEPT !.op = req.op, !.at = "lock", !.x = i, !.req = req,
                                   !.looks = IF req.op = "look" THEN req.looks ELSE 1])
      BY DEF OrderlyStart, Start
    <2>2. call'[c].x = i
      BY <2>1, Parts DEF TypeOK, Set, Idle
    <2>3. ~Removing(i)
      BY <2>2 DEF OrderlyStart
    <2> QED BY <2>1, <2>3
  <1>2. /\ At(c, "user") /\ cacheVars' = cacheVars /\ held' = held
        /\ \A d \in Clients : ~At(d, "out") /\ Op(d) # "join"
    BY DEF OrderlyStart, Start, AllJoined, cacheVars
  <1>3. req \in Request /\ req.op \in FileOps /\ (req.op = "look" => req.looks \in Nat)
    <2>1. req \in Request
      BY <1>1, RequestsAssumption
    <2> QED BY <2>1 DEF Request, FileOps
  <1>4. PICK n \in Nat : n = IF req.op = "look" THEN req.looks ELSE 1
    BY <1>3
  <1> DEFINE new == [Idle EXCEPT !.op = req.op, !.at = "lock", !.x = i, !.req = req, !.looks = n]
  <1>5. Set(c, new)
    BY <1>1, <1>4
  <1>6. /\ new \in CallRec
        /\ new.at = "lock" /\ new.op = req.op /\ new.x = i /\ new.req = req
    <2>1. "lock" \in DOMAIN OpsAt /\ req.op \in FileOps \cup {"none", "join"}
            /\ req \in Request \cup {<<>>}
      BY <1>3, Points
    <2>2. new \in CallRec
      BY <2>1, IdleIs, Zenon DEF CallRec
    <2> QED BY <2>2 DEF Idle
  <1> HIDE DEF new
  <1>7. disk[i].type # NoType
    <2>1. CASE i = Root
      BY <2>1, Parts, TypesAssumption DEF TargetInv
    <2>2. CASE Named(i)
      BY <2>2, NamedIs
    <2> QED BY <1>1, <2>1, <2>2
  <1>8. /\ req.op \in {"lookup", "create", "symlink", "unlink"} => disk[i].type = DirType
        /\ req.op \in {"write", "setattr"} => disk[i].type = FileType
        /\ req.op = "create" /\ req.type = DirType => i = Root
    <2>1. Fits(i, req)
      BY <1>1
    <2> QED BY <1>3, <2>1 DEF Fits, FileOps
  <1>9. ASSUME NEW d \in Clients \ {c}
        PROVE  /\ Making(d) => NewInum(d) # i
               /\ Filling(d) \/ Unlinking(d) => call[d].ino # i
    <2>1. CASE i = Root
      BY <2>1, RootFree
    <2>2. CASE Named(i)
      <3>1. Claims(d, i) => (Made(d) /\ ~Filling(d)) \/ At(d, "remove")
        BY <2>2, NamedIs
      <3>2. Making(d) => NewInum(d) # i
        BY <3>1 DEF Claims, Making, Made, PutPending, At
      <3>3. Filling(d) => call[d].ino # i
        BY <3>1 DEF Claims, Filling, At
      <3>4. Unlinking(d) => call[d].ino # i
        <4>1. Unlinking(d) => Op(d) = "unlink" /\ ~Made(d)
          BY Parts, LeavingHolds DEF Made, Makers
        <4> QED BY <1>1, <3>1, <4>1 DEF Claims, Removing
      <3> QED BY <3>2, <3>3, <3>4
    <2> QED BY <1>1, <2>1, <2>2
  <1>10. held' \in [Clients -> SUBSET Inums] /\ held'[c] = {} /\ call[c].at = "user"
    BY <1>2, Parts, HeldIs DEF TypeOK, At
  <1>11. new.op # "look" => new.req \in Requests[c] /\ new.req.op = new.op
    BY <1>6
  <1> QED BY <1>2, <1>3, <1>5, <1>6, <1>7, <1>8, <1>9, <1>10, <1>11, Begin

-----------------------------------------------------------------------------
(* Unlocking                                                               *)

\* A further look at an inode.
LEMMA LookAtIs ==
  ASSUME NEW i \in Inums, NEW n \in Nat
  PROVE  /\ LookAt(i, n) \in CallRec
         /\ LookAt(i, n).at = "lock" /\ LookAt(i, n).op = "look" /\ LookAt(i, n).x = i
  <1>1. "lock" \in DOMAIN OpsAt /\ "look" \in FileOps \cup {"none", "join"}
    BY Points DEF FileOps
  <1>2. LookAt(i, n) \in CallRec
    BY <1>1, IdleIs, Zenon DEF CallRec, LookAt
  <1> QED BY <1>2 DEF LookAt, Idle

\* Whoever else makes, fills or removes an inode: it is not i.
Unclaimed(c, i) ==
  \A d \in Clients \ {c} :
    /\ Making(d) => NewInum(d) # i
    /\ Filling(d) \/ Unlinking(d) => call[d].ino # i

\* Where a client goes when it releases its inode: to what nobody claims.
LEMMA UnlockTo ==
  ASSUME YfsInv, NEW c \in Clients, At(c, "unlock") \/ (At(c, "got") /\ NothingToDo(c))
  PROVE  \/ AfterUnlock(c) = Idle
         \/ \E i \in Inums, n \in Nat :
              AfterUnlock(c) = LookAt(i, n) /\ disk[i].type # NoType /\ Unclaimed(c, i)
  <1>1. /\ Op(c) \in FileOps /\ X(c) \in Inums /\ call[c].ino \in Inums /\ call[c].looks \in Nat
        /\ Op(c) \notin {"none", "join"} /\ X(c) \in held[c]
    BY Parts, OpIs, CallTyped, HeldIs DEF At, FileOps
  <1>2. disk[X(c)].type # NoType /\ Unclaimed(c, X(c))
    BY <1>1, Parts DEF TargetInv, ClaimInv, Unclaimed
  <1>3. CASE Op(c) = "look" /\ call[c].looks > 1
    <2>1. AfterUnlock(c) = LookAt(X(c), call[c].looks - 1)
      BY <1>3 DEF AfterUnlock
    <2>2. call[c].looks - 1 \in Nat
      BY <1>1, <1>3
    <2> QED BY <1>1, <1>2, <2>1, <2>2
  <1>4. CASE Op(c) = "setattr"
    <2>1. AfterUnlock(c) = LookAt(X(c), 2)
      BY <1>4 DEF AfterUnlock
    <2> QED BY <1>1, <1>2, <2>1
  <1>5. ASSUME NEW i \in Inums, InDir(X(c), i), X(c) \in Dirs
        PROVE  disk[i].type # NoType /\ Unclaimed(c, i)
    <2>1. ~Leaving(c)
      BY DEF Leaving, PutPending, At
    <2>2. /\ disk[i].type # NoType
          /\ \A d \in Clients : Making(d) => NewInum(d) # i
          /\ \A d \in Clients \ {c} : (Made(d) \/ Filling(d) \/ Unlinking(d)) => call[d].ino # i
      BY <1>1, <1>5, <2>1, HeldEntry
    <2> QED BY <2>2 DEF Unclaimed
  <1>6. CASE Op(c) = "lookup" /\ LookupFound(c)
    <2>1. AfterUnlock(c) = LookAt(FoundInum(c), 2)
      BY <1>6 DEF AfterUnlock
    <2>2. Holding(c) /\ X(c) \in Dirs
      <3>1. At(c, "got")
        BY <1>6, Parts, OpIs DEF At
      <3> QED BY <1>6, <3>1, TargetIsDir DEF Holding, At
    <2>3. Contents(X(c)) = call[c].buf /\ call[c].buf \in Seq(Entries)
      BY <2>2, DirBuf
    <2>4. FoundInum(c) \in Inums /\ InDir(X(c), FoundInum(c))
      <3>1. Found(c)
        BY <1>6 DEF LookupFound
      <3>2. Position(c) \in 1..Len(call[c].buf) /\ FoundInum(c) \in Inums
        BY <2>3, <3>1, FoundIs
      <3> QED BY <2>3, <3>2 DEF InDir, FoundInum
    <2> QED BY <1>5, <2>1, <2>2, <2>4
  <1>7. CASE Op(c) \in {"create", "symlink"} /\ At(c, "unlock")
    <2>1. AfterUnlock(c) = LookAt(call[c].ino, 2)
      BY <1>7 DEF AfterUnlock
    <2>2. Made(c)
      BY <1>7 DEF Made, Makers, At
    <2>3. X(c) \in Dirs /\ InDir(X(c), call[c].ino)
      BY <2>2, MadeEntry
    <2> QED BY <1>1, <1>5, <2>1, <2>3
  <1>8. CASE /\ ~(Op(c) = "look" /\ call[c].looks > 1) /\ Op(c) # "setattr"
             /\ ~(Op(c) = "lookup" /\ LookupFound(c))
             /\ ~(Op(c) \in {"create", "symlink"} /\ At(c, "unlock"))
    BY <1>8 DEF AfterUnlock
  <1> QED BY <1>3, <1>4, <1>6, <1>7, <1>8

\* A client releases its inode.
LEMMA UnlockStep ==
  ASSUME YfsInv, NEW c \in Clients, Unlock(c)
  PROVE  YfsInv'
  <1>1. /\ At(c, "unlock") \/ (At(c, "got") /\ NothingToDo(c))
        /\ Release(c, X(c)) /\ Set(c, AfterUnlock(c)) /\ cacheVars' = cacheVars
        /\ X(c) \in Inums
    BY Parts, CallTyped DEF Unlock, cacheVars
  <1>2. /\ call[c].at \in {"got", "unlock"} /\ held[c] = {X(c)} /\ Op(c) # "join"
        /\ Op(c) \in FileOps
    BY <1>1, Parts, HeldIs, OpIs DEF At, FileOps
  <1>3. /\ held' \in [Clients -> SUBSET Inums]
        /\ held'[c] = {} /\ \A d \in Clients \ {c} : held'[d] = held[d]
    BY <1>1, <1>2, Parts, ReleaseIs
  <1>4. \A d \in Clients : ~At(d, "out") /\ Op(d) # "join"
    BY <1>2, Parts, Started
  <1>5. CASE AfterUnlock(c) = Idle
    <2>1. /\ call' \in [Clients -> CallRec] /\ call'[c] = Idle
          /\ \A d \in Clients \ {c} : call'[d] = call[d]
      BY <1>1, <1>5, IdleIs, Parts, SetIs
    <2>2. Op(c)' = "none" /\ X(c)' = Root /\ Req(c)' = <<>> /\ call'[c].at = "user"
            /\ \A p : At(c, p)' <=> p = "user"
      BY <2>1, IdleIs DEF Op, X, Req, At
    <2>3. /\ CacheTypes' /\ CacheInv' /\ rpc' = rpc /\ disk' = disk
          /\ \A f : Contents(f)' = Contents(f)
      BY <1>1, CacheSame
    <2>4. TypeOK'
      BY <1>3, <2>1, <2>3, Parts, TypesKept
    <2>5. Untouched(c)
      BY <1>1, <1>3, <2>1, UntouchedCache
    <2>6. rpc[c].op = "none"
      BY <1>2, Parts, RpcAt
    <2>7. Fine(c)
      <3>1. Phase(c)'
        BY <2>2, <2>3, <2>6 DEF Phase, AtCall, OpsAt, FileOps
      <3>2. Buffer(c)' /\ Own(c)'
        BY <2>2 DEF Buffer, Own, Holding, PutPending, Filling, Makers
      <3>3. held'[c] = LocksOf(c)'
        BY <1>3, <2>2 DEF LocksOf
      <3> QED BY <1>3, <3>1, <3>2, <3>3 DEF Fine
    <2>8. TargetInv' /\ TreeInv' /\ ClaimInv'
      <3>1. ~Making(c)' /\ ~Made(c)' /\ ~Filling(c)' /\ ~Unlinking(c)' /\ ~Leaving(c)'
        BY <2>2 DEF Making, Made, Filling, Unlinking, Leaving, PutPending, Makers
      <3>2. ~Leaving(c)
        BY <1>2 DEF Leaving, PutPending, At
      <3>3. Retarget(c, Root)
        BY <2>1, <2>2, <2>3, <3>1, <3>2, RootFree, InumsAssumption DEF Retarget
      <3> QED BY <3>3, RetargetStep
    <2>9. StartInv'
      <3>1. call'[c].at # "out" /\ call'[c].op # "join"
        BY <2>1, IdleIs
      <3> QED BY <1>2, <2>1, <3>1, StartedStep
    <2> QED BY <2>3, <2>4, <2>5, <2>7, <2>8, <2>9, StepParts
  <1>6. ASSUME NEW i \in Inums, NEW n \in Nat,
               AfterUnlock(c) = LookAt(i, n), disk[i].type # NoType, Unclaimed(c, i)
        PROVE  YfsInv'
    <2>1. PICK new \in CallRec :
            Set(c, new) /\ new.at = "lock" /\ new.op = "look" /\ new.x = i
      BY <1>1, <1>6, LookAtIs
    <2>2. new.op \in FileOps
      BY <2>1 DEF FileOps
    <2>3. \A d \in Clients \ {c} :
            /\ Making(d) => NewInum(d) # i
            /\ Filling(d) \/ Unlinking(d) => call[d].ino # i
      BY <1>6 DEF Unclaimed
    <2> QED BY <1>1, <1>2, <1>3, <1>4, <1>6, <2>1, <2>2, <2>3, Begin
  <1> QED BY <1>1, <1>5, <1>6, UnlockTo

\* What unlink finds is no directory, since nobody makes one by its name.
LEMMA FoundFile ==
  ASSUME YfsInv, DirsStay, NEW c \in Clients, At(c, "got"), Op(c) = "unlink", Found(c)
  PROVE  /\ X(c) \in Dirs /\ held[c] = {X(c)} /\ ~Stale(X(c), FoundInum(c))
         /\ InDir(X(c), FoundInum(c)) /\ FoundInum(c) \in Inums
         /\ disk[FoundInum(c)].type # DirType
  <1>1. Holding(c) /\ X(c) \in Dirs /\ held[c] = {X(c)} /\ ~Leaving(c)
    BY TargetIsDir, Parts, HeldIs DEF Holding, Leaving, PutPending, At
  <1>2. Contents(X(c)) = call[c].buf /\ call[c].buf \in Seq(Entries)
    BY <1>1, DirBuf
  <1>3. /\ Position(c) \in 1..Len(call[c].buf) /\ FoundInum(c) \in Inums
        /\ call[c].buf[Position(c)] = [name |-> Req(c).name, inum |-> FoundInum(c)]
    BY <1>2, FoundIs
  <1>4. PICK i \in Inums : i = FoundInum(c)
    BY <1>3
  <1>5. ~Stale(X(c), i)
    BY <1>1, Parts, StaleMine
  <1>6. InDir(X(c), i)
    BY <1>2, <1>3, <1>4 DEF InDir
  <1>7. disk[i].type = DirType => Req(c).name \in DirNames
    <2>1. /\ Contents(X(c))[Position(c)].inum = i
          /\ Contents(X(c))[Position(c)].name = Req(c).name
          /\ Position(c) \in 1..Len(Contents(X(c)))
      BY <1>2, <1>3, <1>4
    <2> QED BY <1>1, <1>5, <2>1, Parts DEF TreeInv
  <1>8. Req(c) \in Requests[c] /\ Req(c).op = "unlink"
    BY Parts, ReqTyped DEF FileOps
  <1>9. Req(c).name \notin DirNames
    BY <1>8 DEF DirNames, DirsStay
  <1> QED BY <1>1, <1>4, <1>5, <1>6, <1>7, <1>9

\* unlink takes the lock of the inode it found: a file nobody else is about.
LEMMA LockEntryStep ==
  ASSUME YfsInv, DirsStay, NEW c \in Clients, OrderlyLockEntry(c)
  PROVE  YfsInv'
  <1>1. /\ call[c].at = "got" /\ Op(c) = "unlink" /\ Found(c) /\ ~InUse(c, FoundInum(c))
        /\ Acquire(c, FoundInum(c))
        /\ Set(c, [call[c] EXCEPT !.at = "remove", !.ino = FoundInum(c)])
        /\ cacheVars' = cacheVars /\ "remove" \in DOMAIN OpsAt
    BY Points DEF OrderlyLockEntry, LockEntry, At, cacheVars
  <1>2. Holding(c) /\ X(c) \in Dirs /\ X(c) \in Inums /\ held[c] = {X(c)} /\ ~Leaving(c)
    BY <1>1, TargetIsDir, Parts, HeldIs DEF Holding, Leaving, PutPending, At
  <1>3. Contents(X(c)) = call[c].buf /\ call[c].buf \in Seq(Entries)
    BY <1>2, DirBuf
  <1>4. /\ Position(c) \in 1..Len(call[c].buf) /\ FoundInum(c) \in Inums
        /\ call[c].buf[Position(c)] = [name |-> Req(c).name, inum |-> FoundInum(c)]
    BY <1>1, <1>3, FoundIs
  <1>5. PICK i \in Inums : i = FoundInum(c)
    BY <1>4
  <1>6. InDir(X(c), i)
    BY <1>3, <1>4, <1>5 DEF InDir, FoundInum
  <1>7. /\ disk[i].type # NoType /\ i # Root
        /\ \A d \in Clients : Making(d) => NewInum(d) # i
        /\ \A d \in Clients \ {c} : (Made(d) \/ Filling(d) \/ Unlinking(d)) => call[d].ino # i
    BY <1>2, <1>6, HeldEntry
  <1>8. disk[i].type # DirType
    BY <1>1, <1>5, FoundFile DEF At
  <1>9. /\ held' \in [Clients -> SUBSET Inums]
        /\ held'[c] = held[c] \cup {i} /\ \A d \in Clients \ {c} : held'[d] = held[d]
        /\ \A d \in Clients : i \notin held[d]
    BY <1>1, <1>5, Parts, AcquireIs
  <1>10. /\ call' \in [Clients -> CallRec]
         /\ call'[c].at = "remove" /\ call'[c].ino = i /\ call'[c].buf = call[c].buf
         /\ SameWork(c)
         /\ \A d \in Clients \ {c} : call'[d] = call[d]
         /\ \A p : At(c, p)' <=> p = "remove"
    BY <1>1, <1>5, Parts, InoTo
  <1>11. /\ CacheTypes' /\ CacheInv' /\ rpc' = rpc /\ disk' = disk /\ extent_map' = extent_map
         /\ \A f : Contents(f)' = Contents(f)
    BY <1>1, CacheSame
  <1>12. TypeOK'
    BY <1>9, <1>10, <1>11, Parts, TypesKept
  <1>13. Untouched(c)
    BY <1>1, <1>9, <1>10, UntouchedCache
  <1>14. rpc[c].op = "none" /\ i # X(c)
    BY <1>1, <1>2, <1>9, Parts, RpcAt
  <1>15. Fine(c)
    <2>1. Phase(c)'
      BY <1>1, <1>10, <1>11, <1>14, PhaseOf DEF Phase, AtCall, SameWork, OpsAt, FileOps
    <2>2. Buffer(c)'
      <3>1. /\ Cached(c, X(c)) /\ extent_map[c][X(c)].data = call[c].buf
            /\ Contents(X(c)) = call[c].buf
        BY <1>2, Parts DEF BufInv, Buffer
      <3> QED BY <1>10, <1>11, <3>1 DEF Buffer, SameWork, Cached
    <2>3. Own(c)'
      BY <1>1, <1>5, <1>10, <1>14 DEF Own, SameWork, Filling, Makers
    <2>4. held'[c] = LocksOf(c)'
      BY <1>1, <1>2, <1>9, <1>10 DEF LocksOf, SameWork
    <2>5. \A d \in Clients \ {c} : held'[c] \cap held[d] = {}
      BY <1>9, Parts DEF LockInv
    <2> QED BY <2>1, <2>2, <2>3, <2>4, <2>5 DEF Fine
  <1>16. StartInv'
    <2>1. call'[c].at # "out" /\ call'[c].op # "join" /\ Op(c) # "join"
      BY <1>1, <1>10 DEF SameWork, Op
    <2> QED BY <1>1, <1>10, <2>1, StartedStep
  <1>17. \A d \in Clients : X(d) # i
    <2>1. ASSUME NEW d \in Clients \ {c}, X(d) = i PROVE FALSE
      <3>1. call[d].at = "user"
        BY <1>1, <1>5, <2>1 DEF InUse
      <3>2. X(d) = Root
        BY <3>1, Parts, OpIs, PhaseOf
      <3> QED BY <1>7, <2>1, <3>2
    <2> QED BY <1>14, <2>1
  <1>18. \A d \in Clients \ {c} : SameRole(d)
    BY <1>10, <1>11, SameRoles
  <1>19. /\ Op(c)' = Op(c) /\ X(c)' = X(c) /\ Req(c)' = Req(c)
         /\ ~Making(c) /\ ~Making(c)' /\ ~Made(c) /\ ~Made(c)' /\ ~Filling(c)' /\ ~Leaving(c)'
         /\ Unlinking(c)'
    BY <1>1, <1>10 DEF SameWork, Making, Made, Filling, Leaving, Unlinking, Makers, PutPending, At
  <1>20. Dirs' = Dirs /\ \A d \in Dirs : \A f : InDir(d, f)' <=> InDir(d, f)
    BY <1>11 DEF Dirs, InDir
  <1>21. \A d, f : Stale(d, f)' <=> Stale(d, f)
    BY <1>2, <1>18, <1>19 DEF Stale, SameRole
  <1>22. TargetInv'
    BY <1>11, <1>18, <1>19, Parts, CallTyped DEF TargetInv, SameRole
  <1>23. TreeInv'
    <2>1. TreeInv
      BY Parts
    <2> QED BY <1>11, <1>20, <1>21, <2>1 DEF TreeInv
  <1>24. ClaimInv'
    <2>1. ASSUME NEW g \in Clients, Making(g)'
          PROVE  /\ disk'[NewInum(g)'].type = Req(g)'.type
                 /\ \A d \in Dirs' : InDir(d, NewInum(g))' => Stale(d, NewInum(g))'
                 /\ \A d \in Clients : X(d)' # NewInum(g)'
                 /\ \A d \in Clients \ {g} : Making(d)' => NewInum(d)' # NewInum(g)'
      <3>1. g # c /\ Making(g) /\ NewInum(g)' = NewInum(g) /\ Req(g)' = Req(g)
        BY <1>18, <1>19, <2>1 DEF SameRole
      <3>2. /\ disk[NewInum(g)].type = Req(g).type
            /\ \A d \in Dirs : InDir(d, NewInum(g)) => Stale(d, NewInum(g))
            /\ \A d \in Clients : X(d) # NewInum(g)
            /\ \A d \in Clients \ {g} : Making(d) => NewInum(d) # NewInum(g)
        BY <3>1, Parts DEF ClaimInv
      <3>3. \A d \in Dirs : InDir(d, NewInum(g))' => Stale(d, NewInum(g))'
        BY <1>20, <1>21, <3>1, <3>2
      <3>4. \A d \in Clients : X(d)' = X(d)
        BY <1>18, <1>19 DEF SameRole
      <3>5. \A d \in Clients \ {g} : Making(d)' => NewInum(d)' # NewInum(g)
        BY <1>18, <1>19, <3>2 DEF SameRole
      <3> QED BY <1>11, <1>20, <3>1, <3>2, <3>3, <3>4, <3>5
    <2>2. ASSUME NEW g \in Clients, Made(g)'
          PROVE  /\ \E k \in 1..Len(Contents(X(g))') :
                      Contents(X(g))'[k] = [name |-> Req(g)'.name, inum |-> call'[g].ino]
                 /\ Op(g)' = "symlink" => disk'[call'[g].ino].type = LinkType
      <3>1. g # c /\ Made(g) /\ X(g)' = X(g) /\ Req(g)' = Req(g) /\ call'[g].ino = call[g].ino
              /\ Op(g)' = Op(g)
        BY <1>18, <1>19, <2>2 DEF SameRole
      <3>2. Contents(X(g))' = Contents(X(g))
        BY <1>11, <3>1 DEF Contents
      <3> QED BY <1>11, <3>1, <3>2, Parts DEF ClaimInv
    <2>3. ASSUME NEW g \in Clients, Filling(g)' PROVE \A d \in Clients : X(d)' # call'[g].ino
      <3>1. g # c /\ Filling(g) /\ call'[g].ino = call[g].ino
        BY <1>10, <1>11, <1>18, <1>19, <2>3, SameClient DEF SameRole
      <3>2. \A d \in Clients : X(d) # call[g].ino
        BY <3>1, Parts DEF ClaimInv
      <3> QED BY <1>18, <1>19, <3>1, <3>2 DEF SameRole
    <2>4. ASSUME NEW g \in Clients, Unlinking(g)'
          PROVE  /\ disk'[call'[g].ino].type \notin {NoType, DirType}
                 /\ \A d \in Clients : X(d)' # call'[g].ino
      <3>1. \A d \in Clients : X(d)' = X(d)
        BY <1>18, <1>19 DEF SameRole
      <3>2. CASE g = c
        BY <1>7, <1>8, <1>10, <1>11, <1>17, <3>1, <3>2
      <3>3. CASE g # c
        <4>1. Unlinking(g) /\ call'[g].ino = call[g].ino
          BY <1>18, <2>4, <3>3 DEF SameRole
        <4> QED BY <1>11, <3>1, <4>1, Parts DEF ClaimInv
      <3> QED BY <3>2, <3>3
    <2> QED BY <2>1, <2>2, <2>3, <2>4 DEF ClaimInv
  <1> QED BY <1>11, <1>12, <1>13, <1>15, <1>16, <1>22, <1>23, <1>24, StepParts

-----------------------------------------------------------------------------
(* The server at work                                                      *)

\* The inode of a call to the server is in no other hands.
LEMMA CallApart ==
  ASSUME YfsInv, NEW c \in Clients, NEW e \in Inums, e = rpc[c].eid,
         rpc[c].op \in {"get", "put"} \/ (rpc[c].op = "remove" /\ rpc[c].at # "reply")
  PROVE  /\ \A d \in Clients \ {c} : Holding(d) => X(d) # e
         /\ \A d \in Clients : Filling(d) => call[d].ino # e
         /\ rpc[c].op \in {"get", "put"} => e = X(c)
         /\ rpc[c].op = "remove" => X(c) # e /\ disk[e].type # DirType /\ call[c].ino = e
  <1>1. CASE rpc[c].op \in {"get", "put"}
    <2>1. e = X(c) /\ (At(c, "read") \/ At(c, "put"))
      BY <1>1, Parts, RpcAt
    <2>2. \A d \in Clients : Filling(d) => call[d].ino # e
      BY <2>1, Parts DEF ClaimInv
    <2>3. ASSUME NEW d \in Clients \ {c}, Holding(d) PROVE X(d) # e
      <3>1. CASE Op(c) = "join"
        BY <2>3, <3>1, StartAlone DEF Holding, PutPending, At
      <3>2. CASE Op(c) # "join"
        <4>1. X(d) \in held[d]
          BY <2>3, Parts, HeldIs DEF Holding, PutPending, At
        <4>2. held[c] = {X(c)}
          BY <2>1, <3>2, Parts, HeldIs DEF At
        <4> QED BY <2>1, <4>1, <4>2, Parts DEF LockInv
      <3> QED BY <3>1, <3>2
    <2> QED BY <1>1, <2>1, <2>2, <2>3
  <1>2. CASE rpc[c].op = "remove"
    <2>1. Unlinking(c) /\ call[c].ino = e /\ Claims(c, e)
      BY <1>2, Parts, RpcAt DEF Unlinking, Claims
    <2>2. disk[e].type # DirType /\ \A d \in Clients : X(d) # e
      BY <2>1, Parts DEF ClaimInv
    <2>3. \A d \in Clients : Filling(d) => call[d].ino # e
      <3>1. ASSUME NEW d \in Clients, Filling(d), call[d].ino = e PROVE FALSE
        <4>1. d = c
          BY <2>1, <3>1, ClaimsApart DEF Claims
        <4> QED BY <3>1, <4>1, <2>1, Parts, LeavingHolds DEF Filling
      <3> QED BY <3>1
    <2> QED BY <1>2, <2>1, <2>2, <2>3
  <1> QED BY <1>1, <1>2

\* What a step of the server in a call of c leaves alone.
Serves(c, e) ==
  /\ e = rpc[c].eid /\ call' = call /\ held' = held
  /\ rpc[c].op \in {"get", "put"} \/ (rpc[c].op = "remove" /\ rpc[c].at # "reply")
  /\ \A d \in Clients \ {c} : rpc'[d] = rpc[d]
  /\ rpc'[c].op = rpc[c].op /\ rpc'[c].eid = e
  /\ rpc[c].op = "put" => rpc'[c].data = rpc[c].data
  /\ \A d \in Clients, f \in Inums \ {e} : extent_map'[d][f] = extent_map[d][f]
  /\ \A f \in Inums \ {e} : owner_map'[f] = owner_map[f] /\ Contents(f)' = Contents(f)
  /\ rpc[c].at \notin {"none", "reply"} /\ rpc'[c].at \notin {"none", "request"}

\* Such a step leaves what clients know alone.
LEMMA ServesIs ==
  ASSUME YfsInv, NEW c \in Clients, NEW e \in Inums, Serves(c, e)
  PROVE  Untouched(c) /\ Fine(c)
  <1>1. /\ \A d \in Clients \ {c} : Holding(d) => X(d) # e
        /\ \A d \in Clients : Filling(d) => call[d].ino # e
        /\ rpc[c].op \in {"get", "put"} => e = X(c)
        /\ rpc[c].op = "remove" => X(c) # e
    BY CallApart DEF Serves
  <1>2. Untouched(c)
    <2>1. \A d \in Clients \ {c} : call'[d] = call[d] /\ held'[d] = held[d] /\ rpc'[d] = rpc[d]
      BY DEF Serves
    <2>2. ASSUME NEW d \in Clients \ {c}, Holding(d)
          PROVE  /\ Cached(d, X(d))' /\ extent_map'[d][X(d)].data = extent_map[d][X(d)].data
                 /\ Contents(X(d))' = Contents(X(d))
      <3>1. Cached(d, X(d)) /\ X(d) \in Inums \ {e} /\ X(d)' = X(d)
        BY <1>1, <2>1, <2>2, Parts, CallTyped DEF BufInv, Buffer, X
      <3> QED BY <3>1 DEF Cached, Serves
    <2>3. ASSUME NEW d \in Clients \ {c}, Filling(d)
          PROVE  Cached(d, call[d].ino)' /\ owner_map'[call[d].ino] = owner_map[call[d].ino]
      <3>1. Cached(d, call[d].ino) /\ call[d].ino \in Inums \ {e} /\ call'[d].ino = call[d].ino
        BY <1>1, <2>1, <2>3, Parts, CallTyped DEF OwnInv, Own
      <3> QED BY <3>1 DEF Cached, Serves
    <2> QED BY <2>1, <2>2, <2>3 DEF Untouched
  <1>3. /\ Op(c)' = Op(c) /\ X(c)' = X(c) /\ Req(c)' = Req(c) /\ (\A p : At(c, p)' <=> At(c, p))
        /\ call' = call /\ held' = held
    BY DEF Serves, Op, X, Req, At
  <1>4. (Found(c)' <=> Found(c)) /\ Position(c)' = Position(c) /\ FoundInum(c)' = FoundInum(c)
    BY <1>3 DEF Found, Position, FoundInum, Positions
  <1>5. NewContents(c)' = NewContents(c)
    BY <1>3, <1>4 DEF NewContents
  <1>6. Phase(c)'
    <2>1. AtCall(c)'
      <3>1. AtCall(c)
        BY PhaseOf
      <3> QED BY <1>3, <1>5, <3>1 DEF AtCall, Serves
    <2> QED BY <1>3, <2>1, PhaseOf DEF Phase
  <1>7. Buffer(c)'
    <2>1. SUFFICES ASSUME Holding(c)' PROVE Buffer(c)'
      BY DEF Buffer
    <2>2. ~PutPending(c)'
      BY DEF PutPending, Serves
    <2>3. call[c].at \in {"got", "make", "remove", "removing", "removed"}
      BY <1>3, <2>1, <2>2 DEF Holding
    <2>4. rpc[c].op = "remove" /\ X(c) # e /\ X(c) \in Inums
      BY <1>1, <2>3, Parts, RpcAt, CallTyped DEF Serves, At
    <2>5. Holding(c)
      BY <2>3 DEF Holding
    <2>6. /\ Cached(c, X(c)) /\ extent_map[c][X(c)].data = call[c].buf
          /\ Contents(X(c)) = call[c].buf
      BY <2>5, Parts DEF BufInv, Buffer
    <2> QED BY <1>3, <2>4, <2>6 DEF Buffer, Cached, Serves
  <1>8. Own(c)'
    <2>1. Own(c)
      BY Parts DEF OwnInv
    <2>2. Filling(c) => /\ Cached(c, call[c].ino) /\ owner_map[call[c].ino] = <<c>>
                        /\ call[c].ino \in Inums \ {e}
      BY <1>1, <2>1, Parts, CallTyped DEF Own
    <2>3. Filling(c) => Cached(c, call[c].ino)' /\ owner_map'[call[c].ino] = <<c>>
      BY <1>3, <2>2 DEF Cached, Serves
    <2>4. Filling(c)' <=> Filling(c)
      BY <1>3 DEF Filling
    <2>5. ~PutPending(c)' /\ ~At(c, "make")
      BY Parts, RpcAt DEF PutPending, Serves, At
    <2> QED BY <1>3, <1>4, <2>1, <2>3, <2>4, <2>5 DEF Own
  <1>9. held'[c] = LocksOf(c)'
    <2>1. held[c] = LocksOf(c)
      BY Parts DEF LockInv
    <2> QED BY <1>3, <2>1 DEF LocksOf
  <1>10. \A d \in Clients \ {c} : held'[c] \cap held[d] = {}
    BY <1>3, Parts DEF LockInv
  <1> QED BY <1>2, <1>6, <1>7, <1>8, <1>9, <1>10 DEF Fine

\* Clients start with calls that put only.
LEMMA NotStarting ==
  ASSUME YfsInv, NEW c \in Clients, rpc[c].op \notin {"none", "put"} \/ Op(c) \notin {"join", "none"}
  PROVE  ~Starting /\ Op(c) # "join"
  <1>1. call[c].at \notin {"out", "user"} /\ Op(c) # "join"
    <2>1. CASE rpc[c].op \notin {"none", "put"}
      <3>1. call[c].at \in {"read", "removing", "make"}
        <4>1. rpc[c].op \in {"get", "remove", "create"}
          BY <2>1, Parts, Typed, InumsAssumption
        <4> QED BY <4>1, Parts, RpcAt DEF At
      <3> QED BY <3>1, Parts, OpIs
    <2>2. CASE Op(c) \notin {"join", "none"}
      BY <2>2, Parts, OpIs
    <2> QED BY <2>1, <2>2
  <1> QED BY <1>1, Parts, Started

\* Clients that have started stay so while the server works.
LEMMA NotStartingStep ==
  ASSUME ~Starting, call' = call
  PROVE  StartInv'
  BY DEF StartInv, Starting, At, Op

\* The put of a client that starts is empty.
LEMMA StartingStep ==
  ASSUME YfsInv, NEW c \in Clients, rpc[c].op = "put", call' = call,
         \A d \in Clients \ {c} : rpc'[d] = rpc[d], rpc'[c].data = rpc[c].data,
         \A f \in Inums : disk'[f].type = disk[f].type,
         disk'[Root].data \in {disk[Root].data, rpc[c].data},
         \A d \in Clients : Cached(d, Root)' =>
           Cached(d, Root) /\ extent_map'[d][Root].data = extent_map[d][Root].data
  PROVE  StartInv'
  <1>1. CASE ~Starting
    BY <1>1, NotStartingStep
  <1>2. CASE Starting
    <2>1. /\ \A d \in Clients : call[d].at \in {"out", "user"} \/ Op(d) = "join"
          /\ \A d, g \in Clients : Op(d) = "join" /\ Op(g) = "join" => d = g
          /\ \A d \in Clients : rpc[d].data = <<>>
          /\ disk[Root].data = <<>>
          /\ \A d \in Clients : Cached(d, Root) => extent_map[d][Root].data = <<>>
          /\ \A f \in Inums \ {Root} : disk[f].type = NoType
      BY <1>2, Parts DEF StartInv
    <2>2. \A d \in Clients : rpc'[d].data = <<>>
      BY <2>1
    <2>3. disk'[Root].data = <<>>
      BY <2>1
    <2>4. \A d \in Clients : Op(d)' = Op(d)
      BY DEF Op
    <2> QED BY <2>1, <2>2, <2>3, <2>4 DEF StartInv
  <1> QED BY <1>1, <1>2

\* A step of the server that changes neither a directory nor what c is at.
LEMMA ServesRole ==
  ASSUME YfsInv, NEW c \in Clients, NEW e \in Inums, Serves(c, e),
         rpc[c].op = "put" /\ rpc[c].at = "request" => Op(c) \notin Makers \cup {"unlink"},
         rpc[c].op = "remove" => rpc'[c].at # "reply"
  PROVE  SameRole(c)
  <1>1. /\ Op(c)' = Op(c) /\ X(c)' = X(c) /\ Req(c)' = Req(c) /\ call'[c] = call[c]
        /\ \A at : At(c, at)' <=> At(c, at)
    BY DEF Serves, Op, X, Req, At
  <1>2. rpc[c].op # "create" /\ ~At(c, "make") /\ ~At(c, "make")'
    BY <1>1, Parts, RpcAt DEF Serves, At
  <1>3. ~PutPending(c)'
    BY DEF Serves, PutPending
  <1>4. PutPending(c) => Op(c) \notin Makers \cup {"unlink"}
    <2>1. ASSUME PutPending(c) PROVE rpc[c].op = "put" /\ rpc[c].at = "request"
      BY <2>1, Parts, RpcAt DEF Serves, PutPending, At
    <2> QED BY <2>1
  <1>5. At(c, "removing") => rpc[c].at # "reply" /\ rpc'[c].at # "reply"
    BY Parts, RpcAt DEF Serves, At
  <1>6. ~Making(c) /\ ~Making(c)'
    BY <1>1, <1>2, <1>3, <1>4 DEF Making
  <1>7. Made(c)' <=> Made(c)
    BY <1>1, <1>3, <1>4 DEF Made
  <1>8. Filling(c)' <=> Filling(c)
    BY <1>1 DEF Filling
  <1>9. Unlinking(c)' <=> Unlinking(c)
    BY <1>1, <1>5 DEF Unlinking
  <1>10. Leaving(c)' <=> Leaving(c)
    BY <1>1, <1>3, <1>4, <1>5 DEF Leaving
  <1> QED BY <1>1, <1>6, <1>7, <1>8, <1>9, <1>10 DEF SameRole

\* Types are kept while the server works.
LEMMA ServesTypes ==
  ASSUME YfsInv, NEW c \in Clients, ServerStep(c), call' = call, held' = held
  PROVE  TypeOK'
  <1>1. CacheTypes /\ CallTypes
    BY Parts, TypesTwo
  <1>2. CacheTypes'
    BY <1>1, ServerTypes
  <1>3. call' \in [Clients -> CallRec] /\ held' \in [Clients -> SUBSET Inums]
    BY <1>1 DEF CallTypes, CallRec
  <1> QED BY <1>2, <1>3, Parts, TypesKept

\* The invariant after a step of the server that changes no directory.
LEMMA ServesQuiet ==
  ASSUME YfsInv, NEW c \in Clients, NEW e \in Inums, Serves(c, e), ServerStep(c),
         rpc[c].op = "put" /\ rpc[c].at = "request" => Op(c) \notin Makers \cup {"unlink"},
         rpc[c].op = "remove" => rpc'[c].at # "reply",
         CacheInv', StartInv',
         \A f \in Inums : disk'[f].type = disk[f].type,
         \A f \in Dirs : Contents(f)' = Contents(f)
  PROVE  YfsInv'
  <1>1. TypeOK'
    BY ServesTypes DEF Serves
  <1>2. Untouched(c) /\ Fine(c)
    BY ServesIs
  <1>3. \A d \in Clients : SameRole(d)
    <2>1. ASSUME NEW d \in Clients \ {c} PROVE SameRole(d)
      <3>1. call'[d] = call[d] /\ rpc'[d] = rpc[d]
        BY DEF Serves
      <3> QED BY <3>1, SameRoles
    <2>2. SameRole(c)
      BY ServesRole
    <2> QED BY <2>1, <2>2
  <1>4. TargetInv' /\ TreeInv' /\ ClaimInv'
    BY <1>3, QuietStep
  <1> QED BY <1>1, <1>2, <1>4, StepParts

\* What share_handler changes,
LEMMA ShareIs ==
  ASSUME YfsInv, NEW c \in Clients, NEW e \in Inums, e = rpc[c].eid, ShareHandler(c),
         call' = call, held' = held
  PROVE  /\ Serves(c, e) /\ CacheInv' /\ disk' = disk
         /\ \A f \in Inums : Contents(f)' = Contents(f)
         /\ rpc[c].at = "callback" /\ rpc[c].op = "get"
  <1>2. /\ CacheInv' /\ \A f \in Inums : Contents(f)' = Contents(f)
    BY Parts, ShareStep
  <1>3. rpc[c].at = "callback" /\ rpc[c].op = "get" /\ rpc[c].todo # <<>>
    BY DEF ShareHandler
  <1>4. owner_map' = owner_map /\ disk' = disk
    BY DEF ShareHandler
  <1>5. \A d \in Clients, f \in Inums \ {e} : extent_map'[d][f] = extent_map[d][f]
    <2>1. Callee(c) \in Clients
      BY <1>3, Parts, TypesTwo, AtServer
    <2>2. PICK x : SetEntry(Callee(c), e, x)
      BY DEF ShareHandler
    <2>3. PICK g \in Clients : g = Callee(c)
      BY <2>1
    <2>4. SetEntry(g, e, x)
      BY <2>2, <2>3
    <2> QED BY <2>4, Parts, SetEntryIs
  <1>6. /\ \A d \in Clients \ {c} : rpc'[d] = rpc[d]
        /\ rpc'[c].op = rpc[c].op /\ rpc'[c].eid = rpc[c].eid /\ rpc'[c].at = rpc[c].at
    BY Parts DEF ShareHandler, TypeOK
  <1>7. Serves(c, e)
    BY <1>2, <1>3, <1>4, <1>5, <1>6 DEF Serves
  <1> QED BY <1>2, <1>3, <1>4, <1>7

\* invalidate_handler,
LEMMA InvalidateIs ==
  ASSUME YfsInv, NEW c \in Clients, NEW e \in Inums, e = rpc[c].eid, InvalidateHandler(c),
         call' = call, held' = held
  PROVE  /\ Serves(c, e) /\ CacheInv' /\ disk' = disk
         /\ \A f \in Inums : f # e \/ rpc[c].op = "put" => Contents(f)' = Contents(f)
         /\ extent_map'[c] = extent_map[c]
         /\ \A g \in Clients, f \in Inums : Cached(g, f)' =>
              Cached(g, f) /\ extent_map'[g][f] = extent_map[g][f]
         /\ rpc[c].at = "callback" /\ rpc[c].op \in {"put", "remove"}
         /\ rpc'[c].at = rpc[c].at /\ rpc'[c].data = rpc[c].data
  <1>2. /\ CacheInv'
        /\ \A f \in Inums : f # e \/ rpc[c].op = "put" => Contents(f)' = Contents(f)
        /\ \A f \in Inums \ {e}, g \in Clients : extent_map'[g][f] = extent_map[g][f]
        /\ extent_map'[c] = extent_map[c]
        /\ \A g \in Clients, f \in Inums : Cached(g, f)' =>
              Cached(g, f) /\ extent_map'[g][f] = extent_map[g][f]
    BY Parts, InvalidateStep
  <1>3. rpc[c].at = "callback" /\ rpc[c].op \in {"put", "remove"} /\ rpc[c].todo # <<>>
    BY DEF InvalidateHandler
  <1>4. owner_map' = owner_map /\ disk' = disk
    BY DEF InvalidateHandler
  <1>5. /\ \A d \in Clients \ {c} : rpc'[d] = rpc[d]
        /\ rpc'[c].op = rpc[c].op /\ rpc'[c].eid = rpc[c].eid /\ rpc'[c].at = rpc[c].at
        /\ rpc'[c].data = rpc[c].data
    BY Parts DEF InvalidateHandler, TypeOK
  <1>6. Serves(c, e)
    BY <1>2, <1>3, <1>4, <1>5 DEF Serves
  <1> QED BY <1>2, <1>3, <1>4, <1>5, <1>6

\* a get that is answered,
LEMMA GetIs ==
  ASSUME YfsInv, NEW c \in Clients, NEW e \in Inums, e = rpc[c].eid, ServerGet(c),
         call' = call, held' = held
  PROVE  /\ Serves(c, e) /\ CacheInv'
         /\ \A f \in Inums : Contents(f)' = Contents(f) /\ disk'[f].type = disk[f].type
         /\ rpc[c].at = "callback" /\ rpc[c].op = "get"
  <1>2. CacheInv' /\ \A f \in Inums : Contents(f)' = Contents(f)
    BY Parts, GetStep
  <1>3. rpc[c].at = "callback" /\ rpc[c].op = "get"
    BY DEF ServerGet, CalledBack
  <1>4. \E data : /\ disk' = [disk EXCEPT ![e].data = data]
                  /\ owner_map' = [owner_map EXCEPT ![e] = Append(@, c)]
                  /\ Reply(c, data, disk[e].type)
    BY DEF ServerGet
  <1>5. extent_map' = extent_map
    BY DEF ServerGet
  <1>6. PICK data : /\ disk' = [disk EXCEPT ![e].data = data]
                    /\ owner_map' = [owner_map EXCEPT ![e] = Append(@, c)]
                    /\ Reply(c, data, disk[e].type)
    BY <1>4
  <1>7. /\ \A d \in Clients \ {c} : rpc'[d] = rpc[d]
        /\ rpc'[c].op = rpc[c].op /\ rpc'[c].eid = rpc[c].eid /\ rpc'[c].at = "reply"
    <2>1. PICK t : t = disk[e].type
      OBVIOUS
    <2> QED BY <1>6, <2>1, Parts, ReplyIs
  <1>8. /\ \A f \in Inums : disk'[f].type = disk[f].type
        /\ \A f \in Inums \ {e} : owner_map'[f] = owner_map[f]
    BY <1>6, Parts DEF TypeOK
  <1>9. Serves(c, e)
    BY <1>2, <1>3, <1>5, <1>7, <1>8 DEF Serves
  <1> QED BY <1>2, <1>3, <1>8, <1>9

\* a put,
LEMMA PutIs ==
  ASSUME YfsInv, NEW c \in Clients, NEW e \in Inums, e = rpc[c].eid, ServerPut(c),
         call' = call, held' = held
  PROVE  /\ Serves(c, e) /\ CacheInv' /\ extent_map' = extent_map
         /\ \A f \in Inums : Contents(f)' = Contents(f) /\ disk'[f].type = disk[f].type
         /\ disk'[Root].data \in {disk[Root].data, rpc[c].data}
         /\ rpc[c].at = "callback" /\ rpc[c].op = "put" /\ rpc'[c].data = rpc[c].data
  <1>2. CacheInv' /\ \A f \in Inums : Contents(f)' = Contents(f)
    BY Parts, ServerPutStep
  <1>3. rpc[c].at = "callback" /\ rpc[c].op = "put"
    BY DEF ServerPut, CalledBack
  <1>4. /\ disk' = [disk EXCEPT ![e].data = rpc[c].data]
        /\ owner_map' = [owner_map EXCEPT ![e] = <<c>>]
        /\ Reply(c, rpc[c].data, disk[e].type)
        /\ extent_map' = extent_map
    BY DEF ServerPut
  <1>5. /\ \A d \in Clients \ {c} : rpc'[d] = rpc[d]
        /\ rpc'[c].op = rpc[c].op /\ rpc'[c].eid = rpc[c].eid /\ rpc'[c].at = "reply"
        /\ rpc'[c].data = rpc[c].data
    <2>1. PICK t, data : t = disk[e].type /\ data = rpc[c].data
      OBVIOUS
    <2> QED BY <1>4, <2>1, Parts, ReplyIs
  <1>6. /\ \A f \in Inums : disk'[f].type = disk[f].type
        /\ \A f \in Inums \ {e} : owner_map'[f] = owner_map[f]
        /\ disk'[Root].data \in {disk[Root].data, rpc[c].data}
    BY <1>4, Parts, InumsAssumption DEF TypeOK
  <1>7. Serves(c, e)
    BY <1>2, <1>3, <1>4, <1>5 , <1>6 DEF Serves
  <1> QED BY <1>2, <1>3, <1>4, <1>5, <1>6, <1>7

\* the look at a call that arrives: a put takes effect,
LEMMA LookupIs ==
  ASSUME YfsInv, NEW c \in Clients, NEW e \in Inums, e = rpc[c].eid, ServerLookup(c),
         call' = call, held' = held
  PROVE  /\ Serves(c, e) /\ CacheInv'
         /\ extent_map' = extent_map /\ owner_map' = owner_map /\ disk' = disk
         /\ \A f \in Inums : f # e \/ rpc[c].op # "put" => Contents(f)' = Contents(f)
         /\ rpc[c].op = "put" => Contents(e)' = rpc[c].data
         /\ rpc[c].at = "request" /\ rpc[c].op \in {"get", "put", "remove"}
         /\ rpc'[c].at = "callback" /\ rpc'[c].data = rpc[c].data
         /\ rpc[c].op = "put" => e = X(c) /\ At(c, "put") /\ rpc[c].data = NewContents(c)
  <1>2. /\ CacheInv'
        /\ \A f \in Inums : f # e \/ rpc[c].op # "put" => Contents(f)' = Contents(f)
        /\ rpc[c].op = "put" => Contents(e)' = rpc[c].data
    BY Parts, LookupStep
  <1>3. rpc[c].at = "request" /\ rpc[c].op \in {"get", "put", "remove"}
    BY DEF ServerLookup
  <1>4. extent_map' = extent_map /\ owner_map' = owner_map /\ disk' = disk
    BY DEF ServerLookup
  <1>5. /\ \A d \in Clients \ {c} : rpc'[d] = rpc[d]
        /\ rpc'[c].op = rpc[c].op /\ rpc'[c].eid = rpc[c].eid /\ rpc'[c].at = "callback"
        /\ rpc'[c].data = rpc[c].data
    <2>1. PICK todo, b :
            rpc' = [rpc EXCEPT ![c].at = "callback", ![c].todo = todo, ![c].is_share = b]
      BY DEF ServerLookup
    <2> QED BY <2>1, Parts DEF TypeOK
  <1>6. Serves(c, e)
    BY <1>2, <1>3, <1>4, <1>5 DEF Serves
  <1>7. rpc[c].op = "put" => e = X(c) /\ At(c, "put") /\ rpc[c].data = NewContents(c)
    BY Parts, PhaseOf, RpcAt DEF AtCall
  <1> QED BY <1>2, <1>3, <1>4, <1>5, <1>6, <1>7

\* and the removal of an inode.
LEMMA RemoveIs ==
  ASSUME YfsInv, NEW c \in Clients, NEW e \in Inums, e = rpc[c].eid, ServerRemove(c),
         call' = call, held' = held
  PROVE  /\ Serves(c, e) /\ CacheInv' /\ extent_map' = extent_map
         /\ \A f \in Inums : Contents(f)' = Contents(f)
         /\ \A f \in Inums \ {e} : disk'[f].type = disk[f].type
         /\ disk'[e].type = NoType
         /\ rpc[c].at = "callback" /\ rpc[c].op = "remove" /\ rpc'[c].at = "reply"
  <1>2. CacheInv' /\ \A f \in Inums : Contents(f)' = Contents(f)
    BY Parts, ServerRemoveStep
  <1>3. rpc[c].at = "callback" /\ rpc[c].op = "remove"
    BY DEF ServerRemove, CalledBack
  <1>4. /\ disk' = [disk EXCEPT ![e].type = NoType]
        /\ owner_map' = [owner_map EXCEPT ![e] = <<>>]
        /\ Reply(c, <<>>, NoType)
        /\ extent_map' = extent_map
    BY DEF ServerRemove
  <1>5. /\ \A d \in Clients \ {c} : rpc'[d] = rpc[d]
        /\ rpc'[c].op = rpc[c].op /\ rpc'[c].eid = rpc[c].eid /\ rpc'[c].at = "reply"
    BY <1>4, Parts, ReplyIs
  <1>6. /\ \A f \in Inums \ {e} : disk'[f].type = disk[f].type
        /\ \A f \in Inums \ {e} : owner_map'[f] = owner_map[f]
        /\ disk'[e].type = NoType
    BY <1>4, Parts DEF TypeOK
  <1>7. Serves(c, e)
    BY <1>2, <1>3, <1>4, <1>5, <1>6 DEF Serves
  <1> QED BY <1>2, <1>3, <1>4, <1>5, <1>6, <1>7

\* The owner shares its copy.
LEMMA ShareServes ==
  ASSUME YfsInv, NEW c \in Clients, ShareHandler(c), call' = call, held' = held
  PROVE  YfsInv'
  <1>1. PICK e \in Inums : e = rpc[c].eid
    BY Parts, Typed, InumsAssumption
  <1>2. /\ Serves(c, e) /\ CacheInv' /\ disk' = disk
        /\ \A f \in Inums : Contents(f)' = Contents(f)
        /\ rpc[c].at = "callback" /\ rpc[c].op = "get"
    BY <1>1, ShareIs
  <1>3. StartInv'
    BY <1>2, NotStarting, NotStartingStep
  <1>4. ServerStep(c)
    BY DEF ServerStep
  <1> QED BY <1>2, <1>3, <1>4, ServesQuiet DEF Dirs

\* A client drops its copy.
LEMMA InvalidateServes ==
  ASSUME YfsInv, NEW c \in Clients, InvalidateHandler(c), call' = call, held' = held
  PROVE  YfsInv'
  <1>1. PICK e \in Inums : e = rpc[c].eid
    BY Parts, Typed, InumsAssumption
  <1>2. /\ Serves(c, e) /\ CacheInv' /\ disk' = disk
        /\ \A f \in Inums : f # e \/ rpc[c].op = "put" => Contents(f)' = Contents(f)
        /\ extent_map'[c] = extent_map[c]
        /\ \A g \in Clients, f \in Inums : Cached(g, f)' =>
             Cached(g, f) /\ extent_map'[g][f] = extent_map[g][f]
        /\ rpc[c].at = "callback" /\ rpc[c].op \in {"put", "remove"}
        /\ rpc'[c].at = rpc[c].at /\ rpc'[c].data = rpc[c].data
    BY <1>1, InvalidateIs
  <1>3. \A f \in Dirs : Contents(f)' = Contents(f)
    <2>1. rpc[c].op = "remove" => e \notin Dirs
      BY <1>1, <1>2, CallApart DEF Dirs
    <2> QED BY <1>2, <2>1 DEF Dirs
  <1>4. StartInv'
    <2>1. CASE rpc[c].op = "remove"
      BY <2>1, NotStarting, NotStartingStep
    <2>2. CASE rpc[c].op = "put"
      <3>1. \A d \in Clients : Cached(d, Root)' =>
              Cached(d, Root) /\ extent_map'[d][Root].data = extent_map[d][Root].data
        BY <1>2, InumsAssumption
      <3>2. /\ \A f \in Inums : disk'[f].type = disk[f].type
            /\ disk'[Root].data \in {disk[Root].data, rpc[c].data}
        BY <1>2
      <3> QED BY <1>2, <2>2, <3>1, <3>2, StartingStep DEF Serves
    <2> QED BY <1>2, <2>1, <2>2
  <1>5. ServerStep(c)
    BY DEF ServerStep
  <1>6. \A f \in Inums : disk'[f].type = disk[f].type
    BY <1>2
  <1> QED BY <1>2, <1>3, <1>4, <1>5, <1>6, ServesQuiet

\* The server answers a get.
LEMMA GetServes ==
  ASSUME YfsInv, NEW c \in Clients, ServerGet(c), call' = call, held' = held
  PROVE  YfsInv'
  <1>1. PICK e \in Inums : e = rpc[c].eid
    BY Parts, Typed, InumsAssumption
  <1>2. /\ Serves(c, e) /\ CacheInv'
        /\ \A f \in Inums : Contents(f)' = Contents(f) /\ disk'[f].type = disk[f].type
        /\ rpc[c].at = "callback" /\ rpc[c].op = "get"
    BY <1>1, GetIs
  <1>3. StartInv'
    BY <1>2, NotStarting, NotStartingStep
  <1>4. ServerStep(c)
    BY DEF ServerStep
  <1> QED BY <1>2, <1>3, <1>4, ServesQuiet DEF Dirs

\* The server carries out a put.
LEMMA PutServes ==
  ASSUME YfsInv, NEW c \in Clients, ServerPut(c), call' = call, held' = held
  PROVE  YfsInv'
  <1>1. PICK e \in Inums : e = rpc[c].eid
    BY Parts, Typed, InumsAssumption
  <1>2. /\ Serves(c, e) /\ CacheInv' /\ extent_map' = extent_map
        /\ \A f \in Inums : Contents(f)' = Contents(f) /\ disk'[f].type = disk[f].type
        /\ disk'[Root].data \in {disk[Root].data, rpc[c].data}
        /\ rpc[c].at = "callback" /\ rpc[c].op = "put" /\ rpc'[c].data = rpc[c].data
    BY <1>1, PutIs
  <1>3. StartInv'
    <2>1. \A d \in Clients : Cached(d, Root)' =>
            Cached(d, Root) /\ extent_map'[d][Root].data = extent_map[d][Root].data
      BY <1>2 DEF Cached
    <2>2. \A d \in Clients \ {c} : rpc'[d] = rpc[d]
      BY <1>2 DEF Serves
    <2> QED BY <1>2, <2>1, <2>2, StartingStep
  <1>4. ServerStep(c)
    BY DEF ServerStep
  <1> QED BY <1>2, <1>3, <1>4, ServesQuiet DEF Dirs

\* The server starts on a call: here a put to a directory takes effect.
LEMMA LookupServes ==
  ASSUME YfsInv, NEW c \in Clients, ServerLookup(c), call' = call, held' = held
  PROVE  YfsInv'
  <1>1. PICK e \in Inums : e = rpc[c].eid
    BY Parts, Typed, InumsAssumption
  <1>2. /\ Serves(c, e) /\ CacheInv'
        /\ extent_map' = extent_map /\ owner_map' = owner_map /\ disk' = disk
        /\ \A f \in Inums : f # e \/ rpc[c].op # "put" => Contents(f)' = Contents(f)
        /\ rpc[c].op = "put" => Contents(e)' = rpc[c].data
        /\ rpc[c].at = "request" /\ rpc[c].op \in {"get", "put", "remove"}
        /\ rpc'[c].at = "callback" /\ rpc'[c].data = rpc[c].data
        /\ rpc[c].op = "put" => e = X(c) /\ At(c, "put") /\ rpc[c].data = NewContents(c)
    BY <1>1, LookupIs
  <1>3. ServerStep(c)
    BY DEF ServerStep
  <1>4. StartInv'
    <2>1. CASE rpc[c].op # "put"
      BY <1>2, <2>1, NotStarting, NotStartingStep
    <2>2. CASE rpc[c].op = "put"
      <3>1. \A d \in Clients : Cached(d, Root)' =>
              Cached(d, Root) /\ extent_map'[d][Root].data = extent_map[d][Root].data
        BY <1>2 DEF Cached
      <3>2. /\ \A f \in Inums : disk'[f].type = disk[f].type
            /\ disk'[Root].data \in {disk[Root].data, rpc[c].data}
        BY <1>2
      <3> QED BY <1>2, <2>2, <3>1, <3>2, StartingStep DEF Serves
    <2> QED BY <2>1, <2>2
  <1>5. \A f \in Inums : disk'[f].type = disk[f].type
    BY <1>2
  <1>6. CASE rpc[c].op = "put" /\ Op(c) \in Makers \cup {"unlink"}
    <2>1. PutPending(c) /\ ~PutPending(c)'
      BY <1>2, <1>6 DEF PutPending, Serves, At
    <2>2. /\ Op(c)' = Op(c) /\ X(c)' = X(c) /\ Req(c)' = Req(c) /\ call'[c] = call[c]
          /\ \A at : At(c, at)' <=> At(c, at)
      BY DEF Op, X, Req, At
    <2>3. ~Making(c)' /\ ~Unlinking(c)' /\ ~Leaving(c)' /\ (Filling(c)' => Filling(c))
      BY <1>2, <1>6, <2>1, <2>2 DEF Making, Unlinking, Leaving, Filling, At
    <2>4. Made(c)' <=> Op(c) \in Makers
      BY <1>2, <1>6, <2>1, <2>2 DEF Made, At
    <2>5. Contents(X(c))' = NewContents(c)
      BY <1>2, <1>6, <2>2
    <2>6. DirPut(c)
      BY <1>2, <1>5, <1>6, <2>2, <2>3, <2>4, <2>5 DEF DirPut, Dirs, Serves
    <2>7. TargetInv' /\ TreeInv' /\ ClaimInv'
      BY <1>6, <2>1, <2>6, DirPutMake, DirPutUnlink
    <2> QED BY <1>2, <1>3, <1>4, <2>7, ServesIs, ServesTypes, StepParts
  <1>7. CASE ~(rpc[c].op = "put" /\ Op(c) \in Makers \cup {"unlink"})
    <2>1. \A f \in Dirs : Contents(f)' = Contents(f)
      <3>1. CASE rpc[c].op # "put"
        BY <1>2, <3>1 DEF Dirs
      <3>2. CASE rpc[c].op = "put" /\ Op(c) = "join"
        <4>1. X(c) = Root /\ Starting
          BY <3>2, StartAlone
        <4>2. Contents(Root) = <<>> /\ rpc[c].data = <<>>
          BY <4>1, StartEmpty, Parts DEF StartInv
        <4> QED BY <1>2, <3>2, <4>1, <4>2 DEF Dirs
      <3>3. CASE rpc[c].op = "put" /\ Op(c) \notin Makers \cup {"unlink", "join"}
        <4>1. Op(c) \in {"write", "setattr"}
          BY <1>2, <3>3, Parts, OpIs DEF At, FileOps, Makers
        <4>2. e \notin Dirs
          BY <1>2, <3>3, <4>1, Parts, TypesAssumption DEF TargetInv, Dirs
        <4> QED BY <1>2, <4>2 DEF Dirs
      <3> QED BY <1>7, <3>1, <3>2, <3>3
    <2> QED BY <1>2, <1>3, <1>4, <1>5, <1>7, <2>1, ServesQuiet
  <1> QED BY <1>6, <1>7

-----------------------------------------------------------------------------
(* The server removes and makes inodes                                     *)

\* The server removes a file: its name becomes stale.
LEMMA RemoveServes ==
  ASSUME YfsInv, NEW c \in Clients, ServerRemove(c), call' = call, held' = held
  PROVE  YfsInv'
  <1>1. PICK e \in Inums : e = rpc[c].eid
    BY Parts, Typed, InumsAssumption
  <1>2. /\ Serves(c, e) /\ CacheInv' /\ extent_map' = extent_map
        /\ \A f \in Inums : Contents(f)' = Contents(f)
        /\ \A f \in Inums \ {e} : disk'[f].type = disk[f].type
        /\ disk'[e].type = NoType
        /\ rpc[c].at = "callback" /\ rpc[c].op = "remove" /\ rpc'[c].at = "reply"
    BY <1>1, RemoveIs
  <1>3. /\ \A d \in Clients \ {c} : rpc'[d] = rpc[d]
        /\ rpc'[c].op = rpc[c].op /\ rpc'[c].eid = rpc[c].eid
        /\ \A f \in Inums \ {e} : owner_map'[f] = owner_map[f]
    BY <1>2 DEF Serves
  <1>4. StartInv'
    BY <1>2, <1>3, NotStarting, NotStartingStep
  <1>5. TypeOK'
    BY ServesTypes DEF ServerStep
  <1>6. /\ Unlinking(c) /\ call[c].ino = e /\ At(c, "removing") /\ Claims(c, e)
    BY <1>1, <1>2, <1>3, Parts, RpcAt DEF Unlinking, Claims
  <1>7. /\ X(c) \in Dirs /\ X(c) \in held[c] /\ Op(c) = "unlink" /\ InDir(X(c), e)
    BY <1>6, UnlinkEntry
  <1>8. e \notin Dirs /\ e # Root /\ \A d \in Clients : X(d) # e
    BY <1>6, Parts DEF ClaimInv, Dirs, TargetInv
  <1>9. \A d \in Clients : /\ Op(d)' = Op(d) /\ X(d)' = X(d) /\ Req(d)' = Req(d)
                            /\ call'[d] = call[d] /\ \A at : At(d, at)' <=> At(d, at)
    BY DEF Op, X, Req, At
  <1>10. \A d \in Clients \ {c} :
           /\ Making(d)' <=> Making(d)
           /\ NewInum(d)' = NewInum(d)
           /\ Made(d)' <=> Made(d)
           /\ Filling(d)' <=> Filling(d)
           /\ Unlinking(d)' <=> Unlinking(d)
           /\ Leaving(d)' <=> Leaving(d)
    BY <1>2, <1>3, <1>9, SameClient
  <1>11. /\ ~Making(c) /\ ~Making(c)' /\ ~Made(c)' /\ ~Filling(c)' /\ ~Unlinking(c)'
         /\ ~Leaving(c)
    BY <1>2, <1>3, <1>6, <1>7, <1>9
    DEF Making, Made, Filling, Unlinking, Leaving, Makers, At, PutPending
  <1>12. Leaving(c)' /\ X(c)' = X(c) /\ call'[c].ino = e
    BY <1>2, <1>3, <1>6, <1>7, <1>9 DEF Leaving
  <1>13. \A d, i : Stale(d, i) => Stale(d, i)'
    <2>1. ASSUME NEW d, NEW i, Stale(d, i) PROVE Stale(d, i)'
      <3>1. PICK g \in Clients : Leaving(g) /\ X(g) = d /\ call[g].ino = i
        BY <2>1 DEF Stale
      <3> QED BY <3>1, <1>9, <1>10, <1>11 DEF Stale
    <2> QED BY <2>1
  <1>14. \A d : d = X(c) => Stale(d, e)'
    BY <1>12 DEF Stale
  <1>15. Dirs' = Dirs
    <2>1. disk'[e].type # DirType
      BY <1>2, TypesAssumption
    <2> QED BY <1>2, <1>8, <2>1 DEF Dirs
  <1>16. \A f \in Dirs : \A i : InDir(f, i)' <=> InDir(f, i)
    BY <1>2 DEF InDir, Dirs
  <1>17. \A d \in Dirs : InDir(d, e) => Stale(d, e)'
    <2>1. ASSUME NEW d \in Dirs, InDir(d, e) PROVE Stale(d, e)'
      <3>1. d = X(c) \/ Stale(d, e) \/ Stale(X(c), e)
        BY <2>1, <1>7, Parts DEF TreeInv
      <3>2. ~Stale(X(c), e)
        BY <1>7, <1>11, Parts, StaleMine
      <3> QED BY <3>1, <3>2, <1>13, <1>14
    <2> QED BY <2>1
  <1>18. \A d \in Clients \ {c}, i \in Inums : Claims(d, i) => i # e
    BY <1>6, ClaimsApart
  <1>19. TargetInv'
    <2>1. \A d \in Clients : X(d) \in Inums \ {e}
      BY <1>8, Parts, CallTyped
    <2>2. \A d \in Clients : disk'[X(d)].type = disk[X(d)].type
      BY <2>1, <1>2
    <2>3. disk'[Root].type = disk[Root].type
      BY <1>2, <1>8, InumsAssumption
    <2> QED BY <2>2, <2>3, <1>9, Parts DEF TargetInv
  <1>20. TreeInv'
    <2>1. ASSUME NEW d \in Dirs
          PROVE  /\ Contents(d)' \in Seq(Entries)
                 /\ ~InDir(d, Root)'
                 /\ \A j, k \in 1..Len(Contents(d)') : j # k =>
                      /\ Contents(d)'[j].name # Contents(d)'[k].name
                      /\ Contents(d)'[j].inum # Contents(d)'[k].inum
      <3>1. Contents(d)' = Contents(d) /\ (InDir(d, Root)' <=> InDir(d, Root))
        BY <1>2, <1>16 DEF Dirs
      <3> QED BY <3>1, Parts DEF TreeInv
    <2>2. ASSUME NEW d \in Dirs, NEW k \in 1..Len(Contents(d)), NEW i,
                 i = Contents(d)[k].inum, ~Stale(d, i)'
          PROVE  /\ disk'[Contents(d)[k].inum].type # NoType
                 /\ disk'[Contents(d)[k].inum].type = DirType =>
                      d = Root /\ Contents(d)[k].name \in DirNames
      <3>1. Contents(d)[k].inum # e
        BY <2>2, <1>17 DEF InDir
      <3>2. Contents(d)[k] \in Entries
        BY Parts DEF TreeInv
      <3>3. Contents(d)[k].inum \in Inums \ {e}
        BY <3>1, <3>2 DEF Entries
      <3>4. disk'[Contents(d)[k].inum].type = disk[Contents(d)[k].inum].type
        BY <3>3, <1>2
      <3>5. ~Stale(d, i)
        BY <2>2, <1>13
      <3> QED BY <2>2, <3>4, <3>5, Parts DEF TreeInv
    <2>3. ASSUME NEW d \in Dirs, NEW f \in Dirs, NEW i \in Inums, InDir(d, i)', InDir(f, i)'
          PROVE  d = f \/ Stale(d, i)' \/ Stale(f, i)'
      BY <2>3, <1>13, <1>16, Parts DEF TreeInv
    <2>4. \A d \in Dirs : Contents(d)' = Contents(d)
      BY <1>2 DEF Dirs
    <2>5. DirNames' = DirNames
      BY DEF DirNames
    <2> QED BY <2>1, <2>2, <2>3, <2>4, <2>5, <1>15 DEF TreeInv
  <1>21. ClaimInv'
    <2>1. ASSUME NEW g \in Clients, Making(g)'
          PROVE  /\ disk'[NewInum(g)'].type = Req(g)'.type
                 /\ \A d \in Dirs' : InDir(d, NewInum(g))' => Stale(d, NewInum(g))'
                 /\ \A d \in Clients : X(d)' # NewInum(g)'
                 /\ \A d \in Clients \ {g} : Making(d)' => NewInum(d)' # NewInum(g)'
      <3>1. g # c /\ Making(g) /\ NewInum(g)' = NewInum(g)
        BY <2>1, <1>10, <1>11
      <3>2. NewInum(g) \in Inums \ {e}
        <4>1. NewInum(g) \in Inums
          BY Parts, CallTyped, Typed, InumsAssumption DEF NewInum
        <4>2. Claims(g, NewInum(g))
          BY <3>1 DEF Claims
        <4> QED BY <4>1, <4>2, <3>1, <1>18
      <3>3. /\ disk[NewInum(g)].type = Req(g).type
            /\ \A d \in Dirs : InDir(d, NewInum(g)) => Stale(d, NewInum(g))
            /\ \A d \in Clients : X(d) # NewInum(g)
            /\ \A d \in Clients \ {g} : Making(d) => NewInum(d) # NewInum(g)
        BY <3>1, Parts DEF ClaimInv
      <3>4. disk'[NewInum(g)].type = Req(g)'.type
        BY <3>2, <3>3, <1>2, <1>9
      <3>5. \A d \in Dirs : InDir(d, NewInum(g))' => Stale(d, NewInum(g))'
        <4>1. PICK i \in Inums : i = NewInum(g)
          BY <3>2
        <4>2. \A d \in Dirs : InDir(d, i)' => Stale(d, i)'
          BY <4>1, <3>3, <1>13, <1>16
        <4> QED BY <4>1, <4>2, <3>1 DEF InDir, Stale
      <3>6. \A d \in Clients \ {g} : Making(d)' => NewInum(d)' # NewInum(g)
        BY <3>3, <1>10, <1>11
      <3> QED BY <3>1, <3>3, <3>4, <3>5, <3>6, <1>9, <1>15
    <2>2. ASSUME NEW g \in Clients, Made(g)'
          PROVE  /\ \E k \in 1..Len(Contents(X(g))') :
                      Contents(X(g))'[k] = [name |-> Req(g)'.name, inum |-> call'[g].ino]
                 /\ Op(g)' = "symlink" => disk'[call'[g].ino].type = LinkType
      <3>1. g # c /\ Made(g) /\ Claims(g, call[g].ino)
        BY <2>2, <1>10, <1>11 DEF Claims
      <3>2. call[g].ino \in Inums \ {e} /\ X(g) \in Inums
        BY <3>1, <1>18, Parts, CallTyped
      <3>3. Contents(X(g))' = Contents(X(g))
        BY <3>2, <1>2, <1>9
      <3> QED BY <3>1, <3>2, <3>3, <1>2, <1>9, Parts DEF ClaimInv
    <2>3. ASSUME NEW g \in Clients, Filling(g)'
          PROVE  \A d \in Clients : X(d)' # call'[g].ino
      <3>1. Filling(g) /\ call'[g].ino = call[g].ino
        BY <2>3, <1>10, <1>11
      <3>2. \A d \in Clients : X(d) # call[g].ino
        BY <3>1, Parts DEF ClaimInv
      <3> QED BY <3>1, <3>2, <1>9
    <2>4. ASSUME NEW g \in Clients, Unlinking(g)'
          PROVE  /\ disk'[call'[g].ino].type \notin {NoType, DirType}
                 /\ \A d \in Clients : X(d)' # call'[g].ino
      <3>1. g # c /\ Unlinking(g) /\ Claims(g, call[g].ino)
        BY <2>4, <1>10, <1>11 DEF Claims
      <3>2. call[g].ino \in Inums \ {e}
        BY <3>1, <1>18, Parts, CallTyped
      <3>3. /\ disk[call[g].ino].type \notin {NoType, DirType}
            /\ \A d \in Clients : X(d) # call[g].ino
        BY <3>1, Parts DEF ClaimInv
      <3>4. disk'[call'[g].ino].type = disk[call[g].ino].type /\ call'[g].ino = call[g].ino
        BY <3>2, <1>2
      <3> QED BY <3>3, <3>4, <1>9
    <2> QED BY <2>1, <2>2, <2>3, <2>4 DEF ClaimInv
  <1> QED BY <1>2, <1>4, <1>5, <1>19, <1>20, <1>21, ServesIs, StepParts

\* What a call claims is in use.
LEMMA ClaimsInUse ==
  ASSUME YfsInv, NEW c \in Clients, NEW i \in Inums, Claims(c, i)
  PROVE  disk[i].type # NoType
  <1>1. ASSUME NEW d \in Clients, Op(d) \in Makers PROVE Req(d).type # NoType
    BY <1>1, Parts, ReqTyped, TypesAssumption DEF Makers, FileOps
  <1>2. CASE Making(c) /\ NewInum(c) = i
    BY <1>1, <1>2, Parts DEF ClaimInv, Making
  <1>3. CASE Made(c) /\ call[c].ino = i
    <2>1. X(c) \in Dirs /\ X(c) \in held[c] /\ InDir(X(c), i) /\ ~Leaving(c)
      BY <1>3, MadeEntry
    <2> QED BY <2>1, HeldEntry
  <1>4. CASE Unlinking(c) /\ call[c].ino = i
    BY <1>4, Parts DEF ClaimInv
  <1> QED BY <1>2, <1>3, <1>4, FillingIs DEF Claims

\* The server makes an inode: nobody names it but stale entries.
LEMMA CreateServes ==
  ASSUME YfsInv, NEW c \in Clients, ServerCreate(c), call' = call, held' = held
  PROVE  YfsInv'
  <1>1. /\ rpc[c].op = "create" /\ rpc[c].at = "request" /\ At(c, "make") /\ Op(c) \in Makers
        /\ rpc[c].type = Req(c).type /\ rpc[c].type # NoType
    <2>1. rpc[c].op = "create" /\ rpc[c].at = "request"
      BY DEF ServerCreate
    <2>2. At(c, "make") /\ Op(c) \in Makers /\ rpc[c].type = Req(c).type
      BY <2>1, Parts, RpcAt
    <2>3. Req(c).type # NoType
      BY <2>2, Parts, ReqTyped, TypesAssumption DEF Makers, FileOps
    <2> QED BY <2>1, <2>2, <2>3
  <1>2. PICK e \in Inums :
          /\ disk[e].type = NoType
          /\ disk'[e] = [type |-> rpc[c].type, data |-> <<>>]
          /\ \A f \in Inums \ {e} : disk'[f] = disk[f]
          /\ owner_map' = [owner_map EXCEPT ![e] = <<c>>]
          /\ rpc' = [rpc EXCEPT ![c].at = "reply", ![c].eid = e]
          /\ extent_map' = extent_map
          /\ CacheInv'
          /\ Contents(e)' = <<>>
          /\ \A f \in Inums \ {e} : Contents(f)' = Contents(f)
    BY <1>1, Parts, CreateStep
  <1>3. /\ \A d \in Clients \ {c} : rpc'[d] = rpc[d]
        /\ rpc'[c].op = "create" /\ rpc'[c].eid = e /\ rpc'[c].at = "reply"
        /\ rpc'[c].type = rpc[c].type
    BY <1>1, <1>2, Parts DEF TypeOK
  <1>4. /\ \A f \in Inums \ {e} : disk'[f].type = disk[f].type
        /\ \A f \in Inums \ {e} : owner_map'[f] = owner_map[f]
        /\ disk'[e].type = Req(c).type
    BY <1>1, <1>2, Parts DEF TypeOK
  <1>5. TypeOK'
    BY ServesTypes DEF ServerStep
  <1>6. \A d \in Clients : /\ Op(d)' = Op(d) /\ X(d)' = X(d) /\ Req(d)' = Req(d)
                           /\ call'[d] = call[d] /\ \A at : At(d, at)' <=> At(d, at)
    BY DEF Op, X, Req, At
  <1>7. /\ \A d \in Clients : X(d) # e /\ X(d) \in Inums \ {e}
        /\ e # Root
    <2>1. e # Root
      BY <1>2, Parts, TypesAssumption DEF TargetInv
    <2>2. ASSUME NEW d \in Clients PROVE X(d) # e
      <3>1. CASE Op(d) = "none"
        BY <3>1, <2>1, PhaseOf
      <3>2. CASE Op(d) # "none"
        BY <3>2, <1>2, Parts DEF TargetInv
      <3> QED BY <3>1, <3>2
    <2> QED BY <2>1, <2>2, Parts, CallTyped
  <1>8. \A d \in Clients, i \in Inums : Claims(d, i) => i # e
    BY <1>2, ClaimsInUse
  <1>9. \A d \in Dirs : InDir(d, e) => Stale(d, e)
    <2>1. ASSUME NEW d \in Dirs, InDir(d, e) PROVE Stale(d, e)
      <3>1. PICK k \in 1..Len(Contents(d)) : Contents(d)[k].inum = e
        BY <2>1 DEF InDir
      <3> QED BY <3>1, <1>2, Parts DEF TreeInv
    <2> QED BY <2>1
  <1>10. /\ Making(c)' /\ NewInum(c)' = e /\ ~Making(c)
         /\ ~Made(c)' /\ ~Filling(c)' /\ ~Unlinking(c)' /\ ~Leaving(c)' /\ ~Leaving(c)
         /\ ~Filling(c)
    BY <1>1, <1>3, <1>6
    DEF Making, Made, Filling, Unlinking, Leaving, Makers, At, PutPending, NewInum
  <1>11. \A d \in Clients \ {c} :
           /\ Making(d)' <=> Making(d)
           /\ NewInum(d)' = NewInum(d)
           /\ Made(d)' <=> Made(d)
           /\ Filling(d)' <=> Filling(d)
           /\ Unlinking(d)' <=> Unlinking(d)
           /\ Leaving(d)' <=> Leaving(d)
    BY <1>3, <1>6, SameClient
  <1>12. \A d, i : Stale(d, i) => Stale(d, i)'
    <2>1. ASSUME NEW d, NEW i, Stale(d, i) PROVE Stale(d, i)'
      <3>1. PICK g \in Clients : Leaving(g) /\ X(g) = d /\ call[g].ino = i
        BY <2>1 DEF Stale
      <3> QED BY <3>1, <1>6, <1>10, <1>11 DEF Stale
    <2> QED BY <2>1
  <1>13. Dirs' \subseteq Dirs \cup {e} /\ e \notin Dirs
    BY <1>2, <1>4, TypesAssumption DEF Dirs
  <1>14. /\ \A i : ~InDir(e, i)'
         /\ \A f \in Dirs : \A i : InDir(f, i)' <=> InDir(f, i)
         /\ \A f \in Dirs : Contents(f)' = Contents(f)
    BY <1>2, <1>13 DEF InDir, Dirs
  <1>15. StartInv'
    BY <1>1, NotStarting, NotStartingStep
  <1>16. TargetInv'
    <2>1. \A d \in Clients : disk'[X(d)].type = disk[X(d)].type
      BY <1>4, <1>7
    <2>2. disk'[Root].type = disk[Root].type
      BY <1>4, <1>7, InumsAssumption
    <2> QED BY <2>1, <2>2, <1>6, Parts DEF TargetInv
  <1>17. TreeInv'
    <2>1. ASSUME NEW d \in Dirs'
          PROVE  /\ Contents(d)' \in Seq(Entries)
                 /\ ~InDir(d, Root)'
                 /\ \A j, k \in 1..Len(Contents(d)') : j # k =>
                      /\ Contents(d)'[j].name # Contents(d)'[k].name
                      /\ Contents(d)'[j].inum # Contents(d)'[k].inum
      <3>1. CASE d = e
        BY <3>1, <1>2, <1>14
      <3>2. CASE d \in Dirs
        <4>1. Contents(d)' = Contents(d) /\ (InDir(d, Root)' <=> InDir(d, Root))
          BY <3>2, <1>14
        <4> QED BY <3>2, <4>1, Parts DEF TreeInv
      <3> QED BY <3>1, <3>2, <1>13
    <2>2. ASSUME NEW d \in Dirs', NEW k \in 1..Len(Contents(d)'), NEW i,
                 i = Contents(d)'[k].inum, ~Stale(d, i)'
          PROVE  /\ disk'[i].type # NoType
                 /\ disk'[i].type = DirType => d = Root /\ Contents(d)'[k].name \in DirNames
      <3>1. d \in Dirs /\ Contents(d)' = Contents(d)
        <4>1. d # e
          BY <2>2, <1>2
        <4> QED BY <4>1, <1>13, <1>14
      <3>2. InDir(d, i) /\ ~Stale(d, i)
        BY <2>2, <3>1, <1>12 DEF InDir
      <3>3. Contents(d)[k] \in Entries
        BY <2>2, <3>1, Parts DEF TreeInv
      <3>4. i \in Inums \ {e}
        BY <2>2, <3>1, <3>2, <3>3, <1>9 DEF Entries
      <3>5. disk'[i].type = disk[i].type
        BY <3>4, <1>4
      <3> QED BY <2>2, <3>1, <3>2, <3>5, Parts DEF TreeInv
    <2>3. ASSUME NEW d \in Dirs', NEW f \in Dirs', NEW i \in Inums, InDir(d, i)', InDir(f, i)'
          PROVE  d = f \/ Stale(d, i)' \/ Stale(f, i)'
      <3>1. d \in Dirs /\ f \in Dirs
        BY <2>3, <1>13, <1>14
      <3> QED BY <2>3, <3>1, <1>12, <1>14, Parts DEF TreeInv
    <2>4. DirNames' = DirNames
      BY DEF DirNames
    <2> QED BY <2>1, <2>2, <2>3, <2>4 DEF TreeInv
  <1>18. ClaimInv'
    <2>1. ASSUME NEW g \in Clients, Making(g)'
          PROVE  /\ disk'[NewInum(g)'].type = Req(g)'.type
                 /\ \A d \in Dirs' : InDir(d, NewInum(g))' => Stale(d, NewInum(g))'
                 /\ \A d \in Clients : X(d)' # NewInum(g)'
                 /\ \A d \in Clients \ {g} : Making(d)' => NewInum(d)' # NewInum(g)'
      <3>1. ASSUME NEW h \in Clients, h # c, Making(h)'
            PROVE  /\ Making(h) /\ NewInum(h)' = NewInum(h) /\ NewInum(h) \in Inums \ {e}
        <4>1. Making(h) /\ NewInum(h)' = NewInum(h)
          BY <3>1, <1>11
        <4>2. NewInum(h) \in Inums
          BY Parts, CallTyped, Typed, InumsAssumption DEF NewInum
        <4>3. Claims(h, NewInum(h))
          BY <4>1 DEF Claims
        <4> QED BY <4>1, <4>2, <4>3, <1>8
      <3>2. CASE g = c
        <4>1. NewInum(g)' = e
          BY <3>2, <1>10
        <4>2. \A d \in Dirs' : InDir(d, e)' => Stale(d, e)'
          BY <1>9, <1>12, <1>13, <1>14
        <4>3. \A d \in Dirs' : InDir(d, NewInum(g))' => Stale(d, NewInum(g))'
          BY <4>1, <4>2 DEF InDir, Stale
        <4> QED BY <3>1, <3>2, <4>1, <4>3, <1>4, <1>6, <1>7
      <3>3. CASE g # c
        <4>1. Making(g) /\ NewInum(g)' = NewInum(g) /\ NewInum(g) \in Inums \ {e}
          BY <2>1, <3>1, <3>3
        <4>2. /\ disk[NewInum(g)].type = Req(g).type
              /\ \A d \in Dirs : InDir(d, NewInum(g)) => Stale(d, NewInum(g))
              /\ \A d \in Clients : X(d) # NewInum(g)
              /\ \A d \in Clients \ {g} : Making(d) => NewInum(d) # NewInum(g)
          BY <4>1, Parts DEF ClaimInv
        <4>3. disk'[NewInum(g)].type = Req(g)'.type
          BY <4>1, <4>2, <1>4, <1>6
        <4>4. \A d \in Dirs' : InDir(d, NewInum(g))' => Stale(d, NewInum(g))'
          <5>1. PICK i \in Inums : i = NewInum(g)
            BY <4>1
          <5>2. \A d \in Dirs' : InDir(d, i)' => Stale(d, i)'
            BY <5>1, <4>2, <1>12, <1>13, <1>14
          <5> QED BY <5>1, <5>2, <4>1 DEF InDir, Stale
        <4>5. \A d \in Clients \ {g} : Making(d)' => NewInum(d)' # NewInum(g)
          BY <4>1, <4>2, <1>10, <1>11
        <4> QED BY <4>1, <4>2, <4>3, <4>4, <4>5, <1>6
      <3> QED BY <3>2, <3>3
    <2>2. ASSUME NEW g \in Clients, Made(g)'
          PROVE  /\ \E k \in 1..Len(Contents(X(g))') :
                      Contents(X(g))'[k] = [name |-> Req(g)'.name, inum |-> call'[g].ino]
                 /\ Op(g)' = "symlink" => disk'[call'[g].ino].type = LinkType
      <3>1. g # c /\ Made(g) /\ Claims(g, call[g].ino)
        BY <2>2, <1>10, <1>11 DEF Claims
      <3>2. call[g].ino \in Inums \ {e} /\ X(g) \in Inums \ {e}
        BY <3>1, <1>7, <1>8, Parts, CallTyped
      <3>3. Contents(X(g))' = Contents(X(g))
        BY <3>2, <1>2, <1>6
      <3> QED BY <3>1, <3>2, <3>3, <1>4, <1>6, Parts DEF ClaimInv
    <2>3. ASSUME NEW g \in Clients, Filling(g)'
          PROVE  \A d \in Clients : X(d)' # call'[g].ino
      <3>1. Filling(g) /\ call'[g].ino = call[g].ino
        BY <2>3, <1>10, <1>11
      <3>2. \A d \in Clients : X(d) # call[g].ino
        BY <3>1, Parts DEF ClaimInv
      <3> QED BY <3>1, <3>2, <1>6
    <2>4. ASSUME NEW g \in Clients, Unlinking(g)'
          PROVE  /\ disk'[call'[g].ino].type \notin {NoType, DirType}
                 /\ \A d \in Clients : X(d)' # call'[g].ino
      <3>1. g # c /\ Unlinking(g) /\ Claims(g, call[g].ino)
        BY <2>4, <1>10, <1>11 DEF Claims
      <3>2. call[g].ino \in Inums \ {e}
        BY <3>1, <1>8, Parts, CallTyped
      <3>3. /\ disk[call[g].ino].type \notin {NoType, DirType}
            /\ \A d \in Clients : X(d) # call[g].ino
        BY <3>1, Parts DEF ClaimInv
      <3>4. disk'[call'[g].ino].type = disk[call[g].ino].type /\ call'[g].ino = call[g].ino
        BY <3>2, <1>4
      <3> QED BY <3>3, <3>4, <1>6
    <2> QED BY <2>1, <2>2, <2>3, <2>4 DEF ClaimInv
  <1>19. Untouched(c)
    <2>1. \A d \in Clients \ {c} : Holding(d) => Contents(X(d))' = Contents(X(d))
      BY <1>2, <1>6, <1>7
    <2>2. ASSUME NEW d \in Clients \ {c}, Filling(d)
          PROVE  owner_map'[call[d].ino] = owner_map[call[d].ino]
      <3>1. Claims(d, call[d].ino) /\ call[d].ino \in Inums
        BY <2>2, Parts, CallTyped DEF Claims
      <3> QED BY <3>1, <1>4, <1>8
    <2> QED BY <2>1, <2>2, <1>2, <1>3, UntouchedIf
  <1>20. Fine(c)
    <2>1. (Found(c)' <=> Found(c))
      BY DEF Found, Positions, Req
    <2>2. Phase(c)'
      <3>1. AtCall(c)'
        BY <1>1, <1>3, <1>6 DEF AtCall
      <3> QED BY <1>6, <3>1, PhaseOf DEF Phase
    <2>3. Buffer(c)'
      <3>1. Holding(c)
        BY <1>1 DEF Holding, At
      <3>2. /\ Cached(c, X(c)) /\ extent_map[c][X(c)].data = call[c].buf
            /\ Contents(X(c)) = call[c].buf
        BY <3>1, Parts DEF BufInv, Buffer
      <3>3. Contents(X(c))' = Contents(X(c))
        BY <1>2, <1>6, <1>7
      <3> QED BY <3>2, <3>3, <1>2, <1>6 DEF Buffer, Cached
    <2>4. Own(c)'
      <3>1. ~Found(c)
        BY <1>1, Parts DEF OwnInv, Own
      <3> QED BY <3>1, <2>1, <1>1, <1>6, <1>10 DEF Own, Makers
    <2>5. held'[c] = LocksOf(c)'
      BY <1>6, Parts DEF LocksOf, LockInv
    <2>6. \A d \in Clients \ {c} : held'[c] \cap held[d] = {}
      BY Parts DEF LockInv
    <2> QED BY <2>2, <2>3, <2>4, <2>5, <2>6 DEF Fine
  <1> QED BY <1>2, <1>5, <1>15, <1>16, <1>17, <1>18, <1>19, <1>20, StepParts

\* Steps of the server.
LEMMA ServerIs ==
  ASSUME YfsInv, NEW c \in Clients, Server(c)
  PROVE  YfsInv'
  BY LookupServes, ShareServes, InvalidateServes, GetServes, PutServes, RemoveServes, CreateServes
  DEF Server, ServerStep

-----------------------------------------------------------------------------
(* Calls return                                                            *)

\* What the return of a call changes.
LEMMA ReturnFacts ==
  ASSUME YfsInv, NEW c \in Clients, NEW e \in Inums, e = rpc[c].eid, Return(c),
         call' \in [Clients -> CallRec], \A d \in Clients \ {c} : call'[d] = call[d], held' = held
  PROVE  /\ rpc[c].at = "reply" /\ rpc[c].op \in {"get", "put", "remove", "create"}
         /\ TypeOK' /\ CacheInv' /\ Untouched(c)
         /\ \A f \in Inums : Contents(f)' = Contents(f)
         /\ owner_map' = owner_map /\ disk' = disk
         /\ rpc'[c] = NoCall /\ rpc'[c].op = "none" /\ rpc'[c].at = "none"
         /\ \A d \in Clients \ {c} : rpc'[d] = rpc[d]
         /\ extent_map'[c][e] = ReturnedEntry(c)
         /\ \A f \in Inums \ {e} : extent_map'[c][f] = extent_map[c][f]
         /\ \A d \in Clients \ {c} : extent_map'[d] = extent_map[d]
  <1>1. /\ CacheInv' /\ \A f \in Inums : Contents(f)' = Contents(f)
        /\ owner_map' = owner_map /\ disk' = disk
        /\ rpc'[c] = NoCall /\ rpc[c].at = "reply"
        /\ \A d \in Clients \ {c} : rpc'[d] = rpc[d]
        /\ extent_map'[c][e] = ReturnedEntry(c)
        /\ \A f \in Inums \ {e} : extent_map'[c][f] = extent_map[c][f]
        /\ \A d \in Clients \ {c} : extent_map'[d] = extent_map[d]
    BY Parts, ReturnStep
  <1>2. rpc[c].op \in {"get", "put", "remove", "create"}
    <2>1. rpc[c].op # "none"
      BY <1>1, Parts, NoneIsNoCall
    <2> QED BY <2>1, Parts, Typed
  <1>3. TypeOK'
    <2>1. CacheTypes'
      BY <1>2, Parts, TypesTwo, ReturnTypes
    <2>2. held' \in [Clients -> SUBSET Inums]
      BY Parts DEF TypeOK
    <2> QED BY <2>1, <2>2, Parts, TypesKept
  <1>4. Untouched(c)
    <2>1. \A d \in Clients \ {c} : Holding(d) => Contents(X(d))' = Contents(X(d))
      <3>1. \A d \in Clients \ {c} : X(d) \in Inums /\ X(d)' = X(d)
        BY Parts, CallTyped DEF X
      <3> QED BY <1>1, <3>1
    <2>2. \A d \in Clients \ {c}, f \in Inums : extent_map'[d][f] = extent_map[d][f]
      BY <1>1
    <2>3. \A d \in Clients \ {c} : call'[d] = call[d] /\ held'[d] = held[d] /\ rpc'[d] = rpc[d]
      BY <1>1
    <2>4. \A d \in Clients \ {c} : Filling(d) => owner_map'[call[d].ino] = owner_map[call[d].ino]
      BY <1>1
    <2> QED BY <2>1, <2>2, <2>3, <2>4, UntouchedIf
  <1> QED BY <1>1, <1>2, <1>3, <1>4, NoCallIs

\* A get brings the contents of the file.
LEMMA GotStep ==
  ASSUME YfsInv, NEW c \in Clients, Returned(c), At(c, "read")
  PROVE  YfsInv'
  <1>1. PICK e \in Inums : e = rpc[c].eid
    BY Parts, Typed, InumsAssumption
  <1>2. Return(c) /\ held' = held
    BY DEF Returned
  <1>3. PICK data \in Data : data = rpc[c].data
    BY Parts, Typed, InumsAssumption
  <1>4. Set(c, [call[c] EXCEPT !.at = "got", !.buf = data])
    BY <1>3 DEF Returned, At
  <1>5. /\ call' \in [Clients -> CallRec]
        /\ call'[c].at = "got" /\ call'[c].ino = call[c].ino /\ call'[c].buf = data
        /\ Op(c)' = Op(c) /\ X(c)' = X(c) /\ Req(c)' = Req(c)
        /\ \A d \in Clients \ {c} : call'[d] = call[d]
        /\ \A p : At(c, p)' <=> p = "got"
    <2>1. "got" \in DOMAIN OpsAt
      BY Points
    <2> QED BY <1>4, <2>1, Parts, BufTo
  <1>6. /\ rpc[c].at = "reply" /\ rpc[c].op \in {"get", "put", "remove", "create"}
        /\ TypeOK' /\ CacheInv' /\ Untouched(c)
        /\ \A f \in Inums : Contents(f)' = Contents(f)
        /\ owner_map' = owner_map /\ disk' = disk
        /\ rpc'[c] = NoCall /\ rpc'[c].op = "none" /\ rpc'[c].at = "none"
        /\ extent_map'[c][e] = ReturnedEntry(c)
    BY <1>1, <1>2, <1>5, ReturnFacts
  <1>7. rpc[c].op = "get" /\ e = X(c)
    BY <1>1, <1>6, Parts, RpcAt DEF At
  <1>8. data = Contents(e) /\ ReturnedEntry(c).data = data
    BY <1>1, <1>2, <1>3, <1>7, Parts, ReturnStep
  <1>9. Op(c) \in FileOps /\ call[c].at = "read"
    BY Parts, OpIs DEF At
  <1>10. Phase(c)'
    <2>1. Op(c)' \in OpsAt[call'[c].at]
      BY <1>5, <1>9 DEF OpsAt
    <2>2. AtCall(c)'
      BY <1>5, <1>6 DEF AtCall
    <2> QED BY <2>1, <2>2, <1>5, PhaseOf DEF Phase
  <1>11. Buffer(c)'
    <2>1. extent_map'[c][e] # NoEntry
      <3>1. ReturnedEntry(c) = Entry(rpc[c].data, rpc[c].type,
                                     IF rpc[c].is_share THEN "SHARED" ELSE "EXCLUSIVE")
        BY <1>7 DEF ReturnedEntry
      <3>2. rpc[c].data \in Data /\ rpc[c].type \in Types
        BY Parts, Typed, InumsAssumption
      <3>3. ReturnedEntry(c) \in Copies
        BY <3>1, <3>2, CopyTyped
      <3> QED BY <3>3, <1>6, NoEntryAssumption
    <2> QED BY <2>1, <1>5, <1>6, <1>7, <1>8 DEF Buffer, Cached
  <1>12. Own(c)'
    BY <1>5 DEF Own, PutPending, Filling
  <1>13. /\ held'[c] = LocksOf(c)'
         /\ \A d \in Clients \ {c} : held'[c] \cap held[d] = {}
    <2>1. held[c] = {X(c)} /\ \A d \in Clients \ {c} : held[c] \cap held[d] = {}
      BY <1>9, Parts, HeldIs
    <2>2. Op(c) # "join"
      BY <1>9 DEF FileOps
    <2> QED BY <2>1, <2>2, <1>2, <1>5 DEF LocksOf
  <1>14. Fine(c)
    BY <1>10, <1>11, <1>12, <1>13 DEF Fine
  <1>15. SameRole(c)
    BY <1>5, <1>9, <1>6 DEF SameRole, Making, Made, Filling, Unlinking, Leaving, PutPending, At
  <1>16. Op(c) # "join" /\ call'[c].op # "join"
    BY <1>5, <1>9 DEF FileOps, Op
  <1>17. \A d \in Dirs : Contents(d)' = Contents(d)
    BY <1>6 DEF Dirs
  <1> QED BY <1>5, <1>6, <1>9, <1>14, <1>15, <1>16, <1>17, WorkStep

\* A removal is done with.
LEMMA RemovedStep ==
  ASSUME YfsInv, NEW c \in Clients, Returned(c), At(c, "removing")
  PROVE  YfsInv'
  <1>1. PICK e \in Inums : e = rpc[c].eid
    BY Parts, Typed, InumsAssumption
  <1>2. Return(c) /\ held' = held
    BY DEF Returned
  <1>4. GoTo(c, "removed")
    BY DEF Returned, Set, GoTo, At
  <1>5. /\ call' \in [Clients -> CallRec]
        /\ call'[c].at = "removed" /\ call'[c].ino = call[c].ino /\ call'[c].buf = call[c].buf
        /\ SameWork(c)
        /\ \A d \in Clients \ {c} : call'[d] = call[d]
        /\ \A p : At(c, p)' <=> p = "removed"
    <2>1. "removed" \in DOMAIN OpsAt
      BY Points
    <2> QED BY <1>4, <2>1, Parts, GoToIs
  <1>6. /\ rpc[c].at = "reply" /\ rpc[c].op \in {"get", "put", "remove", "create"}
        /\ TypeOK' /\ CacheInv' /\ Untouched(c)
        /\ \A f \in Inums : Contents(f)' = Contents(f)
        /\ owner_map' = owner_map /\ disk' = disk
        /\ rpc'[c] = NoCall /\ rpc'[c].op = "none" /\ rpc'[c].at = "none"
        /\ \A f \in Inums \ {e} : extent_map'[c][f] = extent_map[c][f]
    BY <1>1, <1>2, <1>5, ReturnFacts
  <1>7. rpc[c].op = "remove" /\ e = call[c].ino /\ Op(c) = "unlink" /\ call[c].at = "removing"
    BY <1>1, <1>6, Parts, RpcAt DEF At
  <1>8. Found(c) /\ call[c].ino = FoundInum(c) /\ call[c].ino # X(c)
    BY <1>7, Parts DEF OwnInv, Own
  <1>10. Phase(c)'
    <2>1. Op(c)' \in OpsAt[call'[c].at]
      BY <1>5, <1>7 DEF OpsAt, SameWork
    <2>2. AtCall(c)'
      BY <1>5, <1>6 DEF AtCall
    <2> QED BY <2>1, <2>2, <1>5, PhaseOf DEF Phase, SameWork
  <1>11. Buffer(c)'
    <2>1. Holding(c)
      BY <1>7 DEF Holding
    <2>2. /\ Cached(c, X(c)) /\ extent_map[c][X(c)].data = call[c].buf
          /\ Contents(X(c)) = call[c].buf
      BY <2>1, Parts DEF BufInv, Buffer
    <2>3. X(c) \in Inums \ {e}
      BY <1>7, <1>8, Parts, CallTyped
    <2> QED BY <2>2, <2>3, <1>5, <1>6 DEF Buffer, Cached, SameWork
  <1>12. Own(c)'
    BY <1>5, <1>7, <1>8 DEF Own, PutPending, Filling, SameWork, Makers
  <1>13. /\ held'[c] = LocksOf(c)'
         /\ \A d \in Clients \ {c} : held'[c] \cap held[d] = {}
    <2>1. held[c] = {X(c), call[c].ino} /\ \A d \in Clients \ {c} : held[c] \cap held[d] = {}
      BY <1>7, Parts, HeldIs
    <2> QED BY <2>1, <1>2, <1>5, <1>7 DEF LocksOf, SameWork
  <1>14. Fine(c)
    BY <1>10, <1>11, <1>12, <1>13 DEF Fine
  <1>15. SameRole(c)
    BY <1>5, <1>7, <1>6 DEF SameRole, Making, Made, Filling, Unlinking, Leaving, PutPending, At,
                            SameWork, Makers
  <1>16. Op(c) # "join" /\ call'[c].op # "join"
    BY <1>5, <1>7 DEF SameWork, Op
  <1>17. \A d \in Dirs : Contents(d)' = Contents(d)
    BY <1>6 DEF Dirs
  <1> QED BY <1>5, <1>6, <1>7, <1>14, <1>15, <1>16, <1>17, WorkStep

\* A new inode is there: its name goes into the directory next.
LEMMA CreatedStep ==
  ASSUME YfsInv, NEW c \in Clients, Returned(c), At(c, "make")
  PROVE  YfsInv'
  <1>1. PICK e \in Inums : e = rpc[c].eid
    BY Parts, Typed, InumsAssumption
  <1>2. Return(c) /\ held' = held
    BY DEF Returned
  <1>4. Set(c, [call[c] EXCEPT !.at = "put", !.ino = e])
    BY <1>1 DEF Returned, At
  <1>5. /\ call' \in [Clients -> CallRec]
        /\ call'[c].at = "put" /\ call'[c].ino = e /\ call'[c].buf = call[c].buf
        /\ SameWork(c)
        /\ \A d \in Clients \ {c} : call'[d] = call[d]
        /\ \A p : At(c, p)' <=> p = "put"
    <2>1. "put" \in DOMAIN OpsAt
      BY Points
    <2> QED BY <1>4, <2>1, Parts, InoTo
  <1>6. /\ rpc[c].at = "reply" /\ rpc[c].op \in {"get", "put", "remove", "create"}
        /\ TypeOK' /\ CacheInv' /\ Untouched(c)
        /\ \A f \in Inums : Contents(f)' = Contents(f)
        /\ owner_map' = owner_map /\ disk' = disk
        /\ rpc'[c] = NoCall /\ rpc'[c].op = "none" /\ rpc'[c].at = "none"
        /\ extent_map'[c][e] = ReturnedEntry(c)
        /\ \A f \in Inums \ {e} : extent_map'[c][f] = extent_map[c][f]
    BY <1>1, <1>2, <1>5, ReturnFacts
  <1>7. rpc[c].op = "create" /\ Op(c) \in Makers /\ call[c].at = "make"
    BY <1>1, <1>6, Parts, RpcAt DEF At
  <1>8. Making(c) /\ NewInum(c) = e /\ ~Found(c)
    <2>1. Making(c) /\ NewInum(c) = e
      BY <1>1, <1>6, <1>7 DEF Making, NewInum, At
    <2> QED BY <2>1, <1>7, Parts DEF OwnInv, Own, At
  <1>9. \A d \in Clients : X(d) # e
    BY <1>8, Parts DEF ClaimInv
  <1>10. Phase(c)'
    <2>1. Op(c)' \in OpsAt[call'[c].at]
      BY <1>5, <1>7 DEF OpsAt, SameWork, Makers, FileOps
    <2>2. AtCall(c)'
      BY <1>5, <1>6, <1>7 DEF AtCall, SameWork, Makers
    <2> QED BY <2>1, <2>2, <1>5, PhaseOf DEF Phase, SameWork
  <1>11. Buffer(c)'
    <2>1. Holding(c)
      BY <1>7 DEF Holding
    <2>2. /\ Cached(c, X(c)) /\ extent_map[c][X(c)].data = call[c].buf
          /\ Contents(X(c)) = call[c].buf
      BY <2>1, Parts DEF BufInv, Buffer
    <2>3. X(c) \in Inums \ {e}
      BY <1>9, Parts, CallTyped
    <2> QED BY <2>2, <2>3, <1>5, <1>6 DEF Buffer, Cached, SameWork
  <1>12. Own(c)'
    <2>1. Cached(c, e)'
      <3>1. CASE Cached(c, e)
        BY <3>1, <1>1, <1>6, <1>7 DEF ReturnedEntry, Cached
      <3>2. CASE ~Cached(c, e)
        <4>1. ReturnedEntry(c) = Entry(<<>>, rpc[c].type, "EXCLUSIVE")
          BY <3>2, <1>1, <1>7 DEF ReturnedEntry
        <4>2. rpc[c].type \in Types
          BY Parts, Typed, InumsAssumption
        <4>3. ReturnedEntry(c) \in Copies
          BY <4>1, <4>2, CopyTyped, EmptyData
        <4> QED BY <4>3, <1>6, NoEntryAssumption DEF Cached
      <3> QED BY <3>1, <3>2
    <2>2. owner_map[e] = <<c>>
      <3>1. CallInv(c)
        BY Parts DEF CacheInv
      <3> QED BY <3>1, <1>1, <1>6, <1>7 DEF CallInv, CreateInv
    <2>3. Cached(c, call[c].ino)' /\ owner_map'[call'[c].ino] = <<c>>
      BY <2>1, <2>2, <1>5, <1>6 DEF Cached
    <2>4. Op(c)' \in Makers /\ ~Found(c)'
      BY <1>5, <1>7, <1>8 DEF SameWork
    <2> QED BY <2>3, <2>4 DEF Own, Makers
  <1>13. /\ held'[c] = LocksOf(c)'
         /\ \A d \in Clients \ {c} : held'[c] \cap held[d] = {}
    <2>1. held[c] = {X(c)} /\ \A d \in Clients \ {c} : held[c] \cap held[d] = {}
      BY <1>7, Parts, HeldIs
    <2>2. Op(c)' \in Makers
      BY <1>5, <1>7 DEF SameWork
    <2> QED BY <2>1, <2>2, <1>2, <1>5 DEF LocksOf, SameWork, Makers
  <1>14. Fine(c)
    BY <1>10, <1>11, <1>12, <1>13 DEF Fine
  <1>15. SameRole(c)
    <2>1. /\ ~PutPending(c) /\ PutPending(c)' /\ ~Made(c) /\ ~Made(c)'
          /\ ~Filling(c) /\ ~Unlinking(c) /\ ~Unlinking(c)' /\ ~Leaving(c) /\ ~Leaving(c)'
      BY <1>5, <1>6, <1>7 DEF PutPending, Made, Filling, Unlinking, Leaving, At, SameWork, Makers
    <2>2. Making(c)'
      BY <2>1, <1>5, <1>7 DEF Making, SameWork
    <2>3. NewInum(c)' = e
      BY <1>5 DEF NewInum
    <2> QED BY <2>1, <2>2, <2>3, <1>5, <1>8 DEF SameRole, SameWork
  <1>16. Op(c) # "join" /\ call'[c].op # "join"
    BY <1>5, <1>7 DEF SameWork, Op, Makers
  <1>17. \A d \in Dirs : Contents(d)' = Contents(d)
    BY <1>6 DEF Dirs
  <1> QED BY <1>5, <1>6, <1>7, <1>14, <1>15, <1>16, <1>17, WorkStep

\* A put of the new contents returns.
LEMMA PutDoneStep ==
  ASSUME YfsInv, NEW c \in Clients, Returned(c), At(c, "put"), Op(c) # "join"
  PROVE  YfsInv'
  <1>1. PICK e \in Inums : e = rpc[c].eid
    BY Parts, Typed, InumsAssumption
  <1>2. Return(c) /\ held' = held
    BY DEF Returned
  <1>3. Set(c, AfterPut(c))
    BY DEF Returned, At
  <1>4. PICK at \in {"link", "unlock"} :
          /\ GoTo(c, at) /\ at \in DOMAIN OpsAt
          /\ at = "link" <=> Op(c) = "symlink"
    BY <1>3, AfterPutIs
  <1>5. /\ call' \in [Clients -> CallRec]
        /\ call'[c].at = at /\ call'[c].ino = call[c].ino /\ call'[c].buf = call[c].buf
        /\ SameWork(c)
        /\ \A d \in Clients \ {c} : call'[d] = call[d]
        /\ \A p : At(c, p)' <=> p = at
    BY <1>4, Parts, GoToIs
  <1>6. /\ rpc[c].at = "reply" /\ rpc[c].op \in {"get", "put", "remove", "create"}
        /\ TypeOK' /\ CacheInv' /\ Untouched(c)
        /\ \A f \in Inums : Contents(f)' = Contents(f)
        /\ owner_map' = owner_map /\ disk' = disk
        /\ rpc'[c] = NoCall /\ rpc'[c].op = "none" /\ rpc'[c].at = "none"
        /\ \A f \in Inums \ {e} : extent_map'[c][f] = extent_map[c][f]
    BY <1>1, <1>2, <1>5, ReturnFacts
  <1>7. rpc[c].op = "put" /\ e = X(c) /\ call[c].at = "put"
    BY <1>1, <1>6, Parts, RpcAt DEF At
  <1>8. Op(c) \in FileOps \ {"look", "lookup"}
    BY <1>7, Parts, OpIs
  <1>10. Phase(c)'
    <2>1. Op(c)' \in OpsAt[call'[c].at]
      BY <1>4, <1>5, <1>8 DEF OpsAt, SameWork
    <2>2. AtCall(c)'
      BY <1>4, <1>5, <1>6 DEF AtCall
    <2> QED BY <2>1, <2>2, <1>5, PhaseOf DEF Phase, SameWork
  <1>11. Buffer(c)'
    BY <1>4, <1>5 DEF Buffer, Holding, PutPending
  <1>12. Own(c)'
    <2>1. ASSUME Filling(c)' PROVE Cached(c, call[c].ino)' /\ owner_map'[call'[c].ino] = <<c>>
      <3>1. Filling(c)
        BY <2>1, <1>5, <1>7 DEF Filling, SameWork
      <3>2. Cached(c, call[c].ino) /\ owner_map[call[c].ino] = <<c>> /\ call[c].ino # X(c)
        BY <3>1, Parts DEF OwnInv, Own, ClaimInv
      <3>3. call[c].ino \in Inums \ {e}
        BY <3>2, <1>7, Parts, CallTyped
      <3> QED BY <3>2, <3>3, <1>5, <1>6 DEF Cached
    <2> QED BY <2>1, <1>4, <1>5 DEF Own, PutPending
  <1>13. /\ held'[c] = LocksOf(c)'
         /\ \A d \in Clients \ {c} : held'[c] \cap held[d] = {}
    <2>1. held[c] = {X(c)} /\ \A d \in Clients \ {c} : held[c] \cap held[d] = {}
      BY <1>7, Parts, HeldIs
    <2>2. Op(c)' # "join"
      BY <1>5 DEF SameWork
    <2> QED BY <2>1, <2>2, <1>2, <1>4, <1>5 DEF LocksOf, SameWork
  <1>14. Fine(c)
    BY <1>10, <1>11, <1>12, <1>13 DEF Fine
  <1>15. SameRole(c)
    <2>1. ~PutPending(c) /\ ~PutPending(c)' /\ call'[c].at \in {"link", "unlock"}
      BY <1>4, <1>5, <1>6 DEF PutPending
    <2>2. /\ ~Making(c) /\ ~Making(c)' /\ ~Leaving(c) /\ ~Leaving(c)'
          /\ ~Unlinking(c) /\ ~Unlinking(c)'
      BY <2>1, <1>7 DEF Making, Leaving, Unlinking, At
    <2>3. /\ Made(c)' <=> Made(c)
          /\ Filling(c)' => Filling(c)
      BY <2>1, <1>5, <1>7 DEF Made, Filling, At, SameWork
    <2> QED BY <2>2, <2>3, <1>5 DEF SameRole, SameWork
  <1>16. Op(c) # "join" /\ call'[c].op # "join" /\ call'[c].at # "out"
    BY <1>4, <1>5 DEF SameWork, Op
  <1>17. \A d \in Dirs : Contents(d)' = Contents(d)
    BY <1>6 DEF Dirs
  <1> QED BY <1>5, <1>6, <1>7, <1>14, <1>15, <1>16, <1>17, WorkStep

\* The constructor's put returns.
LEMMA JoinDoneStep ==
  ASSUME YfsInv, NEW c \in Clients, Returned(c), Op(c) = "join"
  PROVE  YfsInv'
  <1>1. PICK e \in Inums : e = rpc[c].eid
    BY Parts, Typed, InumsAssumption
  <1>2. Return(c) /\ held' = held
    BY DEF Returned
  <1>3. call[c].at = "put"
    BY Parts, OpIs
  <1>4. Set(c, Idle)
    BY <1>3 DEF Returned, At, AfterPut
  <1>5. /\ call' \in [Clients -> CallRec] /\ call'[c] = Idle
        /\ \A d \in Clients \ {c} : call'[d] = call[d]
        /\ rpc'[c] = NoCall => Fine(c)
        /\ /\ \A f \in Inums : disk'[f].type = disk[f].type
           /\ \A f \in Dirs : Contents(f)' = Contents(f)
           /\ \A d \in Clients \ {c} : rpc'[d] = rpc[d]
           => TargetInv' /\ TreeInv' /\ ClaimInv'
        /\ /\ \A d \in Clients : rpc'[d].data = <<>>
           /\ disk'[Root].data = <<>> /\ \A f \in Inums : disk'[f].type = disk[f].type
           /\ \A d \in Clients : Cached(d, Root)' => extent_map'[d][Root].data = <<>>
           => StartInv'
    BY <1>2, <1>4, Joined
  <1>6. /\ rpc[c].at = "reply" /\ rpc[c].op \in {"get", "put", "remove", "create"}
        /\ TypeOK' /\ CacheInv' /\ Untouched(c)
        /\ \A f \in Inums : Contents(f)' = Contents(f)
        /\ owner_map' = owner_map /\ disk' = disk
        /\ rpc'[c] = NoCall
        /\ \A d \in Clients \ {c} : rpc'[d] = rpc[d]
        /\ extent_map'[c][e] = ReturnedEntry(c)
        /\ \A d \in Clients \ {c} : extent_map'[d] = extent_map[d]
    BY <1>1, <1>2, <1>5, ReturnFacts
  <1>7. rpc[c].op = "put" /\ e = Root
    BY <1>1, <1>3, <1>6, Parts, RpcAt, StartAlone DEF At
  <1>8. Starting
    BY StartAlone
  <1>9. /\ \A d \in Clients : rpc[d].data = <<>>
        /\ disk[Root].data = <<>>
        /\ \A d \in Clients : Cached(d, Root) => extent_map[d][Root].data = <<>>
    BY <1>8, Parts DEF StartInv
  <1>10. StartInv'
    <2>1. \A d \in Clients : rpc'[d].data = <<>>
      BY <1>6, <1>9, NoCallIs
    <2>2. ReturnedEntry(c).data = <<>>
      BY <1>7, <1>9 DEF ReturnedEntry, Entry
    <2>3. \A d \in Clients : Cached(d, Root)' => extent_map'[d][Root].data = <<>>
      BY <2>2, <1>6, <1>7, <1>9 DEF Cached
    <2> QED BY <2>1, <2>3, <1>5, <1>6, <1>9
  <1>11. \A f \in Dirs : Contents(f)' = Contents(f)
    BY <1>6 DEF Dirs
  <1> QED BY <1>5, <1>6, <1>10, <1>11, StepParts

\* A call to the server returns.
LEMMA ReturnedStep ==
  ASSUME YfsInv, NEW c \in Clients, Returned(c)
  PROVE  YfsInv'
  <1>1. Return(c) /\ rpc[c].at = "reply"
    BY DEF Returned, Return
  <1>2. rpc[c].op \in {"get", "put", "remove", "create"}
    BY <1>1, Parts, NoneIsNoCall, Typed, InumsAssumption
  <1>3. At(c, "read") \/ At(c, "removing") \/ At(c, "make") \/ At(c, "put")
    BY <1>2, Parts, RpcAt
  <1> QED BY <1>3, GotStep, RemovedStep, CreatedStep, PutDoneStep, JoinDoneStep

-----------------------------------------------------------------------------
(* The invariant                                                           *)

\* The invariant holds at the start,
LEMMA YfsInvInit ==
  ASSUME Init
  PROVE  YfsInv
  <1>1. \A c \in Clients : call[c] = NotStarted /\ held[c] = {} /\ rpc[c] = NoCall
    BY DEF Init, CacheInit
  <1>2. \A c \in Clients, e \in Inums : ~Cached(c, e)
    BY DEF Init, CacheInit, Cached
  <1>3. /\ \A e \in Inums : owner_map[e] = <<>>
        /\ \A e \in Inums : disk[e].type = (IF e = Root THEN DirType ELSE NoType)
                            /\ disk[e].data = <<>>
    BY DEF Init, CacheInit
  <1>4. /\ NotStarted \in CallRec /\ NotStarted.op = "none" /\ NotStarted.at = "out"
        /\ NotStarted.x = Root /\ NotStarted.req = <<>>
    <2>1. "out" \in DOMAIN OpsAt
      BY Points
    <2>2. NotStarted = [Idle EXCEPT !.at = "out"]
      BY DEF NotStarted
    <2>3. PICK r \in CallRec : r = Idle
      BY IdleIs
    <2>4. NotStarted \in CallRec
      BY <2>1, <2>2, <2>3, CallChange
    <2>5. PICK q : q = [r EXCEPT !.at = "out"]
      OBVIOUS
    <2> QED BY <2>2, <2>3, <2>4, <2>5, AtChange, IdleIs
  <1>5. /\ \A c \in Clients : /\ Op(c) = "none" /\ call[c].at = "out"
                              /\ X(c) = Root /\ Req(c) = <<>>
                              /\ \A p : At(c, p) <=> p = "out"
    BY <1>1, <1>4 DEF Op, X, Req, At
  <1>6. TypeOK
    <2>1. CacheTypes
      <3>1. \A e \in Inums : [type |-> IF e = Root THEN DirType ELSE NoType, data |-> <<>>]
                               \in [type : Types, data : Data]
        BY EmptyData DEF Types
      <3> QED BY <3>1, NoCallTyped DEF CacheTypes, Init, CacheInit
    <2>2. CallTypes
      BY <1>4 DEF CallTypes, CallRec, Init
    <2> QED BY <2>1, <2>2, TypesTwo
  <1>7. PhaseInv
    BY <1>1, <1>5, NoCallIs DEF PhaseInv, Phase, AtCall, OpsAt, FileOps
  <1>8. LockInv
    BY <1>1, <1>5 DEF LockInv, LocksOf
  <1>9. StartInv
    BY <1>1, <1>2, <1>3, <1>5, NoCallIs, InumsAssumption DEF StartInv
  <1>10. CacheInv
    <2>1. \A c \in Clients : CallInv(c)
      BY <1>1, NoCallIs DEF CallInv
    <2>2. ASSUME NEW e \in Inums PROVE Settled(e)
      <3>1. Holders(e) = {}
        BY <1>2 DEF Holders
      <3>2. IsInjective(<<>>) /\ Range(<<>>) = {}
        BY DEF IsInjective, Range
      <3> QED BY <3>1, <3>2, <1>3 DEF Settled
    <2>3. \A c \in Clients, e \in Inums : ~Busy(c, e)
      BY <1>1, NoCallNotBusy
    <2> QED BY <2>1, <2>2, <2>3 DEF CacheInv
  <1>11. BufInv
    BY <1>5 DEF BufInv, Buffer, Holding, PutPending
  <1>12. TargetInv
    BY <1>3, <1>5, InumsAssumption DEF TargetInv
  <1>13. Dirs = {Root}
    BY <1>3, InumsAssumption, TypesAssumption DEF Dirs
  <1>14. TreeInv
    <2>1. Contents(Root) = <<>>
      <3>1. Carrying(Root) = {}
        BY <1>1, NoCallNotBusy, NoCallIs DEF Carrying
      <3>2. Modified(Root) = {}
        BY <1>2, InumsAssumption DEF Modified
      <3> QED BY <3>1, <3>2, <1>3, InumsAssumption DEF Contents
    <2>2. \A i : ~InDir(Root, i)
      BY <2>1 DEF InDir
    <2> QED BY <2>1, <2>2, <1>13 DEF TreeInv
  <1>15. ClaimInv
    BY <1>5 DEF ClaimInv, Making, Made, Filling, Unlinking, Makers
  <1>16. OwnInv
    BY <1>5 DEF OwnInv, Own, Filling, Makers
  <1> QED BY <1>6, <1>7, <1>8, <1>9, <1>10, <1>11, <1>12, <1>14, <1>15, <1>16 DEF YfsInv

\* after every step,
LEMMA YfsInvStep ==
  ASSUME DirsStay, YfsInv, OrderlyNext
  PROVE  YfsInv'
  <1>1. PICK c \in Clients :
          \/ OrderlyJoin(c) \/ OrderlyStart(c)
          \/ Lock(c) \/ OrderlyLockEntry(c) \/ LockLink(c)
          \/ ClientStep(c) \/ Server(c)
    BY DEF OrderlyNext
  <1>2. ASSUME ClientStep(c) PROVE YfsInv'
    BY <1>2, ReadStep, MakeStep, RemoveInodeStep, PutStep, FillStep, ReturnedStep,
       UnlockEntryStep, UnlockStep DEF ClientStep
  <1> QED BY <1>1, <1>2, JoinStep, StartStep, LockStep, LockEntryStep, LockLinkStep, ServerIs

\* and when nothing happens.
LEMMA YfsInvStutter ==
  ASSUME YfsInv, UNCHANGED vars
  PROVE  YfsInv'
  <1>1. /\ call' = call /\ held' = held /\ cacheVars' = cacheVars
    BY DEF vars
  <1>2. /\ CacheTypes' /\ CacheInv'
        /\ \A f : Contents(f)' = Contents(f)
        /\ \A d, e : Cached(d, e)' <=> Cached(d, e)
        /\ extent_map' = extent_map /\ owner_map' = owner_map /\ disk' = disk /\ rpc' = rpc
    BY <1>1, CacheSame
  <1>3. TypeOK'
    BY <1>1, <1>2, Parts DEF TypeOK
  <1>4. \A d \in Clients : SameRole(d)
    BY <1>1, <1>2, SameRoles
  <1>5. TargetInv' /\ TreeInv' /\ ClaimInv'
    BY <1>2, <1>4, QuietStep
  <1>6. StartInv'
    BY <1>1, <1>2, Parts DEF StartInv, Starting, At, Op, Cached
  <1>7. \A d \in Clients :
          /\ Op(d)' = Op(d) /\ X(d)' = X(d) /\ Req(d)' = Req(d)
          /\ PutPending(d)' <=> PutPending(d)
          /\ Holding(d)' <=> Holding(d)
          /\ Filling(d)' <=> Filling(d)
          /\ Found(d)' <=> Found(d)
          /\ FoundInum(d)' = FoundInum(d)
          /\ Phase(d)' <=> Phase(d)
          /\ LocksOf(d)' = LocksOf(d)
    BY <1>1, <1>2, SameClient
  <1>8. PhaseInv' /\ LockInv'
    BY <1>1, <1>7, Parts DEF PhaseInv, LockInv
  <1>9. BufInv'
    BY <1>1, <1>2, <1>7, Parts DEF BufInv, Buffer, Cached
  <1>10. OwnInv'
    BY <1>1, <1>2, <1>7, Parts DEF OwnInv, Own, Cached, At
  <1> QED BY <1>2, <1>3, <1>5, <1>6, <1>8, <1>9, <1>10 DEF YfsInv

\* As long as all clients start before the first request, no file is unlinked
\* while another client's call is about it, and no process unlinks a name under
\* which another makes a directory, clients, caches and server keep the
\* invariant: the steps of yfs_client, extent_client and extent_server allow it
\* in any order.
THEOREM YfsInvariant ==
  ASSUME DirsStay
  PROVE  OrderlySpec => []YfsInv
  <1>1. Init => YfsInv
    BY YfsInvInit
  <1>2. YfsInv /\ [OrderlyNext]_vars => YfsInv'
    BY YfsInvStep, YfsInvStutter
  <1> QED BY <1>1, <1>2, PTL DEF OrderlySpec

-----------------------------------------------------------------------------
(* The file system as processes see it                                     *)

\* What the caches and the server have for a file is data.
LEMMA ContentsTyped ==
  ASSUME TypeOK, NEW e \in Inums
  PROVE  Contents(e) \in Data
  <1>1. \A c \in Clients : rpc[c].data \in Data
    BY Typed
  <1>2. disk[e].data \in Data
    BY DEF TypeOK
  <1>3. \A c \in Modified(e) : extent_map[c][e].data \in Data
    <2>1. \A c \in Modified(e) : extent_map[c][e] \in Copies
      BY Typed DEF Modified
    <2> QED BY <2>1 DEF Copies
  <1>4. Carrying(e) # {} => (CHOOSE c \in Carrying(e) : TRUE) \in Clients
    BY DEF Carrying
  <1>5. Modified(e) # {} => (CHOOSE c \in Modified(e) : TRUE) \in Modified(e)
    OBVIOUS
  <1> QED BY <1>1, <1>2, <1>3, <1>4, <1>5 DEF Contents

\* Who hides an entry works on its directory.
LEMMA HidingIs ==
  ASSUME YfsInv, NEW c \in Clients, Hiding(c)
  PROVE  /\ X(c) \in held[c] /\ X(c) \in Dirs /\ X(c) \in Inums
         /\ Op(c) \in {"unlink", "symlink"}
         /\ Landed(c) \/ (Holding(c) /\ (Op(c) = "symlink" => PutPending(c)))
         /\ Req(c).name \in Names
  <1>1. Op(c) \in {"unlink", "symlink"} /\ call[c].at \in {"removing", "removed", "put", "link", "fill"}
    BY DEF Hiding
  <1>2. X(c) \in held[c]
    BY <1>1, Parts, HeldIs DEF At
  <1>3. X(c) \in Dirs /\ X(c) \in Inums
    BY <1>1, TargetIsDir
  <1>4. Landed(c) \/ (Holding(c) /\ (Op(c) = "symlink" => PutPending(c)))
    BY <1>1 DEF Hiding, Landed, Holding, At
  <1>5. Req(c).name \in Names
    BY <1>1, Parts, ReqTyped DEF FileOps
  <1> QED BY <1>1, <1>2, <1>3, <1>4, <1>5

\* A directory somebody works on hides entries for no one else.
LEMMA OneHider ==
  ASSUME YfsInv, NEW c \in Clients, X(c) \in held[c], NEW d \in Clients, Hiding(d), X(d) = X(c)
  PROVE  d = c
  BY HidingIs, Parts DEF LockInv

\* A directory nobody hides an entry of is seen as it is.
LEMMA VisibleOpen ==
  ASSUME YfsInv, NEW f \in Dirs, \A c \in Clients : Hiding(c) => X(c) # f
  PROVE  Visible(f) = Contents(f)
  <1>1. Contents(f) \in Seq(Entries)
    BY Parts DEF TreeInv
  <1> DEFINE T == {entry \in Entries : \E c \in Clients : Hides(c, f, entry)}
  <1>2. T = {}
    BY DEF Hides
  <1>3. \A k \in 1..Len(Contents(f)) : Contents(f)[k] \notin T
    BY <1>2
  <1>4. Without(Contents(f), T) = Contents(f)
    <2> HIDE DEF T
    <2> QED BY <1>1, <1>3, WithoutNone
  <1> QED BY <1>4 DEF Visible

\* What c hides is the name of its request.
LEMMA VisibleHidden ==
  ASSUME YfsInv, NEW c \in Clients, Hiding(c)
  PROVE  Visible(X(c)) = Without(Contents(X(c)), {entry \in Entries : Req(c).name = entry.name})
  <1>1. \A d \in Clients : Hiding(d) /\ X(d) = X(c) => d = c
    BY HidingIs, OneHider
  <1>2. {entry \in Entries : \E d \in Clients : Hides(d, X(c), entry)}
          = {entry \in Entries : Req(c).name = entry.name}
    BY <1>1 DEF Hides
  <1> QED BY <1>2 DEF Visible

\* What c, hiding an entry, has for its directory without that entry.
Shown(c) == IF Op(c) = "unlink" THEN NewContents(c) ELSE call[c].buf

\* Until the change has landed c takes out the entry, afterwards it is gone;
\* until the link has its text its entry is new, and not there before.
LEMMA ShownIs ==
  ASSUME YfsInv, WorkInv, NEW c \in Clients, Hiding(c)
  PROVE  Visible(X(c)) = Shown(c)
  <1> DEFINE T == {entry \in Entries : Req(c).name = entry.name}
             s == Contents(X(c))
  <1>1. /\ X(c) \in held[c] /\ X(c) \in Dirs /\ X(c) \in Inums
        /\ Op(c) \in {"unlink", "symlink"}
        /\ Landed(c) \/ (Holding(c) /\ (Op(c) = "symlink" => PutPending(c)))
        /\ Req(c).name \in Names
    BY HidingIs
  <1>2. Visible(X(c)) = Without(s, T)
    BY VisibleHidden
  <1>3. /\ s \in Seq(Entries)
        /\ \A j, k \in 1..Len(s) : j # k => s[j].name # s[k].name
    BY <1>1, Parts DEF TreeInv
  <1>4. \A k \in 1..Len(s) : s[k] \in Entries /\ s[k].name \in Names
    <2> HIDE DEF s
    <2>1. \A k \in 1..Len(s) : s[k] \in Entries
      BY <1>3
    <2>2. \A entry \in Entries : entry.name \in Names
      BY DEF Entries
    <2> QED BY <2>1, <2>2
  <1>5. CASE Op(c) = "unlink" /\ Landed(c)
    <2>1. s = NewContents(c) /\ \A k \in 1..Len(s) : s[k].name # Req(c).name
      BY <1>5 DEF WorkInv, Work
    <2>2. \A k \in 1..Len(s) : s[k] \notin T
      BY <2>1
    <2> HIDE DEF s, T
    <2>3. Without(s, T) = s
      BY <1>3, <2>2, WithoutNone
    <2> QED BY <1>2, <1>5, <2>1, <2>3 DEF Shown
  <1>6. CASE Op(c) = "unlink" /\ ~Landed(c)
    <2>1. Holding(c) /\ (Unlinking(c) \/ Leaving(c))
      <3>1. call[c].at \in {"removing", "removed", "put"}
        BY <1>6 DEF Hiding
      <3>2. At(c, "put") => PutPending(c)
        BY <1>6 DEF Landed
      <3> QED BY <1>1, <1>6, <3>1, <3>2 DEF Unlinking, Leaving, At
    <2>2. /\ Found(c) /\ s = call[c].buf /\ call[c].buf \in Seq(Entries)
          /\ Position(c) \in 1..Len(s)
          /\ s[Position(c)] = [name |-> Req(c).name, inum |-> call[c].ino]
      BY <2>1, UnlinkEntry
    <2> DEFINE p == Position(c)
    <2>3. s[p] \in T
      BY <1>4, <2>2
    <2>4. \A k \in 1..Len(s) : k # p => s[k] \notin T
      BY <1>3, <2>2
    <2>5. Without(s, T) = RemoveAt(s, p)
      <3> HIDE DEF s, T, p
      <3> QED BY <1>3, <2>2, <2>3, <2>4, WithoutOne DEF p
    <2>6. NewContents(c) = RemoveAt(call[c].buf, p)
      BY <1>6 DEF NewContents
    <2> QED BY <1>2, <1>6, <2>2, <2>5, <2>6 DEF Shown
  <1>7. CASE Op(c) = "symlink" /\ Landed(c)
    <2> DEFINE entry == [name |-> Req(c).name, inum |-> call[c].ino]
               b == call[c].buf
    <2>1. s = Append(b, entry)
      BY <1>7 DEF WorkInv, Work, NewContents
    <2>2. b \in Data /\ call[c].ino \in Inums
      BY Parts, CallTyped
    <2>3. /\ Len(b) \in Nat /\ Len(s) = Len(b) + 1 /\ s[Len(b) + 1] = entry
          /\ \A k \in 1..Len(b) : s[k] = b[k] /\ k \in 1..Len(s) /\ k # Len(s)
      <3> HIDE DEF s, entry
      <3> QED BY <2>1, <2>2 DEF Data
    <2>4. b \in Seq(Entries)
      <3>1. \A k \in 1..Len(b) : b[k] \in Entries
        <4> HIDE DEF s, b
        <4> QED BY <1>4, <2>3
      <3> HIDE DEF s, b
      <3> QED BY <2>2, <3>1 DEF Data
    <2>5. entry \in Entries /\ entry \in T
      BY <1>1, <2>2 DEF Entries
    <2>6. \A k \in 1..Len(b) : b[k] \notin T
      <3>1. ASSUME NEW k \in 1..Len(b) PROVE b[k].name # Req(c).name
        <4>1. k \in 1..Len(s) /\ Len(s) \in 1..Len(s) /\ k # Len(s)
          <5> HIDE DEF s, b, entry
          <5> QED BY <2>3
        <4>2. s[k].name # s[Len(s)].name
          <5> HIDE DEF s, b, entry
          <5> QED BY <1>3, <4>1
        <4>3. s[k] = b[k] /\ s[Len(s)] = entry
          <5> HIDE DEF s, b, entry
          <5> QED BY <2>3
        <4> QED BY <4>2, <4>3
      <3> QED BY <3>1
    <2>7. Without(Append(b, entry), T) = b
      <3> HIDE DEF b, entry, T
      <3> QED BY <2>4, <2>5, <2>6, WithoutLast
    <2> QED BY <1>2, <1>7, <2>1, <2>7 DEF Shown
  <1>8. CASE Op(c) = "symlink" /\ ~Landed(c)
    <2>1. Holding(c) /\ PutPending(c)
      BY <1>1, <1>8
    <2>2. s = call[c].buf
      BY <1>1, <2>1, DirBuf
    <2>3. ~Found(c)
      BY <1>8, <2>1, Parts DEF OwnInv, Own, Makers
    <2>4. \A k \in 1..Len(s) : s[k] \notin T
      BY <2>2, <2>3 DEF Found, Positions
    <2>5. Without(s, T) = s
      <3> HIDE DEF s, T
      <3> QED BY <1>3, <2>4, WithoutNone
    <2> QED BY <1>2, <1>8, <2>2, <2>5 DEF Shown
  <1> QED BY <1>1, <1>5, <1>6, <1>7, <1>8

\* Who has seen an inode has it locked, and knows what is in it.
LEMMA SeenLocked ==
  ASSUME YfsInv, NEW c \in Clients, HasSeen(c)
  PROVE  /\ X(c) \in held[c] /\ X(c) \in Inums /\ Op(c) \in FileOps
         /\ call[c].at \in {"got", "make", "remove", "put", "link", "fill"}
         /\ Holding(c) \/ (Hiding(c) /\ Op(c) = "symlink")
  <1>1. Op(c) # "join" /\ call[c].at \in {"got", "make", "remove", "put", "link", "fill"}
    BY DEF HasSeen, PutPending, At
  <1>2. X(c) \in held[c]
    BY <1>1, Parts, HeldIs DEF At
  <1>3. X(c) \in Inums /\ Op(c) \in FileOps
    BY <1>1, Parts, CallTyped, OpIs
  <1>4. Holding(c) \/ (Hiding(c) /\ Op(c) = "symlink")
    BY <1>1, Parts, OpIs DEF HasSeen, Holding, Hiding, At
  <1> QED BY <1>1, <1>2, <1>3, <1>4

\* What a file contains is a file, what somebody sees a pair.
LEMMA Something ==
  ASSUME NEW type \in Types, NEW data \in Data, NEW i \in Inums
  PROVE  /\ [type |-> type, data |-> data] # NoEntry
         /\ <<i, [type |-> type, data |-> data]>> # NoEntry
  <1>1. [type |-> type, data |-> data] \in Files
    BY DEF Files
  <1> QED BY <1>1, NothingAssumption

\* What processes see of an inode.
LEMMA ContentIs ==
  ASSUME YfsInv, NEW i \in Inums
  PROVE  /\ i = Root \/ Named(i) =>
              /\ content[i] = [type |-> disk[i].type,
                               data |-> IF i \in Dirs THEN Visible(i) ELSE Contents(i)]
              /\ content[i] # NoEntry
         /\ ~(i = Root \/ Named(i)) => content[i] = NoEntry
         /\ i \in Dirs => Visible(i) \in Seq(Entries)
         /\ disk[i].type \in Types
  <1>1. i \in Dirs => Visible(i) \in Seq(Entries)
    <2>1. i \in Dirs => Contents(i) \in Seq(Entries)
      BY Parts DEF TreeInv
    <2> QED BY <2>1, WithoutRange DEF Visible
  <1>2. disk[i].type \in Types
    BY Parts DEF TypeOK
  <1>3. Seq(Entries) \subseteq Data
    BY DEF Data
  <1>4. (IF i \in Dirs THEN Visible(i) ELSE Contents(i)) \in Data
    BY <1>1, <1>3, Parts, ContentsTyped
  <1>5. [type |-> disk[i].type,
         data |-> IF i \in Dirs THEN Visible(i) ELSE Contents(i)] # NoEntry
    BY <1>2, <1>4, Something
  <1> QED BY <1>1, <1>2, <1>5 DEF content

\* What a client has seen is what the inode contains.
LEMMA SeenIs ==
  ASSUME YfsInv, WorkInv, NamedInv, NEW c \in Clients, HasSeen(c)
  PROVE  /\ X(c) = Root \/ Named(X(c))
         /\ seen[c] = <<X(c), [type |-> disk[X(c)].type, data |-> call[c].buf]>>
         /\ content[X(c)] = [type |-> disk[X(c)].type, data |-> call[c].buf]
         /\ seen[c] # NoEntry
  <1>1. YfsInv /\ WorkInv /\ NamedInv
    OBVIOUS
  <1>2. /\ X(c) \in held[c] /\ X(c) \in Inums /\ Op(c) \in FileOps
        /\ Holding(c) \/ (Hiding(c) /\ Op(c) = "symlink")
    BY <1>1, SeenLocked
  <1>3. X(c) = Root \/ Named(X(c))
    BY <1>1, <1>2 DEF NamedInv, FileOps
  <1>4. extent_map[c][X(c)].type = disk[X(c)].type
    BY <1>1 DEF WorkInv, Work
  <1>5. seen[c] = <<X(c), [type |-> disk[X(c)].type, data |-> call[c].buf]>>
    BY <1>4 DEF seen
  <1>6. (IF X(c) \in Dirs THEN Visible(X(c)) ELSE Contents(X(c))) = call[c].buf
    <2>1. CASE Hiding(c)
      <3>1. X(c) \in Dirs /\ Op(c) = "symlink"
        BY <1>1, <2>1, HidingIs DEF HasSeen, Hiding
      <3> QED BY <1>1, <2>1, <3>1, ShownIs DEF Shown
    <2>2. CASE ~Hiding(c)
      <3>1. Contents(X(c)) = call[c].buf
        BY <1>1, <1>2, <2>2, Parts DEF BufInv, Buffer
      <3>2. \A d \in Clients : Hiding(d) => X(d) # X(c)
        BY <1>1, <1>2, <2>2, OneHider
      <3>3. X(c) \in Dirs => Visible(X(c)) = Contents(X(c))
        BY <1>1, <3>2, VisibleOpen
      <3> QED BY <3>1, <3>3
    <2> QED BY <2>1, <2>2
  <1>7. content[X(c)] = [type |-> disk[X(c)].type, data |-> call[c].buf]
    BY <1>1, <1>2, <1>3, <1>6, ContentIs
  <1>8. seen[c] # NoEntry
    <2>1. disk[X(c)].type \in Types
      BY <1>2, <1>1, ContentIs
    <2>2. call[c].buf \in Data
      BY <1>1, Parts, CallTyped
    <2> QED BY <1>2, <1>5, <2>1, <2>2, Something
  <1> QED BY <1>3, <1>5, <1>7, <1>8

\* A client that has seen nothing.
LEMMA UnseenIs ==
  ASSUME NEW c \in Clients, ~HasSeen(c)
  PROVE  seen[c] = NoEntry
  BY DEF seen

-----------------------------------------------------------------------------
(* What c works on stays as it is while others take steps                  *)

\* d would notice a change of f.
Kept(d, f) == (f = X(d) /\ f \in held[d]) \/ (Making(d) /\ f = NewInum(d))

\* A step of c, with what the others keep left alone.
Quiet(c) ==
  /\ \A d \in Clients \ {c} : call'[d] = call[d] /\ rpc'[d] = rpc[d]
  /\ \A d \in Clients \ {c}, f \in Inums : Kept(d, f) =>
       /\ Contents(f)' = Contents(f) /\ disk'[f].type = disk[f].type
       /\ extent_map'[d][f].type = extent_map[d][f].type

\* What is worked on by the call of d stays the same.
LEMMA SameTask ==
  ASSUME NEW d \in Clients, call'[d] = call[d], rpc'[d] = rpc[d]
  PROVE  /\ HasSeen(d)' <=> HasSeen(d)
         /\ Landed(d)' <=> Landed(d)
         /\ Hiding(d)' <=> Hiding(d)
         /\ NewContents(d)' = NewContents(d)
         /\ Position(d)' = Position(d)
  <1>1. PutPending(d)' <=> PutPending(d)
    BY DEF PutPending, At
  <1> QED BY <1>1 DEF HasSeen, Landed, Hiding, NewContents, Position, Positions, Op, At, X, Req

\* A change that has landed is in a locked directory.
LEMMA LandedLocked ==
  ASSUME YfsInv, NEW c \in Clients, Landed(c)
  PROVE  X(c) \in held[c] /\ X(c) \in Inums /\ Hiding(c)
  <1>1. Hiding(c)
    BY Parts, OpIs DEF Landed, Hiding, At
  <1> QED BY <1>1, HidingIs

\* Work of the others is as before.
LEMMA OthersWork ==
  ASSUME YfsInv, WorkInv, NEW c \in Clients, Quiet(c)
  PROVE  \A d \in Clients \ {c} : Work(d)'
  <1> SUFFICES ASSUME NEW d \in Clients \ {c} PROVE Work(d)'
    OBVIOUS
  <1>1. Work(d) /\ call'[d] = call[d] /\ rpc'[d] = rpc[d]
    BY DEF WorkInv, Quiet
  <1>2. /\ HasSeen(d)' <=> HasSeen(d)
        /\ Landed(d)' <=> Landed(d)
        /\ NewContents(d)' = NewContents(d)
    BY <1>1, SameTask
  <1>3. /\ Op(d)' = Op(d) /\ X(d)' = X(d) /\ Req(d)' = Req(d)
        /\ Making(d)' <=> Making(d)
        /\ NewInum(d)' = NewInum(d)
    BY <1>1, SameClient
  <1>4. PICK x \in Inums : x = X(d)
    BY Parts, CallTyped
  <1>5. HasSeen(d) => Kept(d, x)
    BY <1>4, SeenLocked DEF Kept
  <1>6. Landed(d) => Kept(d, x)
    BY <1>4, LandedLocked DEF Kept
  <1>7. PICK n \in Inums : n = NewInum(d)
    BY Parts, CallTyped, Typed DEF NewInum
  <1>8. Making(d) => Kept(d, n)
    BY <1>7 DEF Kept
  <1>9. HasSeen(d) => extent_map'[d][x].type = disk'[x].type
    BY <1>1, <1>4, <1>5 DEF Work, Quiet
  <1>10. Landed(d) => Contents(x)' = NewContents(d)
    BY <1>1, <1>4, <1>6 DEF Work, Quiet
  <1>11. Making(d) => Contents(n)' = <<>>
    BY <1>1, <1>7, <1>8 DEF Work, Quiet
  <1>12. Landed(d) /\ Op(d) = "unlink" =>
           \A k \in 1..Len(NewContents(d)) : NewContents(d)[k].name # Req(d).name
    BY <1>1 DEF Work
  <1> QED BY <1>2, <1>3, <1>4, <1>7, <1>9, <1>10, <1>11, <1>12 DEF Work

-----------------------------------------------------------------------------
(* What the invariant says of what processes see                           *)

\* The lemmas above, as formulas about one state.
AllShown == \A c \in Clients : Hiding(c) => Visible(X(c)) = Shown(c)
AllOpen == \A f \in Dirs : (\A c \in Clients : Hiding(c) => X(c) # f) => Visible(f) = Contents(f)
AllSeen ==
  \A c \in Clients :
    /\ HasSeen(c) => /\ seen[c] = <<X(c), content[X(c)]>> /\ seen[c] # NoEntry
                     /\ Op(c) # "none"
    /\ ~HasSeen(c) => seen[c] = NoEntry
AllNamed == \A i \in Inums : content[i] # NoEntry <=> i = Root \/ Named(i)

\* Each follows from the invariant.
LEMMA AllShownIs == YfsInv /\ WorkInv => AllShown
  BY ShownIs DEF AllShown

\* (directories that are open)
LEMMA AllOpenIs == YfsInv => AllOpen
  BY VisibleOpen DEF AllOpen

\* (what calls have seen)
LEMMA AllSeenIs == YfsInv /\ WorkInv /\ NamedInv => AllSeen
  BY SeenIs, UnseenIs, SeenLocked DEF AllSeen, FileOps

\* (what has a name)
LEMMA AllNamedIs == YfsInv => AllNamed
  BY ContentIs DEF AllNamed

\* They hold in the next state too.
LEMMA NextState ==
  ASSUME YfsInv'
  PROVE  /\ WorkInv' => AllShown'
         /\ AllOpen' /\ AllNamed'
         /\ WorkInv' /\ NamedInv' => AllSeen'
  BY AllShownIs, AllOpenIs, AllSeenIs, AllNamedIs, PTL

\* A hidden entry in the next state,
LEMMA ShownNext ==
  ASSUME YfsInv', WorkInv', NEW c \in Clients, Hiding(c)'
  PROVE  Visible(X(c))' = Shown(c)'
  BY NextState DEF AllShown

\* and an open directory.
LEMMA OpenNext ==
  ASSUME YfsInv', NEW f \in Dirs', \A c \in Clients : Hiding(c)' => X(c)' # f
  PROVE  Visible(f)' = Contents(f)'
  BY NextState DEF AllOpen

\* What processes see of the tree, when what makes it up is the same.
LEMMA TreeSame ==
  ASSUME Dirs \subseteq Dirs', \A f \in Dirs : Visible(f)' = Visible(f),
         \A f \in Dirs' : f \notin Dirs => Visible(f)' = <<>>,
         \A i \in Inums : i = Root \/ Named(i) =>
           disk'[i].type = disk[i].type /\ (i \notin Dirs => Contents(i)' = Contents(i))
  PROVE  /\ content' = content
         /\ \A i \in Inums : Named(i)' <=> Named(i)
  <1>1. ASSUME NEW i \in Inums PROVE Named(i)' <=> Named(i)
    <2>1. ASSUME NEW f \in Dirs', NEW k \in 1..Len(Visible(f)') PROVE f \in Dirs
      <3>1. CASE f \notin Dirs
        <4>1. Len(Visible(f)') = 0
          BY <3>1
        <4> QED BY <4>1
      <3> QED BY <3>1
    <2>2. Named(i)' => Named(i)
      <3> SUFFICES ASSUME Named(i)' PROVE Named(i)
        OBVIOUS
      <3>1. PICK f \in Dirs' : \E k \in 1..Len(Visible(f)') : Visible(f)'[k].inum = i
        BY DEF Named
      <3>2. PICK k \in 1..Len(Visible(f)') : Visible(f)'[k].inum = i
        BY <3>1
      <3>3. f \in Dirs /\ Visible(f)' = Visible(f)
        BY <2>1, <3>2
      <3> QED BY <3>2, <3>3 DEF Named
    <2>3. Named(i) => Named(i)'
      BY DEF Named
    <2> QED BY <2>2, <2>3
  <1>2. ASSUME NEW i \in Inums, i = Root \/ Named(i)
        PROVE  /\ disk'[i].type = disk[i].type
               /\ (IF i \in Dirs' THEN Visible(i)' ELSE Contents(i)')
                    = (IF i \in Dirs THEN Visible(i) ELSE Contents(i))
    <2>1. disk'[i].type = disk[i].type
      BY <1>2
    <2>2. i \in Dirs' <=> i \in Dirs
      BY <2>1 DEF Dirs
    <2> QED BY <1>2, <2>1, <2>2
  <1>3. content' = content
    BY <1>1, <1>2 DEF content
  <1> QED BY <1>1, <1>3

\* A directory is seen the same when the same of it is hidden.
LEMMA VisibleSame ==
  ASSUME NEW c \in Clients, NEW f, \A d \in Clients \ {c} : call'[d] = call[d],
         Contents(f)' = Contents(f),
         (Hiding(c)' /\ X(c)' = f) <=> (Hiding(c) /\ X(c) = f),
         Hiding(c) /\ X(c) = f => Req(c)' = Req(c)
  PROVE  Visible(f)' = Visible(f)
  <1>1. ASSUME NEW d \in Clients, NEW entry PROVE Hides(d, f, entry)' <=> Hides(d, f, entry)
    <2>1. CASE d = c
      BY <2>1 DEF Hides
    <2>2. CASE d # c
      BY <2>2 DEF Hides, Hiding, X, Req, Op, At
    <2> QED BY <2>1, <2>2
  <1> QED BY <1>1 DEF Visible

\* What the others have seen stays the same.
LEMMA OthersSee ==
  ASSUME YfsInv, NEW c \in Clients, Quiet(c)
  PROVE  \A d \in Clients \ {c} : seen'[d] = seen[d]
  <1> SUFFICES ASSUME NEW d \in Clients \ {c} PROVE seen'[d] = seen[d]
    OBVIOUS
  <1>1. call'[d] = call[d] /\ rpc'[d] = rpc[d]
    BY DEF Quiet
  <1>2. (HasSeen(d)' <=> HasSeen(d)) /\ X(d)' = X(d)
    BY <1>1, SameTask DEF X
  <1>3. PICK x \in Inums : x = X(d)
    BY Parts, CallTyped
  <1>4. HasSeen(d) => extent_map'[d][x].type = extent_map[d][x].type
    BY <1>3, SeenLocked DEF Kept, Quiet
  <1> QED BY <1>1, <1>2, <1>3, <1>4 DEF seen

-----------------------------------------------------------------------------
(* Steps that processes do not see                                         *)

\* A step of c that changes nothing processes see.
Calm(c) ==
  /\ Quiet(c) /\ Work(c)' /\ content' = content
  /\ Op(c)' # "none" => content[X(c)'] # NoEntry
  /\ HasSeen(c) /\ HasSeen(c)' => X(c)' = X(c)

\* seen is a function,
LEMMA SeenFunction == seen = [c \in Clients |-> seen[c]]
  BY DEF seen

\* in the next state too.
LEMMA SeenFunctionNext == seen' = [c \in Clients |-> seen'[c]]
  BY DEF seen

\* Calls are about inodes.
LEMMA TargetNext ==
  ASSUME YfsInv'
  PROVE  \A d \in Clients : X(d)' \in Inums
  <1>1. TypeOK'
    BY DEF YfsInv
  <1> QED BY <1>1 DEF TypeOK, X

\* Every client still works on what it has seen.
LEMMA WorkNext ==
  ASSUME YfsInv, WorkInv, NEW c \in Clients, Quiet(c), Work(c)'
  PROVE  WorkInv'
  <1>1. \A d \in Clients \ {c} : Work(d)'
    BY OthersWork
  <1> QED BY <1>1 DEF WorkInv

\* What has a name keeps it, and so do the targets of all calls.
LEMMA NamedNext ==
  ASSUME FsInv, YfsInv', NEW c \in Clients, Quiet(c),
         \A d \in Clients \ {c} : Op(d) # "none" => content'[X(d)] # NoEntry,
         Op(c)' # "none" => content'[X(c)'] # NoEntry
  PROVE  NamedInv'
  <1>1. \A d \in Clients \ {c} : Op(d)' = Op(d) /\ X(d)' = X(d)
    BY DEF Quiet, Op, X
  <1>2. \A d \in Clients : X(d)' \in Inums
    BY TargetNext
  <1>3. AllNamed'
    BY NextState
  <1>4. \A d \in Clients : Op(d)' # "none" => content'[X(d)'] # NoEntry
    BY <1>1
  <1> QED BY <1>2, <1>3, <1>4 DEF AllNamed, NamedInv

\* Whoever has a target, its name is there.
LEMMA NamedHere ==
  ASSUME YfsInv, NamedInv, NEW d \in Clients, Op(d) # "none"
  PROVE  content[X(d)] # NoEntry
  BY Parts, CallTyped, ContentIs DEF NamedInv

\* A calm step keeps the invariant, and is a look, or forgets, or nothing.
LEMMA CalmStep ==
  ASSUME FsInv, YfsInv', NEW c \in Clients, Calm(c)
  PROVE  FsInv' /\ (Fs!Next \/ UNCHANGED Fs!vars)
  <1>1. WorkInv'
    BY WorkNext DEF Calm, FsInv
  <1>2. NamedInv'
    BY NamedNext, NamedHere DEF Calm, FsInv
  <1>3. TextInv'
    <2> SUFFICES ASSUME NEW i \in Inums, i \notin Dirs', Named(i)'
                 PROVE  Contents(i)' \in Texts
      BY DEF TextInv
    <2>1. content'[i] = content[i] /\ content'[i] # NoEntry
      BY NextState DEF Calm, AllNamed
    <2>2. content'[i].type = disk'[i].type /\ content'[i].data = Contents(i)'
      BY DEF content
    <2>3. content[i].type = disk[i].type /\ (i \notin Dirs => content[i].data = Contents(i))
      BY <2>1 DEF content
    <2>4. i \notin Dirs
      BY <2>1, <2>2, <2>3 DEF Dirs
    <2>5. i # Root
      BY <2>4, InumsAssumption, Parts DEF TargetInv, Dirs, FsInv
    <2>6. Named(i)
      BY <2>1, <2>5, ContentIs DEF FsInv
    <2> QED BY <2>1, <2>2, <2>3, <2>4, <2>6 DEF FsInv, TextInv
  <1>4. AllSeen /\ AllSeen'
    BY <1>1, <1>2, AllSeenIs, NextState DEF FsInv
  <1>5. \A d \in Clients \ {c} : seen'[d] = seen[d]
    BY OthersSee DEF Calm, FsInv
  <1>6. content' = content
    BY DEF Calm
  <1>7. CASE HasSeen(c)' <=> HasSeen(c)
    <2>1. seen'[c] = seen[c]
      BY <1>4, <1>6, <1>7 DEF AllSeen, Calm
    <2>2. seen' = seen
      BY <1>5, <2>1, SeenFunction, SeenFunctionNext
    <2> QED BY <1>1, <1>2, <1>3, <1>6, <2>2 DEF FsInv, Fs!vars
  <1>8. CASE HasSeen(c) /\ ~HasSeen(c)'
    <2>1. seen[c] # NoEntry /\ seen'[c] = NoEntry
      BY <1>4, <1>8 DEF AllSeen
    <2>2. seen' = [seen EXCEPT ![c] = NoEntry]
      BY <1>5, <2>1, SeenFunction, SeenFunctionNext
    <2>3. Fs!Forget(c) /\ seen'[c] # seen[c]
      BY <1>6, <2>1, <2>2 DEF Fs!Forget
    <2> QED BY <1>1, <1>2, <1>3, <2>3 DEF FsInv, Fs!Next
  <1>9. CASE ~HasSeen(c) /\ HasSeen(c)'
    <2>1. PICK x \in Inums : x = X(c)'
      BY TargetNext
    <2>2. seen[c] = NoEntry /\ seen'[c] = <<x, content[x]>> /\ seen'[c] # NoEntry
      BY <1>4, <1>6, <1>9, <2>1 DEF AllSeen
    <2>3. content[x] # NoEntry
      <3>1. X(c)' = Root \/ Named(X(c))'
        <4>1. Op(c)' # "none"
          BY <1>4, <1>9 DEF AllSeen
        <4> QED BY <1>2, <4>1 DEF NamedInv
      <3> QED BY <1>6, <2>1, <3>1, NextState DEF AllNamed
    <2>4. seen' = [seen EXCEPT ![c] = <<x, content[x]>>]
      BY <1>5, <2>2, SeenFunction, SeenFunctionNext
    <2>5. Fs!Look(c, x) /\ seen'[c] # seen[c]
      BY <1>6, <2>2, <2>3, <2>4 DEF Fs!Look
    <2> QED BY <1>1, <1>2, <1>3, <2>5 DEF FsInv, Fs!Next
  <1> QED BY <1>7, <1>8, <1>9

\* A step that changes no contents and hides what was hidden before.
LEMMA CalmIf ==
  ASSUME FsInv, YfsInv', NEW c \in Clients, Quiet(c), Work(c)',
         \A f \in Inums : Contents(f)' = Contents(f) /\ disk'[f].type = disk[f].type,
         Hiding(c)' <=> Hiding(c), Hiding(c) => X(c)' = X(c) /\ Req(c)' = Req(c),
         Op(c)' # "none" => (Op(c) # "none" /\ X(c)' = X(c)) \/ content[X(c)'] # NoEntry,
         HasSeen(c) /\ HasSeen(c)' => X(c)' = X(c)
  PROVE  Calm(c)
  <1>1. Dirs' = Dirs
    BY DEF Dirs
  <1>2. \A f \in Dirs : Visible(f)' = Visible(f)
    <2>1. \A d \in Clients \ {c} : call'[d] = call[d]
      BY DEF Quiet
    <2> QED BY <2>1, VisibleSame DEF Dirs
  <1>3. content' = content
    BY <1>1, <1>2, TreeSame
  <1>4. Op(c) # "none" => content[X(c)] # NoEntry
    BY NamedHere DEF FsInv
  <1> QED BY <1>3, <1>4 DEF Calm

\* The same, while c goes on with its call.
LEMMA CalmOn ==
  ASSUME FsInv, YfsInv', NEW c \in Clients, Quiet(c), Work(c)',
         \A f \in Inums : Contents(f)' = Contents(f) /\ disk'[f].type = disk[f].type,
         Op(c)' = Op(c), X(c)' = X(c), Req(c)' = Req(c), Op(c) # "none",
         Hiding(c)' <=> Hiding(c)
  PROVE  FsInv' /\ (Fs!Next \/ UNCHANGED Fs!vars)
  BY CalmIf, CalmStep

\* What others keep, c has neither locked nor claimed.
LEMMA KeptNot ==
  ASSUME YfsInv, NEW c \in Clients, NEW e \in Inums, e \in held[c], e = X(c) \/ Claims(c, e)
  PROVE  \A d \in Clients \ {c} : ~Kept(d, e)
  <1> SUFFICES ASSUME NEW d \in Clients \ {c}, Kept(d, e) PROVE FALSE
    OBVIOUS
  <1>1. e \notin held[d]
    BY Parts DEF LockInv
  <1>2. Making(d) /\ e = NewInum(d)
    BY <1>1 DEF Kept
  <1>3. e # X(c)
    BY <1>2, Parts DEF ClaimInv
  <1>4. Claims(d, e)
    BY <1>2 DEF Claims
  <1> QED BY <1>3, <1>4, ClaimsApart

\* A step of c that touches nothing but e.
LEMMA QuietIf ==
  ASSUME YfsInv, NEW c \in Clients, NEW e \in Inums,
         \A d \in Clients \ {c} : call'[d] = call[d] /\ rpc'[d] = rpc[d],
         \A d \in Clients \ {c} : ~Kept(d, e),
         \A f \in Inums \ {e} : Contents(f)' = Contents(f) /\ disk'[f].type = disk[f].type,
         \A d \in Clients \ {c}, f \in Inums \ {e} : extent_map'[d][f] = extent_map[d][f]
  PROVE  Quiet(c)
  BY DEF Quiet

\* A step of c that changes nothing others have.
LEMMA QuietAll ==
  ASSUME NEW c \in Clients,
         \A d \in Clients \ {c} : call'[d] = call[d] /\ rpc'[d] = rpc[d],
         \A f \in Inums : Contents(f)' = Contents(f) /\ disk'[f].type = disk[f].type,
         \A d \in Clients \ {c}, f \in Inums : extent_map'[d][f] = extent_map[d][f]
  PROVE  Quiet(c)
  BY DEF Quiet

\* A step of c that leaves caches and server alone.
LEMMA QuietCache ==
  ASSUME YfsInv, NEW c \in Clients, \A d \in Clients \ {c} : call'[d] = call[d],
         cacheVars' = cacheVars
  PROVE  /\ Quiet(c)
         /\ \A f \in Inums : Contents(f)' = Contents(f) /\ disk'[f].type = disk[f].type
         /\ extent_map' = extent_map /\ disk' = disk /\ rpc' = rpc
  BY CacheSame, QuietAll

\* A call that has seen nothing, changes nothing and makes nothing.
LEMMA WorkIdle ==
  ASSUME NEW c \in Clients, ~HasSeen(c)', ~Landed(c)', ~Making(c)'
  PROVE  Work(c)'
  BY DEF Work

\* A call that still has seen the same.
LEMMA WorkKept ==
  ASSUME WorkInv, NEW c \in Clients, HasSeen(c), X(c)' = X(c),
         extent_map'[c][X(c)].type = extent_map[c][X(c)].type,
         disk'[X(c)].type = disk[X(c)].type, ~Landed(c)', ~Making(c)'
  PROVE  Work(c)'
  BY DEF WorkInv, Work

-----------------------------------------------------------------------------
(* Steps that leave caches and server alone                                *)

\* The inode of a call is locked.
LEMMA LockFs ==
  ASSUME FsInv, YfsInv', NEW c \in Clients, Lock(c)
  PROVE  FsInv' /\ (Fs!Next \/ UNCHANGED Fs!vars)
  <1>1. YfsInv /\ WorkInv /\ "read" \in DOMAIN OpsAt
    BY Points DEF FsInv
  <1>2. At(c, "lock") /\ cacheVars' = cacheVars /\ GoTo(c, "read")
    BY DEF Lock
  <1>3. /\ call'[c].at = "read" /\ SameWork(c)
        /\ \A d \in Clients \ {c} : call'[d] = call[d]
    BY <1>1, <1>2, Parts, GoToIs
  <1>4. /\ Quiet(c)
        /\ \A f \in Inums : Contents(f)' = Contents(f) /\ disk'[f].type = disk[f].type
    BY <1>1, <1>2, <1>3, QuietCache
  <1>5. ~HasSeen(c)' /\ ~Landed(c)' /\ ~Making(c)'
    BY <1>3 DEF HasSeen, Landed, Making, PutPending, At
  <1>6. ~Hiding(c) /\ ~Hiding(c)' /\ Op(c) # "none"
    BY <1>1, <1>2, <1>3, Parts, OpIs DEF Hiding, At, FileOps
  <1> QED BY <1>3, <1>4, <1>5, <1>6, WorkIdle, CalmOn DEF SameWork

\* The new symbolic link is locked.
LEMMA LockLinkFs ==
  ASSUME FsInv, YfsInv', NEW c \in Clients, LockLink(c)
  PROVE  FsInv' /\ (Fs!Next \/ UNCHANGED Fs!vars)
  <1>1. YfsInv /\ WorkInv /\ "fill" \in DOMAIN OpsAt
    BY Points DEF FsInv
  <1>2. At(c, "link") /\ cacheVars' = cacheVars /\ GoTo(c, "fill")
    BY DEF LockLink
  <1>3. /\ call'[c].at = "fill" /\ SameWork(c) /\ NewContents(c)' = NewContents(c)
        /\ \A d \in Clients \ {c} : call'[d] = call[d]
    BY <1>1, <1>2, Parts, GoToIs
  <1>4. /\ Quiet(c) /\ extent_map' = extent_map /\ disk' = disk
        /\ \A f \in Inums : Contents(f)' = Contents(f) /\ disk'[f].type = disk[f].type
    BY <1>1, <1>2, <1>3, QuietCache
  <1>5. Op(c) = "symlink" /\ X(c) \in Inums
    BY <1>1, <1>2, Parts, OpIs, CallTyped DEF At
  <1>6. HasSeen(c) /\ Landed(c) /\ Hiding(c) /\ Hiding(c)' /\ ~Making(c)'
    BY <1>2, <1>3, <1>5 DEF HasSeen, Landed, Hiding, Making, PutPending, At, SameWork
  <1>7. Work(c)'
    BY <1>1, <1>3, <1>4, <1>5, <1>6 DEF WorkInv, Work, SameWork
  <1> QED BY <1>3, <1>4, <1>5, <1>6, <1>7, CalmOn DEF SameWork

\* unlink locks what it has found.
LEMMA LockEntryFs ==
  ASSUME FsInv, YfsInv', NEW c \in Clients, LockEntry(c)
  PROVE  FsInv' /\ (Fs!Next \/ UNCHANGED Fs!vars)
  <1>1. YfsInv /\ WorkInv /\ "remove" \in DOMAIN OpsAt
    BY Points DEF FsInv
  <1>2. /\ At(c, "got") /\ Op(c) = "unlink" /\ Found(c) /\ cacheVars' = cacheVars
        /\ Set(c, [call[c] EXCEPT !.at = "remove", !.ino = FoundInum(c)])
    BY DEF LockEntry
  <1>3. FoundInum(c) \in Inums
    <2>1. X(c) \in Dirs /\ Holding(c)
      BY <1>1, <1>2, TargetIsDir DEF Holding, At
    <2> QED BY <1>1, <1>2, <2>1, DirBuf, FoundIs
  <1>4. /\ call'[c].at = "remove" /\ SameWork(c)
        /\ \A d \in Clients \ {c} : call'[d] = call[d]
    BY <1>1, <1>2, <1>3, Parts, InoTo
  <1>5. /\ Quiet(c) /\ extent_map' = extent_map /\ disk' = disk
        /\ \A f \in Inums : Contents(f)' = Contents(f) /\ disk'[f].type = disk[f].type
    BY <1>1, <1>2, <1>4, QuietCache
  <1>6. HasSeen(c) /\ ~Landed(c)' /\ ~Making(c)' /\ ~Hiding(c) /\ ~Hiding(c)'
    BY <1>2, <1>4 DEF HasSeen, Landed, Hiding, Making, PutPending, At, SameWork, Makers
  <1>7. Work(c)'
    BY <1>1, <1>4, <1>5, <1>6, WorkKept DEF SameWork
  <1> QED BY <1>2, <1>4, <1>5, <1>6, <1>7, CalmOn DEF SameWork

\* A link with its text, or what has been removed, is unlocked.
LEMMA UnlockEntryFs ==
  ASSUME FsInv, YfsInv', NEW c \in Clients, UnlockEntry(c)
  PROVE  FsInv' /\ (Fs!Next \/ UNCHANGED Fs!vars)
  <1>1. YfsInv /\ WorkInv /\ "put" \in DOMAIN OpsAt /\ "unlock" \in DOMAIN OpsAt
    BY Points DEF FsInv
  <1>2. /\ At(c, "removed") \/ At(c, "filled")
        /\ cacheVars' = cacheVars
        /\ GoTo(c, IF At(c, "removed") THEN "put" ELSE "unlock")
    BY DEF UnlockEntry
  <1>3. /\ call'[c].at = (IF At(c, "removed") THEN "put" ELSE "unlock") /\ SameWork(c)
        /\ \A d \in Clients \ {c} : call'[d] = call[d]
    BY <1>1, <1>2, Parts, GoToIs
  <1>4. /\ Quiet(c) /\ rpc' = rpc
        /\ \A f \in Inums : Contents(f)' = Contents(f) /\ disk'[f].type = disk[f].type
    BY <1>1, <1>2, <1>3, QuietCache
  <1>5. Op(c) \in {"unlink", "symlink"} /\ (At(c, "removed") => Op(c) = "unlink")
        /\ (At(c, "filled") => Op(c) = "symlink")
    BY <1>1, <1>2, Parts, OpIs DEF At
  <1>6. rpc[c].at = "none"
    BY <1>1, <1>2, Parts, RpcAt, NoneIsNoCall DEF At
  <1>7. ~HasSeen(c)' /\ ~Landed(c)' /\ ~Making(c)'
    BY <1>2, <1>3, <1>4, <1>5, <1>6 DEF HasSeen, Landed, Making, PutPending, At, SameWork, Makers
  <1>8. Hiding(c)' <=> Hiding(c)
    BY <1>2, <1>3, <1>5 DEF Hiding, At, SameWork
  <1> QED BY <1>3, <1>4, <1>5, <1>7, <1>8, WorkIdle, CalmOn DEF SameWork

\* A client starts.
LEMMA JoinFs ==
  ASSUME FsInv, YfsInv', NEW c \in Clients, Join(c)
  PROVE  FsInv' /\ (Fs!Next \/ UNCHANGED Fs!vars)
  <1>1. YfsInv /\ WorkInv
    BY DEF FsInv
  <1> DEFINE new == [Idle EXCEPT !.op = "join", !.at = "put"]
  <1>2. At(c, "out") /\ cacheVars' = cacheVars /\ call' = [call EXCEPT ![c] = new]
    BY DEF Join, Set
  <1>3. new.op = "join" /\ new.at = "put" /\ new.x = Root
    BY DEF Idle
  <1>4. call'[c] = new /\ \A d \in Clients \ {c} : call'[d] = call[d]
    BY <1>1, <1>2, Parts DEF TypeOK
  <1>5. /\ Quiet(c)
        /\ \A f \in Inums : Contents(f)' = Contents(f) /\ disk'[f].type = disk[f].type
    BY <1>1, <1>2, <1>4, QuietCache
  <1>6. Op(c)' = "join" /\ At(c, "put")' /\ X(c)' = Root
    BY <1>3, <1>4 DEF Op, At, X
  <1>7. ~HasSeen(c)' /\ ~Landed(c)' /\ ~Making(c)' /\ ~Hiding(c)'
    BY <1>6 DEF HasSeen, Landed, Making, Makers, Hiding
  <1>8. ~Hiding(c)
    BY <1>2 DEF Hiding, At
  <1>9. content[X(c)'] # NoEntry
    BY <1>1, <1>6, InumsAssumption, ContentIs
  <1> QED BY <1>5, <1>7, <1>8, <1>9, WorkIdle, CalmIf, CalmStep

\* A call that starts is about an inode that has a name.
LEMMA BeginFs ==
  ASSUME FsInv, YfsInv', NEW c \in Clients, NEW new \in CallRec, Set(c, new),
         cacheVars' = cacheVars, call[c].at \in {"user", "got", "unlock"},
         \/ new.op = "none" /\ new.at = "user"
         \/ new.at = "lock" /\ (new.x = Root \/ Named(new.x))
  PROVE  FsInv' /\ (Fs!Next \/ UNCHANGED Fs!vars)
  <1>1. YfsInv /\ WorkInv
    BY DEF FsInv
  <1>2. call'[c] = new /\ \A d \in Clients \ {c} : call'[d] = call[d]
    BY <1>1, Parts, SetIs
  <1>3. /\ Quiet(c)
        /\ \A f \in Inums : Contents(f)' = Contents(f) /\ disk'[f].type = disk[f].type
    BY <1>1, <1>2, QuietCache
  <1>4. ~HasSeen(c)' /\ ~Landed(c)' /\ ~Making(c)' /\ ~Hiding(c)'
    BY <1>2 DEF HasSeen, Landed, Making, PutPending, Hiding, At, Op
  <1>5. ~Hiding(c)
    BY DEF Hiding
  <1>6. Op(c)' # "none" => content[X(c)'] # NoEntry
    <2>1. new.x \in Inums
      BY CallChange
    <2> QED BY <1>1, <1>2, <2>1, ContentIs DEF Op, X
  <1> QED BY <1>3, <1>4, <1>5, <1>6, WorkIdle, CalmIf, CalmStep

\* A request arrives.
LEMMA StartFs ==
  ASSUME FsInv, YfsInv', NEW c \in Clients, Start(c)
  PROVE  FsInv' /\ (Fs!Next \/ UNCHANGED Fs!vars)
  <1>1. YfsInv /\ cacheVars' = cacheVars /\ call[c].at = "user"
    BY DEF FsInv, Start, At
  <1>2. PICK req \in Requests[c], i \in Inums :
          /\ i = Root \/ Named(i)
          /\ Set(c, [Idle EXCEPT !.op = req.op, !.at = "lock", !.x = i, !.req = req,
                                 !.looks = IF req.op = "look" THEN req.looks ELSE 1])
    BY DEF Start
  <1> DEFINE new == [Idle EXCEPT !.op = req.op, !.at = "lock", !.x = i, !.req = req,
                                 !.looks = IF req.op = "look" THEN req.looks ELSE 1]
  <1>3. new.at = "lock" /\ new.x = i
    BY DEF Idle
  <1>4. new \in CallRec
    <2>1. req \in Request
      BY RequestsAssumption
    <2>2. req.op \in FileOps /\ (req.op = "look" => req.looks \in Nat)
      BY <2>1 DEF Request, FileOps
    <2>3. "lock" \in DOMAIN OpsAt /\ <<>> \in Data /\ Root \in Inums
      BY Points, EmptyData, InumsAssumption
    <2> QED BY <2>1, <2>2, <2>3 DEF CallRec, Idle
  <1> HIDE DEF new
  <1>5. Set(c, new)
    BY <1>2 DEF new
  <1> QED BY <1>1, <1>2, <1>3, <1>4, <1>5, BeginFs

\* What follows a call is about an inode that has a name.
LEMMA UnlockFs ==
  ASSUME FsInv, YfsInv', NEW c \in Clients, Unlock(c)
  PROVE  FsInv' /\ (Fs!Next \/ UNCHANGED Fs!vars)
  <1>1. /\ YfsInv /\ WorkInv /\ NamedInv /\ cacheVars' = cacheVars /\ Set(c, AfterUnlock(c))
        /\ At(c, "unlock") \/ (At(c, "got") /\ NothingToDo(c))
    BY DEF FsInv, Unlock
  <1>2. call[c].at \in {"got", "unlock"} /\ Op(c) \in FileOps /\ X(c) \in Inums
    BY <1>1, Parts, OpIs, CallTyped DEF At
  <1>3. X(c) = Root \/ Named(X(c))
    BY <1>1, <1>2 DEF NamedInv, FileOps
  <1>4. X(c) \in held[c] /\ ~Hiding(c)
    BY <1>1, <1>2, Parts, HeldIs DEF Hiding
  <1>5. X(c) \in Dirs => Visible(X(c)) = Contents(X(c))
    BY <1>1, <1>4, OneHider, VisibleOpen
  <1>6. ASSUME NEW i \in Inums, NEW n, AfterUnlock(c) = LookAt(i, n), i = Root \/ Named(i),
               AfterUnlock(c) \in CallRec
        PROVE  FsInv' /\ (Fs!Next \/ UNCHANGED Fs!vars)
    <2>1. AfterUnlock(c).at = "lock" /\ AfterUnlock(c).x = i
      BY <1>6 DEF LookAt, Idle
    <2> QED BY <1>1, <1>2, <1>6, <2>1, BeginFs
  <1>7. CASE Op(c) = "look" /\ call[c].looks > 1
    <2>1. AfterUnlock(c) = LookAt(X(c), call[c].looks - 1)
      BY <1>7 DEF AfterUnlock
    <2>2. call[c].looks - 1 \in Nat
      BY <1>1, <1>7, Parts, CallTyped
    <2> QED BY <1>2, <1>3, <1>6, <2>1, <2>2, LookAtIs
  <1>8. CASE Op(c) = "lookup" /\ LookupFound(c)
    <2>1. AfterUnlock(c) = LookAt(FoundInum(c), 2)
      BY <1>8 DEF AfterUnlock
    <2>2. At(c, "got") /\ X(c) \in Dirs /\ Holding(c)
      BY <1>1, <1>2, <1>8, TargetIsDir, Parts, OpIs DEF At, Holding
    <2>3. Contents(X(c)) = call[c].buf /\ call[c].buf \in Seq(Entries)
      BY <1>1, <2>2, DirBuf
    <2>4. Position(c) \in 1..Len(call[c].buf) /\ FoundInum(c) \in Inums
      BY <1>8, <2>3, FoundIs DEF LookupFound
    <2>5. Named(FoundInum(c))
      BY <1>5, <2>2, <2>3, <2>4 DEF Named, FoundInum
    <2> QED BY <1>6, <2>1, <2>4, <2>5, LookAtIs
  <1>9. CASE Op(c) \in {"create", "symlink"} /\ At(c, "unlock")
    <2>1. AfterUnlock(c) = LookAt(call[c].ino, 2)
      BY <1>9 DEF AfterUnlock
    <2>2. Made(c)
      BY <1>9 DEF Made, Makers, At
    <2>3. PICK k \in 1..Len(Contents(X(c))) :
            Contents(X(c))[k] = [name |-> Req(c).name, inum |-> call[c].ino]
      BY <1>1, <2>2, Parts DEF ClaimInv
    <2>4. X(c) \in Dirs /\ call[c].ino \in Inums
      BY <1>1, <1>9, TargetIsDir, Parts, CallTyped
    <2>5. Named(call[c].ino)
      BY <1>5, <2>3, <2>4 DEF Named
    <2> QED BY <1>6, <2>1, <2>4, <2>5, LookAtIs
  <1>10. CASE Op(c) = "setattr"
    <2>1. AfterUnlock(c) = LookAt(X(c), 2)
      BY <1>10 DEF AfterUnlock
    <2> QED BY <1>2, <1>3, <1>6, <2>1, LookAtIs
  <1>11. CASE AfterUnlock(c) = Idle
    <2>1. AfterUnlock(c).op = "none" /\ AfterUnlock(c).at = "user" /\ AfterUnlock(c) \in CallRec
      BY <1>11, IdleIs
    <2> QED BY <1>1, <1>2, <2>1, BeginFs
  <1>12. \/ Op(c) = "look" /\ call[c].looks > 1
         \/ Op(c) = "lookup" /\ LookupFound(c)
         \/ Op(c) \in {"create", "symlink"} /\ At(c, "unlock")
         \/ Op(c) = "setattr"
         \/ AfterUnlock(c) = Idle
    BY DEF AfterUnlock
  <1> QED BY <1>7, <1>8, <1>9, <1>10, <1>11, <1>12

-----------------------------------------------------------------------------
(* Calls to the server begin and return                                    *)

\* A step that shows processes the same of c's directory.
LEMMA CalmShown ==
  ASSUME FsInv, YfsInv', NEW c \in Clients, Quiet(c), Work(c)',
         \A f \in Inums : disk'[f].type = disk[f].type,
         \A f \in Inums \ {X(c)} : Contents(f)' = Contents(f),
         X(c) \in Dirs, Visible(X(c))' = Visible(X(c)),
         Op(c)' = Op(c), X(c)' = X(c), Op(c) # "none"
  PROVE  FsInv' /\ (Fs!Next \/ UNCHANGED Fs!vars)
  <1>1. Dirs' = Dirs
    BY DEF Dirs
  <1>2. \A f \in Dirs : Visible(f)' = Visible(f)
    <2>1. \A d \in Clients \ {c} : call'[d] = call[d]
      BY DEF Quiet
    <2>2. ASSUME NEW f \in Dirs, f # X(c) PROVE Visible(f)' = Visible(f)
      <3>1. Contents(f)' = Contents(f)
        BY <2>2 DEF Dirs
      <3> QED BY <2>1, <2>2, <3>1, VisibleSame
    <2> QED BY <2>2
  <1>3. content' = content
    BY <1>1, <1>2, TreeSame
  <1>4. content[X(c)] # NoEntry
    BY NamedHere DEF FsInv
  <1>5. Calm(c)
    BY <1>3, <1>4 DEF Calm
  <1> QED BY <1>5, CalmStep

\* A copy in the cache is looked at, a file pulled.
LEMMA ReadFs ==
  ASSUME FsInv, YfsInv', NEW c \in Clients, Read(c)
  PROVE  FsInv' /\ (Fs!Next \/ UNCHANGED Fs!vars)
  <1>1. /\ YfsInv /\ WorkInv /\ call[c].at = "read" /\ rpc[c] = NoCall /\ X(c) \in Inums
        /\ "got" \in DOMAIN OpsAt
    BY Points, Parts, CallTyped DEF FsInv, Read, At
  <1>2. /\ Op(c) \in FileOps /\ held[c] = {X(c)} /\ Op(c) # "none" /\ Op(c) # "join"
    BY <1>1, Parts, OpIs, HeldIs DEF FileOps
  <1>3. \A d \in Clients : ~Busy(d, X(c))
    BY <1>1, <1>2, HeldNotBusy
  <1>4. disk[X(c)].type # NoType /\ ~Hiding(c)
    BY <1>1, <1>2, Parts DEF TargetInv, Hiding
  <1>5. CASE /\ Cached(c, X(c))
             /\ Set(c, [call[c] EXCEPT !.at = "got", !.buf = extent_map[c][X(c)].data])
             /\ UNCHANGED cacheVars
    <2>1. PICK buf \in Data : buf = extent_map[c][X(c)].data
      <3>1. extent_map[c][X(c)] \in Copies
        BY <1>1, <1>5, Parts, Typed
      <3> QED BY <3>1 DEF Copies
    <2>2. Set(c, [call[c] EXCEPT !.at = "got", !.buf = buf])
      BY <1>5, <2>1
    <2>3. /\ call'[c].at = "got" /\ Op(c)' = Op(c) /\ X(c)' = X(c) /\ Req(c)' = Req(c)
          /\ \A d \in Clients \ {c} : call'[d] = call[d]
      BY <1>1, <2>2, Parts, BufTo
    <2>4. /\ Quiet(c) /\ extent_map' = extent_map /\ disk' = disk
          /\ \A f \in Inums : Contents(f)' = Contents(f) /\ disk'[f].type = disk[f].type
      <3>1. cacheVars' = cacheVars
        BY <1>5
      <3> QED BY <1>1, <2>3, <3>1, QuietCache
    <2>5. extent_map[c][X(c)].type = disk[X(c)].type
      BY <1>1, <1>3, <1>5, Parts, ContentsSettled
    <2>6. ~Landed(c)' /\ ~Making(c)' /\ ~Hiding(c)'
      BY <2>3 DEF Landed, Making, PutPending, Hiding, At
    <2>7. Work(c)'
      BY <2>3, <2>4, <2>5, <2>6 DEF Work
    <2> QED BY <1>2, <1>4, <2>3, <2>4, <2>6, <2>7, CalmOn
  <1>6. CASE Pull(c, X(c)) /\ UNCHANGED call
    <2>1. extent_map' = extent_map /\ Call(c, "get", X(c), <<>>, NoType)
      BY <1>6 DEF Pull
    <2>2. disk' = disk /\ \A d \in Clients \ {c} : rpc'[d] = rpc[d]
      BY <1>1, <2>1 DEF Call
    <2>3. \A f \in Inums : Contents(f)' = Contents(f)
      <3>1. PICK e \in Inums : e = X(c)
        BY <1>1
      <3> QED BY <1>1, <1>3, <1>4, <1>6, <3>1, Parts, PullStep
    <2>4. Quiet(c)
      BY <1>6, <2>1, <2>2, <2>3, QuietAll
    <2>5. ~HasSeen(c)' /\ ~Landed(c)' /\ ~Making(c)' /\ ~Hiding(c)'
      BY <1>1, <1>6 DEF HasSeen, Landed, Making, PutPending, Hiding, At
    <2>6. Op(c)' = Op(c) /\ X(c)' = X(c) /\ Req(c)' = Req(c)
      BY <1>6 DEF Op, X, Req
    <2> QED BY <1>2, <1>4, <2>2, <2>3, <2>4, <2>5, <2>6, WorkIdle, CalmOn
  <1> QED BY <1>5, <1>6 DEF Read

\* An inode is asked for.
LEMMA MakeFs ==
  ASSUME FsInv, YfsInv', NEW c \in Clients, Make(c)
  PROVE  FsInv' /\ (Fs!Next \/ UNCHANGED Fs!vars)
  <1>1. /\ YfsInv /\ WorkInv /\ call[c].at = "got" /\ Op(c) \in Makers
        /\ CallCreate(c, Req(c).type) /\ GoTo(c, "make") /\ "make" \in DOMAIN OpsAt
    BY Points DEF FsInv, Make, At, Makers
  <1>2. /\ call'[c].at = "make" /\ SameWork(c)
        /\ \A d \in Clients \ {c} : call'[d] = call[d]
    BY <1>1, Parts, GoToIs
  <1>3. /\ extent_map' = extent_map /\ disk' = disk /\ rpc'[c].at = "request"
        /\ \A d \in Clients \ {c} : rpc'[d] = rpc[d]
    <2>1. PICK type : type = Req(c).type
      OBVIOUS
    <2>2. extent_map' = extent_map /\ Call(c, "create", Root, <<>>, type)
      BY <1>1, <2>1 DEF CallCreate
    <2>3. TypeOK /\ Root \in Inums
      BY <1>1, Parts, InumsAssumption
    <2> QED BY <2>2, <2>3, CallIs
  <1>4. \A f \in Inums : Contents(f)' = Contents(f)
    BY <1>1, Parts, CallCreateStep
  <1>5. Quiet(c)
    BY <1>2, <1>3, <1>4, QuietAll
  <1>6. /\ HasSeen(c) /\ ~Landed(c)' /\ ~Making(c)' /\ ~Hiding(c) /\ ~Hiding(c)'
        /\ Op(c) # "none"
    BY <1>1, <1>2, <1>3 DEF HasSeen, Landed, Making, Makers, PutPending, Hiding, At
  <1>7. Work(c)'
    BY <1>1, <1>2, <1>3, <1>6, WorkKept DEF SameWork
  <1> QED BY <1>2, <1>3, <1>4, <1>5, <1>6, <1>7, CalmOn DEF SameWork

\* What a return changes.
LEMMA ReturnQuiet ==
  ASSUME YfsInv, NEW c \in Clients, NEW e \in Inums, e = rpc[c].eid, Return(c),
         call' \in [Clients -> CallRec], \A d \in Clients \ {c} : call'[d] = call[d], held' = held
  PROVE  /\ Quiet(c)
         /\ rpc[c].at = "reply" /\ rpc[c].op \in {"get", "put", "remove", "create"}
         /\ \A f \in Inums : Contents(f)' = Contents(f) /\ disk'[f].type = disk[f].type
         /\ rpc'[c].at = "none" /\ disk' = disk
         /\ extent_map'[c][e] = ReturnedEntry(c)
         /\ \A f \in Inums \ {e} : extent_map'[c][f] = extent_map[c][f]
  <1>1. /\ rpc[c].at = "reply" /\ rpc[c].op \in {"get", "put", "remove", "create"}
        /\ \A f \in Inums : Contents(f)' = Contents(f)
        /\ disk' = disk /\ rpc'[c].at = "none"
        /\ \A d \in Clients \ {c} : rpc'[d] = rpc[d]
        /\ extent_map'[c][e] = ReturnedEntry(c)
        /\ \A f \in Inums \ {e} : extent_map'[c][f] = extent_map[c][f]
        /\ \A d \in Clients \ {c} : extent_map'[d] = extent_map[d]
    BY ReturnFacts
  <1>2. Quiet(c)
    BY <1>1, QuietAll
  <1> QED BY <1>1, <1>2

\* A copy that comes from the server has the type of the file.
LEMMA ReturnedType ==
  ASSUME YfsInv, NEW c \in Clients, NEW e \in Inums, e = rpc[c].eid,
         rpc[c].at = "reply", rpc[c].op \in {"get", "put"}
  PROVE  ReturnedEntry(c).type = disk[e].type
  <1>1. CallInv(c)
    BY Parts DEF CacheInv
  <1>2. rpc[c].type = disk[e].type
    BY <1>1 DEF CallInv, GetInv, PutInv
  <1> QED BY <1>2 DEF ReturnedEntry, Entry

\* A pull returns: c looks at the file.
LEMMA GotFs ==
  ASSUME FsInv, YfsInv', NEW c \in Clients, Returned(c), At(c, "read")
  PROVE  FsInv' /\ (Fs!Next \/ UNCHANGED Fs!vars)
  <1>1. YfsInv /\ WorkInv
    BY DEF FsInv
  <1>2. PICK e \in Inums : e = rpc[c].eid
    BY <1>1, Parts, Typed, InumsAssumption
  <1>3. PICK data \in Data : data = rpc[c].data
    BY <1>1, Parts, Typed, InumsAssumption
  <1>4. Set(c, [call[c] EXCEPT !.at = "got", !.buf = data]) /\ "got" \in DOMAIN OpsAt
    BY <1>3, Points DEF Returned, At
  <1>5. /\ call' \in [Clients -> CallRec] /\ call'[c].at = "got"
        /\ Op(c)' = Op(c) /\ X(c)' = X(c) /\ Req(c)' = Req(c)
        /\ \A d \in Clients \ {c} : call'[d] = call[d]
    BY <1>1, <1>4, Parts, BufTo
  <1>6. Return(c) /\ held' = held
    BY DEF Returned
  <1>7. /\ Quiet(c)
        /\ rpc[c].at = "reply" /\ rpc[c].op \in {"get", "put", "remove", "create"}
        /\ \A f \in Inums : Contents(f)' = Contents(f) /\ disk'[f].type = disk[f].type
        /\ disk' = disk /\ extent_map'[c][e] = ReturnedEntry(c)
    BY <1>1, <1>2, <1>5, <1>6, ReturnQuiet
  <1>8. rpc[c].op = "get" /\ e = X(c) /\ Op(c) \in FileOps
    BY <1>1, <1>2, <1>7, Parts, RpcAt, OpIs DEF At
  <1>9. extent_map'[c][e].type = disk[e].type
    BY <1>1, <1>2, <1>7, <1>8, ReturnedType
  <1>10. ~Landed(c)' /\ ~Making(c)' /\ ~Hiding(c) /\ ~Hiding(c)'
    BY <1>5 DEF Landed, Making, PutPending, Hiding, At
  <1>11. Work(c)'
    BY <1>5, <1>7, <1>8, <1>9, <1>10 DEF Work
  <1> QED BY <1>5, <1>7, <1>8, <1>10, <1>11, CalmOn DEF FileOps

\* The removal of an inode returns.
LEMMA RemovedFs ==
  ASSUME FsInv, YfsInv', NEW c \in Clients, Returned(c), At(c, "removing")
  PROVE  FsInv' /\ (Fs!Next \/ UNCHANGED Fs!vars)
  <1>1. YfsInv /\ WorkInv
    BY DEF FsInv
  <1>2. PICK e \in Inums : e = rpc[c].eid
    BY <1>1, Parts, Typed, InumsAssumption
  <1>3. GoTo(c, "removed") /\ "removed" \in DOMAIN OpsAt
    BY Points DEF Returned, At, Set, GoTo
  <1>4. /\ call' \in [Clients -> CallRec] /\ call'[c].at = "removed" /\ SameWork(c)
        /\ \A d \in Clients \ {c} : call'[d] = call[d]
    BY <1>1, <1>3, Parts, GoToIs
  <1>5. Return(c) /\ held' = held
    BY DEF Returned
  <1>6. /\ Quiet(c)
        /\ \A f \in Inums : Contents(f)' = Contents(f) /\ disk'[f].type = disk[f].type
    BY <1>1, <1>2, <1>4, <1>5, ReturnQuiet
  <1>7. Op(c) = "unlink"
    BY <1>1, Parts, OpIs DEF At
  <1>8. ~HasSeen(c)' /\ ~Landed(c)' /\ ~Making(c)' /\ Hiding(c) /\ Hiding(c)'
    BY <1>4, <1>7 DEF HasSeen, Landed, Making, PutPending, Hiding, At, SameWork
  <1> QED BY <1>4, <1>6, <1>7, <1>8, WorkIdle, CalmOn DEF SameWork

\* A new inode returns, empty.
LEMMA CreatedFs ==
  ASSUME FsInv, YfsInv', NEW c \in Clients, Returned(c), At(c, "make")
  PROVE  FsInv' /\ (Fs!Next \/ UNCHANGED Fs!vars)
  <1>1. YfsInv /\ WorkInv
    BY DEF FsInv
  <1>2. PICK e \in Inums : e = rpc[c].eid
    BY <1>1, Parts, Typed, InumsAssumption
  <1>3. Set(c, [call[c] EXCEPT !.at = "put", !.ino = e]) /\ "put" \in DOMAIN OpsAt
    BY <1>2, Points DEF Returned, At
  <1>4. /\ call' \in [Clients -> CallRec]
        /\ call'[c].at = "put" /\ call'[c].ino = e /\ call'[c].buf = call[c].buf
        /\ SameWork(c)
        /\ \A d \in Clients \ {c} : call'[d] = call[d]
    BY <1>1, <1>3, Parts, InoTo
  <1>5. Return(c) /\ held' = held
    BY DEF Returned
  <1>6. /\ Quiet(c)
        /\ rpc[c].at = "reply" /\ rpc[c].op \in {"get", "put", "remove", "create"}
        /\ \A f \in Inums : Contents(f)' = Contents(f) /\ disk'[f].type = disk[f].type
        /\ rpc'[c].at = "none" /\ disk' = disk
        /\ \A f \in Inums \ {e} : extent_map'[c][f] = extent_map[c][f]
    BY <1>1, <1>2, <1>4, <1>5, ReturnQuiet
  <1>7. /\ Op(c) \in Makers /\ call[c].at = "make"
    BY <1>1, <1>6, Parts, RpcAt, OpIs DEF At
  <1>8. Making(c) /\ NewInum(c) = e /\ Holding(c) /\ HasSeen(c) /\ ~Hiding(c)
    BY <1>2, <1>6, <1>7 DEF Making, NewInum, Holding, HasSeen, Hiding, Makers, At
  <1>9. X(c) \in Inums \ {e} /\ X(c) \in Dirs
    <2>1. X(c) # e
      BY <1>1, <1>8, Parts DEF ClaimInv
    <2> QED BY <1>1, <1>7, <2>1, TargetIsDir DEF Makers
  <1>10. PutPending(c)' /\ ~Landed(c)' /\ NewInum(c)' = e /\ Making(c)'
    BY <1>4, <1>6, <1>7 DEF PutPending, Landed, NewInum, Making, SameWork, At
  <1>11. Work(c)'
    <2>1. extent_map[c][X(c)].type = disk[X(c)].type /\ Contents(e) = <<>>
      BY <1>1, <1>8 DEF WorkInv, Work
    <2>2. extent_map'[c][X(c)'].type = disk'[X(c)'].type
      BY <1>4, <1>6, <1>9, <2>1 DEF SameWork
    <2>3. Contents(e)' = <<>>
      BY <1>6, <2>1
    <2> QED BY <1>10, <2>2, <2>3 DEF Work
  <1>12. CASE Op(c) = "create"
    <2>1. ~Hiding(c)'
      BY <1>4, <1>12 DEF Hiding, SameWork
    <2> QED BY <1>4, <1>6, <1>8, <1>11, <1>12, <2>1, CalmOn DEF SameWork
  <1>13. CASE Op(c) = "symlink"
    <2>1. Hiding(c)'
      BY <1>4, <1>13 DEF Hiding, SameWork
    <2>2. WorkInv'
      BY <1>1, <1>6, <1>11, WorkNext
    <2>3. Visible(X(c))' = Shown(c)'
      BY <2>1, <2>2, ShownNext
    <2>4. Shown(c)' = call[c].buf
      BY <1>4, <1>13 DEF Shown, SameWork
    <2>5. Visible(X(c)) = Contents(X(c)) /\ Contents(X(c)) = call[c].buf
      <3>1. X(c) \in held[c] /\ Contents(X(c)) = call[c].buf
        BY <1>1, <1>8, <1>9, DirBuf
      <3> QED BY <1>1, <1>8, <1>9, <3>1, OneHider, VisibleOpen
    <2> QED BY <1>4, <1>6, <1>9, <1>11, <1>13, <2>3, <2>4, <2>5, CalmShown DEF SameWork
  <1> QED BY <1>7, <1>12, <1>13 DEF Makers

\* When a directory is put and the entry shown, the directory is seen as it is.
LEMMA PutDoneFs ==
  ASSUME FsInv, YfsInv', NEW c \in Clients, Returned(c), At(c, "put"), Op(c) # "join"
  PROVE  FsInv' /\ (Fs!Next \/ UNCHANGED Fs!vars)
  <1>1. YfsInv /\ WorkInv
    BY DEF FsInv
  <1>2. PICK e \in Inums : e = rpc[c].eid
    BY <1>1, Parts, Typed, InumsAssumption
  <1>3. Set(c, AfterPut(c))
    BY DEF Returned, At
  <1>4. PICK at \in {"link", "unlock"} :
          /\ GoTo(c, at) /\ at \in DOMAIN OpsAt
          /\ at = "link" <=> Op(c) = "symlink"
    BY <1>1, <1>3, AfterPutIs
  <1>5. /\ call' \in [Clients -> CallRec]
        /\ call'[c].at = at /\ SameWork(c) /\ NewContents(c)' = NewContents(c)
        /\ \A d \in Clients \ {c} : call'[d] = call[d]
    BY <1>1, <1>4, Parts, GoToIs
  <1>6. Return(c) /\ held' = held
    BY DEF Returned
  <1>7. /\ Quiet(c)
        /\ rpc[c].at = "reply" /\ rpc[c].op \in {"get", "put", "remove", "create"}
        /\ \A f \in Inums : Contents(f)' = Contents(f) /\ disk'[f].type = disk[f].type
        /\ disk' = disk /\ extent_map'[c][e] = ReturnedEntry(c)
    BY <1>1, <1>2, <1>5, <1>6, ReturnQuiet
  <1>8. rpc[c].op = "put" /\ e = X(c) /\ call[c].at = "put" /\ Op(c) \in FileOps \ {"look", "lookup"}
    BY <1>1, <1>2, <1>7, Parts, RpcAt, OpIs DEF At
  <1>9. ~PutPending(c) /\ ~PutPending(c)'
    BY <1>4, <1>5, <1>7 DEF PutPending, At
  <1>10. ~Making(c)' /\ (Landed(c) <=> Op(c) \in {"unlink", "symlink"})
    BY <1>4, <1>5, <1>8, <1>9 DEF Making, Landed, At
  <1>11. CASE Op(c) = "symlink"
    <2>1. HasSeen(c) /\ Landed(c) /\ Hiding(c) /\ Hiding(c)' /\ at = "link"
      BY <1>4, <1>5, <1>8, <1>10, <1>11 DEF HasSeen, Hiding, SameWork, At
    <2>2. extent_map'[c][e].type = disk[e].type
      BY <1>1, <1>2, <1>7, <1>8, ReturnedType
    <2>3. Contents(e)' = NewContents(c)
      BY <1>1, <1>7, <1>8, <2>1 DEF WorkInv, Work
    <2>4. Work(c)'
      BY <1>5, <1>7, <1>8, <1>10, <1>11, <2>2, <2>3 DEF Work, SameWork
    <2> QED BY <1>5, <1>7, <1>11, <2>1, <2>4, CalmOn DEF SameWork
  <1>12. CASE Op(c) # "symlink"
    <2>1. ~HasSeen(c)' /\ ~Landed(c)' /\ ~Hiding(c)' /\ at = "unlock"
      BY <1>4, <1>5, <1>9, <1>12 DEF HasSeen, Landed, Hiding, SameWork, At
    <2>2. Work(c)'
      BY <1>10, <2>1, WorkIdle
    <2>3. CASE Op(c) # "unlink"
      <3>1. ~Hiding(c)
        BY <1>8, <1>12, <2>3 DEF Hiding
      <3> QED BY <1>5, <1>7, <1>8, <2>1, <2>2, <3>1, CalmOn DEF SameWork, FileOps
    <2>4. CASE Op(c) = "unlink"
      <3>1. Landed(c) /\ Hiding(c) /\ X(c) \in Dirs /\ X(c) \in held[c]
        BY <1>1, <1>8, <1>10, <2>4, HidingIs DEF Hiding
      <3>2. Visible(X(c)) = Contents(X(c))
        <4>1. Contents(X(c)) = NewContents(c)
          BY <1>1, <3>1 DEF WorkInv, Work
        <4> QED BY <1>1, <2>4, <3>1, <4>1, ShownIs DEF Shown
      <3>3. Visible(X(c))' = Contents(X(c))'
        <4>1. PICK f \in Dirs : f = X(c)
          BY <3>1
        <4>2. ASSUME NEW d \in Clients, Hiding(d)' PROVE X(d)' # f
          <5>1. d # c /\ Hiding(d) /\ X(d)' = X(d)
            BY <1>5, <2>1, <4>2 DEF Hiding, Op, X
          <5> QED BY <1>1, <3>1, <4>1, <5>1, OneHider
        <4>3. f \in Dirs'
          BY <1>7, <4>1 DEF Dirs
        <4>4. Visible(f)' = Contents(f)'
          BY <4>2, <4>3, OpenNext
        <4> QED BY <1>5, <4>1, <4>4 DEF SameWork
      <3>4. Contents(X(c))' = Contents(X(c))
        BY <1>2, <1>5, <1>7, <1>8 DEF SameWork
      <3> QED BY <1>5, <1>7, <2>2, <2>4, <3>1, <3>2, <3>3, <3>4, CalmShown DEF SameWork
    <2> QED BY <2>3, <2>4
  <1> QED BY <1>11, <1>12

\* The root directory of a client that starts has been put.
LEMMA JoinDoneFs ==
  ASSUME FsInv, YfsInv', NEW c \in Clients, Returned(c), Op(c) = "join"
  PROVE  FsInv' /\ (Fs!Next \/ UNCHANGED Fs!vars)
  <1>1. YfsInv /\ WorkInv
    BY DEF FsInv
  <1>2. PICK e \in Inums : e = rpc[c].eid
    BY <1>1, Parts, Typed, InumsAssumption
  <1>3. call[c].at = "put"
    BY <1>1, Parts, OpIs
  <1>4. Set(c, Idle) /\ Idle \in CallRec
    BY <1>3, IdleIs DEF Returned, AfterPut, At
  <1>5. /\ call' \in [Clients -> CallRec] /\ call'[c] = Idle
        /\ \A d \in Clients \ {c} : call'[d] = call[d]
    BY <1>1, <1>4, Parts, SetIs
  <1>6. Return(c) /\ held' = held
    BY DEF Returned
  <1>7. /\ Quiet(c)
        /\ \A f \in Inums : Contents(f)' = Contents(f) /\ disk'[f].type = disk[f].type
    BY <1>1, <1>2, <1>5, <1>6, ReturnQuiet
  <1>8. Op(c)' = "none" /\ call'[c].at = "user"
    BY <1>5, IdleIs DEF Op
  <1>9. ~HasSeen(c)' /\ ~Landed(c)' /\ ~Making(c)' /\ ~Hiding(c)' /\ ~Hiding(c)
    BY <1>8 DEF HasSeen, Landed, Making, Makers, PutPending, Hiding, At
  <1> QED BY <1>7, <1>8, <1>9, WorkIdle, CalmIf, CalmStep

\* Calls return.
LEMMA ReturnedFs ==
  ASSUME FsInv, YfsInv', NEW c \in Clients, Returned(c)
  PROVE  FsInv' /\ (Fs!Next \/ UNCHANGED Fs!vars)
  <1>1. YfsInv /\ rpc[c].at = "reply"
    BY DEF FsInv, Returned, Return
  <1>2. rpc[c].op # "none"
    BY <1>1, Parts, NoneIsNoCall
  <1>3. call[c].at \in {"read", "put", "removing", "make"}
    BY <1>1, <1>2, Parts, RpcAt
  <1> QED BY <1>3, GotFs, RemovedFs, CreatedFs, PutDoneFs, JoinDoneFs DEF At

-----------------------------------------------------------------------------
(* A put is sent                                                           *)

\* A put that goes to the server changes nothing yet.
LEMMA SendFs ==
  ASSUME FsInv, YfsInv', NEW c \in Clients, HasNewContents(c), NEW e \in Inums, e = X(c),
         NEW data \in Data, data = NewContents(c),
         PutThrough(c, e, data), GoTo(c, "put"), held' = held
  PROVE  FsInv' /\ (Fs!Next \/ UNCHANGED Fs!vars)
  <1>1. YfsInv /\ WorkInv
    BY DEF FsInv
  <1>2. /\ rpc[c] = NoCall /\ disk' = disk
        /\ \A d \in Clients \ {c} : rpc'[d] = rpc[d]
        /\ rpc'[c].at = "request"
        /\ \A f \in Inums : Contents(f)' = Contents(f)
        /\ Cached(c, e) => extent_map' = extent_map
        /\ \A d \in Clients, f \in Inums :
             d # c \/ f # e => extent_map'[d][f] = extent_map[d][f]
        /\ call'[c].at = "put" /\ call'[c].ino = call[c].ino
        /\ SameWork(c)
        /\ \A d \in Clients \ {c} : call'[d] = call[d]
    BY <1>1, PutThroughIs
  <1>3. Quiet(c)
    BY <1>2, QuietAll
  <1>4. /\ Op(c) # "none" /\ (Op(c) # "join" => Holding(c)) /\ rpc[c].at = "none"
    BY <1>1, <1>2, PutAlone, NoCallIs
  <1>5. PutPending(c)' /\ ~Landed(c)' /\ (At(c, "put") => PutPending(c))
    BY <1>2, <1>4 DEF PutPending, Landed, At
  <1>6. Hiding(c)' <=> Hiding(c)
    BY <1>2 DEF Hiding, HasNewContents, SameWork, At
  <1>7. CASE Op(c) = "join"
    <2>1. ~HasSeen(c)' /\ ~Making(c)'
      BY <1>2, <1>7 DEF HasSeen, Making, Makers, SameWork
    <2> QED BY <1>2, <1>3, <1>4, <1>5, <1>6, <2>1, WorkIdle, CalmOn DEF SameWork
  <1>8. CASE Op(c) # "join"
    <2>1. Cached(c, e)
      BY <1>1, <1>4, <1>8, Parts DEF BufInv, Buffer
    <2>2. HasSeen(c)' => HasSeen(c)
      BY <1>2, <1>4, <1>5, <1>8 DEF HasSeen, HasNewContents, SameWork, At
    <2>3. Making(c)' => Making(c) /\ NewInum(c)' = NewInum(c) /\ NewInum(c) \in Inums
      <3>1. Making(c)' => call[c].at = "put"
        BY <1>2 DEF Making, HasNewContents, Makers, SameWork, At
      <3>2. call[c].ino \in Inums
        BY <1>1, Parts, CallTyped
      <3> QED BY <1>2, <1>5, <3>1, <3>2 DEF Making, NewInum, SameWork, At
    <2>4. Work(c)'
      BY <1>1, <1>2, <1>5, <2>1, <2>2, <2>3 DEF WorkInv, Work, SameWork
    <2> QED BY <1>2, <1>3, <1>4, <1>6, <2>4, CalmOn DEF SameWork
  <1> QED BY <1>7, <1>8

-----------------------------------------------------------------------------
(* Changes take effect                                                     *)

\* A change of c that processes see.
LEMMA UpdateStep ==
  ASSUME FsInv, YfsInv', NEW c \in Clients, NEW x \in Inums, x = X(c), Quiet(c), Work(c)',
         HasSeen(c), ~HasSeen(c)',
         \A d \in Clients : Op(d)' # "none" => X(d)' = X(d) /\ content'[X(d)] # NoEntry,
         \A i \in Inums \ Dirs' : Named(i)' => Contents(i)' \in Texts,
         Fs!Write(x) \/ Fs!Link(x) \/ Fs!Unlink(x)
  PROVE  FsInv' /\ Fs!Next
  <1>1. WorkInv'
    BY WorkNext DEF FsInv
  <1>2. NamedInv'
    <2>1. \A d \in Clients : X(d)' \in Inums
      BY TargetNext
    <2>2. AllNamed'
      BY NextState
    <2> QED BY <2>1, <2>2 DEF AllNamed, NamedInv
  <1>3. TextInv'
    BY DEF TextInv
  <1>4. AllSeen /\ AllSeen'
    BY <1>1, <1>2, AllSeenIs, NextState DEF FsInv
  <1>5. \A d \in Clients \ {c} : seen'[d] = seen[d]
    BY OthersSee DEF FsInv
  <1>6. /\ seen[c] = <<x, content[x]>> /\ seen[c] # NoEntry /\ seen'[c] = NoEntry
    BY <1>4 DEF AllSeen
  <1>7. seen' = [seen EXCEPT ![c] = NoEntry]
    BY <1>5, <1>6, SeenFunction, SeenFunctionNext
  <1>8. Fs!Update(c, x) /\ seen'[c] # seen[c]
    BY <1>6, <1>7 DEF Fs!Update
  <1> QED BY <1>1, <1>2, <1>3, <1>8 DEF FsInv, Fs!Next

\* The new contents of c's inode arrive, in c's copy or at the server.
Lands(c) ==
  /\ Quiet(c) /\ HasNewContents(c) /\ Op(c) # "join" /\ Op(c) # "none"
  /\ At(c, "put") => PutPending(c)
  /\ Contents(X(c))' = NewContents(c) /\ NewContents(c)' = NewContents(c)
  /\ \A f \in Inums \ {X(c)} : Contents(f)' = Contents(f)
  /\ \A f \in Inums : disk'[f].type = disk[f].type
  /\ Op(c)' = Op(c) /\ X(c)' = X(c) /\ Req(c)' = Req(c)
  /\ call'[c].ino = call[c].ino /\ call'[c].buf = call[c].buf
  /\ call'[c].at = "put" \/ (call'[c].at = "link" /\ Op(c) = "symlink")
       \/ (call'[c].at = "unlock" /\ Op(c) # "symlink")
  /\ ~PutPending(c)'
  /\ extent_map'[c][X(c)].type = extent_map[c][X(c)].type

\* Where a call is when its new contents arrive.
LEMMA LandsIs ==
  ASSUME FsInv, NEW c \in Clients, Lands(c)
  PROVE  /\ YfsInv /\ WorkInv /\ X(c) \in Inums /\ X(c) \in held[c] /\ Holding(c)
         /\ Op(c) \in {"create", "symlink", "unlink", "write", "setattr"}
         /\ Contents(X(c)) = call[c].buf /\ call[c].buf \in Data
         /\ Op(c) \in {"create", "symlink", "unlink"} => PutPending(c) /\ X(c) \in Dirs
         /\ Op(c) # "unlink" => HasSeen(c)
         /\ Op(c) # "symlink" => ~HasSeen(c)' /\ ~Making(c)'
         /\ ~Making(c)' /\ (Op(c) \notin {"unlink", "symlink"} => ~Hiding(c) /\ ~Hiding(c)')
         /\ \A d \in Clients \ {c} : call'[d] = call[d]
         /\ Dirs' = Dirs
         /\ content[X(c)] # NoEntry
  <1>1. YfsInv /\ WorkInv /\ X(c) \in Inums /\ call[c].buf \in Data
    BY Parts, CallTyped DEF FsInv
  <1>2. Op(c) \in {"create", "symlink", "unlink", "write", "setattr"}
    BY <1>1, Parts, OpIs DEF Lands, HasNewContents, FileOps, At
  <1>3. Holding(c) /\ X(c) \in held[c]
    <2>1. Holding(c) /\ call[c].at \in {"got", "put"}
      BY DEF Lands, Holding, HasNewContents, At
    <2> QED BY <1>1, <2>1, Parts, HeldIs DEF Lands, At
  <1>4. Contents(X(c)) = call[c].buf
    BY <1>1, <1>3, Parts DEF BufInv, Buffer
  <1>5. Op(c) \in {"create", "symlink", "unlink"} => PutPending(c) /\ X(c) \in Dirs
    BY <1>1, TargetIsDir DEF Lands, HasNewContents
  <1>6. Op(c) # "unlink" => HasSeen(c)
    BY <1>2, <1>5 DEF HasSeen, Lands, HasNewContents, PutPending, At
  <1>7. (Op(c) # "symlink" => ~HasSeen(c)') /\ ~Making(c)'
    BY <1>2 DEF Lands, HasSeen, Making, At
  <1>8. Op(c) \notin {"unlink", "symlink"} => ~Hiding(c) /\ ~Hiding(c)'
    BY DEF Hiding, Lands
  <1>9. Dirs' = Dirs /\ \A d \in Clients \ {c} : call'[d] = call[d]
    BY DEF Dirs, Lands, Quiet
  <1>10. content[X(c)] # NoEntry
    BY <1>1, NamedHere DEF Lands, FsInv
  <1> QED BY <1>1, <1>2, <1>3, <1>4, <1>5, <1>6, <1>7, <1>8, <1>9, <1>10

\* Texts are the short sequences of units.
LEMMA TextsAre ==
  \A text : text \in Texts <=> text \in Seq(Units) /\ Len(text) <= MaxFile
  <1>1. MaxFile \in Nat
    BY RequestsAssumption
  <1>2. ASSUME NEW n \in 0..MaxFile, NEW text \in [1..n -> Units]
        PROVE  text \in Seq(Units) /\ Len(text) <= MaxFile
    <2>1. n \in Nat /\ n <= MaxFile
      BY <1>1
    <2> QED BY <2>1
  <1>3. ASSUME NEW text \in Seq(Units), Len(text) <= MaxFile
        PROVE  \E n \in 0..MaxFile : text \in [1..n -> Units]
    <2>1. Len(text) \in 0..MaxFile /\ text \in [1..Len(text) -> Units]
      BY <1>1, <1>3
    <2> QED BY <2>1
  <1> QED BY <1>2, <1>3 DEF Texts

\* A write leaves a text,
LEMMA WrittenText ==
  ASSUME NEW text \in Texts, NEW off \in 0..(MaxFile - 1), NEW val \in Values
  PROVE  Written(text, off, val) \in Texts
  <1>1. text \in Seq(Units) /\ Len(text) \in Nat /\ Len(text) <= MaxFile /\ MaxFile \in Nat
    BY TextsAre, RequestsAssumption
  <1>2. PICK n \in Nat : n = (IF off < Len(text) THEN Len(text) ELSE off + 1) /\ n <= MaxFile
    BY <1>1
  <1>3. \A k \in 1..n : (IF k = off + 1 THEN val ELSE IF k <= Len(text) THEN text[k] ELSE Nul)
                          \in Units
    BY <1>1 DEF Units
  <1>4. Written(text, off, val) \in [1..n -> Units]
    BY <1>2, <1>3 DEF Written
  <1>5. n \in 0..MaxFile
    BY <1>1, <1>2
  <1> QED BY <1>4, <1>5 DEF Texts

\* so does setattr,
LEMMA ResizedText ==
  ASSUME NEW text \in Texts, NEW size \in 0..MaxFile
  PROVE  Resized(text, size) \in Texts
  <1>1. text \in Seq(Units) /\ Len(text) \in Nat /\ MaxFile \in Nat
    BY TextsAre, RequestsAssumption
  <1>2. \A k \in 1..size : (IF k <= Len(text) THEN text[k] ELSE Nul) \in Units
    BY <1>1 DEF Units
  <1>3. Resized(text, size) \in [1..size -> Units]
    BY <1>2 DEF Resized
  <1> QED BY <1>3 DEF Texts

\* When what calls are about keeps its name, the targets of all calls have one.
LEMMA KeepNamed ==
  ASSUME FsInv, YfsInv', \A d \in Clients : Op(d)' = Op(d) /\ X(d)' = X(d),
         \A i \in Inums : Named(i) => Named(i)' \/ \A d \in Clients : X(d) # i
  PROVE  \A d \in Clients : Op(d)' # "none" => X(d)' = X(d) /\ content'[X(d)] # NoEntry
  <1> SUFFICES ASSUME NEW d \in Clients, Op(d) # "none" PROVE content'[X(d)] # NoEntry
    OBVIOUS
  <1>1. PICK i \in Inums : i = X(d)
    BY Parts, CallTyped DEF FsInv
  <1>2. i = Root \/ Named(i)'
    BY <1>1 DEF FsInv, NamedInv
  <1> QED BY <1>1, <1>2, NextState DEF AllNamed

\* All calls are about what they were about.
LEMMA LandsTargets ==
  ASSUME NEW c \in Clients, Lands(c)
  PROVE  \A d \in Clients : Op(d)' = Op(d) /\ X(d)' = X(d)
  BY DEF Lands, Quiet, Op, X

\* Other directories than c's are seen the same.
LEMMA LandsOthers ==
  ASSUME FsInv, NEW c \in Clients, Lands(c), NEW f \in Dirs, f # X(c)
  PROVE  Visible(f)' = Visible(f)
  <1>1. /\ \A d \in Clients \ {c} : call'[d] = call[d]
        /\ Contents(f)' = Contents(f) /\ X(c)' = X(c)
    BY LandsIs DEF Lands, Dirs
  <1> QED BY <1>1, VisibleSame

\* A file is written or cut.
LEMMA LandsWrite ==
  ASSUME FsInv, YfsInv', NEW c \in Clients, Lands(c), Op(c) \in {"write", "setattr"}
  PROVE  FsInv' /\ Fs!Next
  <1>1. /\ YfsInv /\ WorkInv /\ X(c) \in Inums /\ Contents(X(c)) = call[c].buf
        /\ HasSeen(c) /\ ~HasSeen(c)' /\ ~Making(c)' /\ Dirs' = Dirs
        /\ content[X(c)] # NoEntry
    BY LandsIs
  <1>2. PICK x \in Inums : x = X(c)
    BY <1>1
  <1>3. disk[x].type = FileType /\ x \notin Dirs /\ x # Root
    BY <1>1, <1>2, Parts, TypesAssumption DEF TargetInv, Dirs
  <1>4. \A f \in Dirs : Visible(f)' = Visible(f)
    BY <1>2, <1>3, LandsOthers
  <1>5. \A i \in Inums : Named(i)' <=> Named(i)
    BY <1>1, <1>4 DEF Named
  <1>6. Named(x)
    BY <1>2, <1>3 DEF FsInv, NamedInv, Lands
  <1>7. PICK text \in Texts : text = NewContents(c)
    <2>1. call[c].buf \in Texts
      BY <1>1, <1>2, <1>3, <1>6 DEF FsInv, TextInv
    <2>2. CASE Op(c) = "write"
      <3>1. Req(c).off \in 0..(MaxFile - 1) /\ Req(c).val \in Values
        BY <1>1, <2>2, Parts, ReqTyped DEF FileOps
      <3> QED BY <2>1, <2>2, <3>1, WrittenText DEF NewContents
    <2>3. CASE Op(c) = "setattr"
      <3>1. Req(c).size \in 0..MaxFile
        BY <1>1, <2>3, Parts, ReqTyped DEF FileOps
      <3> QED BY <2>1, <2>3, <3>1, ResizedText DEF NewContents
    <2> QED BY <2>2, <2>3
  <1>8. Contents(x)' = text /\ \A f \in Inums \ {x} : Contents(f)' = Contents(f)
    BY <1>2, <1>7 DEF Lands
  <1>9. \A f \in Inums : disk'[f].type = disk[f].type
    BY DEF Lands
  <1>10. content' = [content EXCEPT ![x].data = text]
    <2>1. content[x] = [type |-> disk[x].type, data |-> Contents(x)]
      BY <1>3, <1>6 DEF content
    <2>2. content'[x] = [type |-> disk[x].type, data |-> text]
      BY <1>1, <1>3, <1>5, <1>6, <1>8, <1>9 DEF content
    <2>3. ASSUME NEW i \in Inums, i # x PROVE content'[i] = content[i]
      BY <1>1, <1>4, <1>5, <1>8, <1>9, <2>3 DEF content
    <2>4. content = [i \in Inums |-> content[i]] /\ content' = [i \in Inums |-> content'[i]]
      BY DEF content
    <2> QED BY <2>1, <2>2, <2>3, <2>4
  <1>11. Fs!Write(x)
    <2>1. content[x].type # DirType
      BY <1>3, <1>6, TypesAssumption DEF content
    <2> QED BY <1>10, <2>1 DEF Fs!Write
  <1>12. Work(c)'
    <2>1. ~Landed(c)'
      BY DEF Landed, Lands
    <2> QED BY <1>1, <2>1, WorkIdle
  <1>13. \A i \in Inums \ Dirs' : Named(i)' => Contents(i)' \in Texts
    BY <1>1, <1>5, <1>8 DEF FsInv, TextInv
  <1>14. \A d \in Clients : Op(d)' # "none" => X(d)' = X(d) /\ content'[X(d)] # NoEntry
    BY <1>5, LandsTargets, KeepNamed
  <1> QED BY <1>1, <1>2, <1>11, <1>12, <1>13, <1>14, UpdateStep DEF Lands

\* The last entry of a longer list.
LEMMA Appended ==
  ASSUME NEW S, NEW s \in Seq(S), NEW x \in S
  PROVE  /\ Append(s, x) \in Seq(S) /\ Len(Append(s, x)) = Len(s) + 1
         /\ \A k \in 1..Len(s) : Append(s, x)[k] = s[k]
         /\ Append(s, x)[Len(s) + 1] = x
  OBVIOUS

\* Who gets a name when one more entry is seen.
LEMMA NamedMore ==
  ASSUME NEW x \in Dirs, Dirs' = Dirs, \A f \in Dirs : f # x => Visible(f)' = Visible(f),
         NEW entry \in Entries, NEW dir \in Seq(Entries), Visible(x) = dir,
         Visible(x)' = Append(dir, entry)
  PROVE  \A i \in Inums : Named(i)' <=> Named(i) \/ i = entry.inum
  <1>1. /\ Append(dir, entry) \in Seq(Entries) /\ Len(Append(dir, entry)) = Len(dir) + 1
        /\ \A k \in 1..Len(dir) : Append(dir, entry)[k] = dir[k]
        /\ Append(dir, entry)[Len(dir) + 1] = entry /\ Len(dir) \in Nat
    BY Appended
  <1>2. PICK more : more = Append(dir, entry)
    OBVIOUS
  <1>3. ASSUME NEW i \in Inums
        PROVE  (\E k \in 1..Len(more) : more[k].inum = i)
                 <=> (\E k \in 1..Len(dir) : dir[k].inum = i) \/ i = entry.inum
    BY <1>1, <1>2
  <1> SUFFICES ASSUME NEW i \in Inums PROVE Named(i)' <=> Named(i) \/ i = entry.inum
    OBVIOUS
  <1>4. ASSUME Named(i)' PROVE Named(i) \/ i = entry.inum
    <2>1. PICK f \in Dirs : \E k \in 1..Len(Visible(f)') : Visible(f)'[k].inum = i
      BY <1>4 DEF Named
    <2>2. CASE f = x
      <3>1. (\E k \in 1..Len(dir) : dir[k].inum = i) \/ i = entry.inum
        BY <1>2, <1>3, <2>1, <2>2
      <3> QED BY <3>1 DEF Named
    <2>3. CASE f # x
      <3>1. Visible(f)' = Visible(f)
        BY <2>3
      <3> QED BY <2>1, <3>1 DEF Named
    <2> QED BY <2>2, <2>3
  <1>5. ASSUME Named(i) \/ i = entry.inum PROVE Named(i)'
    <2>1. CASE i = entry.inum \/ \E k \in 1..Len(dir) : dir[k].inum = i
      <3>1. \E k \in 1..Len(Visible(x)') : Visible(x)'[k].inum = i
        BY <1>2, <1>3, <2>1
      <3> QED BY <3>1 DEF Named
    <2>2. CASE ~(i = entry.inum \/ \E k \in 1..Len(dir) : dir[k].inum = i)
      <3>1. PICK f \in Dirs : \E k \in 1..Len(Visible(f)) : Visible(f)[k].inum = i
        BY <1>5, <2>2 DEF Named
      <3>2. Visible(f)' = Visible(f)
        BY <2>2, <3>1
      <3> QED BY <3>1, <3>2 DEF Named
    <2> QED BY <2>1, <2>2
  <1> QED BY <1>4, <1>5

\* and a new file is one.
LEMMA EmptyText == <<>> \in Texts
  <1>1. PICK s : s = <<>>
    OBVIOUS
  <1>2. MaxFile \in Nat
    BY RequestsAssumption
  <1>3. s \in Seq(Units) /\ Len(s) <= MaxFile
    BY <1>1, <1>2
  <1>4. s \in Texts
    BY <1>3, TextsAre
  <1> QED BY <1>1, <1>4

\* A file or directory is made.
LEMMA LandsCreate ==
  ASSUME FsInv, YfsInv', NEW c \in Clients, Lands(c), Op(c) = "create"
  PROVE  FsInv' /\ Fs!Next
  <1>1. /\ YfsInv /\ WorkInv /\ X(c) \in Inums /\ X(c) \in held[c]
        /\ Contents(X(c)) = call[c].buf /\ PutPending(c) /\ X(c) \in Dirs
        /\ HasSeen(c) /\ ~HasSeen(c)' /\ ~Making(c)' /\ Dirs' = Dirs
        /\ ~Hiding(c) /\ ~Hiding(c)'
        /\ \A d \in Clients \ {c} : call'[d] = call[d]
    BY LandsIs
  <1>2. PICK x \in Dirs : x = X(c) /\ x \in Inums
    BY <1>1
  <1>3. PICK i \in Inums : i = call[c].ino
    BY <1>1, Parts, CallTyped
  <1>4. PICK name \in Names, type \in {FileType, DirType} : name = Req(c).name /\ type = Req(c).type
    BY <1>1, Parts, ReqTyped DEF FileOps, Lands
  <1>5. Making(c) /\ NewInum(c) = i /\ Claims(c, i)
    BY <1>1, <1>3 DEF Making, NewInum, Claims, Makers, PutPending, At
  <1>6. /\ Contents(i) = <<>> /\ disk[i].type = type /\ \A d \in Clients : X(d) # i
        /\ i # Root /\ i # x
    <2>1. ~Made(c)
      BY <1>1 DEF Made, PutPending, At
    <2> QED BY <1>1, <1>2, <1>4, <1>5, <2>1, Parts, ClaimsFree DEF WorkInv, Work, ClaimInv
  <1>7. ~Named(i)
    <2>1. ~Made(c) /\ ~At(c, "remove")
      BY <1>1 DEF Made, PutPending, At
    <2> QED BY <1>1, <1>5, <2>1, NamedIs
  <1>8. PICK dir \in Seq(Entries) : dir = call[c].buf
    <2>1. Holding(c)
      BY LandsIs
    <2> QED BY <1>1, <2>1, DirBuf
  <1>9. PICK entry \in Entries : entry = [name |-> name, inum |-> i]
    BY DEF Entries
  <1>10. NewContents(c) = Append(dir, entry)
    BY <1>3, <1>4, <1>8, <1>9 DEF NewContents
  <1>11. Visible(x) = dir
    <2>1. \A d \in Clients : Hiding(d) => X(d) # x
      BY <1>1, <1>2, OneHider
    <2> QED BY <1>1, <1>2, <1>8, <2>1, VisibleOpen
  <1>12. Visible(x)' = Append(dir, entry)
    <2>1. ASSUME NEW d \in Clients, Hiding(d)' PROVE X(d)' # x
      <3>1. d # c /\ Hiding(d) /\ X(d)' = X(d)
        BY <1>1, <2>1 DEF Hiding, Op, X
      <3> QED BY <1>1, <1>2, <3>1, OneHider
    <2>2. Visible(x)' = Contents(x)'
      BY <1>1, <1>2, <2>1, OpenNext
    <2> QED BY <1>2, <1>10, <2>2 DEF Lands
  <1>13. \A f \in Dirs : f # x => Visible(f)' = Visible(f)
    BY <1>2, LandsOthers
  <1>14. \A j \in Inums : Named(j)' <=> Named(j) \/ j = i
    <2>1. entry.inum = i
      BY <1>9
    <2> QED BY <1>1, <1>11, <1>12, <1>13, <2>1, NamedMore
  <1>15. i \in Dirs => Visible(i) = <<>> /\ Visible(i)' = <<>>
    <2>1. i \in Dirs => Visible(i) = Contents(i)
      BY <1>1, <1>6, VisibleOpen
    <2> QED BY <1>6, <1>13, <2>1
  <1>16. /\ \A f \in Inums \ {x} : Contents(f)' = Contents(f)
         /\ \A f \in Inums : disk'[f].type = disk[f].type
    BY <1>2 DEF Lands
  <1>17. content' = [content EXCEPT ![x].data = Append(dir, entry), ![i] = Fs!File(type, <<>>)]
    <2>1. x = Root \/ Named(x)
      BY <1>2 DEF FsInv, NamedInv, Lands
    <2>2. content[x] = [type |-> disk[x].type, data |-> dir]
      BY <1>2, <1>11, <2>1 DEF content
    <2>3. content'[x] = [type |-> disk[x].type, data |-> Append(dir, entry)]
      BY <1>1, <1>2, <1>12, <1>14, <1>16, <2>1 DEF content
    <2>4. content'[i] = Fs!File(type, <<>>)
      <3>1. disk'[i].type = type /\ Contents(i)' = <<>>
        BY <1>6, <1>16
      <3> QED BY <1>1, <1>14, <1>15, <3>1 DEF content, Fs!File
    <2>5. ASSUME NEW j \in Inums, j # x, j # i PROVE content'[j] = content[j]
      BY <1>1, <1>13, <1>14, <1>16, <2>5 DEF content
    <2>6. content = [j \in Inums |-> content[j]] /\ content' = [j \in Inums |-> content'[j]]
      BY DEF content
    <2>7. PICK new, file : new = Append(dir, entry) /\ file = Fs!File(type, <<>>)
      OBVIOUS
    <2>8. content'[x] = [content[x] EXCEPT !.data = new]
      <3>1. PICK t : t = disk[x].type
        OBVIOUS
      <3>2. content[x] = [type |-> t, data |-> dir] /\ content'[x] = [type |-> t, data |-> new]
        BY <2>2, <2>3, <2>7, <3>1
      <3> QED BY <3>2
    <2>9. content' = [content EXCEPT ![x].data = new, ![i] = file]
      BY <1>2, <1>6, <2>4, <2>5, <2>6, <2>7, <2>8
    <2> QED BY <2>7, <2>9
  <1>18. content[x].type = DirType /\ content[x].data = dir /\ content[i] = NoEntry
    BY <1>2, <1>6, <1>7, <1>11 DEF content, FsInv, NamedInv, Lands, Dirs
  <1>19. \A k \in 1..Len(dir) : dir[k].name # name
    <2>1. ~Found(c)
      BY <1>1, Parts DEF OwnInv, Own, Makers
    <2> QED BY <1>4, <1>8, <2>1 DEF Found, Positions
  <1>20. Fs!Link(x)
    <2>1. <<>> \in Texts /\ type \in {DirType, FileType, LinkType}
      BY EmptyText
    <2> QED BY <1>9, <1>17, <1>18, <1>19, <2>1 DEF Fs!Link
  <1>21. Work(c)'
    <2>1. ~Landed(c)'
      BY DEF Landed, Lands
    <2> QED BY <1>1, <2>1, WorkIdle
  <1>22. \A j \in Inums \ Dirs' : Named(j)' => Contents(j)' \in Texts
    <2> SUFFICES ASSUME NEW j \in Inums, j \notin Dirs, Named(j)'
                 PROVE  Contents(j)' \in Texts
      BY <1>1
    <2>1. Contents(j)' = Contents(j)
      BY <1>2, <1>16
    <2>2. CASE j = i
      BY <1>6, <2>1, <2>2, EmptyText
    <2>3. CASE j # i
      BY <1>14, <2>1, <2>3 DEF FsInv, TextInv
    <2> QED BY <2>2, <2>3
  <1>23. \A d \in Clients : Op(d)' # "none" => X(d)' = X(d) /\ content'[X(d)] # NoEntry
    BY <1>14, LandsTargets, KeepNamed
  <1> QED BY <1>1, <1>2, <1>20, <1>21, <1>22, <1>23, UpdateStep DEF Lands

\* A symbolic link gets its name, and hides it until it has its text.
LEMMA LandsSymlink ==
  ASSUME FsInv, YfsInv', NEW c \in Clients, Lands(c), Op(c) = "symlink"
  PROVE  FsInv' /\ (Fs!Next \/ UNCHANGED Fs!vars)
  <1>1. /\ YfsInv /\ WorkInv /\ X(c) \in Inums /\ X(c) \in Dirs
        /\ HasSeen(c) /\ ~Making(c)' /\ Quiet(c)
    BY LandsIs DEF Lands
  <1>2. Hiding(c) /\ Hiding(c)' /\ Shown(c) = call[c].buf /\ Shown(c)' = call[c].buf
    BY <1>1, LandsIs DEF Lands, Hiding, PutPending, Shown, At
  <1>3. PICK x \in Dirs : x = X(c) /\ x \in Inums
    BY <1>1
  <1>4. Work(c)'
    <2>1. extent_map[c][x].type = disk[x].type
      BY <1>1, <1>3 DEF WorkInv, Work
    <2> QED BY <1>1, <1>3, <2>1 DEF Work, Lands
  <1>5. WorkInv'
    BY <1>1, <1>4, WorkNext
  <1>6. Visible(X(c)) = call[c].buf /\ Visible(X(c))' = call[c].buf
    BY <1>1, <1>2, <1>5, ShownIs, ShownNext
  <1>7. Visible(X(c))' = Visible(X(c))
    BY <1>6
  <1> QED BY <1>1, <1>4, <1>7, CalmShown DEF Lands

\* An entry whose inode is gone is taken out.
LEMMA LandsUnlink ==
  ASSUME FsInv, YfsInv', NEW c \in Clients, Lands(c), Op(c) = "unlink"
  PROVE  FsInv' /\ (Fs!Next \/ UNCHANGED Fs!vars)
  <1>1. /\ YfsInv /\ WorkInv /\ X(c) \in Inums /\ X(c) \in Dirs /\ X(c) \in held[c]
        /\ ~HasSeen(c)' /\ ~Making(c)' /\ Quiet(c) /\ PutPending(c) /\ Holding(c)
        /\ Contents(X(c)) = call[c].buf /\ Dirs' = Dirs
        /\ \A d \in Clients \ {c} : call'[d] = call[d]
    BY LandsIs DEF Lands
  <1>2. Hiding(c) /\ Shown(c) = NewContents(c)
    BY <1>1 DEF Hiding, PutPending, Shown, At
  <1>3. PICK dir \in Seq(Entries) : dir = call[c].buf
    BY <1>1, DirBuf
  <1>4. Found(c)
    BY <1>1, Parts DEF OwnInv, Own, PutPending, At
  <1>5. PICK p \in 1..Len(dir) : p = Position(c) /\ dir[p].name = Req(c).name
    BY <1>3, <1>4, FoundIs
  <1>6. NewContents(c) = RemoveAt(dir, p)
    BY <1>3, <1>5 DEF NewContents
  <1>7. \A j, k \in 1..Len(dir) : j # k => dir[j].name # dir[k].name
    BY <1>1, <1>3, Parts DEF TreeInv
  <1>8. \A k \in 1..Len(NewContents(c)) : NewContents(c)[k].name # Req(c).name
    <2>1. PICK rest : rest = RemoveAt(dir, p)
      OBVIOUS
    <2>2. /\ Len(rest) = Len(dir) - 1 /\ Len(dir) \in Nat
          /\ \A k \in 1..(Len(dir) - 1) : rest[k] = IF k < p THEN dir[k] ELSE dir[k + 1]
      <3>1. /\ Len(RemoveAt(dir, p)) = Len(dir) - 1
            /\ \A k \in 1..(Len(dir) - 1) :
                 RemoveAt(dir, p)[k] = IF k < p THEN dir[k] ELSE dir[k + 1]
        BY SubSeqIn
      <3>2. Len(dir) \in Nat
        OBVIOUS
      <3> QED BY <2>1, <3>1, <3>2
    <2>3. ASSUME NEW k \in 1..Len(rest) PROVE rest[k].name # Req(c).name
      <3>1. CASE k < p
        BY <1>5, <1>7, <2>2, <3>1
      <3>2. CASE ~(k < p)
        BY <1>5, <1>7, <2>2, <3>2
      <3> QED BY <3>1, <3>2
    <2> QED BY <1>6, <2>1, <2>3
  <1>9. Work(c)'
    <2>1. NewContents(c)' = NewContents(c) /\ X(c)' = X(c) /\ Req(c)' = Req(c)
          /\ Contents(X(c))' = NewContents(c)
      BY DEF Lands
    <2> QED BY <1>1, <1>8, <2>1 DEF Work
  <1>10. WorkInv'
    BY <1>1, <1>9, WorkNext
  <1>11. Visible(X(c)) = NewContents(c)
    BY <1>1, <1>2, ShownIs
  <1>12. Visible(X(c))' = NewContents(c)
    <2>1. CASE Hiding(c)'
      <3>1. Visible(X(c))' = Shown(c)'
        BY <1>10, <2>1, ShownNext
      <3> QED BY <3>1 DEF Shown, Lands
    <2>2. CASE ~Hiding(c)'
      <3>1. PICK f \in Dirs : f = X(c)
        BY <1>1
      <3>2. ASSUME NEW d \in Clients, Hiding(d)' PROVE X(d)' # f
        <4>1. d # c /\ Hiding(d) /\ X(d)' = X(d)
          BY <1>1, <2>2, <3>2 DEF Hiding, Op, X
        <4> QED BY <1>1, <3>1, <4>1, OneHider
      <3>3. Visible(f)' = Contents(f)'
        BY <1>1, <3>2, OpenNext
      <3> QED BY <3>1, <3>3 DEF Lands
    <2> QED BY <2>1, <2>2
  <1>13. Visible(X(c))' = Visible(X(c))
    BY <1>11, <1>12
  <1> QED BY <1>1, <1>9, <1>13, CalmShown DEF Lands

\* Whatever lands is a change of the tree, or hidden until the link is filled.
LEMMA LandsFs ==
  ASSUME FsInv, YfsInv', NEW c \in Clients, Lands(c)
  PROVE  FsInv' /\ (Fs!Next \/ UNCHANGED Fs!vars)
  BY LandsIs, LandsWrite, LandsCreate, LandsSymlink, LandsUnlink

\* Put: the new contents land in c's copy, or go to the server.
LEMMA PutFs ==
  ASSUME FsInv, YfsInv', NEW c \in Clients, Put(c)
  PROVE  FsInv' /\ (Fs!Next \/ UNCHANGED Fs!vars)
  <1>1. HasNewContents(c) /\ held' = held /\ rpc[c] = NoCall /\ YfsInv /\ WorkInv
    BY DEF Put, PutLocal, PutThrough, Call, FsInv
  <1>2. PICK e \in Inums : e = X(c)
    BY <1>1, Parts, CallTyped
  <1>3. PICK data \in Data : data = NewContents(c)
    BY <1>1, NewTyped
  <1>4. \/ PutLocal(c, e, data) /\ Set(c, AfterPut(c))
        \/ PutThrough(c, e, data) /\ GoTo(c, "put")
    BY <1>2, <1>3 DEF Put
  <1>5. CASE PutThrough(c, e, data) /\ GoTo(c, "put")
    BY <1>1, <1>2, <1>3, <1>5, SendFs
  <1>6. CASE PutLocal(c, e, data) /\ Set(c, AfterPut(c)) /\ Op(c) = "join"
    <2>1. Set(c, Idle) /\ Idle \in CallRec
      BY <1>6, IdleIs DEF AfterPut
    <2>2. /\ call' \in [Clients -> CallRec] /\ call'[c] = Idle
          /\ \A d \in Clients \ {c} : call'[d] = call[d]
      BY <1>1, <2>1, Parts, SetIs
    <2>3. /\ rpc' = rpc /\ disk' = disk
          /\ \A d \in Clients \ {c} : extent_map'[d] = extent_map[d]
          /\ Contents(e)' = data
          /\ \A f \in Inums \ {e} : Contents(f)' = Contents(f)
      BY <1>1, <1>2, <1>3, <1>6, <2>2, PutLocalFacts
    <2>4. e = Root /\ Contents(Root) = <<>> /\ data = <<>>
      BY <1>1, <1>2, <1>3, <1>6, StartAlone, StartEmpty DEF NewContents
    <2>5. \A f \in Inums : Contents(f)' = Contents(f)
      BY <2>3, <2>4
    <2>6. Quiet(c)
      BY <2>2, <2>3, <2>5, QuietAll
    <2>7. Op(c)' = "none" /\ call'[c].at = "user"
      BY <2>2, IdleIs DEF Op
    <2>8. ~HasSeen(c)' /\ ~Landed(c)' /\ ~Making(c)' /\ ~Hiding(c)' /\ ~Hiding(c)
      BY <1>6, <2>7 DEF HasSeen, Landed, Making, Makers, PutPending, Hiding, At
    <2> QED BY <2>3, <2>5, <2>6, <2>7, <2>8, WorkIdle, CalmIf, CalmStep
  <1>7. CASE PutLocal(c, e, data) /\ Set(c, AfterPut(c)) /\ Op(c) # "join"
    <2>1. PICK at \in {"link", "unlock"} :
            /\ GoTo(c, at) /\ at \in DOMAIN OpsAt
            /\ at = "link" <=> Op(c) = "symlink"
      BY <1>1, <1>7, AfterPutIs
    <2>2. /\ call' \in [Clients -> CallRec]
          /\ call'[c].at = at /\ call'[c].ino = call[c].ino /\ call'[c].buf = call[c].buf
          /\ SameWork(c) /\ NewContents(c)' = NewContents(c)
          /\ \A d \in Clients \ {c} : call'[d] = call[d]
      BY <1>1, <2>1, Parts, GoToIs
    <2>3. /\ rpc' = rpc /\ disk' = disk
          /\ \A d \in Clients \ {c} : extent_map'[d] = extent_map[d]
          /\ Contents(e)' = data
          /\ \A f \in Inums \ {e} : Contents(f)' = Contents(f)
      BY <1>1, <1>2, <1>3, <1>7, <2>2, PutLocalFacts
    <2>4. extent_map'[c][e].type = extent_map[c][e].type
      <3>1. SetEntry(c, e, Entry(data, extent_map[c][e].type, "MODIFIED"))
        BY <1>7 DEF PutLocal
      <3>2. extent_map'[c][e] = Entry(data, extent_map[c][e].type, "MODIFIED")
        <4>1. PICK new : new = Entry(data, extent_map[c][e].type, "MODIFIED")
          OBVIOUS
        <4> QED BY <1>1, <3>1, <4>1, Parts, SetEntryIs
      <3> QED BY <3>2 DEF Entry
    <2>5. Op(c) # "none" /\ e \in held[c] /\ rpc[c].at = "none"
      BY <1>1, <1>2, <1>7, PutAlone, NoCallIs
    <2>6. Quiet(c)
      <3>1. \A d \in Clients \ {c} : ~Kept(d, e)
        BY <1>1, <1>2, <2>5, KeptNot
      <3> QED BY <1>1, <2>2, <2>3, <3>1, QuietIf
    <2>7. At(c, "put") => PutPending(c)
      BY <2>5 DEF PutPending
    <2>8. ~PutPending(c)'
      BY <2>1, <2>2 DEF PutPending, At
    <2>9. Lands(c)
      BY <1>1, <1>2, <1>3, <1>7, <2>1, <2>2, <2>3, <2>4, <2>5, <2>6, <2>7, <2>8 DEF Lands, SameWork
    <2> QED BY <2>9, LandsFs
  <1> QED BY <1>4, <1>5, <1>6, <1>7

-----------------------------------------------------------------------------
(* A symbolic link is filled, an inode removed                             *)

\* A symbolic link gets its text, and is seen.
LEMMA FillFs ==
  ASSUME FsInv, YfsInv', NEW c \in Clients, Fill(c)
  PROVE  FsInv' /\ Fs!Next
  <1>1. /\ YfsInv /\ WorkInv /\ call[c].at = "fill" /\ Op(c) = "symlink" /\ Filling(c)
        /\ Made(c)
    BY Parts, OpIs DEF Fill, At, Filling, FsInv, Made, Makers
  <1>2. PICK e \in Inums : e = call[c].ino
    BY <1>1, Parts, CallTyped
  <1>3. PICK x \in Dirs : x = X(c) /\ x \in Inums
    BY <1>1, TargetIsDir
  <1>4. Cached(c, e) /\ owner_map[e] = <<c>>
    BY <1>1, <1>2, Parts DEF OwnInv, Own
  <1>5. Claims(c, e) /\ held[c] = {x, e} /\ rpc[c] = NoCall
    BY <1>1, <1>2, <1>3, Parts, RpcAt, NoneIsNoCall, HeldIs DEF Claims
  <1>6. /\ \A d \in Clients : X(d) # e
        /\ e # Root /\ e # x /\ e \notin Dirs /\ disk[e].type = LinkType /\ ~Named(e)
    <2>1. /\ \A d \in Clients : X(d) # e
          /\ e # Root
      BY <1>1, <1>5, ClaimsFree
    <2>2. disk[e].type = LinkType /\ e \notin Dirs
      BY <1>1, <1>2, Parts, TypesAssumption DEF ClaimInv, Dirs
    <2>3. ~Named(e)
      BY <1>1, <1>5, NamedIs DEF At
    <2> QED BY <1>3, <2>1, <2>2, <2>3
  <1>7. PICK name \in Names, text \in Texts : name = Req(c).name /\ text = Req(c).text
    BY <1>1, Parts, ReqTyped DEF FileOps
  <1>8. text \in Data
    BY TextsAre DEF Data
  <1>9. \A d \in Clients : ~Busy(d, e)
    BY <1>1, <1>2, <1>5, HeldNotBusy
  <1>10. extent_map[c][e].status # "SHARED"
    <2>1. Settled(e)
      BY <1>1, <1>9, Parts, ContentsSettled
    <2> QED BY <1>4, <2>1 DEF Settled, Holders
  <1>11. PutLocal(c, e, text) /\ GoTo(c, "filled") /\ "filled" \in DOMAIN OpsAt
    BY <1>2, <1>4, <1>7, <1>10, Points DEF Fill, PutThrough
  <1>12. /\ call' \in [Clients -> CallRec] /\ call'[c].at = "filled" /\ SameWork(c)
         /\ \A d \in Clients \ {c} : call'[d] = call[d]
    BY <1>1, <1>11, Parts, GoToIs
  <1>13. /\ rpc' = rpc /\ disk' = disk
         /\ \A d \in Clients \ {c} : extent_map'[d] = extent_map[d]
    BY <1>1, <1>11, Parts, PutLocalIs
  <1>14. Contents(e)' = text /\ \A f \in Inums \ {e} : Contents(f)' = Contents(f)
    BY <1>1, <1>8, <1>9, <1>11, Parts, PutLocalStep
  <1>15. Quiet(c)
    <2>1. \A d \in Clients \ {c} : ~Kept(d, e)
      BY <1>1, <1>5, KeptNot
    <2> QED BY <1>1, <1>12, <1>13, <1>14, <2>1, QuietIf
  <1>16. HasSeen(c) /\ ~HasSeen(c)' /\ Landed(c) /\ Hiding(c) /\ ~Hiding(c)'
    BY <1>1, <1>12 DEF HasSeen, Landed, Hiding, SameWork, At
  <1>17. Work(c)'
    <2>1. ~Landed(c)' /\ ~Making(c)'
      BY <1>12 DEF Landed, Making, PutPending, At
    <2> QED BY <1>16, <2>1, WorkIdle
  <1>18. PICK entry \in Entries : entry = [name |-> name, inum |-> e]
    BY DEF Entries
  <1>19. PICK dir \in Seq(Entries) : dir = Visible(x)
    BY <1>1, <1>3, ContentIs
  <1>20. call[c].buf = dir /\ Contents(x) = Append(dir, entry)
    <2>1. Visible(x) = Shown(c) /\ Contents(x) = NewContents(c)
      BY <1>1, <1>3, <1>16, ShownIs DEF WorkInv, Work
    <2>2. Shown(c) = call[c].buf
      BY <1>1 DEF Shown
    <2> QED BY <1>1, <1>2, <1>7, <1>18, <1>19, <2>1, <2>2 DEF NewContents
  <1>21. Dirs' = Dirs
    BY <1>13 DEF Dirs
  <1>22. Visible(x)' = Append(dir, entry)
    <2>1. ASSUME NEW d \in Clients, Hiding(d)' PROVE X(d)' # x
      <3>1. d # c /\ Hiding(d) /\ X(d)' = X(d)
        BY <1>12, <1>16, <2>1 DEF Hiding, Op, X
      <3> QED BY <1>1, <1>3, <1>5, <3>1, OneHider
    <2>2. Visible(x)' = Contents(x)'
      BY <1>21, <2>1, OpenNext
    <2> QED BY <1>3, <1>6, <1>14, <1>20, <2>2
  <1>23. \A f \in Dirs : f # x => Visible(f)' = Visible(f)
    <2> SUFFICES ASSUME NEW f \in Dirs, f # x PROVE Visible(f)' = Visible(f)
      OBVIOUS
    <2>1. Contents(f)' = Contents(f) /\ X(c)' = X(c)
      BY <1>6, <1>12, <1>14 DEF Dirs, SameWork
    <2> QED BY <1>3, <1>12, <2>1, VisibleSame
  <1>24. \A j \in Inums : Named(j)' <=> Named(j) \/ j = e
    <2>1. entry.inum = e
      BY <1>18
    <2> QED BY <1>19, <1>21, <1>22, <1>23, <2>1, NamedMore
  <1>25. x = Root \/ Named(x)
    BY <1>1, <1>3 DEF FsInv, NamedInv
  <1>26. content' = [content EXCEPT ![x].data = Append(dir, entry), ![e] = Fs!File(LinkType, text)]
    <2>2. content[x] = [type |-> disk[x].type, data |-> dir]
      BY <1>3, <1>19, <1>25 DEF content
    <2>3. content'[x] = [type |-> disk[x].type, data |-> Append(dir, entry)]
      BY <1>3, <1>13, <1>21, <1>22, <1>24, <1>25 DEF content
    <2>4. content'[e] = Fs!File(LinkType, text)
      BY <1>6, <1>13, <1>14, <1>21, <1>24 DEF content, Fs!File
    <2>5. ASSUME NEW j \in Inums, j # x, j # e PROVE content'[j] = content[j]
      BY <1>13, <1>14, <1>21, <1>23, <1>24, <2>5 DEF content
    <2>6. content = [j \in Inums |-> content[j]] /\ content' = [j \in Inums |-> content'[j]]
      BY DEF content
    <2>7. PICK new, file : new = Append(dir, entry) /\ file = Fs!File(LinkType, text)
      OBVIOUS
    <2>8. content'[x] = [content[x] EXCEPT !.data = new]
      <3>1. PICK t : t = disk[x].type
        OBVIOUS
      <3>2. content[x] = [type |-> t, data |-> dir] /\ content'[x] = [type |-> t, data |-> new]
        BY <2>2, <2>3, <2>7, <3>1
      <3> QED BY <3>2
    <2>9. content' = [content EXCEPT ![x].data = new, ![e] = file]
      BY <1>3, <1>6, <2>4, <2>5, <2>6, <2>7, <2>8
    <2> QED BY <2>7, <2>9
  <1>27. content[x].type = DirType /\ content[x].data = dir /\ content[e] = NoEntry
    BY <1>3, <1>6, <1>19, <1>25 DEF content, Dirs
  <1>28. \A k \in 1..Len(dir) : dir[k].name # name
    <2>1. PICK more : more = Append(dir, entry)
      OBVIOUS
    <2>2. /\ Len(more) = Len(dir) + 1 /\ Len(dir) \in Nat
          /\ \A k \in 1..Len(dir) : more[k] = dir[k]
          /\ more[Len(dir) + 1] = entry
      BY <2>1, Appended
    <2>3. \A j, k \in 1..Len(more) : j # k => more[j].name # more[k].name
      BY <1>1, <1>20, <2>1, Parts DEF TreeInv
    <2>4. entry.name = name
      BY <1>18
    <2> QED BY <2>2, <2>3, <2>4
  <1>29. Fs!Link(x)
    <2>1. LinkType \in {DirType, FileType, LinkType}
      OBVIOUS
    <2> QED BY <1>18, <1>26, <1>27, <1>28, <2>1 DEF Fs!Link
  <1>30. \A j \in Inums \ Dirs' : Named(j)' => Contents(j)' \in Texts
    <2> SUFFICES ASSUME NEW j \in Inums, j \notin Dirs, Named(j)'
                 PROVE  Contents(j)' \in Texts
      BY <1>21
    <2>1. CASE j = e
      BY <1>14, <2>1
    <2>2. CASE j # e
      BY <1>14, <1>24, <2>2 DEF FsInv, TextInv
    <2> QED BY <2>1, <2>2
  <1>31. \A d \in Clients : Op(d)' # "none" => X(d)' = X(d) /\ content'[X(d)] # NoEntry
    <2>1. \A d \in Clients : Op(d)' = Op(d) /\ X(d)' = X(d)
      BY <1>12 DEF SameWork, Op, X
    <2> QED BY <1>24, <2>1, KeepNamed
  <1> QED BY <1>3, <1>15, <1>16, <1>17, <1>29, <1>30, <1>31, UpdateStep

\* unlink is about to remove what it has found: processes see it gone.
LEMMA RemoveInodeFs ==
  ASSUME FsInv, YfsInv', NEW c \in Clients, RemoveInode(c)
  PROVE  FsInv' /\ Fs!Next
  <1>1. /\ YfsInv /\ WorkInv /\ call[c].at = "remove" /\ Op(c) = "unlink" /\ Unlinking(c)
        /\ CallRemove(c, call[c].ino) /\ GoTo(c, "removing") /\ "removing" \in DOMAIN OpsAt
    BY Points, Parts, OpIs DEF RemoveInode, At, Unlinking, FsInv
  <1>2. PICK i \in Inums : i = call[c].ino
    BY <1>1, Parts, CallTyped
  <1>3. PICK x \in Dirs : x = X(c) /\ x \in Inums
    BY <1>1, TargetIsDir
  <1>4. Claims(c, i) /\ held[c] = {x, i} /\ rpc[c] = NoCall
    BY <1>1, <1>2, <1>3, Parts, RpcAt, NoneIsNoCall, HeldIs DEF Claims
  <1>5. PICK dir \in Seq(Entries) : dir = call[c].buf
    BY <1>1, <1>3, UnlinkEntry
  <1>6. PICK p \in 1..Len(dir) : p = Position(c) /\ dir[p].inum = i
    <2>1. Found(c) /\ call[c].ino = FoundInum(c)
      BY <1>1, UnlinkEntry
    <2> QED BY <1>2, <1>5, <2>1, FoundIs DEF FoundInum
  <1>7. Contents(x) = dir /\ InDir(x, i)
    BY <1>1, <1>2, <1>3, <1>5, UnlinkEntry
  <1>8. /\ \A d \in Clients : X(d) # i
        /\ i # Root /\ i # x /\ i \notin Dirs /\ disk[i].type # NoType
    <2>1. /\ \A d \in Clients : X(d) # i
          /\ disk[i].type \notin {NoType, DirType}
      BY <1>1, <1>2, Parts DEF ClaimInv
    <2>2. i # Root
      BY <1>1, <2>1, Parts DEF TargetInv
    <2> QED BY <1>3, <2>1, <2>2 DEF Dirs
  <1>9. \A d \in Clients : ~Busy(d, i)
    BY <1>1, <1>2, <1>4, HeldNotBusy
  <1>10. /\ call' \in [Clients -> CallRec] /\ call'[c].at = "removing" /\ SameWork(c)
         /\ NewContents(c)' = NewContents(c)
         /\ \A d \in Clients \ {c} : call'[d] = call[d]
    BY <1>1, Parts, GoToIs
  <1>11. SetEntry(c, i, NoEntry) /\ Call(c, "remove", i, <<>>, NoType)
    BY <1>1, <1>2 DEF CallRemove
  <1>12. /\ disk' = disk
         /\ \A d \in Clients \ {c} : rpc'[d] = rpc[d]
         /\ \A d \in Clients \ {c} : extent_map'[d] = extent_map[d]
    BY <1>1, <1>11, Parts, CallIs, SetEntryIs
  <1>13. \A f \in Inums \ {i} : Contents(f)' = Contents(f)
    BY <1>1, <1>2, <1>8, <1>9, Parts, CallRemoveStep
  <1>14. Quiet(c)
    <2>1. \A d \in Clients \ {c} : ~Kept(d, i)
      BY <1>1, <1>4, KeptNot
    <2> QED BY <1>1, <1>10, <1>12, <1>13, <2>1, QuietIf
  <1>15. HasSeen(c) /\ ~HasSeen(c)' /\ ~Hiding(c) /\ Hiding(c)'
    BY <1>1, <1>10 DEF HasSeen, Hiding, SameWork, At
  <1>16. Work(c)'
    <2>1. ~Landed(c)' /\ ~Making(c)'
      BY <1>10 DEF Landed, Making, PutPending, At
    <2> QED BY <1>15, <2>1, WorkIdle
  <1>17. WorkInv'
    BY <1>1, <1>14, <1>16, WorkNext
  <1>18. Dirs' = Dirs
    BY <1>12 DEF Dirs
  <1>19. Visible(x) = dir
    <2>1. \A d \in Clients : Hiding(d) => X(d) # x
      BY <1>1, <1>3, <1>4, <1>15, OneHider
    <2> QED BY <1>1, <1>7, <2>1, VisibleOpen
  <1>20. Visible(x)' = RemoveAt(dir, p)
    <2>1. Visible(X(c))' = Shown(c)'
      BY <1>15, <1>17, ShownNext
    <2>2. X(c)' = X(c) /\ Op(c)' = "unlink"
      BY <1>1, <1>10 DEF SameWork
    <2>3. Shown(c)' = NewContents(c)
      BY <1>10, <2>2 DEF Shown
    <2>4. NewContents(c) = RemoveAt(dir, p)
      BY <1>1, <1>5, <1>6 DEF NewContents
    <2> QED BY <1>3, <2>1, <2>2, <2>3, <2>4
  <1>21. \A f \in Dirs : f # x => Visible(f)' = Visible(f)
    <2> SUFFICES ASSUME NEW f \in Dirs, f # x PROVE Visible(f)' = Visible(f)
      OBVIOUS
    <2>1. Contents(f)' = Contents(f) /\ X(c)' = X(c)
      BY <1>8, <1>10, <1>13 DEF Dirs, SameWork
    <2> QED BY <1>3, <1>10, <2>1, VisibleSame
  <1>22. \A f \in Dirs : \A k \in 1..Len(Visible(f)) : Visible(f)[k].inum = i => f = x
    <2> SUFFICES ASSUME NEW f \in Dirs, NEW k \in 1..Len(Visible(f)), Visible(f)[k].inum = i
                 PROVE  f = x
      OBVIOUS
    <2>1. InDir(f, i) /\ ~Stale(f, i)
      BY <1>1, NamedAt
    <2>2. ~Stale(x, i)
      <3>1. ~Leaving(c)
        BY <1>1 DEF Leaving, PutPending, At
      <3> QED BY <1>1, <1>3, <1>4, <3>1, Parts, StaleMine
    <2> QED BY <1>1, <1>7, <2>1, <2>2, Parts DEF TreeInv
  <1>23. PICK rest : rest = RemoveAt(dir, p)
    OBVIOUS
  <1>24. /\ Len(rest) = Len(dir) - 1 /\ Len(dir) \in Nat
         /\ \A k \in 1..(Len(dir) - 1) : rest[k] = IF k < p THEN dir[k] ELSE dir[k + 1]
    <2>1. /\ Len(RemoveAt(dir, p)) = Len(dir) - 1
          /\ \A k \in 1..(Len(dir) - 1) :
               RemoveAt(dir, p)[k] = IF k < p THEN dir[k] ELSE dir[k + 1]
      BY SubSeqIn
    <2>2. Len(dir) \in Nat
      OBVIOUS
    <2> QED BY <1>23, <2>1, <2>2
  <1>25. \A j, k \in 1..Len(dir) : j # k => dir[j].inum # dir[k].inum
    BY <1>1, <1>7, Parts DEF TreeInv
  <1>26. ASSUME NEW j
         PROVE  (\E k \in 1..Len(rest) : rest[k].inum = j)
                  <=> j # i /\ \E k \in 1..Len(dir) : dir[k].inum = j
    <2>1. ASSUME NEW k \in 1..Len(rest), rest[k].inum = j
          PROVE  j # i /\ \E m \in 1..Len(dir) : dir[m].inum = j
      <3>1. PICK m \in 1..Len(dir) : m # p /\ rest[k] = dir[m]
        <4>1. CASE k < p
          BY <1>24, <4>1
        <4>2. CASE ~(k < p)
          BY <1>24, <4>2
        <4> QED BY <4>1, <4>2
      <3> QED BY <1>6, <1>25, <2>1, <3>1
    <2>2. ASSUME NEW m \in 1..Len(dir), dir[m].inum = j, j # i
          PROVE  \E k \in 1..Len(rest) : rest[k].inum = j
      <3>1. m # p
        BY <1>6, <2>2
      <3>2. CASE m < p
        BY <1>24, <2>2, <3>2
      <3>3. CASE ~(m < p)
        <4>1. m - 1 \in 1..Len(rest) /\ rest[m - 1] = dir[m]
          BY <1>24, <3>1, <3>3
        <4> QED BY <2>2, <4>1
      <3> QED BY <3>2, <3>3
    <2> QED BY <2>1, <2>2
  <1>27. \A j \in Inums : Named(j)' <=> Named(j) /\ j # i
    <2> SUFFICES ASSUME NEW j \in Inums PROVE Named(j)' <=> Named(j) /\ j # i
      OBVIOUS
    <2>1. ASSUME Named(j)' PROVE Named(j) /\ j # i
      <3>1. PICK f \in Dirs : \E k \in 1..Len(Visible(f)') : Visible(f)'[k].inum = j
        BY <1>18, <2>1 DEF Named
      <3>2. CASE f = x
        <4>1. Visible(f)' = rest
          BY <1>20, <1>23, <3>2
        <4>2. \E k \in 1..Len(rest) : rest[k].inum = j
          BY <3>1, <4>1
        <4>3. j # i /\ \E k \in 1..Len(Visible(x)) : Visible(x)[k].inum = j
          BY <1>19, <1>26, <4>2
        <4> QED BY <4>3 DEF Named
      <3>3. CASE f # x
        <4>1. Visible(f)' = Visible(f)
          BY <1>21, <3>3
        <4> QED BY <1>22, <3>1, <3>3, <4>1 DEF Named
      <3> QED BY <3>2, <3>3
    <2>2. ASSUME Named(j), j # i PROVE Named(j)'
      <3>1. PICK f \in Dirs : \E k \in 1..Len(Visible(f)) : Visible(f)[k].inum = j
        BY <2>2 DEF Named
      <3>2. CASE f = x
        <4>1. Visible(f) = dir /\ Visible(x)' = rest
          BY <1>19, <1>20, <1>23, <3>2
        <4>2. \E k \in 1..Len(dir) : dir[k].inum = j
          BY <3>1, <4>1
        <4>3. \E k \in 1..Len(rest) : rest[k].inum = j
          BY <1>26, <2>2, <4>2
        <4>4. \E k \in 1..Len(Visible(x)') : Visible(x)'[k].inum = j
          BY <4>1, <4>3
        <4> QED BY <1>18, <4>4 DEF Named
      <3>3. CASE f # x
        <4>1. Visible(f)' = Visible(f)
          BY <1>21, <3>3
        <4> QED BY <1>18, <3>1, <4>1 DEF Named
      <3> QED BY <3>2, <3>3
    <2> QED BY <2>1, <2>2
  <1>28. x = Root \/ Named(x)
    BY <1>1, <1>3 DEF FsInv, NamedInv
  <1>29. content' = [content EXCEPT ![x].data = RemoveAt(dir, p), ![i] = NoEntry]
    <2>2. content[x] = [type |-> disk[x].type, data |-> dir]
      BY <1>3, <1>19, <1>28 DEF content
    <2>3. content'[x] = [type |-> disk[x].type, data |-> rest]
      BY <1>3, <1>8, <1>12, <1>18, <1>20, <1>23, <1>27, <1>28 DEF content
    <2>4. content'[i] = NoEntry
      BY <1>8, <1>27 DEF content
    <2>5. ASSUME NEW j \in Inums, j # x, j # i PROVE content'[j] = content[j]
      BY <1>12, <1>13, <1>18, <1>21, <1>27, <2>5 DEF content
    <2>6. content = [j \in Inums |-> content[j]] /\ content' = [j \in Inums |-> content'[j]]
      BY DEF content
    <2>8. content'[x] = [content[x] EXCEPT !.data = rest]
      <3>1. PICK t : t = disk[x].type
        OBVIOUS
      <3>2. content[x] = [type |-> t, data |-> dir] /\ content'[x] = [type |-> t, data |-> rest]
        BY <2>2, <2>3, <3>1
      <3> QED BY <3>2
    <2>9. content' = [content EXCEPT ![x].data = rest, ![i] = NoEntry]
      BY <1>3, <1>8, <2>4, <2>5, <2>6, <2>8
    <2> QED BY <1>23, <2>9
  <1>30. content[x].type = DirType /\ content[x].data = dir
    BY <1>3, <1>19, <1>28 DEF content, Dirs
  <1>31. Fs!Unlink(x)
    <2>1. Fs!RemoveAt(dir, p) = RemoveAt(dir, p)
      BY DEF Fs!RemoveAt, RemoveAt
    <2> QED BY <1>6, <1>29, <1>30, <2>1 DEF Fs!Unlink
  <1>32. \A j \in Inums \ Dirs' : Named(j)' => Contents(j)' \in Texts
    BY <1>13, <1>18, <1>27 DEF FsInv, TextInv
  <1>33. \A d \in Clients : Op(d)' # "none" => X(d)' = X(d) /\ content'[X(d)] # NoEntry
    <2>1. \A d \in Clients : Op(d)' = Op(d) /\ X(d)' = X(d)
      BY <1>10 DEF SameWork, Op, X
    <2> QED BY <1>8, <1>27, <2>1, KeepNamed
  <1> QED BY <1>3, <1>14, <1>15, <1>16, <1>31, <1>32, <1>33, UpdateStep

-----------------------------------------------------------------------------
(* Steps of the server                                                     *)

\* What the server works on for c, the others neither lock nor make.
LEMMA ServeKept ==
  ASSUME YfsInv, NEW c \in Clients, NEW e \in Inums, Serves(c, e)
  PROVE  \A d \in Clients \ {c} : ~Kept(d, e)
  <1>1. CASE rpc[c].op = "remove"
    <2>1. At(c, "removing") /\ call[c].ino = e /\ Unlinking(c)
      BY <1>1, Parts, RpcAt DEF Serves, Unlinking
    <2>2. e \in held[c] /\ Claims(c, e)
      BY <2>1, Parts, HeldIs DEF At, Claims
    <2> QED BY <2>2, KeptNot
  <1>2. CASE rpc[c].op \in {"get", "put"} /\ Op(c) # "join"
    <2>1. e = X(c) /\ call[c].at \in {"read", "put"}
      BY <1>2, Parts, RpcAt DEF Serves, At
    <2>2. e \in held[c]
      BY <1>2, <2>1, Parts, HeldIs DEF At
    <2> QED BY <2>1, <2>2, KeptNot
  <1>3. CASE Op(c) = "join"
    <2>1. \A d \in Clients \ {c} : rpc[d] = NoCall /\ call[d].at \in {"out", "user"}
      BY <1>3, StartAlone
    <2>2. \A d \in Clients \ {c} : held[d] = {} /\ ~Making(d)
      BY <2>1, Parts, HeldIs DEF Making, PutPending, At
    <2> QED BY <2>2 DEF Kept
  <1> QED BY <1>1, <1>2, <1>3 DEF Serves

\* The server works on a call, and its step is not the one where a put lands.
LEMMA ServeFs ==
  ASSUME FsInv, YfsInv', NEW c \in Clients, NEW e \in Inums, Serves(c, e),
         rpc[c].op = "put" /\ rpc[c].at = "request" => Op(c) = "join",
         \A f \in Inums \ {e} : disk'[f].type = disk[f].type,
         rpc[c].op # "remove" => disk'[e].type = disk[e].type /\ Contents(e)' = Contents(e),
         disk'[e].type \in {NoType, disk[e].type},
         rpc[c].op = "put" => extent_map'[c] = extent_map[c]
  PROVE  FsInv' /\ (Fs!Next \/ UNCHANGED Fs!vars)
  <1>1. YfsInv /\ WorkInv
    BY DEF FsInv
  <1>2. /\ call' = call /\ \A d \in Clients \ {c} : rpc'[d] = rpc[d]
        /\ \A f \in Inums \ {e} : Contents(f)' = Contents(f)
        /\ \A d \in Clients, f \in Inums \ {e} : extent_map'[d][f] = extent_map[d][f]
        /\ rpc[c].at \notin {"none", "reply"} /\ rpc'[c].at \notin {"none", "request"}
        /\ rpc[c].op \in {"get", "put", "remove"} /\ e = rpc[c].eid
    BY DEF Serves
  <1>3. Quiet(c)
    BY <1>1, <1>2, ServeKept, QuietIf
  <1>4. call[c].at \in {"read", "put", "removing"} /\ Op(c) # "none" /\ X(c) \in Inums
    BY <1>1, <1>2, Parts, RpcAt, OpIs, CallTyped DEF At
  <1>5. Op(c)' = Op(c) /\ X(c)' = X(c) /\ Req(c)' = Req(c) /\ NewContents(c)' = NewContents(c)
        /\ (Hiding(c)' <=> Hiding(c)) /\ \A at : At(c, at)' <=> At(c, at)
    BY <1>2 DEF Op, X, Req, NewContents, Hiding, At, Position
  <1>6. ~PutPending(c)' /\ ~Making(c)'
    BY <1>2, <1>4, <1>5 DEF PutPending, Making, At
  <1>7. CASE rpc[c].op = "remove"
    <2>1. Op(c) = "unlink" /\ At(c, "removing") /\ Unlinking(c) /\ call[c].ino = e
      BY <1>1, <1>2, <1>7, Parts, RpcAt DEF Unlinking, Serves
    <2>2. ~HasSeen(c)' /\ ~HasSeen(c) /\ ~Landed(c)'
      BY <1>2, <2>1 DEF HasSeen, Landed, At, Op, PutPending
    <2>3. Work(c)'
      BY <1>6, <2>2, WorkIdle
    <2>4. ~Named(e) /\ e # Root /\ e \notin Dirs
      <3>1. Claims(c, e) /\ ~Made(c) /\ ~At(c, "remove")
        BY <2>1 DEF Claims, Made, Makers, At
      <3>2. e # Root
        BY <1>1, <3>1, ClaimsFree
      <3>3. disk[e].type # DirType
        BY <1>1, <2>1, Parts DEF ClaimInv
      <3> QED BY <1>1, <3>1, <3>2, <3>3, NamedIs DEF Dirs
    <2>5. Dirs' = Dirs
      <3>1. disk'[e].type # DirType
        BY <2>4, TypesAssumption DEF Dirs
      <3> QED BY <2>4, <3>1 DEF Dirs
    <2>6. \A f \in Dirs : Visible(f)' = Visible(f)
      <3> SUFFICES ASSUME NEW f \in Dirs PROVE Visible(f)' = Visible(f)
        OBVIOUS
      <3>1. Contents(f)' = Contents(f) /\ \A d \in Clients \ {c} : call'[d] = call[d]
        BY <1>2, <2>4 DEF Dirs
      <3> QED BY <1>5, <3>1, VisibleSame
    <2>7. content' = content
      BY <1>2, <2>4, <2>5, <2>6, TreeSame
    <2>8. content[X(c)] # NoEntry
      BY <1>1, <1>4, NamedHere DEF FsInv
    <2>9. Calm(c)
      BY <1>3, <1>5, <2>3, <2>7, <2>8 DEF Calm
    <2> QED BY <2>9, CalmStep
  <1>8. CASE rpc[c].op # "remove"
    <2>1. \A f \in Inums : Contents(f)' = Contents(f) /\ disk'[f].type = disk[f].type
      BY <1>2, <1>8
    <2>2. Work(c)'
      <3>1. HasSeen(c)' => HasSeen(c) /\ rpc[c].op = "put"
        <4>1. HasSeen(c)' => HasSeen(c)
          BY <1>2, <1>6 DEF HasSeen, Op, At
        <4>2. rpc[c].op = "get" => call[c].at = "read"
          BY <1>1, Parts, RpcAt DEF At
        <4>3. call[c].at = "read" => ~HasSeen(c)'
          BY <1>2 DEF HasSeen, Op, PutPending, At
        <4> QED BY <1>2, <1>8, <4>1, <4>2, <4>3
      <3>2. Landed(c)' => Landed(c)
        <4>1. Landed(c)' => Op(c) \in {"unlink", "symlink"} /\ At(c, "put")
          BY <1>4, <1>5 DEF Landed, At
        <4>2. At(c, "put") => rpc[c].op = "put"
          BY <1>1, <1>2, <1>8, Parts, RpcAt DEF At
        <4>3. Landed(c)' => rpc[c].at # "request" /\ ~PutPending(c)
          BY <1>2, <4>1, <4>2 DEF PutPending
        <4> QED BY <4>1, <4>3 DEF Landed
      <3>3. HasSeen(c)' => extent_map'[c][X(c)].type = disk'[X(c)].type
        BY <1>1, <1>4, <2>1, <3>1 DEF WorkInv, Work
      <3>4. Landed(c)' => Contents(X(c))' = NewContents(c)
        BY <1>1, <1>4, <1>5, <2>1, <3>2 DEF WorkInv, Work
      <3>5. Landed(c)' /\ Op(c) = "unlink" =>
              \A k \in 1..Len(NewContents(c)) : NewContents(c)[k].name # Req(c).name
        BY <1>1, <3>2 DEF WorkInv, Work
      <3> QED BY <1>5, <1>6, <3>3, <3>4, <3>5 DEF Work
    <2> QED BY <1>3, <1>4, <1>5, <2>1, <2>2, CalmOn
  <1> QED BY <1>7, <1>8

\* The server starts on a call: a put lands.
LEMMA LookupFs ==
  ASSUME FsInv, YfsInv', NEW c \in Clients, ServerLookup(c), call' = call, held' = held
  PROVE  FsInv' /\ (Fs!Next \/ UNCHANGED Fs!vars)
  <1>1. YfsInv
    BY DEF FsInv
  <1>2. PICK e \in Inums : e = rpc[c].eid
    BY <1>1, Parts, Typed, InumsAssumption
  <1>3. /\ Serves(c, e)
        /\ extent_map' = extent_map /\ disk' = disk
        /\ \A f \in Inums : f # e \/ rpc[c].op # "put" => Contents(f)' = Contents(f)
        /\ rpc[c].op = "put" => Contents(e)' = rpc[c].data
        /\ rpc[c].at = "request" /\ rpc[c].op \in {"get", "put", "remove"}
        /\ rpc'[c].at = "callback"
        /\ rpc[c].op = "put" => e = X(c) /\ At(c, "put") /\ rpc[c].data = NewContents(c)
    BY <1>1, <1>2, LookupIs
  <1>4. CASE rpc[c].op # "put"
    BY <1>3, <1>4, ServeFs
  <1>5. CASE rpc[c].op = "put" /\ Op(c) = "join"
    <2>1. X(c) = Root /\ Starting
      BY <1>1, <1>5, StartAlone
    <2>2. Contents(e)' = Contents(e)
      BY <1>1, <1>3, <1>5, <2>1, StartEmpty, Parts DEF StartInv
    <2> QED BY <1>3, <1>5, <2>2, ServeFs
  <1>6. CASE rpc[c].op = "put" /\ Op(c) # "join"
    <2>1. Quiet(c)
      <3>1. \A d \in Clients \ {c} : ~Kept(d, e)
        BY <1>1, <1>3, ServeKept
      <3>2. \A d \in Clients \ {c} : call'[d] = call[d] /\ rpc'[d] = rpc[d]
        BY <1>3 DEF Serves
      <3>3. /\ \A f \in Inums \ {e} : Contents(f)' = Contents(f) /\ disk'[f].type = disk[f].type
            /\ \A d \in Clients \ {c}, f \in Inums \ {e} : extent_map'[d][f] = extent_map[d][f]
        BY <1>3
      <3> QED BY <1>1, <3>1, <3>2, <3>3, QuietIf
    <2>2. /\ PutPending(c) /\ ~PutPending(c)' /\ HasNewContents(c) /\ call[c].at = "put"
      BY <1>3, <1>6 DEF PutPending, HasNewContents, At
    <2>3. Op(c) # "none"
      BY <1>1, <2>2, Parts, OpIs
    <2>4. /\ Op(c)' = Op(c) /\ X(c)' = X(c) /\ Req(c)' = Req(c)
          /\ NewContents(c)' = NewContents(c)
      BY DEF Op, X, Req, NewContents, Position
    <2>5. Lands(c)
      BY <1>3, <1>6, <2>1, <2>2, <2>3, <2>4 DEF Lands
    <2> QED BY <2>5, LandsFs
  <1> QED BY <1>4, <1>5, <1>6

\* An inode is made that nobody can name.
LEMMA CreateFs ==
  ASSUME FsInv, YfsInv', NEW c \in Clients, ServerCreate(c), call' = call, held' = held
  PROVE  FsInv' /\ (Fs!Next \/ UNCHANGED Fs!vars)
  <1>1. YfsInv /\ WorkInv
    BY DEF FsInv
  <1>2. /\ rpc[c].op = "create" /\ rpc[c].at = "request" /\ call[c].at = "make"
        /\ Op(c) \in Makers /\ rpc[c].type # NoType
    <2>1. rpc[c].op = "create" /\ rpc[c].at = "request"
      BY DEF ServerCreate
    <2>2. At(c, "make") /\ Op(c) \in Makers /\ rpc[c].type = Req(c).type
      BY <1>1, <2>1, Parts, RpcAt
    <2>3. Req(c).type # NoType
      BY <1>1, <2>2, Parts, ReqTyped, TypesAssumption DEF Makers, FileOps
    <2> QED BY <2>1, <2>2, <2>3 DEF At
  <1>3. PICK e \in Inums :
          /\ disk[e].type = NoType
          /\ \A f \in Inums \ {e} : disk'[f] = disk[f]
          /\ rpc' = [rpc EXCEPT ![c].at = "reply", ![c].eid = e]
          /\ extent_map' = extent_map
          /\ Contents(e)' = <<>>
          /\ \A f \in Inums \ {e} : Contents(f)' = Contents(f)
    BY <1>1, <1>2, Parts, CreateStep
  <1>4. /\ \A d \in Clients \ {c} : rpc'[d] = rpc[d]
        /\ rpc'[c].eid = e /\ rpc'[c].at = "reply"
    BY <1>1, <1>3, Parts DEF TypeOK
  <1>5. \A d \in Clients : Op(d) # "none" => X(d) # e
    BY <1>1, <1>3, Parts DEF TargetInv
  <1>6. \A d \in Clients \ {c} : ~Kept(d, e)
    <2> SUFFICES ASSUME NEW d \in Clients \ {c}, Kept(d, e) PROVE FALSE
      OBVIOUS
    <2>1. ~(Making(d) /\ e = NewInum(d))
      BY <1>1, <1>3, ClaimsInUse DEF Claims
    <2>2. X(d) = e /\ e \in held[d]
      BY <2>1 DEF Kept
    <2>3. Op(d) # "none"
      BY <1>1, <2>2, Parts, HeldIs, OpIs
    <2> QED BY <1>5, <2>2, <2>3
  <1>7. Quiet(c)
    BY <1>1, <1>3, <1>4, <1>6, QuietIf
  <1>8. Op(c)' = Op(c) /\ X(c)' = X(c) /\ Req(c)' = Req(c)
        /\ (Hiding(c)' <=> Hiding(c)) /\ call'[c].at = "make" /\ Op(c) # "none"
    BY <1>2 DEF Op, X, Req, Hiding, Makers
  <1>9. HasSeen(c) /\ ~Landed(c)' /\ NewInum(c)' = e /\ X(c) \in Inums \ {e}
    <2>1. X(c) \in Inums
      BY <1>1, Parts, CallTyped
    <2> QED BY <1>2, <1>4, <1>5, <1>8, <2>1 DEF HasSeen, Landed, NewInum, Makers, At
  <1>10. Work(c)'
    <2>1. extent_map[c][X(c)].type = disk[X(c)].type
      BY <1>1, <1>9 DEF WorkInv, Work
    <2>2. extent_map'[c][X(c)].type = disk'[X(c)].type
      BY <1>3, <1>9, <2>1
    <2>3. X(c)' = X(c)
      BY <1>8
    <2> QED BY <1>3, <1>9, <2>2, <2>3 DEF Work
  <1>11. Dirs \subseteq Dirs' /\ e \notin Dirs /\ \A f \in Dirs' : f \notin Dirs => f = e
    BY <1>3, TypesAssumption DEF Dirs
  <1>12. \A f \in Dirs : Visible(f)' = Visible(f)
    <2> SUFFICES ASSUME NEW f \in Dirs PROVE Visible(f)' = Visible(f)
      OBVIOUS
    <2>1. Contents(f)' = Contents(f) /\ \A d \in Clients \ {c} : call'[d] = call[d]
      BY <1>3, <1>11 DEF Dirs
    <2> QED BY <1>8, <2>1, VisibleSame
  <1>13. \A f \in Dirs' : f \notin Dirs => Visible(f)' = <<>>
    <2> SUFFICES ASSUME e \in Dirs' PROVE Visible(e)' = <<>>
      BY <1>11
    <2>1. ASSUME NEW d \in Clients, Hiding(d)' PROVE X(d)' # e
      <3>1. Hiding(d) /\ X(d)' = X(d)
        BY <2>1 DEF Hiding, Op, X
      <3> QED BY <1>1, <1>11, <3>1, HidingIs
    <2>2. Visible(e)' = Contents(e)'
      BY <2>1, OpenNext
    <2> QED BY <1>3, <2>2
  <1>14. \A i \in Inums : i = Root \/ Named(i) =>
           disk'[i].type = disk[i].type /\ (i \notin Dirs => Contents(i)' = Contents(i))
    <2>1. \A i \in Inums : i = Root \/ Named(i) => i # e
      BY <1>1, <1>3, Parts, NamedIs, TypesAssumption DEF TargetInv
    <2> QED BY <1>3, <2>1
  <1>15. content' = content
    BY <1>11, <1>12, <1>13, <1>14, TreeSame
  <1>16. content[X(c)] # NoEntry
    BY <1>8, NamedHere DEF FsInv
  <1>17. Calm(c)
    BY <1>7, <1>8, <1>10, <1>15, <1>16 DEF Calm
  <1> QED BY <1>17, CalmStep

\* Steps of the server.
LEMMA ServerFs ==
  ASSUME FsInv, YfsInv', NEW c \in Clients, Server(c)
  PROVE  FsInv' /\ (Fs!Next \/ UNCHANGED Fs!vars)
  <1>1. YfsInv /\ call' = call /\ held' = held
    BY DEF Server, FsInv
  <1>2. PICK e \in Inums : e = rpc[c].eid
    BY <1>1, Parts, Typed, InumsAssumption
  <1>3. CASE ShareHandler(c)
    <2>1. /\ Serves(c, e) /\ disk' = disk /\ rpc[c].op = "get"
          /\ \A f \in Inums : Contents(f)' = Contents(f)
      BY <1>1, <1>2, <1>3, ShareIs
    <2> QED BY <2>1, ServeFs
  <1>4. CASE InvalidateHandler(c)
    <2>1. /\ Serves(c, e) /\ disk' = disk
          /\ \A f \in Inums : f # e \/ rpc[c].op = "put" => Contents(f)' = Contents(f)
          /\ extent_map'[c] = extent_map[c]
          /\ rpc[c].at = "callback" /\ rpc[c].op \in {"put", "remove"}
      BY <1>1, <1>2, <1>4, InvalidateIs
    <2> QED BY <2>1, ServeFs
  <1>5. CASE ServerGet(c)
    <2>1. /\ Serves(c, e) /\ rpc[c].op = "get"
          /\ \A f \in Inums : Contents(f)' = Contents(f) /\ disk'[f].type = disk[f].type
      BY <1>1, <1>2, <1>5, GetIs
    <2> QED BY <2>1, ServeFs
  <1>6. CASE ServerPut(c)
    <2>1. /\ Serves(c, e) /\ rpc[c].op = "put" /\ rpc[c].at = "callback"
          /\ extent_map' = extent_map
          /\ \A f \in Inums : Contents(f)' = Contents(f) /\ disk'[f].type = disk[f].type
      BY <1>1, <1>2, <1>6, PutIs
    <2> QED BY <2>1, ServeFs
  <1>7. CASE ServerRemove(c)
    <2>1. /\ Serves(c, e) /\ rpc[c].op = "remove"
          /\ \A f \in Inums \ {e} : disk'[f].type = disk[f].type
          /\ disk'[e].type = NoType
      BY <1>1, <1>2, <1>7, RemoveIs
    <2> QED BY <2>1, ServeFs
  <1> QED BY <1>1, <1>3, <1>4, <1>5, <1>6, <1>7, LookupFs, CreateFs DEF Server, ServerStep

-----------------------------------------------------------------------------
(* The refinement                                                          *)

\* At the start the tree is an empty root directory,
LEMMA FsInit ==
  ASSUME Init
  PROVE  FsInv /\ Fs!Init
  <1>1. /\ YfsInv
        /\ \A c \in Clients : call[c] = NotStarted
        /\ \A i \in Inums : disk[i].type = (IF i = Root THEN DirType ELSE NoType)
    BY YfsInvInit DEF Init, CacheInit
  <1>2. \A c \in Clients : Op(c) = "none" /\ call[c].at = "out"
    BY <1>1 DEF NotStarted, Idle, Op
  <1>3. Dirs = {Root}
    BY <1>1, InumsAssumption, TypesAssumption DEF Dirs
  <1>4. Contents(Root) = <<>>
    <2>1. \A e \in Inums : Holders(e) = {}
      BY DEF Init, CacheInit, Cached, Holders
    <2>2. \A c \in Clients : rpc[c] = NoCall
      BY DEF Init, CacheInit
    <2>3. Carrying(Root) = {}
      BY <2>2, NoCallNotBusy, NoCallIs DEF Carrying
    <2>4. Modified(Root) = {}
      BY <2>1, InumsAssumption DEF Modified, Holders
    <2>5. disk[Root].data = <<>>
      BY InumsAssumption DEF Init, CacheInit
    <2> QED BY <2>3, <2>4, <2>5, InumsAssumption DEF Contents
  <1>5. \A c \in Clients : ~Hiding(c)
    BY <1>2 DEF Hiding
  <1>6. Visible(Root) = <<>>
    BY <1>1, <1>3, <1>4, <1>5, VisibleOpen
  <1>7. \A i \in Inums : ~Named(i)
    BY <1>3, <1>6 DEF Named
  <1>8. WorkInv
    BY <1>2 DEF WorkInv, Work, HasSeen, Landed, Making, Makers, PutPending, At
  <1>9. NamedInv /\ TextInv
    BY <1>2, <1>7 DEF NamedInv, TextInv
  <1>10. content = [i \in Inums |-> IF i = Root THEN Fs!File(DirType, <<>>) ELSE NoEntry]
    BY <1>1, <1>3, <1>6, <1>7, InumsAssumption DEF content, Fs!File
  <1>11. seen = [c \in Clients |-> NoEntry]
    BY <1>2 DEF seen, HasSeen, PutPending, At
  <1> QED BY <1>1, <1>8, <1>9, <1>10, <1>11 DEF FsInv, Fs!Init

\* every step keeps the invariant and is one of the tree or changes nothing of
\* it,
LEMMA FsStep ==
  ASSUME DirsStay, FsInv, OrderlyNext
  PROVE  FsInv' /\ (Fs!Next \/ UNCHANGED Fs!vars)
  <1>1. YfsInv'
    BY YfsInvStep DEF FsInv
  <1>2. PICK c \in Clients :
          \/ OrderlyJoin(c) \/ OrderlyStart(c)
          \/ Lock(c) \/ OrderlyLockEntry(c) \/ LockLink(c)
          \/ ClientStep(c) \/ Server(c)
    BY DEF OrderlyNext
  <1>3. ASSUME ClientStep(c) PROVE FsInv' /\ (Fs!Next \/ UNCHANGED Fs!vars)
    BY <1>1, <1>3, ReadFs, MakeFs, RemoveInodeFs, PutFs, FillFs, ReturnedFs, UnlockEntryFs,
       UnlockFs DEF ClientStep
  <1>4. CASE OrderlyJoin(c)
    BY <1>1, <1>4, JoinFs DEF OrderlyJoin
  <1>5. CASE OrderlyStart(c)
    BY <1>1, <1>5, StartFs DEF OrderlyStart
  <1>6. CASE OrderlyLockEntry(c)
    BY <1>1, <1>6, LockEntryFs DEF OrderlyLockEntry
  <1> QED BY <1>1, <1>2, <1>3, <1>4, <1>5, <1>6, LockFs, LockLinkFs, ServerFs

\* and so does one in which nothing happens.
LEMMA FsStutter ==
  ASSUME FsInv, UNCHANGED vars
  PROVE  FsInv' /\ UNCHANGED Fs!vars
  <1>1. YfsInv /\ YfsInv' /\ WorkInv /\ NamedInv /\ TextInv
    BY YfsInvStutter DEF FsInv
  <1>2. call' = call /\ cacheVars' = cacheVars
    BY DEF vars
  <1>3. /\ \A f : Contents(f)' = Contents(f)
        /\ extent_map' = extent_map /\ disk' = disk /\ rpc' = rpc
    BY <1>1, <1>2, CacheSame DEF YfsInv
  <1>4. \A f : Visible(f)' = Visible(f)
    BY <1>2, <1>3 DEF Visible, Hides, Hiding, X, Req, Op, At
  <1>5. Dirs' = Dirs
    BY <1>3 DEF Dirs
  <1>6. \A i : Named(i)' <=> Named(i)
    BY <1>4, <1>5 DEF Named
  <1>7. content' = content
    BY <1>3, <1>4, <1>5, <1>6 DEF content
  <1>8. \A c \in Clients :
          /\ Op(c)' = Op(c) /\ X(c)' = X(c) /\ Req(c)' = Req(c)
          /\ HasSeen(c)' <=> HasSeen(c)
          /\ Landed(c)' <=> Landed(c)
          /\ Making(c)' <=> Making(c)
          /\ NewInum(c)' = NewInum(c) /\ NewContents(c)' = NewContents(c)
    BY <1>2, <1>3 DEF Op, X, Req, At, HasSeen, Landed, Making, NewInum, NewContents,
                      PutPending, Position, Positions
  <1>9. seen' = seen
    BY <1>2, <1>3, <1>8 DEF seen
  <1>10. WorkInv'
    BY <1>1, <1>3, <1>8 DEF WorkInv, Work
  <1>11. NamedInv' /\ TextInv'
    BY <1>1, <1>3, <1>5, <1>6, <1>8 DEF NamedInv, TextInv
  <1> QED BY <1>1, <1>7, <1>9, <1>10, <1>11 DEF FsInv, Fs!vars

-----------------------------------------------------------------------------
(* The theorems                                                            *)

\* The invariant of the protocol gives coherence.
LEMMA CoherentIs == YfsInv => Coherent
  <1>1. SUFFICES ASSUME YfsInv, NEW e \in Inums, ~InCall(e) PROVE Settled(e)
    BY DEF Coherent
  <1>2. ASSUME NEW c \in Clients, Busy(c, e) PROVE FALSE
    <2>1. rpc[c] # NoCall
      BY <1>2, NoCallIs DEF Busy
    <2> QED BY <1>1, <1>2, <2>1 DEF Busy, InCall
  <1> QED BY <1>2, <1>1, Parts DEF CacheInv

\* Whom the server calls back has a copy, and no lock of the file.
LEMMA CallBackSafeIs == YfsInv => CallBackSafe
  <1>1. SUFFICES ASSUME YfsInv, NEW c \in Clients, rpc[c].at = "callback", rpc[c].todo # <<>>
                 PROVE  CalleeHasEntry(c) /\ rpc[c].eid \notin held[Callee(c)]
    BY DEF CallBackSafe
  <1>2. PICK e \in Inums : e = rpc[c].eid
    BY <1>1, Parts, Typed, InumsAssumption
  <1>3. Callee(c) \in Range(rpc[c].todo)
    BY <1>1, <1>2, Parts, Typed, TailRange DEF Callee
  <1>4. /\ rpc[c].op \in {"get", "put", "remove"}
        /\ rpc[c].op = "get" => GetInv(c, e)
        /\ rpc[c].op = "put" => PutInv(c, e)
        /\ rpc[c].op = "remove" => RemoveInv(c, e)
    BY <1>1, <1>2, Parts, Typed DEF CacheInv, CallInv
  <1>5. Range(rpc[c].todo) \subseteq Holders(e) \ {c}
    <2>1. CASE rpc[c].op = "get"
      BY <1>1, <1>4, <2>1 DEF GetInv, Holders
    <2>2. CASE rpc[c].op = "put"
      BY <1>1, <1>4, <2>2 DEF PutInv
    <2>3. CASE rpc[c].op = "remove"
      BY <1>1, <1>4, <2>3 DEF RemoveInv, Holders
    <2> QED BY <1>4, <2>1, <2>2, <2>3
  <1>6. Callee(c) \in Clients \ {c} /\ Cached(Callee(c), e)
    BY <1>3, <1>5 DEF Holders
  <1>7. rpc[c].eid \notin held[Callee(c)]
    <2>1. CASE Op(c) = "join"
      BY <1>1, <1>6, <2>1, StartAlone, Parts, HeldIs
    <2>2. CASE Op(c) # "join"
      <3>1. e \in held[c]
        BY <1>1, <1>2, <1>4, <2>2, Parts, RpcAt, HeldIs DEF At
      <3> QED BY <3>1, <1>1, <1>2, <1>6, Parts DEF LockInv
    <2> QED BY <2>1, <2>2
  <1> QED BY <1>2, <1>6, <1>7 DEF CalleeHasEntry

\* A directory that nobody has locked has no stale names.
LEMMA NamesSoundIs == YfsInv => NamesSound
  <1>1. SUFFICES ASSUME YfsInv, NEW d \in Dirs, \A c \in Clients : d \notin held[c],
                        NEW k \in 1..Len(Contents(d))
                 PROVE  /\ disk[Contents(d)[k].inum].type # NoType
                        /\ \A j \in 1..Len(Contents(d)) : j # k =>
                             /\ Contents(d)[j].name # Contents(d)[k].name
                             /\ Contents(d)[j].inum # Contents(d)[k].inum
    BY DEF NamesSound
  <1>2. \A i : ~Stale(d, i)
    BY <1>1, Parts, StaleLocked
  <1> QED BY <1>1, <1>2, Parts DEF TreeInv

\* Who waits while it holds a lock works in a directory, and waits for what is
\* none.
LEMMA Waits ==
  ASSUME YfsInv, DirsStay, NEW c \in Clients, NEW i \in Inums, held[c] # {}, WaitsFor(c, i)
  PROVE  held[c] = {X(c)} /\ X(c) \in Dirs /\ disk[i].type # DirType
  <1>1. CASE At(c, "link") /\ call[c].ino = i
    <2>1. Op(c) = "symlink" /\ Made(c)
      BY <1>1, Parts, OpIs DEF At, Made, Makers
    <2>2. held[c] = {X(c)}
      BY <1>1, Parts, HeldIs DEF At
    <2>3. X(c) \in Dirs
      BY <1>1, <2>1, MadeEntry
    <2>4. disk[i].type = LinkType
      BY <1>1, <2>1, Parts DEF ClaimInv
    <2> QED BY <2>2, <2>3, <2>4, TypesAssumption
  <1>2. CASE At(c, "got") /\ Op(c) = "unlink" /\ Found(c) /\ FoundInum(c) = i
    BY <1>2, FoundFile
  <1>3. ~At(c, "lock")
    BY Parts, HeldIs DEF At
  <1> QED BY <1>1, <1>2, <1>3 DEF WaitsFor

\* Who waits while it holds a lock holds that of a directory only.
LEMMA WaitsEndIs == YfsInv /\ DirsStay => WaitsEnd
  <1>1. SUFFICES ASSUME YfsInv, DirsStay, NEW c \in Clients, NEW d \in Clients,
                        NEW i \in Inums, NEW j \in Inums,
                        held[c] # {} /\ WaitsFor(c, i), i \in held[d], WaitsFor(d, j)
                 PROVE  FALSE
    BY DEF WaitsEnd
  <1>2. disk[i].type # DirType
    BY <1>1, Waits
  <1>3. i = X(d) /\ X(d) \in Dirs
    BY <1>1, Waits
  <1> QED BY <1>2, <1>3 DEF Dirs

\* Under the conditions of YfsInvariant: while nobody calls about a file,
\* owner_map names exactly the clients with a copy, and all copies but a single
\* modified one are what the disk has.
THEOREM CoherentHolds ==
  ASSUME DirsStay PROVE OrderlySpec => []Coherent
  BY YfsInvariant, CoherentIs, PTL

\* Under these conditions the asserts of share_handler and invalidate_handler
\* do not fail, and a client is called back only about files its FUSE thread
\* does not work on.
THEOREM CallBackSafeHolds ==
  ASSUME DirsStay PROVE OrderlySpec => []CallBackSafe
  BY YfsInvariant, CallBackSafeIs, PTL

\* Under these conditions directories that nobody has locked have unique names
\* that lead to inodes in use, each inode with one name.
THEOREM NamesSoundHolds ==
  ASSUME DirsStay PROVE OrderlySpec => []NamesSound
  BY YfsInvariant, NamesSoundIs, PTL

\* Under these conditions whom a client waits for while it holds a lock does not
\* wait itself: the file system does not deadlock on its locks.
THEOREM WaitsEndHolds ==
  ASSUME DirsStay PROVE OrderlySpec => []WaitsEnd
  BY YfsInvariant, WaitsEndIs, PTL

\* Under these conditions calls also work on what they have seen, and everything
\* they are about has a name.
THEOREM FsInvariant ==
  ASSUME DirsStay
  PROVE  OrderlySpec => []FsInv
  <1>1. Init => FsInv
    BY FsInit
  <1>2. FsInv /\ [OrderlyNext]_vars => FsInv'
    BY FsStep, FsStutter
  <1> QED BY <1>1, <1>2, PTL DEF OrderlySpec

\* Under these conditions clients, caches, lock service and extent server are,
\* together, one tree of files.
THEOREM OneTreeOfFiles ==
  ASSUME DirsStay
  PROVE  OrderlySpec => ImplementsFsSpec
  <1>1. Init => Fs!Init
    BY FsInit
  <1>2. FsInv /\ [OrderlyNext]_vars => [Fs!Next]_(Fs!vars)
    BY FsStep, FsStutter
  <1> QED BY <1>1, <1>2, FsInvariant, PTL DEF OrderlySpec, ImplementsFsSpec, Fs!Spec
=============================================================================
