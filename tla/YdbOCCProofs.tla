---------------------------- MODULE YdbOCCProofs ----------------------------
(***************************************************************************)
(* Proofs about the ydb server with optimistic transactions, for clients   *)
(* that read the keys they set and delete none (otherwise it does not hold,*)
(* see the runs).  What a put does to the store is proved of the inode     *)
(* manager; on that rests that a generation and a key determine a value,   *)
(* hence that validation by generations finds every transaction that has   *)
(* read what is gone.                                                      *)
(***************************************************************************)
EXTENDS YdbOCC, TLAPS

\* The lemmas about the inode manager, for files of one block.
Proved == INSTANCE InodeManagerProofs WITH
  Inums <- Keys, Contents <- Stored, NDirect <- 1, MaxFile <- 1, UsesRemoved <- TRUE

-----------------------------------------------------------------------------
(* The store                                                               *)

\* The inode manager of the model and the one of the lemmas have the same
\* invariant, ...
LEMMA SameInv == (Store!InodeInv <=> Proved!InodeInv) /\ Store!Live = Proved!Live
BY DEF Store!InodeInv, Proved!InodeInv, Store!TypeOK, Proved!TypeOK, Store!Types, Proved!Types,
       Store!Live, Proved!Live, Store!Placed, Proved!Placed, Store!NoSharing, Proved!NoSharing,
       Store!Used, Proved!Used, Store!Blockids, Proved!Blockids, Store!Indirect,
       Proved!Indirect, Store!HasIndirect, Proved!HasIndirect

\* ... also after a step, ...
LEMMA SameInvNext == (Store!InodeInv' <=> Proved!InodeInv') /\ Store!Live' = Proved!Live'
BY DEF Store!InodeInv, Proved!InodeInv, Store!TypeOK, Proved!TypeOK, Store!Types, Proved!Types,
       Store!Live, Proved!Live, Store!Placed, Proved!Placed, Store!NoSharing, Proved!NoSharing,
       Store!Used, Proved!Used, Store!Blockids, Proved!Blockids, Store!Indirect,
       Proved!Indirect, Store!HasIndirect, Proved!HasIndirect

\* ... read_file ...
LEMMA SameRead ==
  ASSUME NEW k \in Keys
  PROVE  Store!ReadFile(k) = Proved!ReadFile(k) /\ Store!ReadFile(k)' = Proved!ReadFile(k)'
BY DEF Store!ReadFile, Proved!ReadFile, Store!Blockids, Proved!Blockids, Store!Indirect,
       Proved!Indirect

\* ... and write_file.
LEMMA SameWrite ==
  ASSUME NEW k \in Keys, NEW text
  PROVE  Store!WriteFile(k, text) <=> Proved!WriteFile(k, text)
<1>1. \A n : Store!AllocBlock(n) = Proved!AllocBlock(n)
  BY DEF Store!AllocBlock, Proved!AllocBlock, Store!IsFreeBlock, Proved!IsFreeBlock,
         Store!Cardinality, Proved!Cardinality
<1>2. Store!Blockids(k) = Proved!Blockids(k) /\ Store!Indirect(k) = Proved!Indirect(k)
  BY DEF Store!Blockids, Proved!Blockids, Store!Indirect, Proved!Indirect
<1>3. \A n : /\ Store!NumTaken(k, n) = Proved!NumTaken(k, n)
             /\ Store!NeedsIndirect(k, n) <=> Proved!NeedsIndirect(k, n)
  BY DEF Store!NumTaken, Proved!NumTaken, Store!NeedsIndirect, Proved!NeedsIndirect,
         Store!HasIndirect, Proved!HasIndirect
<1>4. \A n : Store!CutOff(k, n) = Proved!CutOff(k, n)
  BY <1>2 DEF Store!CutOff, Proved!CutOff, Store!HasIndirect, Proved!HasIndirect
<1>5. \A n : Store!NewIndirect(k, n) = Proved!NewIndirect(k, n)
  BY <1>1, <1>2, <1>3 DEF Store!NewIndirect, Proved!NewIndirect
<1>6. \A n : Store!NewBlockids(k, n) = Proved!NewBlockids(k, n)
  BY <1>1, <1>2, <1>3 DEF Store!NewBlockids, Proved!NewBlockids
<1>7. \A ids, ind : Store!Written(k, text, ids, ind) = Proved!Written(k, text, ids, ind)
  BY DEF Store!Written, Proved!Written, Store!HasIndirect, Proved!HasIndirect
<1>8. \A n, b : Store!IsFreeBlock(b, n) <=> Proved!IsFreeBlock(b, n)
  BY DEF Store!IsFreeBlock, Proved!IsFreeBlock,
         Store!Cardinality, Proved!Cardinality
<1>. QED BY <1>1, <1>3, <1>4, <1>5, <1>6, <1>7, <1>8 DEF Store!WriteFile, Proved!WriteFile

\* ec->put of a key: the key has the new value and generation, the others keep
\* theirs.
LEMMA Put ==
  ASSUME Store!InodeInv, Store!Live = Keys, NEW k \in Keys, NEW c \in Stored,
         Store!WriteFile(k, <<c>>)
  PROVE  /\ Store!InodeInv' /\ Store!Live' = Keys /\ Current(k)' = c
         /\ \A l \in Keys : l # k => Current(l)' = Current(l)
<1>0. Root \in Keys /\ Keys \subseteq Nat /\ 1 \in Nat /\ Blocks \subseteq Nat
  BY NumbersAssumption
<1>1. <<c>> \in Proved!Texts
  BY DEF Proved!Texts
<1>2. Proved!InodeInv /\ Proved!Live = Keys /\ Proved!WriteFile(k, <<c>>)
  BY SameInv, SameWrite
<1>3. Proved!InodeInv' /\ Proved!Live' = Proved!Live
  BY <1>0, <1>1, <1>2, Proved!WriteFileKeeps, Proved!WriteFileInode
<1>4. inode'[k].size = 1 /\ Proved!ReadFile(k)' = <<c>>
  <2>1. Proved!ReadFile(k)' = <<c>>
    BY <1>0, <1>1, <1>2, Proved!WriteFileReads
  <2>2. inode'[k].size \in 0..1
    BY <1>3 DEF Proved!InodeInv, Proved!TypeOK
  <2>3. 1..inode'[k].size = 1..1
    BY <2>1 DEF Proved!ReadFile
  <2>4. inode'[k].size # 0
    BY <2>3
  <2>. QED BY <2>1, <2>2, <2>4
<1>5. ASSUME NEW l \in Keys, l # k
      PROVE  inode'[l] = inode[l] /\ Proved!ReadFile(l)' = Proved!ReadFile(l)
  <2>1. k \in Proved!Live /\ l \in Proved!Live
    BY <1>2
  <2>. QED BY <1>0, <1>1, <1>2, <1>5, <2>1, Proved!WriteFileOthers
<1>6. Current(k)' = c
  BY <1>4, SameRead DEF Current
<1>7. \A l \in Keys : l # k => Current(l)' = Current(l)
  BY <1>5, SameRead DEF Current
<1>. QED BY <1>2, <1>3, <1>6, <1>7, SameInvNext

\* A step that does not touch the store.
LEMMA StoreKept ==
  ASSUME AllStored, UNCHANGED storeVars
  PROVE  AllStored' /\ \A k \in Keys : Current(k)' = Current(k)
<1>1. Store!InodeInv' <=> Store!InodeInv
  BY DEF storeVars, Store!InodeInv, Store!TypeOK, Store!Live, Store!Placed, Store!NoSharing,
         Store!Used, Store!Blockids, Store!Indirect
<1>2. \A k \in Keys : Current(k)' = Current(k)
  BY DEF storeVars, Current, Store!ReadFile, Store!Blockids, Store!Indirect
<1>3. Store!Live' = Store!Live
  BY DEF storeVars, Store!Live
<1>. QED BY <1>1, <1>2, <1>3 DEF AllStored

-----------------------------------------------------------------------------
(* The invariant, one transaction at a time                                *)

\* What OccInv says of the transaction t, and of all of them together.
TxnOf(t) ==
  /\ t \notin DOMAIN tMap => got[t] = <<>>
  /\ t \in DOMAIN tMap =>
       /\ outcome[t] = "none" /\ DOMAIN tMap[t] \subseteq Keys /\ DOMAIN got[t] = DOMAIN tMap[t]
       /\ \A k \in DOMAIN tMap[t] :
            /\ tMap[t][k] \in Entries /\ tMap[t][k].readen
            /\ tMap[t][k].written => tMap[t][k].val \in Values
            /\ committing # t => tMap[t][k].gen <= Current(k).gen
            /\ committing # t /\ tMap[t][k].gen = Current(k).gen => got[t][k] = Current(k).val
            /\ committing = t /\ k \in todo => tMap[t][k].gen = Current(k).gen

Together ==
  /\ DOMAIN tMap \subseteq Txns /\ committing \in {None} \cup DOMAIN tMap /\ todo \subseteq Keys
  /\ got \in [Txns -> Partial(Keys, Values \cup {Empty})]
  /\ outcome \in [Txns -> {"none", "OK", "ABORT"}]
  /\ ToWrite

\* OccInv can be shown one transaction at a time, ...
LEMMA OccInvIs == OccInv <=> AllStored /\ Together /\ \A t \in Txns : TxnOf(t)
<1>1. ASSUME OccInv PROVE AllStored /\ Together
  BY <1>1 DEF OccInv, TypeOK, Together
<1>2. ASSUME OccInv, NEW t \in Txns PROVE TxnOf(t)
  <2>1. CASE t \in DOMAIN tMap
    <3>1. ASSUME NEW k \in DOMAIN tMap[t]
          PROVE  /\ tMap[t][k] \in Entries /\ tMap[t][k].readen
                 /\ tMap[t][k].written => tMap[t][k].val \in Values
                 /\ committing # t => tMap[t][k].gen <= Current(k).gen
                 /\ committing # t /\ tMap[t][k].gen = Current(k).gen
                      => got[t][k] = Current(k).val
                 /\ committing = t /\ k \in todo => tMap[t][k].gen = Current(k).gen
      BY <1>2, <2>1 DEF OccInv, TypeOK, ReadFirst, VersionsIdentify
    <3>2. /\ outcome[t] = "none" /\ DOMAIN tMap[t] \subseteq Keys
          /\ DOMAIN got[t] = DOMAIN tMap[t]
      BY <1>2, <2>1 DEF OccInv, TypeOK, ReadFirst
    <3>. QED BY <2>1, <3>1, <3>2 DEF TxnOf
  <2>2. CASE t \notin DOMAIN tMap
    BY <1>2, <2>2 DEF OccInv, ReadFirst, TxnOf
  <2>. QED BY <2>1, <2>2
<1>3. ASSUME AllStored, Together, \A t \in Txns : TxnOf(t) PROVE OccInv
  <2>1. Store!TypeOK
    BY <1>3 DEF AllStored, Store!InodeInv
  <2>2. TypeOK
    BY <1>3, <2>1 DEF Together, TypeOK, TxnOf
  <2>3. ReadFirst
    BY <1>3 DEF TxnOf, ReadFirst
  <2>4. VersionsIdentify
    BY <1>3 DEF TxnOf, VersionsIdentify, Together
  <2>. QED BY <1>3, <2>2, <2>3, <2>4 DEF OccInv, Together
<1>. QED BY <1>1, <1>2, <1>3

\* ... also after a step.
LEMMA OccInvNext ==
  ASSUME AllStored', Together', \A t \in Txns : TxnOf(t)' PROVE OccInv'
<1>1. Store!TypeOK'
  BY DEF AllStored, Store!InodeInv
<1>2. TypeOK'
  BY <1>1 DEF Together, TypeOK, TxnOf
<1>3. ReadFirst'
  BY DEF TxnOf, ReadFirst
<1>4. VersionsIdentify'
  BY DEF TxnOf, VersionsIdentify, Together
<1>. QED BY <1>2, <1>3, <1>4 DEF OccInv, Together

\* A transaction that the step is not about.
LEMMA TxnKept ==
  ASSUME NEW t \in Txns, TxnOf(t), \A k \in Keys : Current(k)' = Current(k),
         t \in DOMAIN tMap' <=> t \in DOMAIN tMap, t \in DOMAIN tMap => tMap'[t] = tMap[t],
         got'[t] = got[t], outcome'[t] = outcome[t],
         committing' = t <=> committing = t, todo' = todo
  PROVE  TxnOf(t)'
BY DEF TxnOf

\* The server starts with an empty file for each key and no transaction.
LEMMA InitInv == Init => OccInv
<1>. SUFFICES ASSUME Init PROVE OccInv
  OBVIOUS
<1>1. \A k \in Keys : inode[k].size = 0
  BY DEF Init
<1>2. \A k \in Keys : Current(k) = [gen |-> 0, val |-> Empty]
  BY <1>1 DEF Current
<1>3. Store!Live = Keys
  BY DEF Init, Store!Live
<1>4. \A k \in Keys : Store!Used(k) = {}
  BY <1>1 DEF Store!Used, Store!HasIndirect
<1>5. Store!InodeInv
  <2>1. Store!TypeOK
    BY DEF Init, Store!TypeOK, Store!Types
  <2>2. Store!Placed
    BY <1>3, <1>4 DEF Store!Placed
  <2>3. Store!NoSharing
    BY <1>1, <1>3, <1>4 DEF Store!NoSharing, Store!HasIndirect
  <2>. QED BY <1>3, <2>1, <2>2, <2>3 DEF Init, Store!InodeInv
<1>6. AllStored
  BY <1>2, <1>3, <1>5 DEF AllStored, Versions
<1>7. Together
  <2>1. <<>> \in Partial(Keys, Values \cup {Empty})
    <3>1. {} \in SUBSET Keys /\ <<>> \in [{} -> Values \cup {Empty}]
      OBVIOUS
    <3>. QED BY <3>1 DEF Partial
  <2>2. DOMAIN tMap = {}
    BY DEF Init
  <2>. QED BY <2>1, <2>2, NamesAssumption DEF Init, Together, ToWrite
<1>8. \A t \in Txns : TxnOf(t)
  BY DEF Init, TxnOf
<1>. QED BY <1>6, <1>7, <1>8, OccInvIs

-----------------------------------------------------------------------------
(* The steps                                                               *)

\* What a client was told stays a map of some keys to values.
LEMMA ToldExtended ==
  ASSUME NEW f \in Partial(Keys, Values \cup {Empty}), NEW k \in Keys,
         NEW v \in Values \cup {Empty}
  PROVE  Extend(f, k, v) \in Partial(Keys, Values \cup {Empty})
<1>1. PICK D \in SUBSET Keys : f \in [D -> Values \cup {Empty}]
  BY DEF Partial
<1>2. D \cup {k} \in SUBSET Keys /\ Extend(f, k, v) \in [D \cup {k} -> Values \cup {Empty}]
  BY <1>1 DEF Extend
<1>. QED BY <1>2 DEF Partial

\* transaction_begin: a transaction without keys.
LEMMA BeginKeeps == ASSUME OccInv, NEW t \in Txns, Begin(t) PROVE OccInv'
<1>0. AllStored /\ Together /\ \A u \in Txns : TxnOf(u)
  BY OccInvIs
<1>1. /\ t \notin DOMAIN tMap /\ DOMAIN tMap' = DOMAIN tMap \cup {t} /\ tMap'[t] = <<>>
      /\ \A u \in DOMAIN tMap : tMap'[u] = tMap[u]
      /\ UNCHANGED <<storeVars, committing, todo, got, outcome>> /\ outcome[t] = "none"
  BY DEF Begin, Extend
<1>2. AllStored' /\ \A k \in Keys : Current(k)' = Current(k)
  BY <1>0, <1>1, StoreKept
<1>3. Together'
  <2>1. ToWrite'
    BY <1>0, <1>1 DEF Together, ToWrite, Written
  <2>. QED BY <1>0, <1>1, <2>1 DEF Together
<1>4. TxnOf(t)'
  BY <1>0, <1>1 DEF TxnOf
<1>5. ASSUME NEW u \in Txns, u # t PROVE TxnOf(u)'
  BY <1>0, <1>1, <1>2, <1>5, TxnKept
<1>. QED BY <1>2, <1>3, <1>4, <1>5, OccInvNext

\* A step of t that changes its entry of k and what its client was told.
LEMMA EntryKeeps ==
  ASSUME OccInv, NEW t \in Txns, Running(t), NEW k \in Keys, NEW e \in Entries,
         SetEntry(t, k, e), UNCHANGED <<storeVars, committing, todo, outcome>>,
         got' = got \/ \E v \in Values \cup {Empty} : got' = [got EXCEPT ![t] = Extend(@, k, v)],
         k \in DOMAIN got'[t], e.readen, e.written => e.val \in Values,
         e.gen <= Current(k).gen, e.gen = Current(k).gen => got'[t][k] = Current(k).val
  PROVE  OccInv'
<1>0. AllStored /\ Together /\ \A u \in Txns : TxnOf(u)
  BY OccInvIs
<1>1. /\ t \in DOMAIN tMap /\ committing # t /\ DOMAIN tMap' = DOMAIN tMap
      /\ DOMAIN tMap'[t] = DOMAIN tMap[t] \cup {k} /\ tMap'[t][k] = e
      /\ \A l \in DOMAIN tMap[t] : l # k => tMap'[t][l] = tMap[t][l]
      /\ \A u \in DOMAIN tMap : u # t => tMap'[u] = tMap[u]
  BY DEF Running, SetEntry, Extend
<1>2. /\ got' \in [Txns -> Partial(Keys, Values \cup {Empty})]
      /\ \A u \in Txns : u # t => got'[u] = got[u]
      /\ DOMAIN got'[t] = DOMAIN got[t] \cup {k}
      /\ \A l \in DOMAIN got[t] : l # k => got'[t][l] = got[t][l]
  <2>0. got \in [Txns -> Partial(Keys, Values \cup {Empty})]
    BY <1>0 DEF Together
  <2>1. CASE got' = got
    BY <2>0, <2>1
  <2>2. ASSUME NEW v \in Values \cup {Empty}, got' = [got EXCEPT ![t] = Extend(@, k, v)]
        PROVE  /\ got' \in [Txns -> Partial(Keys, Values \cup {Empty})]
               /\ \A u \in Txns : u # t => got'[u] = got[u]
               /\ DOMAIN got'[t] = DOMAIN got[t] \cup {k}
               /\ \A l \in DOMAIN got[t] : l # k => got'[t][l] = got[t][l]
    <3>1. got[t] \in Partial(Keys, Values \cup {Empty})
      BY <2>0
    <3>2. Extend(got[t], k, v) \in Partial(Keys, Values \cup {Empty})
      BY <3>1, ToldExtended
    <3>3. got'[t] = Extend(got[t], k, v)
      BY <2>0, <2>2
    <3>. QED BY <2>0, <2>2, <3>2, <3>3 DEF Extend
  <2>. QED BY <2>1, <2>2
<1>3. AllStored' /\ \A l \in Keys : Current(l)' = Current(l)
  BY <1>0, StoreKept
<1>4. Together'
  <2>1. ToWrite'
    BY <1>0, <1>1 DEF Together, ToWrite, Written
  <2>. QED BY <1>0, <1>1, <1>2, <2>1 DEF Together
<1>5. TxnOf(t)'
  BY <1>0, <1>1, <1>2, <1>3 DEF TxnOf
<1>6. ASSUME NEW u \in Txns, u # t PROVE TxnOf(u)'
  BY <1>0, <1>1, <1>2, <1>3, <1>6, TxnKept
<1>. QED BY <1>3, <1>4, <1>5, <1>6, OccInvNext

\* get of a key from the store: the entry has the generation of the value.
LEMMA GetStoredKeeps ==
  ASSUME OccInv, NEW t \in Txns, NEW k \in Keys, GetStored(t, k) PROVE OccInv'
<1>. DEFINE e == [gen |-> Current(k).gen, readen |-> TRUE, written |-> FALSE,
                  val |-> Current(k).val]
<1>0. Current(k) \in Versions /\ TypeOK
  BY DEF OccInv, AllStored
<1>1. e \in Entries /\ Current(k).val \in Values \cup {Empty} /\ Current(k).gen \in Nat
  BY <1>0 DEF Entries, Versions
<1>2. /\ got' = [got EXCEPT ![t] = Extend(@, k, Current(k).val)]
      /\ got'[t] = Extend(got[t], k, Current(k).val)
  BY <1>0 DEF GetStored, TypeOK
<1>3. Running(t) /\ SetEntry(t, k, e) /\ UNCHANGED <<storeVars, committing, todo, outcome>>
  BY DEF GetStored
<1>4. k \in DOMAIN got'[t] /\ got'[t][k] = Current(k).val
  BY <1>2 DEF Extend
<1>5. /\ e.readen /\ ~ e.written /\ e.gen = Current(k).gen /\ e.gen <= Current(k).gen
  BY <1>1
<1>. HIDE DEF e
<1>. QED BY <1>1, <1>2, <1>3, <1>4, <1>5, EntryKeeps

\* get of a key that the transaction has used changes nothing, as it was read
\* before.
LEMMA GetLocalKeeps ==
  ASSUME OccInv, NEW t \in Txns, NEW k \in Keys, GetLocal(t, k)
  PROVE  /\ OccInv' /\ UNCHANGED <<storeVars, committing, todo, got, outcome>>
         /\ DOMAIN tMap' = DOMAIN tMap
         /\ \A u \in DOMAIN tMap : DOMAIN tMap'[u] = DOMAIN tMap[u]
         /\ \A u \in DOMAIN tMap : \A l \in DOMAIN tMap[u] : tMap'[u][l] = tMap[u][l]
<1>. DEFINE e == [tMap[t][k] EXCEPT !.readen = TRUE]
<1>0. TxnOf(t) /\ t \in DOMAIN tMap /\ k \in DOMAIN tMap[t] /\ committing # t
  BY OccInvIs DEF GetLocal, Running
<1>1. e = tMap[t][k] /\ e \in Entries
  BY <1>0 DEF TxnOf, Entries
<1>2. /\ Running(t) /\ SetEntry(t, k, tMap[t][k])
      /\ UNCHANGED <<storeVars, committing, todo, got, outcome>>
  BY <1>1 DEF GetLocal
<1>3. OccInv'
  BY <1>0, <1>1, <1>2, EntryKeeps DEF TxnOf
<1>4. \A l \in DOMAIN tMap[t] : tMap'[t][l] = tMap[t][l]
  BY <1>0, <1>2 DEF SetEntry, Extend
<1>5. DOMAIN tMap'[t] = DOMAIN tMap[t] /\ \A u \in DOMAIN tMap : u # t => tMap'[u] = tMap[u]
  BY <1>0, <1>2 DEF SetEntry, Extend
<1>6. DOMAIN tMap' = DOMAIN tMap
  BY <1>2 DEF SetEntry
<1>. QED BY <1>2, <1>3, <1>4, <1>5, <1>6

\* write sets a key that was read; its generation stays the one that was read.
LEMMA WriteKeeps ==
  ASSUME OccInv, ~ BlindWrites, NEW t \in Txns, NEW k \in Keys, NEW v \in Values,
         Write(t, k, v)
  PROVE  /\ OccInv' /\ k \in DOMAIN tMap[t]
         /\ SetEntry(t, k, [tMap[t][k] EXCEPT !.written = TRUE, !.val = v])
         /\ UNCHANGED <<storeVars, committing, todo, got, outcome>>
<1>. DEFINE e == [tMap[t][k] EXCEPT !.written = TRUE, !.val = v]
<1>0. TxnOf(t) /\ t \in DOMAIN tMap /\ k \in DOMAIN tMap[t] /\ committing # t
  BY OccInvIs DEF Write, Running
<1>1. /\ Running(t) /\ SetEntry(t, k, e)
      /\ UNCHANGED <<storeVars, committing, todo, got, outcome>>
  BY DEF Write
<1>2. e \in Entries /\ e.gen = tMap[t][k].gen /\ e.readen /\ e.val = v
  BY <1>0 DEF TxnOf, Entries
<1>3. OccInv'
  <2>. HIDE DEF e
  <2>. QED BY <1>0, <1>1, <1>2, EntryKeeps DEF TxnOf
<1>. QED BY <1>0, <1>1, <1>3

\* Validation finds the generation of every entry to be the one in the store.
LEMMA ValidateKeeps == ASSUME OccInv, NEW t \in Txns, Validate(t) PROVE OccInv'
<1>0. AllStored /\ Together /\ \A u \in Txns : TxnOf(u)
  BY OccInvIs
<1>1. /\ t \in DOMAIN tMap /\ committing = None /\ committing' = t /\ todo' = Written(t)
      /\ UNCHANGED <<storeVars, tMap, got, outcome>>
      /\ \A k \in DOMAIN tMap[t] : tMap[t][k].readen => ~ Current(k).gen > tMap[t][k].gen
  BY DEF Validate, Running, Valid
<1>2. AllStored' /\ \A k \in Keys : Current(k)' = Current(k)
  BY <1>0, <1>1, StoreKept
<1>3. Written(t) \subseteq Keys /\ t # None
  BY <1>0, <1>1, NamesAssumption DEF TxnOf, Written
<1>4. Together'
  <2>1. ToWrite'
    BY <1>1, <1>3 DEF ToWrite, Written
  <2>. QED BY <1>0, <1>1, <1>3, <2>1 DEF Together
<1>5. TxnOf(t)'
  <2>1. ASSUME NEW k \in DOMAIN tMap[t] PROVE tMap[t][k].gen = Current(k).gen
    <3>1. k \in Keys /\ tMap[t][k] \in Entries /\ tMap[t][k].readen
          /\ tMap[t][k].gen <= Current(k).gen
      BY <1>0, <1>1, <1>3 DEF TxnOf
    <3>2. Current(k).gen \in Nat /\ tMap[t][k].gen \in Nat
      BY <1>0, <3>1 DEF AllStored, Versions, Entries
    <3>. QED BY <1>1, <3>1, <3>2
  <2>2. \A k \in DOMAIN tMap[t] : Current(k)' = Current(k)
    BY <1>0, <1>1, <1>2 DEF TxnOf
  <2>. QED BY <1>0, <1>1, <2>1, <2>2 DEF TxnOf
<1>6. ASSUME NEW u \in Txns, u # t PROVE TxnOf(u)'
  <2>1. committing # u /\ committing' # u
    BY <1>1, <1>6, NamesAssumption
  <2>2. \A k \in Keys : Current(k)' = Current(k)
    BY <1>2
  <2>. QED BY <1>0, <1>1, <2>1, <2>2 DEF TxnOf
<1>. QED BY <1>2, <1>4, <1>5, <1>6, OccInvNext

\* The end of a transaction that is not between validation and reply, or has
\* nothing left to write.
LEMMA EraseKeeps ==
  ASSUME OccInv, NEW t \in Txns, NEW how \in {"OK", "ABORT"}, Erase(t, how),
         UNCHANGED <<storeVars, todo>>,
         \/ committing # t /\ committing' = committing
         \/ committing = t /\ committing' = None /\ todo = {}
  PROVE  OccInv'
<1>0. AllStored /\ Together /\ \A u \in Txns : TxnOf(u)
  BY OccInvIs
<1>1. /\ DOMAIN tMap' = DOMAIN tMap \ {t} /\ \A u \in DOMAIN tMap \ {t} : tMap'[u] = tMap[u]
      /\ got' = [got EXCEPT ![t] = <<>>] /\ outcome' = [outcome EXCEPT ![t] = how]
  BY DEF Erase, Restrict
<1>2. AllStored' /\ \A k \in Keys : Current(k)' = Current(k)
  BY <1>0, StoreKept
<1>3. Together'
  <2>1. ToWrite'
    BY <1>0, <1>1 DEF Together, ToWrite, Written
  <2>2. <<>> \in Partial(Keys, Values \cup {Empty})
    <3>1. {} \in SUBSET Keys /\ <<>> \in [{} -> Values \cup {Empty}]
      OBVIOUS
    <3>. QED BY <3>1 DEF Partial
  <2>. QED BY <1>0, <1>1, <2>1, <2>2 DEF Together
<1>4. TxnOf(t)'
  BY <1>0, <1>1 DEF TxnOf, Together
<1>5. ASSUME NEW u \in Txns, u # t PROVE TxnOf(u)'
  <2>1. got'[u] = got[u] /\ outcome'[u] = outcome[u]
    BY <1>0, <1>1, <1>5 DEF Together
  <2>2. committing' = u <=> committing = u
    BY <1>5, NamesAssumption
  <2>. QED BY <1>0, <1>1, <1>2, <1>5, <2>1, <2>2, TxnKept
<1>. QED BY <1>2, <1>3, <1>4, <1>5, OccInvNext

\* A key that a commit puts: the generation is the one that it has read plus
\* one.
LEMMA WriteBackStores ==
  ASSUME OccInv, NEW k \in Keys, WriteBack(k)
  PROVE  /\ k \in todo /\ todo' = todo \ {k} /\ committing \in DOMAIN tMap
         /\ UNCHANGED <<tMap, committing, got, outcome>>
         /\ AllStored'
         /\ Current(k)' = [gen |-> Current(k).gen + 1, val |-> tMap[committing][k].val]
         /\ \A l \in Keys : l # k => Current(l)' = Current(l)
<1>. DEFINE e == tMap[committing][k]
<1>0. AllStored /\ Together /\ \A u \in Txns : TxnOf(u)
  BY OccInvIs
<1>1. k \in todo /\ todo' = todo \ {k} /\ UNCHANGED <<tMap, committing, got, outcome>>
  BY DEF WriteBack
<1>2. committing \in DOMAIN tMap /\ committing \in Txns /\ k \in Written(committing)
  BY <1>0, <1>1 DEF Together, ToWrite
<1>3. e \in Entries /\ e.val \in Values /\ e.gen = Current(k).gen /\ e.val # Empty
  BY <1>0, <1>1, <1>2, NamesAssumption DEF TxnOf, Written
<1>4. Compose(e) \in Stored /\ Compose(e) = [gen |-> Current(k).gen + 1, val |-> e.val]
  BY <1>3 DEF Compose, Stored, Entries
<1>5. Store!WriteFile(k, <<Compose(e)>>)
  BY <1>3 DEF WriteBack
<1>6. /\ Store!InodeInv' /\ Store!Live' = Keys /\ Current(k)' = Compose(e)
      /\ \A l \in Keys : l # k => Current(l)' = Current(l)
  <2>. HIDE DEF e
  <2>. QED BY <1>0, <1>4, <1>5, Put DEF AllStored
<1>7. AllStored'
  <2>1. Current(k)' \in Versions
    BY <1>4, <1>6 DEF Stored, Versions
  <2>. QED BY <1>0, <1>6, <2>1 DEF AllStored
<1>. QED BY <1>1, <1>2, <1>4, <1>6, <1>7

\* A put raises the generation of its key above all that running transactions
\* have read, and the other keys that the commit writes keep theirs.
LEMMA WriteBackKeeps == ASSUME OccInv, NEW k \in Keys, WriteBack(k) PROVE OccInv'
<1>0. AllStored /\ Together /\ \A u \in Txns : TxnOf(u)
  BY OccInvIs
<1>1. /\ k \in todo /\ todo' = todo \ {k} /\ committing \in DOMAIN tMap
      /\ UNCHANGED <<tMap, committing, got, outcome>> /\ AllStored'
      /\ Current(k)'.gen = Current(k).gen + 1
      /\ \A l \in Keys : l # k => Current(l)' = Current(l)
  BY WriteBackStores
<1>2. Together'
  <2>1. ToWrite'
    BY <1>0, <1>1 DEF Together, ToWrite, Written
  <2>. QED BY <1>0, <1>1, <2>1 DEF Together
<1>3. ASSUME NEW t \in Txns PROVE TxnOf(t)'
  <2>1. CASE t \in DOMAIN tMap
    <3>1. ASSUME NEW l \in DOMAIN tMap[t]
          PROVE  /\ committing # t => tMap[t][l].gen <= Current(l)'.gen
                 /\ committing # t /\ tMap[t][l].gen = Current(l)'.gen
                      => got[t][l] = Current(l)'.val
                 /\ committing = t /\ l \in todo' => tMap[t][l].gen = Current(l)'.gen
      <4>0. l \in Keys /\ tMap[t][l].gen \in Nat /\ Current(l).gen \in Nat
        BY <1>0, <2>1 DEF TxnOf, AllStored, Versions, Entries
      <4>1. CASE l = k
        BY <1>0, <1>1, <2>1, <4>0, <4>1 DEF TxnOf
      <4>2. CASE l # k
        BY <1>0, <1>1, <2>1, <4>0, <4>2 DEF TxnOf
      <4>. QED BY <4>1, <4>2
    <3>. QED BY <1>0, <1>1, <2>1, <3>1 DEF TxnOf
  <2>2. CASE t \notin DOMAIN tMap
    BY <1>0, <1>1, <2>2 DEF TxnOf
  <2>. QED BY <2>1, <2>2
<1>. QED BY <1>1, <1>2, <1>3, OccInvNext

\* OccInv is inductive.
LEMMA OccNext ==
  ASSUME ~ BlindWrites, ~ Deletes PROVE OccInv /\ [Next]_vars => OccInv'
<1>. SUFFICES ASSUME OccInv, [Next]_vars PROVE OccInv'
  OBVIOUS
<1>1. CASE UNCHANGED vars
  <2>0. AllStored /\ Together /\ \A u \in Txns : TxnOf(u)
    BY OccInvIs
  <2>1. AllStored' /\ \A k \in Keys : Current(k)' = Current(k)
    BY <1>1, <2>0, StoreKept DEF vars
  <2>2. Together'
    BY <1>1, <2>0 DEF vars, Together, ToWrite, Written
  <2>3. \A t \in Txns : TxnOf(t)'
    BY <1>1, <2>0, <2>1, TxnKept DEF vars
  <2>. QED BY <2>1, <2>2, <2>3, OccInvNext
<1>2. ASSUME NEW t \in Txns, Begin(t) \/ Validate(t) PROVE OccInv'
  BY <1>2, BeginKeeps, ValidateKeeps
<1>3. ASSUME NEW t \in Txns, Refuse(t) \/ Abort(t) PROVE OccInv'
  <2>1. Erase(t, "ABORT") /\ UNCHANGED <<storeVars, committing, todo>> /\ committing # t
    BY <1>3 DEF Refuse, Abort, Running
  <2>. QED BY <2>1, EraseKeeps
<1>4. ASSUME NEW t \in Txns, Finish(t) PROVE OccInv'
  BY <1>4, EraseKeeps DEF Finish
<1>5. ASSUME NEW t \in Txns, NEW k \in Keys, GetStored(t, k) \/ GetLocal(t, k) PROVE OccInv'
  BY <1>5, GetStoredKeeps, GetLocalKeeps
<1>6. ASSUME NEW t \in Txns, NEW k \in Keys, NEW v \in Values, Write(t, k, v) PROVE OccInv'
  BY <1>6, WriteKeeps
<1>7. ASSUME NEW k \in Keys, WriteBack(k) PROVE OccInv'
  BY <1>7, WriteBackKeeps
<1>. QED BY <1>1, <1>2, <1>3, <1>4, <1>5, <1>6, <1>7 DEF Next

\* Where keys are read before they are set, a key and a generation determine a
\* value, every put raises the generation, and a validated commit overwrites
\* just what it has read.
THEOREM OccInvariant == ASSUME ~ BlindWrites, ~ Deletes PROVE Spec => []OccInv
BY InitInv, OccNext, PTL DEF Spec

\* Keys leave the list of a commit only as they are put.
LEMMA GrowsNext ==
  ASSUME ~ BlindWrites, ~ Deletes
  PROVE  OccInv /\ [Next]_vars
           => [\A k \in todo : k \notin todo' => Current(k).gen' > Current(k).gen]_vars
<1>. SUFFICES ASSUME OccInv, Next, NEW k \in todo, k \notin todo'
              PROVE  Current(k).gen' > Current(k).gen
  OBVIOUS
<1>1. k \in Keys /\ Current(k).gen \in Nat /\ committing # None
  BY OccInvIs DEF Together, ToWrite, AllStored, Versions
<1>2. PICK l \in Keys : WriteBack(l)
  BY <1>1 DEF Next, Begin, Validate, Refuse, Finish, Abort, GetStored, GetLocal, Write
<1>3. todo' = todo \ {l} /\ Current(l)'.gen = Current(l).gen + 1
  BY <1>2, WriteBackStores
<1>. QED BY <1>1, <1>3

\* A committed write raises the generation of its key.
THEOREM WrittenVersionGrowsHolds ==
  ASSUME ~ BlindWrites, ~ Deletes PROVE Spec => WrittenVersionGrows
BY OccInvariant, GrowsNext, PTL DEF Spec, WrittenVersionGrows

-----------------------------------------------------------------------------
(* Serializability                                                         *)

\* The server starts as the abstract database does.
LEMMA SerialInit == Init => Serial!Init
<1>. SUFFICES ASSUME Init PROVE Serial!Init
  OBVIOUS
<1>1. Database = [k \in Keys |-> Empty]
  <2>1. \A k \in Keys : Current(k).val = Empty
    BY DEF Init, Current
  <2>. QED BY <2>1 DEF Init, Database
<1>2. Status = [t \in Txns |-> "new"]
  BY NamesAssumption DEF Init, Status
<1>3. Told = [t \in Txns |-> <<>>] /\ HasSet = [t \in Txns |-> <<>>]
  BY NamesAssumption DEF Init, Told, HasSet, Running
<1>. QED BY <1>1, <1>2, <1>3 DEF Serial!Init

\* The database changes neither when the store nor when what is left to write
\* does.
LEMMA DatabaseKept ==
  ASSUME AllStored, UNCHANGED storeVars, todo' = todo,
         \A k \in todo : tMap'[committing'][k].val = tMap[committing][k].val
  PROVE  Database' = Database
<1>1. \A k \in Keys : Current(k)' = Current(k)
  BY StoreKept
<1>. QED BY <1>1 DEF Database

\* transaction_begin begins the abstract transaction.
LEMMA SerialBegin == ASSUME OccInv, NEW t \in Txns, Begin(t) PROVE Serial!Begin(t)
<1>0. AllStored /\ Together /\ \A u \in Txns : TxnOf(u)
  BY OccInvIs
<1>1. /\ t \notin DOMAIN tMap /\ DOMAIN tMap' = DOMAIN tMap \cup {t} /\ tMap'[t] = <<>>
      /\ outcome[t] = "none" /\ \A u \in DOMAIN tMap : tMap'[u] = tMap[u]
      /\ UNCHANGED <<storeVars, committing, todo, got, outcome>> /\ committing # t
  BY <1>0, NamesAssumption DEF Begin, Extend, Together
<1>2. Database' = Database
  BY <1>0, <1>1, DatabaseKept DEF Together, ToWrite
<1>3. Status[t] = "new" /\ Status' = [Status EXCEPT ![t] = "running"]
  BY <1>1 DEF Status
<1>4. Told' = Told
  BY <1>1 DEF Told
<1>5. HasSet' = HasSet
  <2>1. ASSUME NEW u \in Txns PROVE HasSet'[u] = HasSet[u]
    <3>1. CASE u = t
      BY <1>1, <3>1 DEF HasSet, Running, Written
    <3>2. CASE u # t
      BY <1>1, <3>2 DEF HasSet, Running, Written
    <3>. QED BY <3>1, <3>2
  <2>. QED BY <2>1 DEF HasSet
<1>. QED BY <1>2, <1>3, <1>4, <1>5 DEF Serial!Begin

\* get of a key from the store is a read of the abstract transaction; the value
\* may be one that a commit under way is about to replace.
LEMMA SerialGet ==
  ASSUME OccInv, NEW t \in Txns, NEW k \in Keys, GetStored(t, k)
  PROVE  Serial!Get(t, k, Current(k).val)
<1>0. AllStored /\ Together /\ \A u \in Txns : TxnOf(u)
  BY OccInvIs
<1>1. /\ t \in DOMAIN tMap /\ committing # t /\ k \notin DOMAIN tMap[t]
      /\ UNCHANGED <<storeVars, committing, todo, outcome>>
      /\ got' = [got EXCEPT ![t] = Extend(@, k, Current(k).val)]
      /\ DOMAIN tMap' = DOMAIN tMap /\ \A u \in DOMAIN tMap : u # t => tMap'[u] = tMap[u]
      /\ tMap'[t] = Extend(tMap[t], k, [gen |-> Current(k).gen, readen |-> TRUE,
                                        written |-> FALSE, val |-> Current(k).val])
  BY DEF GetStored, Running, SetEntry
<1>2. Database' = Database
  <2>1. todo # {} => committing \in DOMAIN tMap
    BY <1>0 DEF Together, ToWrite
  <2>. QED BY <1>0, <1>1, <2>1, DatabaseKept
<1>3. Status[t] = "running" /\ Status' = Status
  BY <1>0, <1>1 DEF Status, TxnOf
<1>4. Told' = [Told EXCEPT ![t] = Serial!Extend(@, k, Current(k).val)]
  <2>1. Told'[t] = Serial!Extend(Told[t], k, Current(k).val)
    BY <1>0, <1>1 DEF Told, Extend, Serial!Extend, Together
  <2>2. ASSUME NEW u \in Txns, u # t PROVE Told'[u] = Told[u]
    BY <1>0, <1>1, <2>2 DEF Told, Together
  <2>. QED BY <2>1, <2>2 DEF Told
<1>5. HasSet' = HasSet
  <2>1. Written(t)' = Written(t) /\ \A l \in Written(t) : tMap'[t][l] = tMap[t][l]
    BY <1>1 DEF Written, Extend
  <2>2. HasSet'[t] = HasSet[t]
    BY <1>1, <2>1 DEF HasSet, Running
  <2>3. ASSUME NEW u \in Txns, u # t PROVE HasSet'[u] = HasSet[u]
    BY <1>1, <2>3 DEF HasSet, Running, Written
  <2>. QED BY <2>2, <2>3 DEF HasSet
<1>6. k \notin DOMAIN Told[t] \cup DOMAIN HasSet[t]
  BY <1>0, <1>1 DEF Told, HasSet, Written, TxnOf, Running
<1>. QED BY <1>2, <1>3, <1>4, <1>5, <1>6 DEF Serial!Get

\* write sets the key in the abstract transaction.
LEMMA SerialPut ==
  ASSUME OccInv, ~ BlindWrites, NEW t \in Txns, NEW k \in Keys, NEW v \in Values,
         Write(t, k, v)
  PROVE  Serial!Put(t, k, v)
<1>0. AllStored /\ Together /\ \A u \in Txns : TxnOf(u)
  BY OccInvIs
<1>. DEFINE e == [tMap[t][k] EXCEPT !.written = TRUE, !.val = v]
<1>1. /\ t \in DOMAIN tMap /\ committing # t /\ k \in DOMAIN tMap[t]
      /\ UNCHANGED <<storeVars, committing, todo, got, outcome>>
      /\ DOMAIN tMap' = DOMAIN tMap /\ \A u \in DOMAIN tMap : u # t => tMap'[u] = tMap[u]
      /\ tMap'[t] = Extend(tMap[t], k, e)
  BY WriteKeeps DEF Write, Running, SetEntry
<1>2. e.written = TRUE /\ e.val = v
  BY <1>0, <1>1 DEF TxnOf, Entries
<1>. HIDE DEF e
<1>3. Database' = Database
  <2>1. todo # {} => committing \in DOMAIN tMap
    BY <1>0 DEF Together, ToWrite
  <2>. QED BY <1>0, <1>1, <2>1, DatabaseKept
<1>4. Status[t] = "running" /\ Status' = Status
  BY <1>0, <1>1 DEF Status, TxnOf
<1>5. Told' = Told
  BY <1>1 DEF Told
<1>6. HasSet' = [HasSet EXCEPT ![t] = Serial!Extend(@, k, v)]
  <2>1. /\ Written(t)' = Written(t) \cup {k}
        /\ \A l \in Written(t) \cup {k} : tMap'[t][l].val = IF l = k THEN v ELSE tMap[t][l].val
    BY <1>1, <1>2 DEF Written, Extend
  <2>2. HasSet'[t] = Serial!Extend(HasSet[t], k, v)
    BY <1>1, <2>1 DEF HasSet, Running, Serial!Extend
  <2>3. ASSUME NEW u \in Txns, u # t PROVE HasSet'[u] = HasSet[u]
    BY <1>1, <2>3 DEF HasSet, Running, Written
  <2>. QED BY <2>2, <2>3 DEF HasSet
<1>. QED BY <1>3, <1>4, <1>5, <1>6 DEF Serial!Put

\* The abstract transaction commits at validation: what it has read is in the
\* database, as the generations are the same.
LEMMA SerialCommit == ASSUME OccInv, NEW t \in Txns, Validate(t) PROVE Serial!Commit(t)
<1>0. AllStored /\ Together /\ \A u \in Txns : TxnOf(u)
  BY OccInvIs
<1>1. /\ t \in DOMAIN tMap /\ committing = None /\ committing' = t /\ todo' = Written(t)
      /\ UNCHANGED <<storeVars, tMap, got, outcome>> /\ todo = {} /\ t # None
      /\ \A k \in DOMAIN tMap[t] : tMap[t][k].readen => ~ Current(k).gen > tMap[t][k].gen
  BY <1>0, NamesAssumption DEF Validate, Running, Valid, Together, ToWrite
<1>2. ASSUME NEW k \in DOMAIN Told[t] PROVE Told[t][k] = Database[k]
  <2>1. /\ k \in Keys /\ tMap[t][k].gen <= Current(k).gen /\ Told[t][k] = got[t][k]
        /\ tMap[t][k] \in Entries /\ ~ Current(k).gen > tMap[t][k].gen
        /\ tMap[t][k].gen = Current(k).gen => got[t][k] = Current(k).val
    BY <1>0, <1>1, <1>2 DEF Told, TxnOf
  <2>2. tMap[t][k].gen = Current(k).gen
    BY <1>0, <2>1 DEF AllStored, Versions, Entries
  <2>. QED BY <1>1, <2>1, <2>2 DEF Database
<1>3. \A u \in Txns : Running(u)' <=> Running(u) /\ u # t
  BY <1>1, NamesAssumption DEF Running
<1>4. Status[t] = "running" /\ Status' = [Status EXCEPT ![t] = "committed"]
  BY <1>0, <1>1, NamesAssumption DEF Status, TxnOf
<1>5. Told' = [Told EXCEPT ![t] = <<>>]
  BY <1>1, NamesAssumption DEF Told
<1>6. HasSet' = [HasSet EXCEPT ![t] = <<>>]
  BY <1>1, <1>3 DEF HasSet, Written
<1>7. Database' = [k \in Keys |-> IF k \in DOMAIN HasSet[t] THEN HasSet[t][k] ELSE Database[k]]
  <2>1. \A k \in Keys : Current(k)' = Current(k)
    BY <1>0, <1>1, StoreKept
  <2>2. HasSet[t] = [k \in Written(t) |-> tMap[t][k].val]
    BY <1>1 DEF HasSet, Running
  <2>. QED BY <1>1, <2>1, <2>2 DEF Database
<1>. QED BY <1>2, <1>4, <1>5, <1>6, <1>7 DEF Serial!Commit, Serial!End

\* A transaction that is refused or aborted has changed nothing.
LEMMA SerialAbort ==
  ASSUME OccInv, NEW t \in Txns, Refuse(t) \/ Abort(t) PROVE Serial!Abort(t)
<1>0. AllStored /\ Together /\ \A u \in Txns : TxnOf(u)
  BY OccInvIs
<1>1. /\ t \in DOMAIN tMap /\ committing # t /\ UNCHANGED <<storeVars, committing, todo>>
      /\ DOMAIN tMap' = DOMAIN tMap \ {t} /\ got' = [got EXCEPT ![t] = <<>>]
      /\ outcome' = [outcome EXCEPT ![t] = "ABORT"]
      /\ \A u \in DOMAIN tMap \ {t} : tMap'[u] = tMap[u]
  BY DEF Refuse, Abort, Running, Erase, Restrict
<1>2. Database' = Database
  <2>1. todo # {} => committing \in DOMAIN tMap
    BY <1>0 DEF Together, ToWrite
  <2>. QED BY <1>0, <1>1, <2>1, DatabaseKept
<1>3. Status[t] = "running" /\ Status' = [Status EXCEPT ![t] = "aborted"]
  BY <1>0, <1>1 DEF Status, TxnOf, Together
<1>4. Told' = [Told EXCEPT ![t] = <<>>]
  BY <1>0, <1>1 DEF Told, Together
<1>5. HasSet' = [HasSet EXCEPT ![t] = <<>>]
  <2>1. HasSet'[t] = <<>>
    BY <1>1 DEF HasSet, Running
  <2>2. ASSUME NEW u \in Txns, u # t PROVE HasSet'[u] = HasSet[u]
    BY <1>1, <2>2 DEF HasSet, Running, Written
  <2>. QED BY <2>1, <2>2 DEF HasSet
<1>. QED BY <1>2, <1>3, <1>4, <1>5 DEF Serial!Abort, Serial!End

\* A put moves a value to the store that the database has already.
LEMMA SerialWriteBack ==
  ASSUME OccInv, NEW k \in Keys, WriteBack(k) PROVE UNCHANGED Serial!vars
<1>1. /\ k \in todo /\ todo' = todo \ {k} /\ UNCHANGED <<tMap, committing, got, outcome>>
      /\ Current(k)'.val = tMap[committing][k].val
      /\ \A l \in Keys : l # k => Current(l)' = Current(l)
  BY WriteBackStores
<1>2. Database' = Database
  <2>1. ASSUME NEW l \in Keys PROVE Database'[l] = Database[l]
    BY <1>1 DEF Database
  <2>. QED BY <2>1 DEF Database
<1>3. Status' = Status /\ Told' = Told /\ HasSet' = HasSet
  BY <1>1 DEF Status, Told, HasSet, Running, Written
<1>. QED BY <1>2, <1>3 DEF Serial!vars

\* The reply of a commit changes nothing that is seen.
LEMMA SerialFinish ==
  ASSUME OccInv, NEW t \in Txns, Finish(t) PROVE UNCHANGED Serial!vars
<1>0. AllStored /\ Together /\ \A u \in Txns : TxnOf(u)
  BY OccInvIs
<1>1. /\ committing = t /\ todo = {} /\ committing' = None /\ UNCHANGED <<storeVars, todo>>
      /\ DOMAIN tMap' = DOMAIN tMap \ {t} /\ got' = [got EXCEPT ![t] = <<>>]
      /\ outcome' = [outcome EXCEPT ![t] = "OK"]
      /\ \A u \in DOMAIN tMap \ {t} : tMap'[u] = tMap[u]
  BY DEF Finish, Erase, Restrict
<1>2. Database' = Database
  BY <1>0, <1>1, DatabaseKept
<1>3. \A u \in Txns : u # None
  BY NamesAssumption
<1>4. Status' = Status /\ Told' = Told
  BY <1>0, <1>1, <1>3 DEF Status, Told, Together
<1>5. HasSet' = HasSet
  <2>1. ASSUME NEW u \in Txns PROVE HasSet'[u] = HasSet[u]
    <3>1. CASE u = t
      BY <1>1, <3>1 DEF HasSet, Running
    <3>2. CASE u # t
      BY <1>1, <1>3, <3>2 DEF HasSet, Running, Written
    <3>. QED BY <3>1, <3>2
  <2>. QED BY <2>1 DEF HasSet
<1>. QED BY <1>2, <1>4, <1>5 DEF Serial!vars

\* Every step of the server is a step of the abstract database or none.
LEMMA SerialNext ==
  ASSUME ~ BlindWrites, ~ Deletes
  PROVE  OccInv /\ [Next]_vars => [Serial!Next]_(Serial!vars)
<1>. SUFFICES ASSUME OccInv, [Next]_vars PROVE [Serial!Next]_(Serial!vars)
  OBVIOUS
<1>0. AllStored /\ Together /\ \A u \in Txns : TxnOf(u)
  BY OccInvIs
<1>1. CASE UNCHANGED vars
  <2>1. \A k \in Keys : Current(k)' = Current(k)
    BY <1>0, <1>1, StoreKept DEF vars
  <2>2. Database' = Database /\ Status' = Status /\ Told' = Told /\ HasSet' = HasSet
    BY <1>1, <2>1 DEF vars, Database, Status, Told, HasSet, Running, Written
  <2>. QED BY <2>2 DEF Serial!vars
<1>2. ASSUME NEW t \in Txns, Begin(t) \/ Validate(t) \/ Refuse(t) \/ Abort(t)
      PROVE  Serial!Next
  BY <1>2, SerialBegin, SerialCommit, SerialAbort DEF Serial!Next
<1>3. ASSUME NEW t \in Txns, NEW k \in Keys, GetStored(t, k) PROVE Serial!Next
  <2>1. Current(k).val \in Values \cup {Empty}
    BY <1>0 DEF AllStored, Versions
  <2>. QED BY <1>3, <2>1, SerialGet DEF Serial!Next
<1>4. ASSUME NEW t \in Txns, NEW k \in Keys, NEW v \in Values, Write(t, k, v)
      PROVE  Serial!Next
  BY <1>4, SerialPut DEF Serial!Next
<1>5. ASSUME NEW t \in Txns, NEW k \in Keys, GetLocal(t, k) PROVE UNCHANGED Serial!vars
  <2>1. /\ UNCHANGED <<storeVars, committing, todo, got, outcome>> /\ DOMAIN tMap' = DOMAIN tMap
        /\ \A u \in DOMAIN tMap : DOMAIN tMap'[u] = DOMAIN tMap[u]
        /\ \A u \in DOMAIN tMap : \A l \in DOMAIN tMap[u] : tMap'[u][l] = tMap[u][l]
    BY <1>5, GetLocalKeeps
  <2>2. \A l \in todo : committing \in DOMAIN tMap /\ l \in DOMAIN tMap[committing]
    BY <1>0 DEF Together, ToWrite, Written
  <2>3. Database' = Database
    BY <1>0, <2>1, <2>2, DatabaseKept
  <2>4. Status' = Status /\ Told' = Told
    BY <2>1 DEF Status, Told
  <2>5. HasSet' = HasSet
    <3>1. ASSUME NEW u \in Txns PROVE HasSet'[u] = HasSet[u]
      <4>1. CASE u \in DOMAIN tMap
        BY <2>1, <4>1 DEF HasSet, Running, Written
      <4>2. CASE u \notin DOMAIN tMap
        BY <2>1, <4>2 DEF HasSet, Running
      <4>. QED BY <4>1, <4>2
    <3>. QED BY <3>1 DEF HasSet
  <2>. QED BY <2>3, <2>4, <2>5 DEF Serial!vars
<1>6. ASSUME NEW t \in Txns, Finish(t) PROVE UNCHANGED Serial!vars
  BY <1>6, SerialFinish
<1>7. ASSUME NEW k \in Keys, WriteBack(k) PROVE UNCHANGED Serial!vars
  BY <1>7, SerialWriteBack
<1>. QED BY <1>1, <1>2, <1>3, <1>4, <1>5, <1>6, <1>7 DEF Next

\* The transactions that commit are serializable in the order of their
\* validations.
THEOREM Serializable ==
  ASSUME ~ BlindWrites, ~ Deletes PROVE Spec => ImplementsSerialSpec
BY SerialInit, SerialNext, OccInvariant, PTL DEF Spec, ImplementsSerialSpec, Serial!Spec
=============================================================================
