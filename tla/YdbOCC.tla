------------------------------- MODULE YdbOCC -------------------------------
(***************************************************************************)
(* The ydb server with optimistic transactions (lab3/ydb_server_occ.cc) on *)
(* top of the inode manager of the extent server.  A value is stored with  *)
(* its generation in one block; a transaction keeps the keys it used and   *)
(* their generations in tMap and is validated under commitLock.            *)
(*                                                                         *)
(* The lock of a key is held for a single call of the extent server, and   *)
(* the lock of tMap for single accesses to it: such a section is one step. *)
(* A call with an unknown transaction id changes nothing (TRANSIDINV).     *)
(***************************************************************************)
EXTENDS Naturals, Sequences, Functions, PartialMaps

CONSTANTS
  Keys,           \* keys; hash() makes inode numbers of them
  Root,           \* inode of the root directory, hash() may return it too
  Blocks,         \* data blocks of the extent server
  Txns,           \* transactions
  Values,         \* values of keys, none of them empty
  Empty,          \* the empty value: del sets it, a key never set has it
  NoBlock,        \* see InodeManager
  None,           \* no transaction holds commitLock
  BlindWrites,    \* clients may set keys that they have not read
  Deletes         \* clients may delete keys

ASSUME FlagsAssumption == BlindWrites \in BOOLEAN /\ Deletes \in BOOLEAN
ASSUME NamesAssumption == Empty \notin Values /\ None \notin Txns
ASSUME NumbersAssumption == Root \in Keys /\ Keys \subseteq Nat /\ Blocks \subseteq Nat

VARIABLES
  inode, data, freed_data, freed_inode,   \* the inode manager
  tMap,           \* the transactions that run, with the keys they used
  committing,     \* the holder of commitLock between validation and reply
  todo,           \* keys that it has yet to write
  got,            \* what clients were told of keys they had not set
  outcome         \* how a transaction ended

storeVars == <<inode, data, freed_data, freed_inode>>
vars == <<storeVars, tMap, committing, todo, got, outcome>>

\* What a block holds; generations do not overflow.
Stored == [gen : Nat, val : Values]

Store == INSTANCE InodeManager WITH
  Inums <- Keys, Contents <- Stored, NDirect <- 1, MaxFile <- 1, UsesRemoved <- TRUE

Entries == [gen : Nat, readen : BOOLEAN, written : BOOLEAN,
            val : Values \cup {Empty}]

TypeOK ==
  /\ Store!TypeOK
  /\ DOMAIN tMap \subseteq Txns
  /\ \A t \in DOMAIN tMap :
       DOMAIN tMap[t] \subseteq Keys /\ \A k \in DOMAIN tMap[t] : tMap[t][k] \in Entries
  /\ committing \in {None} \cup DOMAIN tMap
  /\ todo \subseteq Keys
  /\ got \in [Txns -> Partial(Keys, Values \cup {Empty})]
  /\ outcome \in [Txns -> {"none", "OK", "ABORT"}]

\* The constructor of ydb_server creates a file for every key but the first.
Init ==
  /\ inode = [k \in Keys |-> [type |-> IF k = Root THEN "T_DIR" ELSE "T_FILE", size |-> 0,
                              blocks |-> [n \in 1..2 |-> NoBlock]]]
  /\ \E v \in Values : data = [b \in Blocks |-> [gen |-> 0, val |-> v]]
  /\ freed_data = Blocks /\ freed_inode = {}
  /\ tMap = <<>>
  /\ committing = None /\ todo = {}
  /\ got = [t \in Txns |-> <<>>]
  /\ outcome = [t \in Txns |-> "none"]

-----------------------------------------------------------------------------
\* What ec->get returns of a key, taken apart by decomposeValue.
Current(k) ==
  IF inode[k].size = 0 THEN [gen |-> 0, val |-> Empty] ELSE Store!ReadFile(k)[1]

\* composeValue; the mutant keeps the generation.
MutantCompose(e) == [gen |-> e.gen, val |-> e.val]
Compose(e) == [gen |-> e.gen + 1, val |-> e.val]

Running(t) == t \in DOMAIN tMap /\ committing # t

SetEntry(t, k, e) == tMap' = [tMap EXCEPT ![t] = Extend(@, k, e)]

Erase(t, how) ==
  /\ tMap' = Restrict(tMap, DOMAIN tMap \ {t})
  /\ got' = [got EXCEPT ![t] = <<>>]
  /\ outcome' = [outcome EXCEPT ![t] = how]

\* transaction_begin
Begin(t) ==
  /\ t \notin DOMAIN tMap /\ outcome[t] = "none"
  /\ tMap' = Extend(tMap, t, <<>>)
  /\ UNCHANGED <<storeVars, committing, todo, got, outcome>>

\* get of a key the transaction has not used yet: the client is told the value.
GetStored(t, k) ==
  /\ Running(t) /\ k \notin DOMAIN tMap[t]
  /\ SetEntry(t, k, [gen |-> Current(k).gen, readen |-> TRUE, written |-> FALSE,
                     val |-> Current(k).val])
  /\ got' = [got EXCEPT ![t] = Extend(@, k, Current(k).val)]
  /\ UNCHANGED <<storeVars, committing, todo, outcome>>

\* get of a key it has used.
GetLocal(t, k) ==
  /\ Running(t) /\ k \in DOMAIN tMap[t]
  /\ SetEntry(t, k, [tMap[t][k] EXCEPT !.readen = TRUE])
  /\ UNCHANGED <<storeVars, committing, todo, got, outcome>>

\* write, for set and (with the empty value) for del.
Write(t, k, v) ==
  /\ Running(t)
  /\ \/ k \in DOMAIN tMap[t]
        /\ SetEntry(t, k, [tMap[t][k] EXCEPT !.written = TRUE, !.val = v])
     \/ BlindWrites /\ k \notin DOMAIN tMap[t]
        /\ SetEntry(t, k, [gen |-> Current(k).gen, readen |-> FALSE, written |-> TRUE,
                           val |-> v])
  /\ UNCHANGED <<storeVars, committing, todo, got, outcome>>

\* transaction_commit compares generations; the mutant trusts what it overwrites.
MutantValid(t) ==
  \A k \in DOMAIN tMap[t] :
    tMap[t][k].readen /\ ~ tMap[t][k].written => ~ Current(k).gen > tMap[t][k].gen
Valid(t) ==
  \A k \in DOMAIN tMap[t] : tMap[t][k].readen => ~ Current(k).gen > tMap[t][k].gen

\* transaction_commit gets commitLock and finds the transaction valid, ...
Written(t) == {k \in DOMAIN tMap[t] : tMap[t][k].written}
Validate(t) ==
  /\ Running(t) /\ committing = None /\ Valid(t)
  /\ committing' = t
  /\ todo' = Written(t)
  /\ UNCHANGED <<storeVars, tMap, got, outcome>>

\* ... or not.
Refuse(t) ==
  /\ Running(t) /\ committing = None /\ ~ Valid(t)
  /\ Erase(t, "ABORT")
  /\ UNCHANGED <<storeVars, committing, todo>>

\* It puts or removes one key after the other, in the order of the map, ...
WriteBack(k) ==
  /\ k \in todo /\ \A l \in todo : k <= l
  /\ LET e == tMap[committing][k] IN
     IF e.val = Empty THEN Store!RemoveFile(k) ELSE Store!WriteFile(k, <<Compose(e)>>)
  /\ todo' = todo \ {k}
  /\ UNCHANGED <<tMap, committing, got, outcome>>

\* ... releases commitLock and forgets the transaction.
Finish(t) ==
  /\ committing = t /\ todo = {}
  /\ committing' = None
  /\ Erase(t, "OK")
  /\ UNCHANGED <<storeVars, todo>>

\* transaction_abort
Abort(t) ==
  /\ Running(t)
  /\ Erase(t, "ABORT")
  /\ UNCHANGED <<storeVars, committing, todo>>

Next ==
  \/ \E t \in Txns : Begin(t) \/ Validate(t) \/ Refuse(t) \/ Finish(t) \/ Abort(t)
  \/ \E t \in Txns, k \in Keys : GetStored(t, k) \/ GetLocal(t, k)
  \/ \E t \in Txns, k \in Keys, v \in Values \cup IF Deletes THEN {Empty} ELSE {} :
       Write(t, k, v)
  \/ \E k \in Keys : WriteBack(k)

Spec == Init /\ [][Next]_vars

-----------------------------------------------------------------------------
(* Properties                                                              *)

\* What validation by generations rests on: a generation seen is never newer
\* than the stored one, two values of a key never have the same generation,
\* and what a commit has read and is yet to write has not changed since.
VersionsIdentify ==
  \A t \in DOMAIN tMap : \A k \in DOMAIN tMap[t] :
    LET e == tMap[t][k] IN
    /\ committing # t => e.gen <= Current(k).gen
    /\ k \in DOMAIN got[t] /\ committing # t /\ e.gen = Current(k).gen
         => got[t][k] = Current(k).val
    /\ committing = t /\ k \in todo /\ e.readen => e.gen = Current(k).gen

\* Every key has a file, which holds what a commit has put there or nothing.
Versions == [gen : Nat, val : Values \cup {Empty}]
AllStored ==
  /\ Store!InodeInv /\ Store!Live = Keys
  /\ \A k \in Keys : Current(k) \in Versions

\* A transaction that runs has told its client all it has not yet set, and has
\* read whatever it set.
ReadFirst ==
  \A t \in Txns :
    /\ t \notin DOMAIN tMap => got[t] = <<>>
    /\ t \in DOMAIN tMap =>
         /\ outcome[t] = "none" /\ DOMAIN got[t] = DOMAIN tMap[t]
         /\ \A k \in DOMAIN tMap[t] :
              tMap[t][k].readen /\ (tMap[t][k].written => tMap[t][k].val \in Values)

\* Keys are left to write only while a transaction that has set them holds
\* commitLock.
ToWrite ==
  /\ committing = None => todo = {}
  /\ committing # None => todo \subseteq Written(committing)

\* The invariant of validation, where clients read the keys they set and delete
\* none: the versions identify the values.
OccInv == TypeOK /\ AllStored /\ ReadFirst /\ ToWrite /\ VersionsIdentify

\* Whatever reads happened in between, a committed write raises the generation
\* of its key in the store: whoever read the key before will be refused.
WrittenVersionGrows ==
  [][\A k \in todo : k \notin todo' => Current(k).gen' > Current(k).gen]_vars

\* A committed write is what the store returns from then on, a deleted key is
\* empty.
WrittenIsStored ==
  [][\A k \in todo : k \notin todo' => Current(k).val' = tMap[committing][k].val]_vars

\* The database as it is when the commit under way is through, and the
\* transactions as their clients see them.
Database == [k \in Keys |-> IF k \in todo THEN tMap[committing][k].val ELSE Current(k).val]
Status == [t \in Txns |->
  IF committing = t \/ outcome[t] = "OK" THEN "committed"
  ELSE IF t \in DOMAIN tMap THEN "running"
  ELSE IF outcome[t] = "ABORT" THEN "aborted" ELSE "new"]
Told == [t \in Txns |-> IF committing = t THEN <<>> ELSE got[t]]
HasSet == [t \in Txns |->
  IF Running(t) THEN [k \in Written(t) |-> tMap[t][k].val] ELSE <<>>]

Serial == INSTANCE SerialSpec WITH
  Values <- Values \cup {Empty},
  db <- Database, status <- Status, got <- Told, put <- HasSet

\* The transactions that commit are serializable in the order of their
\* validations, although their writes reach the store one at a time and other
\* transactions read in between.
ImplementsSerialSpec == Serial!Spec
=============================================================================
