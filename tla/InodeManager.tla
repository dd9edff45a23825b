---------------------------- MODULE InodeManager ----------------------------
(***************************************************************************)
(* The inode and block layers behind the extent server: inode_manager and  *)
(* block_manager (lab3 and lab4).  Sizes are counted in blocks.  Every     *)
(* operation is one step: what it does when two dispatch threads of the    *)
(* server run at once is not defined by the code, which has no lock here.  *)
(***************************************************************************)
EXTENDS Naturals, Sequences, FiniteSets

CONSTANTS
  Inums,          \* inode numbers
  Root,           \* the first inode the constructor allocates
  Blocks,         \* numbers of the data blocks
  Contents,       \* contents of a block of a file
  NDirect,        \* NDIRECT
  MaxFile,        \* MAXFILE
  NoBlock,        \* the zeros in an inode that was never written
  UsesRemoved     \* the caller writes to files it has removed

ASSUME RootAssumption == Root \in Inums /\ Inums \subseteq Nat
ASSUME SizeAssumption == NDirect \in Nat /\ MaxFile \in Nat /\ Blocks \subseteq Nat
ASSUME UsesRemovedAssumption ==
  UsesRemoved \in BOOLEAN /\ (UsesRemoved => MaxFile <= NDirect)

VARIABLES
  inode,          \* the inode table: type, size and block numbers
  data,           \* the data blocks on disk
  freed_data,     \* block_manager::freed_data
  freed_inode     \* block_manager::freed_inode

vars == <<inode, data, freed_data, freed_inode>>

Types == {"none", "T_FILE", "T_DIR"}

Texts == UNION {[1..n -> Contents] : n \in 0..MaxFile}

TypeOK ==
  /\ inode \in [Inums -> [type : Types, size : 0..MaxFile,
                          blocks : [1..NDirect + 1 -> Blocks \cup {NoBlock}]]]
  /\ freed_data \subseteq Blocks /\ freed_inode \subseteq Inums
  /\ DOMAIN data = Blocks

Init ==
  /\ inode = [i \in Inums |-> [type |-> IF i = Root THEN "T_DIR" ELSE "none",
                               size |-> 0,
                               blocks |-> [k \in 1..NDirect + 1 |-> NoBlock]]]
  /\ data \in {[b \in Blocks |-> c] : c \in Contents}     \* disk::disk zeroes it
  /\ freed_data = Blocks
  /\ freed_inode = Inums \ {Root}

-----------------------------------------------------------------------------
Indirect(i) == inode[i].blocks[NDirect + 1]
HasIndirect(size) == size > NDirect

\* get_blockids: direct blocks from the inode, the others from the indirect one.
Blockids(i) ==
  [k \in 1..inode[i].size |->
     IF k <= NDirect THEN inode[i].blocks[k] ELSE data[Indirect(i)][k]]

\* read_file
ReadFile(i) == [k \in 1..inode[i].size |-> data[Blockids(i)[k]]]

\* create_file: the smallest free inode; with none left the call fails.
CreateFile(i, type) ==
  /\ i \in freed_inode /\ \A j \in freed_inode : i <= j
  /\ freed_inode' = freed_inode \ {i}
  /\ inode' = [inode EXCEPT ![i].type = type, ![i].size = 0]
  /\ UNCHANGED <<data, freed_data>>

\* The blocks that a file of blocks ids gives back when it has size blocks
\* left; the mutant looks for the indirect block only if none are left.
MutantCutOff(i, size) ==
  {Blockids(i)[k] : k \in size + 1 .. inode[i].size} \cup
  (IF HasIndirect(inode[i].size) /\ size = 0 THEN {Indirect(i)} ELSE {})
CutOff(i, size) ==
  {Blockids(i)[k] : k \in size + 1 .. inode[i].size} \cup
  (IF HasIndirect(inode[i].size) /\ ~ HasIndirect(size) THEN {Indirect(i)} ELSE {})

\* alloc_block takes the smallest free block; this is what its n-th call in a
\* row returns.  The mutant does not erase the block from freed_data.
IsFreeBlock(b, n) ==
  b \in freed_data /\ Cardinality({c \in freed_data : c < b}) = n - 1
MutantAllocBlock(n) == CHOOSE b \in freed_data : IsFreeBlock(b, 1)
AllocBlock(n) == CHOOSE b \in freed_data : IsFreeBlock(b, n)

\* A file that grows beyond its direct blocks takes its indirect block after
\* the direct ones and before the others.
NeedsIndirect(i, size) == HasIndirect(size) /\ ~ HasIndirect(inode[i].size)

NumTaken(i, size) ==
  IF size <= inode[i].size THEN 0
  ELSE size - inode[i].size + IF NeedsIndirect(i, size) THEN 1 ELSE 0

NewIndirect(i, size) ==
  IF NeedsIndirect(i, size) THEN AllocBlock(NDirect - inode[i].size + 1) ELSE Indirect(i)

\* The blocks of file i when it has size of them: those it had come first.
NewBlockids(i, size) ==
  [k \in 1..size |->
     IF k <= inode[i].size THEN Blockids(i)[k]
     ELSE IF k > NDirect /\ NeedsIndirect(i, size)
     THEN AllocBlock(k - inode[i].size + 1)
     ELSE AllocBlock(k - inode[i].size)]

\* What the disk holds after text went to the blocks ids, one after the other,
\* and the block numbers that do not fit into the inode to block ind.
Written(i, text, ids, ind) ==
  LET Last(b) == CHOOSE k \in DOMAIN ids :
                   ids[k] = b /\ \A l \in DOMAIN ids : l > k => ids[l] # b IN
  [b \in Blocks |->
     IF HasIndirect(Len(text)) /\ Len(text) > inode[i].size /\ b = ind
     THEN [k \in NDirect + 1 .. Len(text) |-> ids[k]]
     ELSE IF \E k \in DOMAIN ids : ids[k] = b THEN text[Last(b)]
     ELSE data[b]]

\* write_file; there is no step if the disk has too few free blocks.
WriteFile(i, text) ==
  LET size == Len(text)
      ids == NewBlockids(i, size)
      ind == NewIndirect(i, size) IN
  /\ \A n \in 1..NumTaken(i, size) : \E b \in freed_data : IsFreeBlock(b, n)
  /\ data' = Written(i, text, ids, ind)
  /\ freed_data' = (freed_data \ {AllocBlock(n) : n \in 1..NumTaken(i, size)})
                      \cup CutOff(i, size)
  /\ inode' = [inode EXCEPT
                 ![i].size = size,
                 ![i].blocks = [k \in 1..NDirect + 1 |->
                                  IF k = NDirect + 1 THEN ind
                                  ELSE IF k <= size THEN ids[k] ELSE @[k]]]
  /\ UNCHANGED freed_inode

\* remove_file: the blocks are free, the inode keeps its size and their numbers.
RemoveFile(i) ==
  /\ inode' = [inode EXCEPT ![i].type = "none"]
  /\ freed_data' = freed_data \cup CutOff(i, 0)
  /\ freed_inode' = freed_inode \cup {i}
  /\ UNCHANGED data

-----------------------------------------------------------------------------
Live == {i \in Inums : inode[i].type # "none"}

Next ==
  \/ \E i \in Inums, type \in {"T_FILE", "T_DIR"} : CreateFile(i, type)
  \/ \E i \in Inums : (i \in Live \/ UsesRemoved) /\ \E text \in Texts : WriteFile(i, text)
  \/ \E i \in Live : RemoveFile(i)

Spec == Init /\ [][Next]_vars

-----------------------------------------------------------------------------
(* Properties                                                              *)

\* The blocks that belong to a file, the indirect one included.
Used(i) ==
  {Blockids(i)[k] : k \in 1..inode[i].size} \cup
  (IF HasIndirect(inode[i].size) THEN {Indirect(i)} ELSE {})

\* The block numbers of a file are numbers of blocks, in the inode as in the
\* indirect block.
Placed == \A i \in Live : Used(i) \subseteq Blocks

\* Two files never share a block, no block of a file is free, and a file does
\* not use one block twice.
NoSharing ==
  /\ \A i \in Live : Used(i) \cap freed_data = {}
  /\ \A i, j \in Live : i # j => Used(i) \cap Used(j) = {}
  /\ \A i \in Live, k, l \in 1..MaxFile :
       k < l /\ l <= inode[i].size => Blockids(i)[k] # Blockids(i)[l]
  /\ \A i \in Live, k \in 1..MaxFile :
       k <= inode[i].size /\ HasIndirect(inode[i].size) => Blockids(i)[k] # Indirect(i)

\* What alloc_block, free_block, write_file and remove_file keep true together:
\* the types, an inode is free exactly if it has no type, and no block is in
\* two places although the free set only knows the numbers it was given back.
InodeInv == TypeOK /\ freed_inode = Inums \ Live /\ Placed /\ NoSharing

\* Every block is free or part of a file: a write that shrinks a file across
\* NDIRECT and remove_file give back every block, the indirect one as well.
NoLeak == Blocks = freed_data \cup UNION {Used(i) : i \in Live}

\* Seen through read_file, the inode manager is a store of files.
Files == INSTANCE FileSpec WITH
  live <- Live, file <- [i \in Inums |-> IF i \in Live THEN ReadFile(i) ELSE <<>>]

\* What write_file writes is what read_file returns until the next write_file
\* to the same inode, whatever happens to other files and to free blocks.
ImplementsFileSpec == Files!Spec
=============================================================================
