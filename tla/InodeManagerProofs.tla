------------------------- MODULE InodeManagerProofs -------------------------
(***************************************************************************)
(* Proofs about the inode manager, for disks, files and tables of any size.*)
(*                                                                         *)
(* InodeInv is inductive.  The work is in write_file: alloc_block, called  *)
(* again and again, returns different free blocks; the blocks that the file*)
(* has afterwards are old ones and those, none twice; with the blocks it   *)
(* gives back they are all it had or took.  From that follow the invariant,*)
(* that no block is lost, and what read_file returns.                      *)
(***************************************************************************)
EXTENDS InodeManager, TLAPS

USE RootAssumption, SizeAssumption

\* A text is a function on the numbers up to its length.
LEMMA TextShape ==
  ASSUME NEW text \in Texts
  PROVE  Len(text) \in 0..MaxFile /\ DOMAIN text = 1..Len(text) /\ text \in Seq(Contents)
<1>1. PICK n \in 0..MaxFile : text \in [1..n -> Contents]
  BY DEF Texts
<1>. QED BY <1>1

\* The fields of an inode, and where block and inode numbers come from.
LEMMA Shape ==
  ASSUME TypeOK
  PROVE  /\ DOMAIN inode = Inums /\ freed_data \subseteq Blocks /\ freed_inode \subseteq Inums
         /\ DOMAIN data = Blocks
         /\ \A i \in Inums :
              /\ inode[i] = [type |-> inode[i].type, size |-> inode[i].size,
                             blocks |-> inode[i].blocks]
              /\ inode[i].type \in Types /\ inode[i].size \in 0..MaxFile
              /\ inode[i].blocks \in [1..NDirect + 1 -> Blocks \cup {NoBlock}]
BY DEF TypeOK

\* The blocks entries of an inode, an inode, and the table.
BlockLists == [1..NDirect + 1 -> Blocks \cup {NoBlock}]
Tables == [Inums -> [type : Types, size : 0..MaxFile, blocks : BlockLists]]

\* A step that gives one inode a type, a size and blocks keeps the types.
LEMMA InodesTyped ==
  ASSUME TypeOK, NEW i \in Inums, NEW type \in Types, NEW size \in 0..MaxFile,
         NEW blocks \in BlockLists,
         NEW new, new = [j \in Inums |-> new[j]],
         new[i] = [type |-> type, size |-> size, blocks |-> blocks],
         \A j \in Inums : j # i => new[j] = inode[j]
  PROVE  new \in Tables
<1>. DEFINE Inode == [type : Types, size : 0..MaxFile, blocks : BlockLists]
<1>1. new[i] \in Inode
  OBVIOUS
<1>2. inode \in [Inums -> Inode]
  BY DEF TypeOK, BlockLists
<1>. HIDE DEF Inode
<1>3. \A j \in Inums : new[j] \in Inode
  BY <1>1, <1>2
<1>4. new \in [Inums -> Inode]
  BY <1>3
<1>. QED BY <1>4 DEF Inode, Tables

-----------------------------------------------------------------------------
(* What write_file plans                                                   *)

\* The blocks that a write of size blocks to file i takes, and those the file
\* has then.
Enough(i, size) == \A n \in 1..NumTaken(i, size) : \E b \in freed_data : IsFreeBlock(b, n)
Taken(i, size) == {AllocBlock(n) : n \in 1..NumTaken(i, size)}
UsedAfter(i, size) ==
  {NewBlockids(i, size)[k] : k \in 1..size} \cup
  (IF HasIndirect(size) THEN {NewIndirect(i, size)} ELSE {})

\* Calls of alloc_block in a row return free blocks, each another one.
LEMMA Allocated ==
  ASSUME NEW m \in Nat, \A n \in 1..m : \E b \in freed_data : IsFreeBlock(b, n)
  PROVE  /\ \A n \in 1..m : AllocBlock(n) \in freed_data
         /\ \A n, l \in 1..m : n # l => AllocBlock(n) # AllocBlock(l)
<1>1. \A n \in 1..m : AllocBlock(n) \in freed_data /\ IsFreeBlock(AllocBlock(n), n)
  BY DEF AllocBlock
<1>2. \A n \in 1..m : Cardinality({c \in freed_data : c < AllocBlock(n)}) = n - 1
  BY <1>1 DEF IsFreeBlock
<1>3. ASSUME NEW n \in 1..m, NEW l \in 1..m, n # l PROVE AllocBlock(n) # AllocBlock(l)
  <2>1. n - 1 # l - 1
    BY <1>3
  <2>. QED BY <1>2, <2>1, Zenon
<1>. QED BY <1>1, <1>3

\* How many blocks a write takes is a number, and when it takes an indirect one.
LEMMA TakenNumber ==
  ASSUME TypeOK, NEW i \in Inums, NEW size \in 0..MaxFile
  PROVE  /\ NumTaken(i, size) \in Nat /\ inode[i].size \in Nat
         /\ NeedsIndirect(i, size) <=> size > NDirect /\ inode[i].size <= NDirect
BY Shape DEF NumTaken, NeedsIndirect, HasIndirect

\* The blocks of a file in the order of the file, and its indirect block.
LEMMA UsedIs ==
  ASSUME InodeInv, NEW i \in Live
  PROVE  /\ \A k \in 1..inode[i].size : Blockids(i)[k] \in Used(i)
         /\ HasIndirect(inode[i].size) => Indirect(i) \in Used(i)
         /\ Used(i) \subseteq Blocks /\ Used(i) \cap freed_data = {}
         /\ \A k, l \in 1..inode[i].size : k # l => Blockids(i)[k] # Blockids(i)[l]
         /\ HasIndirect(inode[i].size) =>
              \A k \in 1..inode[i].size : Blockids(i)[k] # Indirect(i)
<1>1. inode[i].size \in 0..MaxFile
  BY Shape DEF InodeInv, Live
<1>2. ASSUME NEW k \in 1..inode[i].size, NEW l \in 1..inode[i].size, k # l
      PROVE  Blockids(i)[k] # Blockids(i)[l]
  BY <1>1, <1>2 DEF InodeInv, NoSharing
<1>. QED BY <1>1, <1>2 DEF InodeInv, NoSharing, Placed, Used

\* Each block that the file has after the write is an old or a taken one, ...
LEMMA PlanUsed ==
  ASSUME InodeInv, NEW i \in Live, NEW size \in 0..MaxFile, Enough(i, size)
  PROVE  /\ \A k \in 1..size : NewBlockids(i, size)[k] =
              IF k <= inode[i].size THEN Blockids(i)[k]
              ELSE IF k > NDirect /\ NeedsIndirect(i, size)
              THEN AllocBlock(k - inode[i].size + 1)
              ELSE AllocBlock(k - inode[i].size)
         /\ \A k \in 1..size : k > inode[i].size =>
              IF k > NDirect /\ NeedsIndirect(i, size)
              THEN k - inode[i].size + 1 \in 1..NumTaken(i, size)
              ELSE k - inode[i].size \in 1..NumTaken(i, size)
         /\ NeedsIndirect(i, size) => NDirect - inode[i].size + 1 \in 1..NumTaken(i, size)
<1>1. i \in Inums /\ inode[i].size \in 0..MaxFile
  BY Shape DEF InodeInv, Live
<1>. QED BY <1>1 DEF NewBlockids, NumTaken, NeedsIndirect, HasIndirect

\* ... and none of them is used twice.
LEMMA PlanApart ==
  ASSUME InodeInv, NEW i \in Live, NEW size \in 0..MaxFile, Enough(i, size)
  PROVE  /\ UsedAfter(i, size) \subseteq Used(i) \cup Taken(i, size)
         /\ Taken(i, size) \subseteq freed_data
         /\ \A k, l \in 1..size : k # l => NewBlockids(i, size)[k] # NewBlockids(i, size)[l]
         /\ HasIndirect(size) =>
              \A k \in 1..size : NewBlockids(i, size)[k] # NewIndirect(i, size)
<1>. DEFINE old == inode[i].size
            m == NumTaken(i, size)
            ids == NewBlockids(i, size)
            ind == NewIndirect(i, size)
            At(k) == IF k > NDirect /\ NeedsIndirect(i, size) THEN k - old + 1 ELSE k - old
<1>0. i \in Inums /\ old \in 0..MaxFile /\ m \in Nat
  BY TakenNumber, Shape DEF InodeInv, Live
<1>1. /\ \A n \in 1..m : AllocBlock(n) \in freed_data
      /\ \A n, l \in 1..m : n # l => AllocBlock(n) # AllocBlock(l)
  BY <1>0, Allocated DEF Enough
<1>2. \A k \in 1..size :
        IF k <= old THEN ids[k] = Blockids(i)[k]
        ELSE ids[k] = AllocBlock(At(k)) /\ At(k) \in 1..m
  BY <1>0, PlanUsed
<1>3. \A k, l \in 1..size : k # l /\ k > old /\ l > old => At(k) # At(l)
  BY <1>0
<1>9. \A k \in 1..size : k <= old => ids[k] = Blockids(i)[k] /\ k \in 1..old
  BY <1>0, <1>2
<1>10. \A k \in 1..size : k > old => ids[k] \in freed_data
  BY <1>0, <1>1, <1>2
<1>11. \A k \in 1..size : k <= old \/ k > old
  BY <1>0
<1>4. ASSUME NEW k \in 1..size, NEW l \in 1..size, k # l PROVE ids[k] # ids[l]
  <2>1. CASE k <= old /\ l <= old
    BY <1>9, <1>4, <2>1, UsedIs
  <2>2. CASE k > old /\ l > old
    BY <1>1, <1>2, <1>3, <1>4, <2>2, <1>0
  <2>3. CASE ~ (k <= old <=> l <= old)
    BY <1>9, <1>10, <1>11, <2>3, UsedIs
  <2>. QED BY <1>0, <2>1, <2>2, <2>3
<1>5. ASSUME HasIndirect(size), NEW k \in 1..size PROVE ids[k] # ind
  <2>1. CASE NeedsIndirect(i, size)
    <3>1. ind = AllocBlock(NDirect - old + 1) /\ NDirect - old + 1 \in 1..m
      BY <2>1, PlanUsed DEF NewIndirect
    <3>2. k > old => At(k) # NDirect - old + 1
      BY <1>0, <2>1
    <3>3. CASE k > old
      BY <1>0, <1>1, <1>2, <3>1, <3>2, <3>3
    <3>. QED BY <1>1, <1>9, <1>11, <3>1, <3>3, UsedIs
  <2>2. CASE ~ NeedsIndirect(i, size)
    <3>1. ind = Indirect(i) /\ HasIndirect(old)
      BY <1>5, <2>2 DEF NewIndirect, NeedsIndirect
    <3>2. k <= old => ids[k] # Indirect(i)
      BY <1>9, <3>1, UsedIs
    <3>3. k > old => ids[k] # Indirect(i)
      BY <1>10, <3>1, UsedIs
    <3>. QED BY <1>11, <3>1, <3>2, <3>3
  <2>. QED BY <2>1, <2>2
<1>6. Taken(i, size) \subseteq freed_data
  BY <1>1 DEF Taken
<1>7. HasIndirect(size) => ind \in Used(i) \cup Taken(i, size)
  BY PlanUsed, UsedIs DEF NewIndirect, NeedsIndirect, Taken
<1>8. \A k \in 1..size : ids[k] \in Used(i) \cup Taken(i, size)
  <2>. SUFFICES ASSUME NEW k \in 1..size PROVE ids[k] \in Used(i) \cup Taken(i, size)
    OBVIOUS
  <2>1. k > old => ids[k] \in Taken(i, size)
    BY <1>0, <1>2 DEF Taken
  <2>. QED BY <1>9, <1>11, <2>1, UsedIs
<1>. QED BY <1>4, <1>5, <1>6, <1>7, <1>8 DEF UsedAfter

\* The blocks that the file has and takes are those that it has after the
\* write and those that it gives back.
LEMMA PlanBack ==
  ASSUME InodeInv, NEW i \in Live, NEW size \in 0..MaxFile, Enough(i, size)
  PROVE  /\ UsedAfter(i, size) \cup CutOff(i, size) = Used(i) \cup Taken(i, size)
         /\ UsedAfter(i, size) \cap CutOff(i, size) = {}
<1>. DEFINE old == inode[i].size
            m == NumTaken(i, size)
            ids == NewBlockids(i, size)
            ind == NewIndirect(i, size)
<1>0. i \in Inums /\ old \in 0..MaxFile /\ m \in Nat
  BY TakenNumber, Shape DEF InodeInv, Live
<1>1. CutOff(i, size) \subseteq Used(i)
  BY <1>0 DEF CutOff, Used
<1>2. Used(i) \subseteq UsedAfter(i, size) \cup CutOff(i, size)
  <2>1. ASSUME NEW k \in 1..old
        PROVE  Blockids(i)[k] \in UsedAfter(i, size) \cup CutOff(i, size)
    <3>1. CASE k <= size
      <4>1. k \in 1..size /\ ids[k] = Blockids(i)[k]
        BY <1>0, <3>1, PlanUsed
      <4>. QED BY <4>1 DEF UsedAfter
    <3>2. CASE ~ k <= size
      BY <1>0, <3>2 DEF CutOff
    <3>. QED BY <3>1, <3>2
  <2>2. ASSUME HasIndirect(old)
        PROVE  Indirect(i) \in UsedAfter(i, size) \cup CutOff(i, size)
    BY <2>2 DEF UsedAfter, CutOff, NewIndirect, NeedsIndirect
  <2>. QED BY <2>1, <2>2 DEF Used
<1>3. ASSUME NEW n \in 1..m PROVE AllocBlock(n) \in UsedAfter(i, size)
  <2>0. size > old /\ m = size - old + (IF NeedsIndirect(i, size) THEN 1 ELSE 0)
    BY <1>0 DEF NumTaken
  <2>1. CASE NeedsIndirect(i, size) /\ n = NDirect - old + 1
    BY <2>1 DEF UsedAfter, NewIndirect, NeedsIndirect
  <2>2. CASE NeedsIndirect(i, size) /\ n > NDirect - old + 1
    <3>1. /\ n + old - 1 \in 1..size /\ n + old - 1 > NDirect /\ n + old - 1 > old
          /\ (n + old - 1) - old + 1 = n
      BY <1>0, <2>0, <2>2 DEF NeedsIndirect, HasIndirect
    <3>2. /\ ids[n + old - 1] = AllocBlock((n + old - 1) - old + 1)
          /\ AllocBlock((n + old - 1) - old + 1) = AllocBlock(n)
      <4>1. ~ n + old - 1 <= old /\ NeedsIndirect(i, size)
        BY <1>0, <2>2, <3>1
      <4>. QED BY <3>1, <4>1 DEF NewBlockids
    <3>. QED BY <3>1, <3>2 DEF UsedAfter
  <2>3. CASE ~ NeedsIndirect(i, size) \/ n < NDirect - old + 1
    <3>1. /\ n + old \in 1..size /\ n + old > old /\ (n + old) - old = n
          /\ ~ (n + old > NDirect /\ NeedsIndirect(i, size))
      BY <1>0, <2>0, <2>3 DEF NeedsIndirect, HasIndirect
    <3>2. ids[n + old] = AllocBlock((n + old) - old)
      BY <1>0, <3>1 DEF NewBlockids
    <3>. QED BY <3>1, <3>2 DEF UsedAfter
  <2>. QED BY <1>0, <2>1, <2>2, <2>3
<1>4. ASSUME NEW k \in 1..size PROVE ids[k] \notin CutOff(i, size)
  <2>1. CASE k <= old
    <3>1. ids[k] = Blockids(i)[k] /\ k \in 1..old
      BY <2>1, PlanUsed, <1>0
    <3>2. \A l \in size + 1 .. old : l \in 1..old /\ l # k
      BY <1>0
    <3>. QED BY <3>1, <3>2, UsedIs DEF CutOff
  <2>2. CASE k > old
    <3>1. ids[k] \in Taken(i, size)
      BY <1>0, <2>2, PlanUsed DEF Taken
    <3>. QED BY <1>1, <3>1, PlanApart, UsedIs
  <2>. QED BY <1>0, <2>1, <2>2
<1>5. ASSUME HasIndirect(size) PROVE ind \notin CutOff(i, size)
  <2>1. CASE NeedsIndirect(i, size)
    <3>1. ind \in Taken(i, size)
      BY <2>1, PlanUsed DEF Taken, NewIndirect
    <3>. QED BY <1>1, <3>1, PlanApart, UsedIs
  <2>2. CASE ~ NeedsIndirect(i, size)
    <3>1. HasIndirect(old) /\ ind = Indirect(i)
      BY <1>5, <2>2 DEF NeedsIndirect, NewIndirect
    <3>2. \A l \in size + 1 .. old : l \in 1..old
      BY <1>0
    <3>. QED BY <1>5, <3>1, <3>2, UsedIs DEF CutOff
  <2>. QED BY <2>1, <2>2
<1>. QED BY <1>1, <1>2, <1>3, <1>4, <1>5, PlanApart DEF UsedAfter, Taken

-----------------------------------------------------------------------------
(* write_file                                                              *)

\* The blocks of the file hold the text, the indirect block the numbers of the
\* blocks beyond the direct ones, and no other block of the disk has changed.
LEMMA WriteFileData ==
  ASSUME InodeInv, NEW i \in Live, NEW text \in Texts, WriteFile(i, text)
  PROVE  LET size == Len(text)
             ids == NewBlockids(i, size)
             ind == NewIndirect(i, size) IN
         /\ DOMAIN data' = Blocks
         /\ \A k \in 1..size : data'[ids[k]] = text[k]
         /\ HasIndirect(size) => \A k \in NDirect + 1 .. size : data'[ind][k] = ids[k]
         /\ \A b \in Blocks \ UsedAfter(i, size) : data'[b] = data[b]
<1>. DEFINE size == Len(text)
            ids == NewBlockids(i, size)
            ind == NewIndirect(i, size)
            old == inode[i].size
            Last(b) == CHOOSE k \in DOMAIN ids :
                         ids[k] = b /\ \A l \in DOMAIN ids : l > k => ids[l] # b
<1>0. /\ size \in 0..MaxFile /\ old \in 0..MaxFile /\ Enough(i, size) /\ DOMAIN ids = 1..size
      /\ Used(i) \cup Taken(i, size) \subseteq Blocks
  <2>1. size \in 0..MaxFile /\ Enough(i, size)
    BY TextShape DEF WriteFile, Enough
  <2>2. Taken(i, size) \subseteq Blocks
    BY <2>1, PlanApart, Shape DEF InodeInv
  <2>. QED BY <2>1, <2>2, UsedIs, Shape DEF InodeInv, Live, NewBlockids
<1>1. data' = [b \in Blocks |->
        IF HasIndirect(size) /\ size > old /\ b = ind
        THEN [k \in NDirect + 1 .. size |-> ids[k]]
        ELSE IF \E k \in DOMAIN ids : ids[k] = b THEN text[Last(b)]
        ELSE data[b]]
  BY DEF WriteFile, Written
<1>2. \A k \in 1..size : ids[k] \in UsedAfter(i, size)
  BY DEF UsedAfter
<1>3. HasIndirect(size) => ind \in UsedAfter(i, size)
  BY DEF UsedAfter
<1>4. UsedAfter(i, size) \subseteq Blocks
  BY <1>0, PlanApart
<1>5. ASSUME NEW k \in 1..size PROVE Last(ids[k]) = k
  BY <1>0, PlanApart
<1>6. \A k \in 1..size : data'[ids[k]] = text[k]
  <2>. SUFFICES ASSUME NEW k \in 1..size PROVE data'[ids[k]] = text[k]
    OBVIOUS
  <2>1. HasIndirect(size) => ids[k] # ind
    BY <1>0, PlanApart
  <2>2. ids[k] \in Blocks
    BY <1>2, <1>4
  <2>. HIDE DEF ids, ind, Last
  <2>. QED BY <1>0, <1>1, <1>5, <2>1, <2>2
<1>7. ASSUME HasIndirect(size) PROVE \A k \in NDirect + 1 .. size : data'[ind][k] = ids[k]
  <2>1. ind \in Blocks
    BY <1>3, <1>4, <1>7
  <2>2. CASE size > old
    BY <1>1, <1>7, <2>1, <2>2
  <2>3. CASE ~ size > old
    <3>1. \A k \in 1..size : ids[k] # ind
      BY <1>0, <1>7, PlanApart
    <3>2. data'[ind] = data[ind]
      BY <1>0, <1>1, <2>1, <2>3, <3>1
    <3>3. HasIndirect(old) /\ ind = Indirect(i)
      BY <1>0, <1>7, <2>3 DEF HasIndirect, NewIndirect, NeedsIndirect
    <3>4. ASSUME NEW k \in NDirect + 1 .. size PROVE ids[k] = data[Indirect(i)][k]
      <4>1. k \in 1..size /\ k <= old /\ k \in 1..old /\ ~ k <= NDirect
        BY <1>0, <2>3
      <4>. QED BY <4>1 DEF NewBlockids, Blockids
    <3>. QED BY <3>2, <3>3, <3>4
  <2>. QED BY <2>2, <2>3
<1>8. \A b \in Blocks \ UsedAfter(i, size) : data'[b] = data[b]
  <2>. SUFFICES ASSUME NEW b \in Blocks \ UsedAfter(i, size) PROVE data'[b] = data[b]
    OBVIOUS
  <2>1. ~ \E k \in DOMAIN ids : ids[k] = b
    BY <1>0, <1>2
  <2>2. ~ (HasIndirect(size) /\ b = ind)
    BY <1>3
  <2>. HIDE DEF ids, ind, Last
  <2>. QED BY <1>1, <2>1, <2>2
<1>9. DOMAIN data' = Blocks
  BY <1>1
<1>. QED BY <1>6, <1>7, <1>8, <1>9

\* The inode records the size and the blocks; other inodes stay.
LEMMA WriteFileInode ==
  ASSUME InodeInv, NEW i \in Live, NEW text \in Texts, WriteFile(i, text)
  PROVE  LET size == Len(text) IN
         /\ TypeOK' /\ Live' = Live /\ freed_inode' = freed_inode
         /\ inode'[i].size = size /\ Indirect(i)' = NewIndirect(i, size)
         /\ Blockids(i)' = NewBlockids(i, size)
         /\ \A j \in Inums : j # i => inode'[j] = inode[j]
<1>. DEFINE size == Len(text)
            ids == NewBlockids(i, size)
            ind == NewIndirect(i, size)
            new == [k \in 1..NDirect + 1 |-> IF k = NDirect + 1 THEN ind
                                              ELSE IF k <= size THEN ids[k]
                                              ELSE inode[i].blocks[k]]
<1>0. /\ size \in 0..MaxFile /\ Enough(i, size) /\ i \in Inums
      /\ Used(i) \cup Taken(i, size) \subseteq Blocks
  <2>1. size \in 0..MaxFile /\ Enough(i, size)
    BY TextShape DEF WriteFile, Enough
  <2>2. Taken(i, size) \subseteq Blocks
    BY <2>1, PlanApart, Shape DEF InodeInv
  <2>. QED BY <2>1, <2>2, UsedIs, Shape DEF InodeInv, Live
<1>1. \A k \in 1..size : ids[k] \in Blocks
  BY <1>0, PlanApart DEF UsedAfter
<1>2. ind \in Blocks \cup {NoBlock}
  <2>1. CASE NeedsIndirect(i, size)
    BY <1>0, <2>1, PlanUsed DEF NewIndirect, Taken
  <2>2. CASE ~ NeedsIndirect(i, size)
    BY <1>0, <2>2, Shape DEF NewIndirect, Indirect, InodeInv
  <2>. QED BY <2>1, <2>2
<1>3. inode' = [inode EXCEPT ![i].size = size, ![i].blocks = new]
  BY DEF WriteFile
<1>4. new \in [1..NDirect + 1 -> Blocks \cup {NoBlock}]
  <2>1. inode[i].blocks \in [1..NDirect + 1 -> Blocks \cup {NoBlock}]
    BY <1>0, Shape DEF InodeInv
  <2>2. ASSUME NEW k \in 1..NDirect + 1 PROVE new[k] \in Blocks \cup {NoBlock}
    <3>1. k <= size => k \in 1..size
      BY <1>0
    <3>. QED BY <1>1, <1>2, <2>1, <3>1
  <2>. QED BY <2>2
<1>5. /\ DOMAIN inode' = Inums /\ inode'[i].size = size /\ inode'[i].blocks = new
      /\ inode'[i].type = inode[i].type /\ \A j \in Inums : j # i => inode'[j] = inode[j]
  <2>. HIDE DEF new
  <2>. QED BY <1>0, <1>3, Shape DEF InodeInv
<1>6. inode' \in Tables
  <2>. HIDE DEF new
  <2>0. TypeOK /\ inode[i].type \in Types
    BY <1>0, Shape DEF InodeInv
  <2>1. inode' = [j \in Inums |-> inode'[j]]
    BY <1>3, <2>0, Shape
  <2>2. inode[i] = [type |-> inode[i].type, size |-> inode[i].size, blocks |-> inode[i].blocks]
    BY <1>0, <2>0, Shape
  <2>3. inode'[i] = [inode[i] EXCEPT !.size = size, !.blocks = new]
    BY <1>0, <1>3, <2>0, Shape
  <2>4. inode'[i] = [type |-> inode[i].type, size |-> size, blocks |-> new]
    BY <2>2, <2>3
  <2>5. new \in BlockLists
    BY <1>4 DEF BlockLists
  <2>6. \A j \in Inums : j # i => inode'[j] = inode[j]
    BY <1>5
  <2>. QED BY <1>0, <2>0, <2>1, <2>4, <2>5, <2>6, InodesTyped
<1>7. freed_data' \subseteq Blocks /\ freed_inode' = freed_inode
  <2>1. freed_data' \subseteq freed_data \cup CutOff(i, size)
    BY DEF WriteFile
  <2>. QED BY <1>0, <2>1, PlanBack, Shape DEF WriteFile, InodeInv
<1>8. TypeOK'
  BY <1>6, <1>7, WriteFileData, Shape DEF TypeOK, InodeInv, Tables, BlockLists
<1>9. Live' = Live
  BY <1>5 DEF Live
<1>10. Indirect(i)' = ind
  BY <1>5 DEF Indirect
<1>11. Blockids(i)' = ids
  <2>1. DOMAIN ids = 1..size /\ ids = [k \in 1..size |-> ids[k]]
    BY DEF NewBlockids
  <2>2. ASSUME NEW k \in 1..size PROVE Blockids(i)'[k] = ids[k]
    <3>1. CASE k <= NDirect
      BY <1>0, <1>5, <3>1 DEF Blockids
    <3>2. CASE ~ k <= NDirect
      <4>1. HasIndirect(size) /\ k \in NDirect + 1 .. size
        BY <1>0, <3>2 DEF HasIndirect
      <4>2. data'[ind][k] = ids[k]
        BY <4>1, WriteFileData
      <4>. QED BY <1>5, <1>10, <3>2, <4>2 DEF Blockids
    <3>. QED BY <3>1, <3>2
  <2>3. Blockids(i)' = [k \in 1..size |-> Blockids(i)'[k]]
    BY <1>5 DEF Blockids
  <2>. QED BY <2>1, <2>2, <2>3
<1>. QED BY <1>5, <1>7, <1>8, <1>9, <1>10, <1>11

\* What is known of a file whose inode and blocks the step leaves alone.
LEMMA FileKept ==
  ASSUME NEW j \in Inums, inode[j].size \in 0..MaxFile, NEW B,
         inode'[j] = inode[j], Used(j) \subseteq B, \A b \in B : data'[b] = data[b]
  PROVE  /\ Blockids(j)' = Blockids(j) /\ Used(j)' = Used(j) /\ Indirect(j)' = Indirect(j)
         /\ ReadFile(j)' = ReadFile(j)
<1>1. Indirect(j)' = Indirect(j) /\ inode'[j].size = inode[j].size
  BY DEF Indirect
<1>2. ASSUME NEW k \in 1..inode[j].size PROVE Blockids(j)'[k] = Blockids(j)[k]
  <2>1. ~ k <= NDirect => data'[Indirect(j)] = data[Indirect(j)]
    BY DEF Used, HasIndirect
  <2>. QED BY <1>1, <2>1 DEF Blockids
<1>3. Blockids(j)' = Blockids(j)
  <2>1. /\ Blockids(j)' = [k \in 1..inode[j].size |-> Blockids(j)'[k]]
        /\ Blockids(j) = [k \in 1..inode[j].size |-> Blockids(j)[k]]
    BY <1>1 DEF Blockids
  <2>. QED BY <1>2, <2>1
<1>4. Used(j)' = Used(j)
  BY <1>1, <1>3 DEF Used
<1>5. ReadFile(j)' = ReadFile(j)
  <2>1. \A k \in 1..inode[j].size : data'[Blockids(j)[k]] = data[Blockids(j)[k]]
    BY DEF Used
  <2>. QED BY <1>1, <1>3, <2>1 DEF ReadFile
<1>. QED BY <1>1, <1>3, <1>4, <1>5

\* The other files have the blocks and contents that they had.
LEMMA WriteFileOthers ==
  ASSUME InodeInv, NEW i \in Live, NEW text \in Texts, WriteFile(i, text),
         NEW j \in Live, j # i
  PROVE  /\ Blockids(j)' = Blockids(j) /\ Used(j)' = Used(j) /\ Indirect(j)' = Indirect(j)
         /\ inode'[j] = inode[j] /\ ReadFile(j)' = ReadFile(j)
<1>1. /\ Len(text) \in 0..MaxFile /\ Enough(i, Len(text))
      /\ i \in Inums /\ j \in Inums /\ inode[j].size \in 0..MaxFile
  BY TextShape, Shape DEF WriteFile, Enough, InodeInv, Live
<1>2. Used(j) \cap UsedAfter(i, Len(text)) = {}
  BY <1>1, PlanApart, UsedIs DEF InodeInv, NoSharing
<1>3. \A b \in Used(j) : data'[b] = data[b]
  <2>1. \A b \in Blocks \ UsedAfter(i, Len(text)) : data'[b] = data[b]
    BY WriteFileData
  <2>. QED BY <1>2, <2>1, UsedIs
<1>4. inode'[j] = inode[j]
  BY <1>1, WriteFileInode
<1>. QED BY <1>1, <1>3, <1>4, FileKept

\* write_file keeps files apart and gives back what it does not use.
LEMMA WriteFileKeeps ==
  ASSUME InodeInv, NEW i \in Live, NEW text \in Texts, WriteFile(i, text)
  PROVE  InodeInv' /\ (NoLeak => NoLeak')
<1>. DEFINE size == Len(text)
            after == UsedAfter(i, size)
<1>1. /\ size \in 0..MaxFile /\ Enough(i, size) /\ i \in Inums
      /\ Used(i) \cup Taken(i, size) \subseteq Blocks /\ Taken(i, size) \subseteq freed_data
  <2>1. size \in 0..MaxFile /\ Enough(i, size)
    BY TextShape DEF WriteFile, Enough
  <2>. QED BY <2>1, UsedIs, PlanApart, Shape DEF InodeInv, Live
<1>2. TypeOK' /\ Live' = Live /\ freed_inode' = freed_inode /\ inode'[i].size = size
  BY WriteFileInode
<1>3. Used(i)' = after
  BY WriteFileInode DEF Used, UsedAfter
<1>4. \A j \in Live : j # i => Used(j)' = Used(j)
  BY WriteFileOthers
<1>5. freed_data' = (freed_data \ Taken(i, size)) \cup CutOff(i, size)
  BY DEF WriteFile, Taken
<1>6. after \subseteq Used(i) \cup Taken(i, size) /\ after \cap freed_data' = {}
  BY <1>1, <1>5, PlanApart, PlanBack, UsedIs
<1>7. CutOff(i, size) \subseteq Used(i) \cup Taken(i, size)
  BY <1>1, PlanBack
<1>8. Placed'
  BY <1>1, <1>2, <1>3, <1>4, <1>6 DEF Placed, InodeInv
<1>9. NoSharing'
  <2>1. ASSUME NEW j \in Live PROVE Used(j)' \cap freed_data' = {}
    <3>1. CASE j = i
      BY <1>3, <1>6, <3>1
    <3>2. CASE j # i
      <4>1. Used(j) \cap Used(i) = {} /\ Used(j) \cap freed_data = {}
        BY <3>2, UsedIs DEF InodeInv, NoSharing
      <4>. QED BY <1>1, <1>4, <1>5, <1>7, <3>2, <4>1
    <3>. QED BY <3>1, <3>2
  <2>2. ASSUME NEW j \in Live, NEW l \in Live, j # l PROVE Used(j)' \cap Used(l)' = {}
    BY <2>2, <1>1, <1>3, <1>4, <1>6, UsedIs DEF InodeInv, NoSharing
  <2>3. ASSUME NEW j \in Live, NEW k \in 1..MaxFile, NEW l \in 1..MaxFile,
               k < l, l <= inode'[j].size
        PROVE  Blockids(j)'[k] # Blockids(j)'[l]
    <3>1. CASE j = i
      <4>1. k \in 1..size /\ l \in 1..size /\ k # l
        BY <1>2, <2>3, <3>1, <1>1
      <4>. QED BY <1>1, <3>1, <4>1, PlanApart, WriteFileInode
    <3>2. CASE j # i
      BY <2>3, <3>2, WriteFileOthers DEF InodeInv, NoSharing
    <3>. QED BY <3>1, <3>2
  <2>4. ASSUME NEW j \in Live, NEW k \in 1..MaxFile,
               k <= inode'[j].size, HasIndirect(inode'[j].size)
        PROVE  Blockids(j)'[k] # Indirect(j)'
    <3>1. CASE j = i
      BY <1>1, <1>2, <2>4, <3>1, PlanApart, WriteFileInode
    <3>2. CASE j # i
      BY <2>4, <3>2, WriteFileOthers DEF InodeInv, NoSharing
    <3>. QED BY <3>1, <3>2
  <2>. QED BY <1>2, <2>1, <2>2, <2>3, <2>4 DEF NoSharing
<1>10. ASSUME NoLeak PROVE NoLeak'
  <2>. SUFFICES ASSUME NEW b \in Blocks PROVE b \in freed_data' \/ \E j \in Live : b \in Used(j)'
    <3>1. freed_data' \subseteq Blocks /\ \A j \in Live : Used(j)' \subseteq Blocks
      BY <1>2, <1>8 DEF Placed, TypeOK
    <3>. QED BY <1>2, <3>1 DEF NoLeak
  <2>1. b \in freed_data \/ \E j \in Live : b \in Used(j)
    BY <1>10 DEF NoLeak
  <2>2. b \in Used(i) \cup Taken(i, size) => b \in after \cup CutOff(i, size)
    BY <1>1, PlanBack
  <2>. QED BY <1>3, <1>4, <1>5, <2>1, <2>2
<1>. QED BY <1>2, <1>8, <1>9, <1>10 DEF InodeInv

\* What was written is what read_file returns.
LEMMA WriteFileReads ==
  ASSUME InodeInv, NEW i \in Live, NEW text \in Texts, WriteFile(i, text)
  PROVE  ReadFile(i)' = text
<1>1. inode'[i].size = Len(text) /\ Blockids(i)' = NewBlockids(i, Len(text))
  BY WriteFileInode
<1>2. ReadFile(i)' = [k \in 1..Len(text) |-> data'[NewBlockids(i, Len(text))[k]]]
  BY <1>1 DEF ReadFile
<1>3. \A k \in 1..Len(text) : data'[NewBlockids(i, Len(text))[k]] = text[k]
  BY WriteFileData
<1>4. text = [k \in 1..Len(text) |-> text[k]]
  BY TextShape
<1>. QED BY <1>2, <1>3, <1>4

-----------------------------------------------------------------------------
(* The other operations                                                    *)

\* The constructor leaves every block free and one empty file.
LEMMA InitInv == Init => InodeInv /\ NoLeak
<1>. SUFFICES ASSUME Init PROVE InodeInv /\ NoLeak
  OBVIOUS
<1>1. TypeOK
  BY DEF Init, TypeOK, Types
<1>2. Live = {Root} /\ \A i \in Inums : inode[i].size = 0
  BY DEF Init, Live
<1>3. \A i \in Inums : Used(i) = {}
  BY <1>2 DEF Used, HasIndirect
<1>. QED BY <1>1, <1>2, <1>3 DEF Init, InodeInv, Placed, NoSharing, HasIndirect, NoLeak

\* create_file makes an empty file of an inode that has no type.
LEMMA CreateFileKeeps ==
  ASSUME InodeInv, NEW i \in Inums, NEW type \in {"T_FILE", "T_DIR"}, CreateFile(i, type)
  PROVE  /\ InodeInv' /\ (NoLeak => NoLeak')
         /\ i \in Inums \ Live /\ Live' = Live \cup {i} /\ ReadFile(i)' = <<>>
         /\ \A j \in Live : ReadFile(j)' = ReadFile(j)
<1>0. 0 \in 0..MaxFile /\ 0 \in Nat
  BY Shape DEF InodeInv
<1>1. TypeOK'
  <2>0. inode[i] = [type |-> inode[i].type, size |-> inode[i].size, blocks |-> inode[i].blocks]
    BY Shape DEF InodeInv
  <2>1. /\ inode' = [j \in Inums |-> inode'[j]]
        /\ inode'[i] = [inode[i] EXCEPT !.type = type, !.size = 0]
        /\ \A j \in Inums : j # i => inode'[j] = inode[j]
    BY Shape DEF CreateFile, InodeInv
  <2>4. inode'[i] = [type |-> type, size |-> 0, blocks |-> inode[i].blocks]
    BY <2>0, <2>1
  <2>2. type \in Types /\ inode[i].blocks \in BlockLists
    BY Shape DEF InodeInv, Types, BlockLists
  <2>3. inode' \in Tables
    <3>1. TypeOK /\ 0 \in 0..MaxFile
      BY <1>0 DEF InodeInv
    <3>2. inode' = [j \in Inums |-> inode'[j]]
      BY <2>1
    <3>3. \A j \in Inums : j # i => inode'[j] = inode[j]
      BY <2>1
    <3>. QED BY <3>1, <3>2, <3>3, <2>2, <2>4, InodesTyped
  <2>. QED BY <2>3, Shape DEF CreateFile, InodeInv, TypeOK, Tables, BlockLists
<1>2. /\ i \in Inums \ Live /\ Live' = Live \cup {i} /\ inode'[i].size = 0
      /\ \A j \in Inums : j # i => inode'[j] = inode[j]
      /\ UNCHANGED <<data, freed_data>>
  BY Shape DEF CreateFile, InodeInv, Live
<1>3. /\ Used(i)' = {} /\ ReadFile(i)' = <<>>
      /\ \A k \in 1..MaxFile : ~ k <= inode'[i].size
  <2>1. 1..inode'[i].size = {} /\ ~ HasIndirect(inode'[i].size)
    BY <1>2 DEF HasIndirect
  <2>2. \A k \in 1..MaxFile : ~ k <= inode'[i].size
    BY <1>2
  <2>. QED BY <2>1, <2>2 DEF Used, ReadFile
<1>4. ASSUME NEW j \in Live
      PROVE  /\ Blockids(j)' = Blockids(j) /\ Used(j)' = Used(j) /\ Indirect(j)' = Indirect(j)
             /\ ReadFile(j)' = ReadFile(j) /\ inode'[j] = inode[j]
  <2>1. j \in Inums /\ j # i /\ inode[j].size \in 0..MaxFile
    BY <1>2, Shape DEF InodeInv, Live
  <2>. QED BY <1>2, <2>1, FileKept
<1>5. Placed'
  BY <1>2, <1>3, <1>4 DEF InodeInv, Placed
<1>6. NoSharing'
  <2>1. \A j \in Live' : Used(j)' \cap freed_data' = {}
    BY <1>2, <1>3, <1>4, UsedIs
  <2>2. \A j, l \in Live' : j # l => Used(j)' \cap Used(l)' = {}
    BY <1>2, <1>3, <1>4 DEF InodeInv, NoSharing
  <2>3. ASSUME NEW j \in Live', NEW k \in 1..MaxFile, NEW l \in 1..MaxFile,
               k < l, l <= inode'[j].size
        PROVE  Blockids(j)'[k] # Blockids(j)'[l]
    <3>1. j # i
      BY <1>2, <2>3
    <3>2. j \in Live
      BY <1>2, <3>1
    <3>. QED BY <1>2, <1>4, <2>3, <3>2 DEF InodeInv, NoSharing
  <2>4. ASSUME NEW j \in Live', NEW k \in 1..MaxFile,
               k <= inode'[j].size, HasIndirect(inode'[j].size)
        PROVE  Blockids(j)'[k] # Indirect(j)'
    <3>1. j # i
      BY <1>3, <2>4
    <3>2. j \in Live
      BY <1>2, <3>1
    <3>. QED BY <1>2, <1>4, <2>4, <3>2 DEF InodeInv, NoSharing
  <2>. QED BY <2>1, <2>2, <2>3, <2>4 DEF NoSharing
<1>7. freed_inode' = Inums \ Live'
  BY <1>2 DEF CreateFile, InodeInv
<1>8. NoLeak => NoLeak'
  BY <1>2, <1>3, <1>4 DEF NoLeak
<1>. QED BY <1>1, <1>2, <1>3, <1>4, <1>5, <1>6, <1>7, <1>8 DEF InodeInv

\* remove_file gives back all blocks of the file, although the inode keeps
\* their numbers.
LEMMA RemoveFileKeeps ==
  ASSUME InodeInv, NEW i \in Live, RemoveFile(i)
  PROVE  /\ InodeInv' /\ (NoLeak => NoLeak') /\ Live' = Live \ {i}
         /\ \A j \in Live \ {i} : ReadFile(j)' = ReadFile(j)
<1>1. i \in Inums /\ inode[i].size \in 0..MaxFile
  BY Shape DEF InodeInv, Live
<1>2. CutOff(i, 0) = Used(i)
  BY <1>1 DEF CutOff, Used, HasIndirect
<1>3. TypeOK'
  <2>0. inode[i] = [type |-> inode[i].type, size |-> inode[i].size, blocks |-> inode[i].blocks]
    BY <1>1, Shape DEF InodeInv
  <2>1. /\ inode' = [j \in Inums |-> inode'[j]]
        /\ inode'[i] = [inode[i] EXCEPT !.type = "none"]
        /\ \A j \in Inums : j # i => inode'[j] = inode[j]
    BY <1>1, Shape DEF RemoveFile, InodeInv
  <2>5. inode'[i] = [type |-> "none", size |-> inode[i].size, blocks |-> inode[i].blocks]
    BY <2>0, <2>1
  <2>2. "none" \in Types /\ inode[i].blocks \in BlockLists
    BY <1>1, Shape DEF InodeInv, Types, BlockLists
  <2>3. inode' \in Tables
    BY <1>1, <2>1, <2>2, <2>5, InodesTyped DEF InodeInv
  <2>4. Used(i) \subseteq Blocks
    BY UsedIs
  <2>. QED BY <1>1, <1>2, <2>3, <2>4, Shape DEF RemoveFile, InodeInv, TypeOK, Tables, BlockLists
<1>4. /\ Live' = Live \ {i} /\ \A j \in Inums : j # i => inode'[j] = inode[j]
      /\ freed_data' = freed_data \cup Used(i) /\ data' = data
      /\ freed_inode' = freed_inode \cup {i}
  BY <1>1, <1>2, Shape DEF RemoveFile, InodeInv, Live
<1>5. ASSUME NEW j \in Live, j # i
      PROVE  /\ Blockids(j)' = Blockids(j) /\ Used(j)' = Used(j) /\ Indirect(j)' = Indirect(j)
             /\ ReadFile(j)' = ReadFile(j) /\ inode'[j] = inode[j]
  <2>1. j \in Inums /\ inode[j].size \in 0..MaxFile
    BY Shape DEF InodeInv, Live
  <2>. QED BY <1>4, <1>5, <2>1, FileKept
<1>6. Placed'
  BY <1>4, <1>5 DEF InodeInv, Placed
<1>7. NoSharing'
  BY <1>4, <1>5 DEF InodeInv, NoSharing
<1>8. NoLeak => NoLeak'
  BY <1>4, <1>5 DEF NoLeak
<1>. QED BY <1>1, <1>3, <1>4, <1>5, <1>6, <1>7, <1>8 DEF InodeInv

-----------------------------------------------------------------------------
(* The theorems                                                            *)

\* InodeInv is inductive, and with it NoLeak.
LEMMA InvNext ==
  ASSUME ~ UsesRemoved
  PROVE  InodeInv /\ [Next]_vars => InodeInv' /\ (NoLeak => NoLeak')
<1>. SUFFICES ASSUME InodeInv, [Next]_vars PROVE InodeInv' /\ (NoLeak => NoLeak')
  OBVIOUS
<1>1. CASE UNCHANGED vars
  <2>1. Live' = Live /\ (TypeOK => TypeOK')
    BY <1>1 DEF vars, Live, TypeOK
  <2>2. \A i \in Inums : /\ Used(i)' = Used(i) /\ Blockids(i)' = Blockids(i)
                         /\ Indirect(i)' = Indirect(i)
    BY <1>1 DEF vars, Used, Blockids, Indirect
  <2>3. Placed' <=> Placed
    BY <2>1, <2>2 DEF Placed, Live
  <2>4. NoSharing' <=> NoSharing
    BY <1>1, <2>1, <2>2 DEF vars, NoSharing, Live
  <2>5. NoLeak' <=> NoLeak
    BY <1>1, <2>1, <2>2 DEF vars, NoLeak, Live
  <2>. QED BY <1>1, <2>1, <2>3, <2>4, <2>5 DEF vars, InodeInv
<1>2. CASE Next
  BY <1>2, CreateFileKeeps, WriteFileKeeps, RemoveFileKeeps DEF Next
<1>. QED BY <1>1, <1>2

\* Whatever is created, written and removed, and on a disk of any size, no block
\* is in two files, twice in a file, or free and in a file.
THEOREM InodeInvariant == ASSUME ~ UsesRemoved PROVE Spec => []InodeInv
BY InitInv, InvNext, PTL DEF Spec

\* Nor is a block lost: a file that shrinks or goes gives back every block, the
\* indirect one as well.
THEOREM NoLeakHolds == ASSUME ~ UsesRemoved PROVE Spec => []NoLeak
BY InitInv, InvNext, InodeInvariant, PTL DEF Spec

\* The files as the refinement mapping shows them.
FilesNow == [i \in Inums |-> IF i \in Live THEN ReadFile(i) ELSE <<>>]

\* The constructor leaves one file, the empty root directory.
LEMMA FilesInit == Init => Files!Init
<1>. SUFFICES ASSUME Init PROVE Files!Init
  OBVIOUS
<1>1. Live = {Root} /\ \A i \in Inums : inode[i].size = 0
  BY DEF Init, Live
<1>2. \A i \in Inums : ReadFile(i) = <<>>
  BY <1>1 DEF ReadFile
<1>. QED BY <1>1, <1>2 DEF Files!Init

\* create_file, write_file and remove_file create, put and remove a file.
LEMMA FilesNext ==
  ASSUME ~ UsesRemoved
  PROVE  InodeInv /\ [Next]_vars => [Files!Next]_(Files!vars)
<1>. SUFFICES ASSUME InodeInv, [Next]_vars PROVE [Files!Next]_(Files!vars)
  OBVIOUS
<1>0. Live \subseteq Inums
  BY DEF Live
<1>1. CASE UNCHANGED vars
  <2>1. Live' = Live /\ FilesNow' = FilesNow
    BY <1>1 DEF vars, FilesNow, Live, ReadFile, Blockids, Indirect
  <2>. QED BY <2>1 DEF Files!vars, FilesNow
<1>2. ASSUME NEW i \in Inums, NEW type \in {"T_FILE", "T_DIR"}, CreateFile(i, type)
      PROVE  Files!Create(i)
  <2>1. FilesNow' = FilesNow
    BY <1>0, <1>2, CreateFileKeeps DEF FilesNow
  <2>. QED BY <1>2, <2>1, CreateFileKeeps DEF Files!Create, FilesNow
<1>3. ASSUME NEW i \in Live, NEW text \in Texts, WriteFile(i, text)
      PROVE  Files!Put(i, text)
  <2>1. Live' = Live
    BY <1>3, WriteFileInode
  <2>2. FilesNow' = [FilesNow EXCEPT ![i] = text]
    BY <1>0, <1>3, <2>1, WriteFileReads, WriteFileOthers DEF FilesNow
  <2>. QED BY <2>1, <2>2 DEF Files!Put, FilesNow
<1>4. ASSUME NEW i \in Live, RemoveFile(i) PROVE Files!Remove(i)
  <2>1. Live' = Live \ {i}
    BY <1>4, RemoveFileKeeps
  <2>2. FilesNow' = [FilesNow EXCEPT ![i] = <<>>]
    BY <1>0, <1>4, <2>1, RemoveFileKeeps DEF FilesNow
  <2>. QED BY <2>1, <2>2 DEF Files!Remove, FilesNow
<1>. QED BY <1>0, <1>1, <1>2, <1>3, <1>4 DEF Next, Files!Next, Files!Texts, Texts

\* The inode manager implements a store of files: what is written to an inode
\* is what is read from it until it is written again or removed.
THEOREM FilesImplemented == ASSUME ~ UsesRemoved PROVE Spec => ImplementsFileSpec
BY FilesInit, FilesNext, InodeInvariant, PTL DEF Spec, ImplementsFileSpec, Files!Spec
=============================================================================
