------------------------------- MODULE FsSpec -------------------------------
(***************************************************************************)
(* What the file system promises processes on different machines: one tree *)
(* of files.  A client that changes a file or directory has seen what it   *)
(* contains, and nobody has changed it since; a name leads to a file that  *)
(* exists, and a file appears and disappears with its name.                *)
(***************************************************************************)
EXTENDS Naturals, Sequences, SequencesExt

CONSTANTS
  Clients,        \* mounted file systems
  Inums,          \* inode numbers
  Root,           \* the root directory
  DirType, Types, \* the type of a directory, all types
  Names,          \* file names
  Texts,          \* contents of files and symbolic links
  None            \* no such file; nothing seen

VARIABLES
  content,        \* per inode: its type and data (a directory's: entries), or None
  seen            \* per client: an inode and what it contained, or None

vars == <<content, seen>>

File(type, data) == [type |-> type, data |-> data]

Init ==
  /\ content = [i \in Inums |-> IF i = Root THEN File(DirType, <<>>) ELSE None]
  /\ seen = [c \in Clients |-> None]

Look(c, x) ==
  /\ seen[c] = None /\ content[x] # None
  /\ seen' = [seen EXCEPT ![c] = <<x, content[x]>>]
  /\ UNCHANGED content

Forget(c) ==
  /\ seen[c] # None
  /\ seen' = [seen EXCEPT ![c] = None]
  /\ UNCHANGED content

Write(x) ==
  /\ content[x].type # DirType
  /\ \E text \in Texts : content' = [content EXCEPT ![x].data = text]

Link(x) ==
  /\ content[x].type = DirType
  /\ LET dir == content[x].data IN
       \E name \in Names, i \in Inums, type \in Types, text \in Texts :
         /\ \A k \in 1..Len(dir) : dir[k].name # name
         /\ content[i] = None
         /\ content' = [content EXCEPT ![x].data = Append(dir, [name |-> name, inum |-> i]),
                                       ![i] = File(type, text)]

Unlink(x) ==
  /\ content[x].type = DirType
  /\ LET dir == content[x].data IN
       \E k \in 1..Len(dir) :
         content' = [content EXCEPT ![x].data = RemoveAt(dir, k), ![dir[k].inum] = None]

\* An update rests on what c saw in x, which x still contains.
Update(c, x) ==
  /\ seen[c] # None /\ seen[c] = <<x, content[x]>>
  /\ seen' = [seen EXCEPT ![c] = None]
  /\ Write(x) \/ Link(x) \/ Unlink(x)

\* Every step changes what its client has seen.
Next ==
  \E c \in Clients :
    /\ seen'[c] # seen[c]
    /\ \/ Forget(c)
       \/ \E x \in Inums : Look(c, x)
       \/ \E x \in Inums : Update(c, x)

Spec == Init /\ [][Next]_vars
=============================================================================
