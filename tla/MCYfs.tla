------------------------------- MODULE MCYfs --------------------------------
(* Instances of Yfs for TLC.                                               *)
EXTENDS Yfs

CONSTANTS ca, cb, cc, x

Lookup(n) == [op |-> "lookup", name |-> n]
Create(n) == [op |-> "create", name |-> n, type |-> FileType]
Symlink(n) == [op |-> "symlink", name |-> n, type |-> LinkType, text |-> <<x>>]
Unlink(n) == [op |-> "unlink", name |-> n]
Write(off, v) == [op |-> "write", off |-> off, val |-> v]
Setattr(n) == [op |-> "setattr", size |-> n]

\* One creates and truncates file a, one writes it and looks it up, one unlinks
\* a and makes the link b: both numbers below the root are used again.
RequestsShared ==
  [c \in Clients |->
     CASE c = ca -> {Create("a"), Setattr(0)}
       [] c = cb -> {Write(1, x), Lookup("a")}
       [] c = cc -> {Unlink("a"), Symlink("b")}]

\* One looks the file up while another unlinks it and makes a new one.
RequestsStale ==
  [c \in Clients |-> IF c = ca THEN {Lookup("a")} ELSE {Create("a"), Unlink("a")}]

\* Orderly but for unlink.
JoinedNext ==
  \E c \in Clients :
    \/ OrderlyJoin(c) \/ (AllJoined /\ Start(c))
    \/ Lock(c) \/ LockEntry(c) \/ LockLink(c)
    \/ ClientStep(c) \/ Server(c)

JoinedSpec == Init /\ [][JoinedNext]_vars
=============================================================================
