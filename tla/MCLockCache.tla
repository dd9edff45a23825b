---------------------------- MODULE MCLockCache ----------------------------
(* An instance of LockCache for TLC.                                       *)
EXTENDS LockCache

CONSTANTS ca, cb, cc

\* Two threads of client ca and one of each of two others.
OwnerThreeClients == [t \in Threads |->
                        IF t = 3 THEN cb ELSE IF t = 4 THEN cc ELSE ca]

\* Locks taken in one order.
Ordered == {<<h, l>> \in Locks \X Locks : h < l}
=============================================================================
