---------------------------- MODULE MCConnection ----------------------------
(***************************************************************************)
(* An instance of Connection for TLC: two connections of one client, two   *)
(* dispatch threads, a queue of one job.                                   *)
(***************************************************************************)
EXTENDS Connection

CONSTANTS first, second    \* the requests

AnyKind == [r \in Requests |-> IF r = first THEN {"new"} ELSE Kinds \ {"new"}]

Sent == [r \in Requests |-> IF r = first THEN {1} ELSE {1, 2}]
=============================================================================
