----------------------------- MODULE SerialSpec -----------------------------
(***************************************************************************)
(* What a transactional ydb server promises: the transactions that commit  *)
(* could have run one after the other, in the order of their commits.  A   *)
(* read may return anything, but a transaction commits only if all it read *)
(* is in the database at that moment.                                      *)
(***************************************************************************)
EXTENDS PartialMaps

CONSTANTS
  Txns,           \* transactions
  Keys,           \* keys of the database
  Values,         \* values, the empty one of a missing key included
  Empty           \* the value of a missing key

VARIABLES
  db,             \* value of each key
  status,         \* state of each transaction
  got,            \* what a running transaction was told of keys it had not set
  put             \* what a running transaction has set

vars == <<db, status, got, put>>

Init ==
  /\ db = [k \in Keys |-> Empty]
  /\ status = [t \in Txns |-> "new"]
  /\ got = [t \in Txns |-> <<>>]
  /\ put = [t \in Txns |-> <<>>]

Begin(t) ==
  /\ status[t] = "new"
  /\ status' = [status EXCEPT ![t] = "running"]
  /\ UNCHANGED <<db, got, put>>

Get(t, k, v) ==
  /\ status[t] = "running" /\ k \notin DOMAIN got[t] \cup DOMAIN put[t]
  /\ got' = [got EXCEPT ![t] = Extend(@, k, v)]
  /\ UNCHANGED <<db, status, put>>

Put(t, k, v) ==
  /\ status[t] = "running"
  /\ put' = [put EXCEPT ![t] = Extend(@, k, v)]
  /\ UNCHANGED <<db, status, got>>

\* A transaction ends; whether it was committed is not seen before it ends.
End(t, how) ==
  /\ status[t] = "running"
  /\ status' = [status EXCEPT ![t] = how]
  /\ got' = [got EXCEPT ![t] = <<>>]
  /\ put' = [put EXCEPT ![t] = <<>>]

Commit(t) ==
  /\ \A k \in DOMAIN got[t] : got[t][k] = db[k]
  /\ End(t, "committed")
  /\ db' = [k \in Keys |-> IF k \in DOMAIN put[t] THEN put[t][k] ELSE db[k]]

Abort(t) == End(t, "aborted") /\ UNCHANGED db

Next ==
  \E t \in Txns :
    \/ Begin(t) \/ Commit(t) \/ Abort(t)
    \/ \E k \in Keys, v \in Values : Get(t, k, v) \/ Put(t, k, v)

Spec == Init /\ [][Next]_vars
=============================================================================
