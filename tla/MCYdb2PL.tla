------------------------------ MODULE MCYdb2PL ------------------------------
(* Instances of Ydb2PL for TLC.                                            *)
EXTENDS Ydb2PL

CONSTANTS t1, t2, t3, x

\* Three transactions that may wait in a ring, in either direction; one of
\* them sets a key that it has read.
Ring == {<<t1, 1, Read>>, <<t1, 1, x>>, <<t1, 2, x>>,
         <<t2, 2, Read>>, <<t2, 3, x>>, <<t3, 3, Read>>, <<t3, 1, x>>}

\* All of them read one key.
Readers == {<<t, 1, Read>> : t \in Txns}
=============================================================================
