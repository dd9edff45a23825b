---------------------------- MODULE PartialMaps ----------------------------
(* Maps of some keys to values, as std::map: functions on a part of a set. *)

\* The maps of keys of S to values of T.
Partial(S, T) == UNION {[D -> T] : D \in SUBSET S}

\* Map f after f[k] = v.
Extend(f, k, v) == [l \in DOMAIN f \cup {k} |-> IF l = k THEN v ELSE f[l]]
=============================================================================
