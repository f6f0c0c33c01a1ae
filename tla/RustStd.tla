------------------------------ MODULE RustStd ------------------------------
(***************************************************************************)
(* The operations of Rust's standard library that the engines use on       *)
(* numbers and maps.  A HashMap<K, V> is a function whose domain is the    *)
(* set of keys present.                                                    *)
(***************************************************************************)
EXTENDS Integers, Functions

\* a.min(b) and a.max(b) on numbers
MinOf(a, b) == IF a <= b THEN a ELSE b
MaxOf(a, b) == IF a >= b THEN a ELSE b

\* x.abs() and x.clamp(lo, hi)
Magnitude(x) == IF x < 0 THEN -x ELSE x
Clamp(x, lo, hi) == MinOf(MaxOf(x, lo), hi)

EmptyMap == [k \in {} |-> k]

\* map.insert(k, v)
Insert(map, k, v) == [j \in DOMAIN map \cup {k} |-> IF j = k THEN v ELSE map[j]]

\* map.insert(k, v) for every (k, v) of another map
InsertAll(map, other) ==
  [j \in DOMAIN map \cup DOMAIN other |-> IF j \in DOMAIN other THEN other[j] ELSE map[j]]

\* map.remove(k) for every k of ks
RemoveAll(map, ks) == Restrict(map, DOMAIN map \ ks)

\* map.get(k).unwrap_or(default)
GetOr(map, k, default) == IF k \in DOMAIN map THEN map[k] ELSE default

\* A map with keys in K and values in V.
IsMap(map, K, V) == DOMAIN map \subseteq K /\ map \in [DOMAIN map -> V]
=============================================================================
