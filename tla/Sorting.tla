------------------------------- MODULE Sorting -------------------------------
(***************************************************************************)
(* sort_by_key of Rust's slices, as collect.rs and build.rs use it: by     *)
(* ascending keys, and equal keys stay in the order in which they are.     *)
(***************************************************************************)
EXTENDS Integers, FiniteSets, Sequences

(* The element at i goes before the one at j. *)
Precedes(key, i, j) == key[i] < key[j] \/ (key[i] = key[j] /\ i < j)

(* Where the element at i goes. *)
Rank(key, i) == Cardinality({j \in DOMAIN key : Precedes(key, j, i)}) + 1

sort_by_key(s, key) ==
    [k \in DOMAIN s |-> s[CHOOSE i \in DOMAIN s : Rank(key, i) = k]]
==============================================================================
