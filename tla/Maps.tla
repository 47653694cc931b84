-------------------------------- MODULE Maps --------------------------------
(***************************************************************************)
(* The JavaScript Map as the packages use it: a finite function that grows *)
(* one key at a time and is never shrunk.                                  *)
(***************************************************************************)
EXTENDS Naturals, FiniteSets, FiniteSetsExt

\* new Map()
EmptyMap == [k \in {} |-> k]

\* map.set(k, v)
Put(map, k, v) == [x \in DOMAIN map \cup {k} |-> IF x = k THEN v ELSE map[x]]

\* Mutant of NewKey: the idempotency key is not looked up.
AnyKey(map, key) == TRUE

\* An idempotency key that no stored result answers.
NewKey(map, key) == key \notin DOMAIN map

\* map is a Map from some of the keys to values.
IsMap(map, keys, values) ==
  /\ map = [k \in DOMAIN map |-> map[k]]
  /\ DOMAIN map \subseteq keys
  /\ \A k \in DOMAIN map : map[k] \in values

\* The sum of the values of f, the .reduce((sum, x) => sum + ...) of the code.
Total(f) == MapThenSumSet(LAMBDA x : f[x], DOMAIN f)

\* What a list sorted by (a, b) => a - b holds in place k: the least value with k or more up to it.
AtMost(f, v) == Cardinality({x \in DOMAIN f : f[x] <= v})
Ranked(f, k) ==
  LET enough == {f[x] : x \in {y \in DOMAIN f : AtMost(f, f[y]) >= k}}
  IN CHOOSE v \in enough : \A u \in enough : v <= u

\* Math.max and Math.min of two numbers.
Larger(a, b) == IF a >= b THEN a ELSE b
Smaller(a, b) == IF a <= b THEN a ELSE b
=============================================================================
