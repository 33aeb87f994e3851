-------------------------------- MODULE Wlru --------------------------------
(***************************************************************************)
(* utils/simplewlru: a cache of weighted entries, bounded by weight and    *)
(* number, that evicts the least recently used.  The list is a sequence,   *)
(* oldest first; weight is the counter the code keeps.                     *)
(***************************************************************************)
EXTENDS Integers, SequencesExt

EmptyCache == [list |-> <<>>, weight |-> 0]

Keys(c) == [i \in DOMAIN c.list |-> c.list[i].key]
Cached(c, k) == k \in ToSet(Keys(c))
Peek(c, k) == c.list[CHOOSE i \in DOMAIN c.list : c.list[i].key = k].value

\* removeElement; the evict callback is called for k.
RemoveElement(c, k) ==
    [list |-> SelectSeq(c.list, LAMBDA e : e.key # k),
     weight |-> c.weight - c.list[CHOOSE i \in DOMAIN c.list : c.list[i].key = k].weight]

\* Cache.Remove
RemoveKey(c, k) == IF Cached(c, k) THEN RemoveElement(c, k) ELSE c

Normalize(c, maxWeight, maxSize) ==
    LET n == Len(c.list)
        after[i \in 0..n] ==
          IF i = 0 THEN c
          ELSE LET d == after[i - 1]
               IN  IF d.weight > maxWeight \/ Len(d.list) > maxSize
                   THEN RemoveElement(d, Head(d.list).key) ELSE d
    IN  after[n]

Add(c, k, v, w, maxWeight, maxSize) ==
    LET d == RemoveKey(c, k)
    IN  Normalize([list |-> Append(d.list, [key |-> k, value |-> v, weight |-> w]),
                   weight |-> d.weight + w], maxWeight, maxSize)
=============================================================================
