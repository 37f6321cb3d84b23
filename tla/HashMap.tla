------------------------------ MODULE HashMap ------------------------------
(* What a hashtable promises to its clients: a map, and how many keys it    *)
(* has.  Keys with one hash are one key to it, so a key is its hash.        *)
EXTENDS Naturals, FiniteSets, Functions

CONSTANTS Hashes, Values

VARIABLES map, count

Init ==
    /\ map = [h \in {} |-> h]
    /\ count = 0

Put(h, v) ==
    /\ map' = [x \in DOMAIN map \cup {h} |-> IF x = h THEN v ELSE map[x]]
    /\ count' = Cardinality(DOMAIN map \cup {h})

Remove(h) ==
    /\ map' = Restrict(map, DOMAIN map \ {h})
    /\ count' = Cardinality(DOMAIN map \ {h})

Next == \E h \in Hashes : Remove(h) \/ \E v \in Values : Put(h, v)

Spec == Init /\ [][Next]_<<map, count>>
=============================================================================
