----------------------------- MODULE Hashtable -----------------------------
(***************************************************************************)
(* src/src/mtar/hashtable.c.  A table is an array of chains of nodes, found *)
(* by the hash of the key alone; a chain that gets too long makes the table *)
(* twice as large.  A node is its hash and its value, and a key stands for  *)
(* its hash: two keys with one hash are one key to the code.                *)
(* The program puts and looks up; mtar_hashtable_remove is only called by   *)
(* the tests.                                                               *)
(***************************************************************************)
EXTENDS Integers, Sequences, FiniteSets

CONSTANTS
    Hashes,       \* hashes of the keys that are used
    Values,
    InitialSize,  \* 16 in the code
    MaxChain,     \* 4 in the code
    MaxSize,      \* bound: the table is not made larger than this
    MaxElements   \* bound: nothing is put that takes nb_elements past this

ASSUME HashAssumption ==
    /\ Hashes \subseteq Nat
    /\ InitialSize \in Nat \ {0}
    /\ MaxChain \in Nat \ {0}
    /\ MaxSize \in Nat
    /\ MaxElements \in Nat

VARIABLES
    removes,      \* TRUE for a client that removes
    nodes,        \* the chains
    size_node,    \* how many chains there are
    nb_elements

tableVars == <<removes, nodes, size_node, nb_elements>>

Node == [hash : Hashes, value : Values]

TableInit ==
    /\ removes \in BOOLEAN
    /\ nodes = [b \in 0 .. InitialSize - 1 |-> <<>>]
    /\ size_node = InitialSize
    /\ nb_elements = 0

At(chain, h) == {j \in DOMAIN chain : chain[j].hash = h}

First(chain, h) == CHOOSE j \in At(chain, h) : \A l \in At(chain, h) : j <= l

Chain(h) == nodes[h % size_node]

(* has_key and value. *)
HasKey(h) == At(Chain(h), h) # {}
Value(h) == Chain(h)[First(Chain(h), h)].value

(* put2: the node with the hash is replaced where it is, else the new node  *)
(* goes to the end.                                                         *)
Put2(chain, node) ==
    IF At(chain, node.hash) = {} THEN Append(chain, node)
    ELSE [chain EXCEPT ![First(chain, node.hash)] = node]

(* Mutant: the nodes keep the index they had. *)
BadRehash(table, size) ==
    [b \in 0 .. 2 * size - 1 |-> IF b < size THEN table[b] ELSE <<>>]

(* The nodes of a chain at some places, in order. *)
Among(chain, places) ==
    [k \in 1 .. Cardinality(places) |->
        chain[CHOOSE j \in places : Cardinality({l \in places : l <= j}) = k]]

(* rehash puts the nodes of each old chain, in order, into the chains of a  *)
(* table of twice the size.  What falls into chain b was in chain b % size, *)
(* and no two nodes of it have the same hash.                               *)
Rehash(table, size) ==
    [b \in 0 .. 2 * size - 1 |->
        LET old == table[b % size]
        IN  Among(old, {j \in DOMAIN old : old[j].hash % (2 * size) = b})]

(* Mutant: a replaced node is counted twice. *)
BadCounted(h) == nb_elements + 1

(* put adds one, put2 takes it back for a node that is replaced. *)
Counted(h) == IF HasKey(h) THEN nb_elements ELSE nb_elements + 1

Put(h, v) ==
    LET chain == Chain(h)
        table == [nodes EXCEPT ![h % size_node] = Put2(chain, [hash |-> h, value |-> v])]
        rehash == ~HasKey(h) /\ Len(chain) > MaxChain
    IN  /\ rehash => 2 * size_node <= MaxSize
        /\ Counted(h) <= MaxElements
        /\ nodes' = IF rehash THEN Rehash(table, size_node) ELSE table
        /\ size_node' = IF rehash THEN 2 * size_node ELSE size_node
        /\ nb_elements' = Counted(h)
        /\ UNCHANGED removes

(* Mutant: a miss is counted, too. *)
BadLeft(h) == nb_elements - 1

Left(h) == IF HasKey(h) THEN nb_elements - 1 ELSE nb_elements

(* The first node is taken out properly.  Looking for another one, the loop *)
(* unlinks every node it passes.                                            *)
Unlinked(chain, h) ==
    IF chain = <<>> THEN <<>>
    ELSE IF At(chain, h) = {} THEN <<chain[1]>>
    ELSE IF First(chain, h) = 1 THEN Tail(chain)
    ELSE <<chain[1]>> \o SubSeq(chain, First(chain, h) + 1, Len(chain))

RemoveKey(h) ==
    /\ removes
    /\ nodes' = [nodes EXCEPT ![h % size_node] = Unlinked(Chain(h), h)]
    /\ nb_elements' = Left(h)
    /\ UNCHANGED <<removes, size_node>>

TableNext == \E h \in Hashes : RemoveKey(h) \/ \E v \in Values : Put(h, v)

TableSpec == TableInit /\ [][TableNext]_tableVars

----------------------------------------------------------------------------
Places == UNION {{b} \X DOMAIN nodes[b] : b \in DOMAIN nodes}

TypeOK ==
    /\ removes \in BOOLEAN
    /\ size_node \in Nat \ {0}
    /\ nodes \in [0 .. size_node - 1 -> Seq(Node)]
    /\ nb_elements \in Nat

(* keys and values write a pointer for every node, and one more, into an    *)
(* array of nb_elements + 1: there are never more nodes than elements.      *)
KeysFit == Cardinality(Places) <= nb_elements

(* Every node is in the chain its hash leads to, and there is one node for  *)
(* a hash: put2 and rehash move nodes so that has_key and value find them.  *)
(* However they move, the elements are not fewer than the nodes.            *)
ChainsSound ==
    /\ \A b \in DOMAIN nodes : \A j \in DOMAIN nodes[b] :
         /\ nodes[b][j].hash % size_node = b
         /\ At(nodes[b], nodes[b][j].hash) = {j}
    /\ KeysFit

(* The table of a client that only puts and looks up, as the program does,  *)
(* is a map; that of a client that removes is seen as an empty one.         *)
Map == INSTANCE HashMap WITH
          map <- [h \in {x \in Hashes : ~removes /\ HasKey(x)} |-> Value(h)],
          count <- IF removes THEN 0 ELSE nb_elements

IsMap == Map!Spec
=============================================================================
