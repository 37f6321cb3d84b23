----------------------- MODULE PatternsHashtableProofs -----------------------
(***************************************************************************)
(* What mtar -c takes its entries from, and where it looks up those it had. *)
(*                                                                          *)
(* Proofs about Patterns, for any names on the command line, any excludes,  *)
(* any tree and any changes of it: the paths of a walk and the files an     *)
(* engine finds come in order and none twice, what is given out is in a     *)
(* directory that was given out before, and all that is to be archived is   *)
(* given out.                                                               *)
(*                                                                          *)
(* Proofs about Hashtable, for every set of hashes and values, however      *)
(* large: each node is where has_key and value look for it, there is one    *)
(* for a key, keys and values do not write behind their arrays, and for a   *)
(* client that only puts and looks up the table is a map.                   *)
(***************************************************************************)
EXTENDS Patterns, Hashtable, FiniteSetTheorems, SequenceTheorems, WellFoundedInduction, TLAPS

----------------------------------------------------------------------------
(* Numbers and lists. *)

(* Of some numbers one is the least. *)
LEMMA LeastOf ==
    ASSUME NEW T, T \subseteq Nat, T # {}
    PROVE  \E x \in T : \A y \in T : x <= y
<1>1. \E x \in T : \A y \in T : ~(<<y, x>> \in OpToRel(<, Nat))
  BY WFMin, NatLessThanWellFounded, Zenon
<1>2. \E x \in T : \A y \in T : ~(y < x)
  BY <1>1 DEF OpToRel
<1> QED BY <1>2

(* Of some numbers up to n one is the greatest. *)
LEMMA GreatestOf ==
    ASSUME NEW n \in Nat, NEW T, T \subseteq 0 .. n, T # {}
    PROVE  \E x \in T : \A y \in T : y <= x
<1> DEFINE U == {n - x : x \in T}
<1>1. U \subseteq Nat /\ U # {}
  <2>1. \A x \in T : x \in Int /\ n - x \in Nat
    OBVIOUS
  <2>2. PICK x \in T : TRUE
    OBVIOUS
  <2> QED BY <2>1, <2>2
<1>2. PICK u \in U : \A v \in U : u <= v
  <2> HIDE DEF U
  <2> QED BY <1>1, LeastOf
<1>3. PICK x \in T : u = n - x
  OBVIOUS
<1>4. \A y \in T : n - y \in U
  OBVIOUS
<1> QED BY <1>2, <1>3, <1>4

(* The numbers up to one of a set tell which it is, and every count occurs: *)
(* as many counts are possible as there are numbers.                        *)
LEMMA Counts ==
    ASSUME NEW S, S \subseteq Nat, IsFiniteSet(S)
    PROVE  LET Upto(n) == {m \in S : m <= n}
           IN  /\ \A a, b \in S : a < b => Cardinality(Upto(a)) < Cardinality(Upto(b))
               /\ \A i \in 1 .. Cardinality(S) : \E n \in S : Cardinality(Upto(n)) = i
<1> DEFINE Upto(n) == {m \in S : m <= n}
           T == 1 .. Cardinality(S)
           r == [n \in S |-> Cardinality(Upto(n))]
<1>1. Cardinality(S) \in Nat
  BY FS_CardinalityType
<1>2. ASSUME NEW n \in S PROVE Cardinality(Upto(n)) \in T
  <2>1. IsFiniteSet(Upto(n)) /\ Cardinality(Upto(n)) <= Cardinality(S)
    <3>1. Upto(n) \in SUBSET S
      OBVIOUS
    <3> QED BY <3>1, FS_Subset
  <2>2. Cardinality(Upto(n)) \in Nat /\ Cardinality(Upto(n)) # 0
    <3>1. n \in Upto(n)
      OBVIOUS
    <3> HIDE DEF Upto
    <3> QED BY <2>1, <3>1, FS_CardinalityType, FS_EmptySet
  <2> QED BY <1>1, <2>1, <2>2
<1>3. ASSUME NEW a \in S, NEW b \in S, a < b
      PROVE  Cardinality(Upto(a)) < Cardinality(Upto(b))
  <2>1. Upto(a) \in SUBSET Upto(b) /\ b \in Upto(b) /\ b \notin Upto(a)
    <3>1. a \in Nat /\ b \in Nat /\ \A m \in S : m \in Nat
      OBVIOUS
    <3>2. \A m \in S : m <= a => m <= b
      BY <1>3, <3>1
    <3>3. b <= b /\ ~(b <= a)
      BY <1>3, <3>1
    <3> QED BY <3>2, <3>3
  <2>2. IsFiniteSet(Upto(b))
    <3>1. Upto(b) \in SUBSET S
      OBVIOUS
    <3> QED BY <3>1, FS_Subset
  <2>3. Cardinality(Upto(a)) \in Nat /\ Cardinality(Upto(b)) \in Nat
    BY <1>1, <1>2
  <2>4. Cardinality(Upto(a)) <= Cardinality(Upto(b)) /\ Cardinality(Upto(a)) # Cardinality(Upto(b))
    <3> HIDE DEF Upto
    <3> QED BY <2>1, <2>2, FS_Subset
  <2> QED BY <2>3, <2>4
<1>4. r \in Injection(S, T)
  <2>1. r \in [S -> T]
    BY <1>2
  <2>2. ASSUME NEW a \in S, NEW b \in S, r[a] = r[b] PROVE a = b
    <3>1. Cardinality(Upto(a)) = Cardinality(Upto(b))
      BY <2>2
    <3>2. a \in Nat /\ b \in Nat /\ (a < b \/ b < a \/ a = b)
      OBVIOUS
    <3>3. Cardinality(Upto(a)) \in Nat
      BY <1>1, <1>2
    <3> HIDE DEF Upto, r
    <3> QED BY <1>3, <3>1, <3>2, <3>3
  <2> HIDE DEF r
  <2> QED BY <2>1, <2>2 DEF Injection, IsInjective
<1>5. r \in Surjection(S, T)
  <2>1. IsFiniteSet(T) /\ Cardinality(T) = Cardinality(S)
    BY <1>1, FS_Interval
  <2> HIDE DEF r, T
  <2> QED BY <1>4, <2>1, FS_Injection
<1>6. ASSUME NEW i \in T PROVE \E n \in S : Cardinality(Upto(n)) = i
  <2>1. PICK n \in S : r[n] = i
    <3> HIDE DEF r, T
    <3> QED BY <1>5, <1>6 DEF Surjection
  <2> QED BY <2>1
<1> QED BY <1>3, <1>6

Increasing(names) == \A a, b \in DOMAIN names : a < b => names[a] < names[b]

(* The listing of some names has every one, once and in order. *)
LEMMA Listed ==
    ASSUME NEW S, S \subseteq Nat, IsFiniteSet(S)
    PROVE  /\ Listing(S) \in Seq(Nat)
           /\ Increasing(Listing(S))
           /\ \A n : n \in S <=> \E i \in DOMAIN Listing(S) : Listing(S)[i] = n
<1> DEFINE Upto(n) == {m \in S : m <= n}
           c(i) == CHOOSE n \in S : Cardinality(Upto(n)) = i
           l == Listing(S)
<1>1. Cardinality(S) \in Nat
  BY FS_CardinalityType
<1>2. l = [i \in 1 .. Cardinality(S) |-> c(i)]
  BY DEF Listing
<1>3. /\ \A a, b \in S : a < b => Cardinality(Upto(a)) < Cardinality(Upto(b))
      /\ \A i \in 1 .. Cardinality(S) : \E n \in S : Cardinality(Upto(n)) = i
  BY Counts
<1>4. \A i \in 1 .. Cardinality(S) : c(i) \in S /\ Cardinality(Upto(c(i))) = i
  <2> HIDE DEF Upto
  <2> QED BY <1>3
<1>5. /\ DOMAIN l = 1 .. Cardinality(S)
      /\ \A i \in 1 .. Cardinality(S) : l[i] \in S /\ Cardinality(Upto(l[i])) = i
  <2> HIDE DEF c, l, Upto
  <2> QED BY <1>2, <1>4
<1>6. l \in Seq(Nat)
  <2>1. l = [i \in 1 .. Cardinality(S) |-> l[i]]
    <3> HIDE DEF c, l
    <3> QED BY <1>2
  <2> HIDE DEF l, Upto
  <2> QED BY <1>1, <1>5, <2>1
<1>7. Increasing(l)
  <2> SUFFICES ASSUME NEW a \in DOMAIN l, NEW b \in DOMAIN l, a < b PROVE l[a] < l[b]
    BY DEF Increasing
  <2>1. /\ l[a] \in S /\ l[b] \in S /\ a \in Nat /\ b \in Nat
        /\ Cardinality(Upto(l[a])) = a /\ Cardinality(Upto(l[b])) = b
    <3> HIDE DEF l, Upto
    <3> QED BY <1>1, <1>5
  <2>2. ~(l[b] < l[a])
    <3>1. l[b] < l[a] => b < a
      <4> HIDE DEF l, Upto
      <4> QED BY <1>3, <2>1, Zenon
    <3> HIDE DEF l, Upto
    <3> QED BY <2>1, <3>1
  <2>3. l[a] # l[b]
    <3> HIDE DEF l, Upto
    <3> QED BY <2>1
  <2>4. l[a] \in Nat /\ l[b] \in Nat
    BY <2>1
  <2> HIDE DEF l, Upto
  <2> QED BY <2>2, <2>3, <2>4
<1>8. ASSUME NEW n \in S PROVE \E i \in DOMAIN l : l[i] = n
  <2> DEFINE i == Cardinality(Upto(n))
  <2>1. i \in 1 .. Cardinality(S)
    <3>1. Upto(n) \in SUBSET S /\ n \in Upto(n)
      OBVIOUS
    <3>2. IsFiniteSet(Upto(n)) /\ i <= Cardinality(S) /\ i \in Nat /\ i # 0
      <4> HIDE DEF Upto
      <4> QED BY <3>1, FS_Subset, FS_EmptySet, FS_CardinalityType
    <3> HIDE DEF i
    <3> QED BY <1>1, <3>2
  <2>2. l[i] \in S /\ Cardinality(Upto(l[i])) = i
    <3> HIDE DEF l, i, Upto
    <3> QED BY <1>5, <2>1
  <2>3. ~(l[i] < n) /\ ~(n < l[i]) /\ l[i] \in Nat /\ n \in Nat
    <3>1. \A a \in S : a < n => Cardinality(Upto(a)) < i
      BY <1>3
    <3>2. \A a \in S : n < a => i < Cardinality(Upto(a))
      BY <1>3
    <3>3. i \in Nat
      <4> HIDE DEF i
      <4> QED BY <2>1
    <3>4. l[i] < n => i < i
      <4> HIDE DEF l, i, Upto
      <4> QED BY <2>2, <3>1, Zenon
    <3>5. n < l[i] => i < i
      <4> HIDE DEF l, i, Upto
      <4> QED BY <2>2, <3>2, Zenon
    <3>6. l[i] \in Nat
      <4> HIDE DEF l, i, Upto
      <4> QED BY <2>2
    <3> HIDE DEF l, i, Upto
    <3> QED BY <3>3, <3>4, <3>5, <3>6
  <2>4. l[i] = n
    <3> HIDE DEF l, i, Upto
    <3> QED BY <2>3
  <2> HIDE DEF l, i, Upto
  <2> QED BY <1>5, <2>1, <2>4
<1> HIDE DEF Upto, l
<1>9. \A n : n \in S <=> \E i \in DOMAIN l : l[i] = n
  BY <1>5, <1>8
<1> QED BY <1>6, <1>7, <1>9 DEF l

----------------------------------------------------------------------------
(* Paths. *)

Pathname == Seq(Nat)

(* q is a directory above p. *)
Above(q, p) == q # <<>> /\ Len(q) < Len(p) /\ \A k \in 1 .. Len(q) : q[k] = p[k]

(* The order of the walk, name by name. *)
Earlier(p, q) ==
    \/ Above(p, q)
    \/ \E n \in 1 .. Len(p) : /\ n <= Len(q)
                              /\ \A k \in 1 .. n - 1 : p[k] = q[k]
                              /\ p[n] < q[n]

(* Two paths with the same names are one. *)
LEMMA SameNames ==
    ASSUME NEW p \in Pathname, NEW q \in Pathname, Len(p) = Len(q),
           \A k \in 1 .. Len(p) : p[k] = q[k]
    PROVE  p = q
BY SeqEqual DEF Pathname

(* The first names of a path. *)
LEMMA FirstNames ==
    ASSUME NEW p \in Pathname, NEW n \in 0 .. Len(p)
    PROVE  /\ SubSeq(p, 1, n) \in Pathname
           /\ Len(SubSeq(p, 1, n)) = n
           /\ \A k \in 1 .. n : SubSeq(p, 1, n)[k] = p[k]
<1>1. \A i \in 1 .. n : p[i] \in Nat
  BY DEF Pathname
<1> QED BY <1>1, SubSeqProperties DEF Pathname

LEMMA EarlierIsBefore ==
    ASSUME NEW p \in Pathname, NEW q \in Pathname, Earlier(p, q)
    PROVE  Before(p, q)
<1>1. CASE Above(p, q)
  <2>1. Len(p) \in Nat /\ Len(q) \in Nat /\ Len(p) \in 0 .. Len(p) /\ Len(p) \in 0 .. Len(q)
    BY <1>1 DEF Above, Pathname
  <2>2. SubSeq(p, 1, Len(p)) = SubSeq(q, 1, Len(p))
    BY <1>1, <2>1, FirstNames, SameNames DEF Above
  <2>3. p # q
    BY <1>1, <2>1 DEF Above
  <2> QED BY <1>1, <2>1, <2>2, <2>3 DEF Before, IsPrefix, Above
<1>2. CASE \E n \in 1 .. Len(p) : /\ n <= Len(q)
                                  /\ \A k \in 1 .. n - 1 : p[k] = q[k]
                                  /\ p[n] < q[n]
  <2>1. PICK n \in 1 .. Len(p) : /\ n <= Len(q)
                                 /\ \A k \in 1 .. n - 1 : p[k] = q[k]
                                 /\ p[n] < q[n]
    BY <1>2
  <2>2. /\ n \in DOMAIN p \cap DOMAIN q
        /\ n - 1 \in 0 .. Len(p) /\ n - 1 \in 0 .. Len(q)
    BY <2>1 DEF Pathname
  <2>3. SubSeq(p, 1, n - 1) = SubSeq(q, 1, n - 1)
    BY <2>1, <2>2, FirstNames, SameNames
  <2> QED BY <2>1, <2>2, <2>3 DEF Before
<1> QED BY <1>1, <1>2 DEF Earlier

(* What comes before a directory comes before what is in it. *)
LEMMA EarlierBelow ==
    ASSUME NEW q \in Pathname, NEW e \in Pathname, NEW p \in Pathname,
           Earlier(q, e), Above(e, p)
    PROVE  Earlier(q, p)
<1>1. Len(q) \in Nat /\ Len(e) \in Nat /\ Len(p) \in Nat
  BY DEF Pathname
<1>2. CASE Above(q, e)
  BY <1>1, <1>2 DEF Earlier, Above
<1>3. CASE \E n \in 1 .. Len(q) : /\ n <= Len(e)
                                  /\ \A k \in 1 .. n - 1 : q[k] = e[k]
                                  /\ q[n] < e[n]
  <2>1. PICK n \in 1 .. Len(q) : /\ n <= Len(e)
                                 /\ \A k \in 1 .. n - 1 : q[k] = e[k]
                                 /\ q[n] < e[n]
    BY <1>3
  <2>2. n <= Len(p) /\ e[n] = p[n] /\ \A k \in 1 .. n - 1 : e[k] = p[k]
    BY <1>1, <2>1 DEF Above
  <2>3. (\A k \in 1 .. n - 1 : q[k] = p[k]) /\ q[n] < p[n]
    BY <2>1, <2>2
  <2> QED BY <2>2, <2>3 DEF Earlier
<1> QED BY <1>2, <1>3 DEF Earlier

----------------------------------------------------------------------------
(* The stack of the walk. *)

SoundStack(st) ==
    /\ st \in Seq(Pathname)
    /\ \A j \in DOMAIN st : st[j] # <<>> /\ Increasing(st[j])

EntryOf(top, st) == top \o [j \in DOMAIN st |-> Head(st[j])]

(* The paths the walk has still to look at, as far as the stack names them: *)
(* a directory that is read is no longer among them.                        *)
WaitsAt(p, top, st, j, i) ==
    /\ i > 1 \/ j = Len(st)
    /\ Len(p) = Len(top) + j
    /\ \A k \in 1 .. Len(top) + j - 1 : p[k] = EntryOf(top, st)[k]
    /\ p[Len(top) + j] = st[j][i]

Waits(p, top, st) == \E j \in DOMAIN st : \E i \in DOMAIN st[j] : WaitsAt(p, top, st, j, i)

LEMMA StackFacts ==
    ASSUME NEW st, SoundStack(st)
    PROVE  /\ Len(st) \in Nat /\ DOMAIN st = 1 .. Len(st)
           /\ \A j \in 1 .. Len(st) :
                /\ st[j] \in Seq(Nat) /\ Len(st[j]) \in Nat /\ Len(st[j]) >= 1
                /\ DOMAIN st[j] = 1 .. Len(st[j])
                /\ \A i \in 1 .. Len(st[j]) : st[j][i] \in Nat
                /\ Head(st[j]) = st[j][1]
<1>1. Len(st) \in Nat /\ DOMAIN st = 1 .. Len(st)
  BY DEF SoundStack
<1>2. ASSUME NEW j \in 1 .. Len(st)
      PROVE  /\ st[j] \in Seq(Nat) /\ Len(st[j]) \in Nat /\ Len(st[j]) >= 1
             /\ DOMAIN st[j] = 1 .. Len(st[j])
             /\ \A i \in 1 .. Len(st[j]) : st[j][i] \in Nat
             /\ Head(st[j]) = st[j][1]
  <2>1. st[j] \in Seq(Nat) /\ st[j] # <<>>
    BY <1>1 DEF SoundStack, Pathname
  <2> QED BY <2>1
<1> QED BY <1>1, <1>2

(* The entry: the start of the walk, and the first name of every list. *)
LEMMA EntryFacts ==
    ASSUME NEW top \in Pathname, NEW st, SoundStack(st)
    PROVE  /\ EntryOf(top, st) \in Pathname
           /\ Len(EntryOf(top, st)) = Len(top) + Len(st)
           /\ \A k \in 1 .. Len(top) : EntryOf(top, st)[k] = top[k]
           /\ \A j \in 1 .. Len(st) : EntryOf(top, st)[Len(top) + j] = st[j][1]
<1> DEFINE heads == [j \in DOMAIN st |-> Head(st[j])]
<1>1. /\ Len(st) \in Nat /\ DOMAIN st = 1 .. Len(st)
      /\ \A j \in 1 .. Len(st) : Head(st[j]) = st[j][1] /\ st[j][1] \in Nat
  BY StackFacts
<1>2. heads \in Seq(Nat) /\ Len(heads) = Len(st) /\ \A j \in 1 .. Len(st) : heads[j] = st[j][1]
  BY <1>1
<1>3. EntryOf(top, st) = top \o heads
  BY DEF EntryOf
<1> HIDE DEF heads
<1> QED BY <1>2, <1>3, ConcatProperties DEF Pathname

LEMMA EntryHead ==
    ASSUME NEW top \in Pathname, NEW st, SoundStack(st), NEW j \in 1 .. Len(st)
    PROVE  EntryOf(top, st)[Len(top) + j] = st[j][1]
BY EntryFacts

(* What waits is below the start, in directories above the entry, and is the *)
(* entry itself if it is the first of the last list.                        *)
LEMMA WaitingFacts ==
    ASSUME NEW top \in Pathname, NEW st, SoundStack(st), NEW p \in Pathname,
           NEW j \in DOMAIN st, NEW i \in DOMAIN st[j], WaitsAt(p, top, st, j, i)
    PROVE  /\ Len(p) > Len(top) /\ Len(p) <= Len(EntryOf(top, st))
           /\ \A k \in 1 .. Len(p) - 1 : p[k] = EntryOf(top, st)[k]
           /\ i = 1 => p = EntryOf(top, st)
           /\ i > 1 => p[Len(p)] > EntryOf(top, st)[Len(p)]
<1> DEFINE e == EntryOf(top, st)
<1>1. /\ Len(st) \in Nat /\ DOMAIN st = 1 .. Len(st)
      /\ \A l \in 1 .. Len(st) :
           /\ DOMAIN st[l] = 1 .. Len(st[l]) /\ Len(st[l]) \in Nat /\ Len(st[l]) >= 1
           /\ \A m \in 1 .. Len(st[l]) : st[l][m] \in Nat
  BY StackFacts
<1>2. /\ e \in Pathname /\ Len(e) = Len(top) + Len(st)
      /\ \A l \in 1 .. Len(st) : e[Len(top) + l] = st[l][1]
  BY EntryFacts
<1>3. /\ Len(p) = Len(top) + j
      /\ \A k \in 1 .. Len(top) + j - 1 : p[k] = e[k]
      /\ p[Len(top) + j] = st[j][i]
      /\ i > 1 \/ j = Len(st)
  BY DEF WaitsAt
<1>4. Len(top) \in Nat /\ Len(p) \in Nat /\ j \in 1 .. Len(st) /\ i \in 1 .. Len(st[j])
  BY <1>1 DEF Pathname
<1> HIDE DEF e
<1>5. Len(p) > Len(top) /\ Len(p) <= Len(e) /\ \A k \in 1 .. Len(p) - 1 : p[k] = e[k]
  BY <1>1, <1>2, <1>3, <1>4
<1>6. ASSUME i = 1 PROVE p = e
  <2>1. Len(p) = Len(e) /\ p[Len(p)] = e[Len(p)]
    <3>1. j = Len(st)
      BY <1>3, <1>6
    <3>2. e[Len(top) + j] = st[j][1] /\ p[Len(top) + j] = st[j][1]
      BY <1>2, <1>3, <1>4, <1>6
    <3> QED BY <1>2, <1>3, <3>1, <3>2
  <2>2. \A k \in 1 .. Len(p) : p[k] = e[k]
    BY <1>4, <1>5, <2>1
  <2> QED BY <1>2, <2>1, <2>2, SameNames
<1>7. ASSUME i > 1 PROVE p[Len(p)] > e[Len(p)]
  <2>1. st[j][1] < st[j][i]
    <3>1. 1 \in DOMAIN st[j] /\ 1 < i
      BY <1>1, <1>4, <1>7
    <3>2. Increasing(st[j])
      BY DEF SoundStack
    <3> QED BY <3>1, <3>2 DEF Increasing
  <2>2. p[Len(p)] = st[j][i] /\ e[Len(p)] = st[j][1]
    BY <1>2, <1>3, <1>4
  <2>3. st[j][1] \in Nat /\ st[j][i] \in Nat
    BY <1>1, <1>4
  <2> QED BY <2>1, <2>2, <2>3
<1> QED BY <1>5, <1>6, <1>7 DEF e

(* The same without the place. *)
LEMMA WaitingBelow ==
    ASSUME NEW top \in Pathname, NEW st, SoundStack(st), NEW p \in Pathname, Waits(p, top, st)
    PROVE  /\ st # <<>>
           /\ Len(p) > Len(top) /\ Len(p) <= Len(EntryOf(top, st))
           /\ \A k \in 1 .. Len(p) - 1 : p[k] = EntryOf(top, st)[k]
           /\ p # EntryOf(top, st) => Earlier(EntryOf(top, st), p)
<1>1. PICK j \in DOMAIN st : \E i \in DOMAIN st[j] : WaitsAt(p, top, st, j, i)
  BY DEF Waits
<1>2. PICK i \in DOMAIN st[j] : WaitsAt(p, top, st, j, i)
  BY <1>1
<1> DEFINE e == EntryOf(top, st)
<1>3. /\ Len(p) > Len(top) /\ Len(p) <= Len(e)
      /\ \A k \in 1 .. Len(p) - 1 : p[k] = e[k]
      /\ i = 1 => p = e
      /\ i > 1 => p[Len(p)] > e[Len(p)]
  BY <1>2, WaitingFacts
<1>4. i \in Nat /\ i >= 1 /\ st # <<>>
  BY <1>1, StackFacts
<1>5. Len(p) \in Nat /\ Len(top) \in Nat /\ e \in Pathname /\ Len(e) \in Nat
  BY EntryFacts DEF Pathname
<1> HIDE DEF e
<1>6. ASSUME p # e PROVE Earlier(e, p)
  <2>1. Len(p) \in 1 .. Len(e) /\ Len(p) <= Len(p) /\ p[Len(p)] > e[Len(p)]
    BY <1>3, <1>4, <1>5, <1>6
  <2>2. p[Len(p)] \in Nat /\ e[Len(p)] \in Nat
    BY <1>5, <2>1 DEF Pathname
  <2>3. e[Len(p)] < p[Len(p)] /\ \A k \in 1 .. Len(p) - 1 : e[k] = p[k]
    BY <1>3, <2>1, <2>2
  <2> QED BY <2>1, <2>3 DEF Earlier
<1> QED BY <1>3, <1>4, <1>6 DEF e

(* While there is a stack its entry waits. *)
LEMMA EntryWaits ==
    ASSUME NEW top \in Pathname, NEW st, SoundStack(st), st # <<>>
    PROVE  Waits(EntryOf(top, st), top, st)
<1>1. /\ Len(st) \in Nat /\ DOMAIN st = 1 .. Len(st)
      /\ \A l \in 1 .. Len(st) :
           DOMAIN st[l] = 1 .. Len(st[l]) /\ Len(st[l]) \in Nat /\ Len(st[l]) >= 1
  BY StackFacts
<1>2. Len(st) \in 1 .. Len(st)
  <2>1. Len(st) # 0
    <3>1. st \in Seq(Pathname)
      BY DEF SoundStack
    <3> HIDE DEF Pathname
    <3> QED BY <3>1
  <2> QED BY <1>1, <2>1
<1>3. 1 \in DOMAIN st[Len(st)]
  BY <1>1, <1>2
<1>4. WaitsAt(EntryOf(top, st), top, st, Len(st), 1)
  BY <1>2, EntryFacts DEF WaitsAt
<1> QED BY <1>1, <1>2, <1>3, <1>4 DEF Waits

(* What a directory that is read adds: its names wait below the entry, and   *)
(* the entry waits no longer.                                               *)
LEMMA Pushed ==
    ASSUME NEW top \in Pathname, NEW st, SoundStack(st),
           NEW names \in Seq(Nat), names # <<>>, Increasing(names)
    PROVE  /\ SoundStack(Append(st, names))
           /\ \A p \in Pathname :
                Waits(p, top, Append(st, names)) =>
                    \/ Waits(p, top, st) /\ p # EntryOf(top, st)
                    \/ /\ Len(p) = Len(EntryOf(top, st)) + 1
                       /\ \A k \in 1 .. Len(EntryOf(top, st)) : p[k] = EntryOf(top, st)[k]
                       /\ \E i \in DOMAIN names : p[Len(p)] = names[i]
           /\ \A p \in Pathname :
                /\ \/ Waits(p, top, st) /\ p # EntryOf(top, st)
                   \/ /\ Len(p) = Len(EntryOf(top, st)) + 1
                      /\ \A k \in 1 .. Len(EntryOf(top, st)) : p[k] = EntryOf(top, st)[k]
                      /\ \E i \in DOMAIN names : p[Len(p)] = names[i]
                => Waits(p, top, Append(st, names))
<1> DEFINE e == EntryOf(top, st)
           st2 == Append(st, names)
           f == EntryOf(top, st2)
           n == Len(st)
<1>1. /\ n \in Nat /\ DOMAIN st = 1 .. n
      /\ \A l \in 1 .. n :
           /\ DOMAIN st[l] = 1 .. Len(st[l]) /\ Len(st[l]) \in Nat /\ Len(st[l]) >= 1
           /\ \A m \in 1 .. Len(st[l]) : st[l][m] \in Nat
  BY StackFacts
<1>2. /\ st2 \in Seq(Pathname) /\ Len(st2) = n + 1 /\ DOMAIN st2 = 1 .. n + 1
      /\ \A l \in 1 .. n : st2[l] = st[l]
      /\ st2[n + 1] = names
  <2>1. st \in Seq(Pathname) /\ names \in Pathname
    BY DEF SoundStack, Pathname
  <2>2. st2 \in Seq(Pathname) /\ Len(st2) = n + 1
    BY <2>1, AppendProperties
  <2>3. DOMAIN st2 = 1 .. n + 1
    <3> HIDE DEF st2, n, Pathname
    <3> QED BY <2>2
  <2> QED BY <2>1, <2>2, <2>3, AppendProperties
<1>3. SoundStack(st2)
  <2>1. ASSUME NEW l \in 1 .. n + 1 PROVE st2[l] # <<>> /\ Increasing(st2[l])
    <3>1. CASE l = n + 1
      BY <1>2, <3>1
    <3>2. CASE l \in 1 .. n
      BY <1>1, <1>2, <3>2 DEF SoundStack
    <3> HIDE DEF n, st2
    <3> QED BY <1>1, <3>1, <3>2
  <2> HIDE DEF n, st2
  <2> QED BY <1>2, <2>1 DEF SoundStack
<1>4. /\ e \in Pathname /\ Len(e) = Len(top) + n /\ Len(e) \in Nat
      /\ \A l \in 1 .. n : e[Len(top) + l] = st[l][1]
      /\ \A k \in 1 .. Len(top) : e[k] = top[k]
  <2>1. e \in Pathname => Len(e) \in Nat
    BY DEF Pathname
  <2> QED BY <2>1, EntryFacts
<1>5. /\ f \in Pathname /\ Len(f) = Len(top) + n + 1
      /\ \A l \in 1 .. n : f[Len(top) + l] = st[l][1]
      /\ \A k \in 1 .. Len(top) : f[k] = top[k]
  <2>1. /\ f \in Pathname /\ Len(f) = Len(top) + Len(st2)
        /\ \A l \in 1 .. Len(st2) : f[Len(top) + l] = st2[l][1]
        /\ \A k \in 1 .. Len(top) : f[k] = top[k]
    <3>0. top \in Pathname
      OBVIOUS
    <3> HIDE DEF st2
    <3>1. f \in Pathname
      BY <1>3, <3>0, EntryFacts, Zenon
    <3>2. Len(f) = Len(top) + Len(st2)
      BY <1>3, <3>0, EntryFacts, Zenon
    <3>3. ASSUME NEW l \in 1 .. Len(st2) PROVE f[Len(top) + l] = st2[l][1]
      BY <1>3, <3>0, EntryHead
    <3>4. \A k \in 1 .. Len(top) : f[k] = top[k]
      BY <1>3, <3>0, EntryFacts, Zenon
    <3> QED BY <3>1, <3>2, <3>3, <3>4
  <2>2. Len(top) \in Nat
    BY DEF Pathname
  <2> HIDE DEF st2, f, n
  <2> QED BY <1>1, <1>2, <2>1, <2>2
<1>6. Len(top) \in Nat
  BY DEF Pathname
<1> HIDE DEF e, st2, f, n
<1>7. \A k \in 1 .. Len(e) : f[k] = e[k]
  <2>1. ASSUME NEW k \in 1 .. Len(e), ~(k <= Len(top)) PROVE f[k] = e[k]
    <3> DEFINE l == k - Len(top)
    <3>1. l \in 1 .. n /\ k = Len(top) + l
      BY <1>1, <1>4, <1>6, <2>1
    <3> HIDE DEF l
    <3> QED BY <1>4, <1>5, <3>1
  <2>2. \A k \in 1 .. Len(e) : k <= Len(top) => k \in 1 .. Len(top)
    BY <1>4, <1>6
  <2> QED BY <1>4, <1>5, <2>1, <2>2
<1>8. ASSUME NEW p \in Pathname, Waits(p, top, st2)
      PROVE  \/ Waits(p, top, st) /\ p # e
             \/ /\ Len(p) = Len(e) + 1
                /\ \A k \in 1 .. Len(e) : p[k] = e[k]
                /\ \E i \in DOMAIN names : p[Len(p)] = names[i]
  <2>1. PICK j \in 1 .. n + 1 : \E i \in DOMAIN st2[j] : WaitsAt(p, top, st2, j, i)
    BY <1>2, <1>8 DEF Waits
  <2>2. PICK i \in DOMAIN st2[j] : WaitsAt(p, top, st2, j, i)
    BY <2>1
  <2>3. /\ i > 1 \/ j = n + 1
        /\ Len(p) = Len(top) + j
        /\ \A k \in 1 .. Len(top) + j - 1 : p[k] = f[k]
        /\ p[Len(top) + j] = st2[j][i]
    BY <1>2, <2>2 DEF WaitsAt, f
  <2>4. CASE j = n + 1
    <3>0. Len(e) = Len(top) + j - 1
      BY <1>1, <1>4, <1>6, <2>4
    <3>a. \A k \in 1 .. Len(e) : p[k] = e[k]
      BY <1>7, <2>3, <3>0, Zenon
    <3>1. Len(p) = Len(e) + 1 /\ \A k \in 1 .. Len(e) : p[k] = e[k]
      BY <1>1, <1>4, <1>6, <2>3, <2>4, <3>a
    <3>2. p[Len(p)] = names[i] /\ i \in DOMAIN names
      BY <1>2, <2>3, <2>4
    <3> QED BY <3>1, <3>2
  <2>5. CASE j \in 1 .. n
    <3>1. i \in DOMAIN st[j] /\ st2[j] = st[j] /\ i > 1
      BY <1>1, <1>2, <2>3, <2>5
    <3>2. \A k \in 1 .. Len(top) + j - 1 : k \in 1 .. Len(e)
      BY <1>1, <1>4, <1>6, <2>5
    <3>3. \A k \in 1 .. Len(top) + j - 1 : p[k] = e[k]
      BY <1>7, <2>3, <3>2
    <3>4. WaitsAt(p, top, st, j, i)
      BY <2>3, <3>1, <3>3 DEF WaitsAt, e
    <3>5. Waits(p, top, st)
      BY <1>1, <2>5, <3>1, <3>4 DEF Waits
    <3>6. p[Len(p)] > e[Len(p)]
      <4>1. j \in DOMAIN st
        BY <1>1, <2>5
      <4> QED BY <3>1, <3>4, <4>1, WaitingFacts DEF e
    <3>7. Len(p) \in 1 .. Len(p)
      BY <1>1, <1>6, <2>3
    <3>8. p[Len(p)] \in Nat
      BY <3>7 DEF Pathname
    <3>9. p # e
      BY <3>6, <3>8
    <3> QED BY <3>5, <3>9
  <2> QED BY <1>1, <2>4, <2>5
<1>9. ASSUME NEW p \in Pathname, Waits(p, top, st), p # e
      PROVE  Waits(p, top, st2)
  <2>1. PICK j \in 1 .. n : \E i \in DOMAIN st[j] : WaitsAt(p, top, st, j, i)
    BY <1>1, <1>9 DEF Waits
  <2>2. PICK i \in DOMAIN st[j] : WaitsAt(p, top, st, j, i)
    BY <2>1
  <2>3. i > 1
    <3>1. i # 1
      <4>1. j \in DOMAIN st
        BY <1>1
      <4> QED BY <1>9, <2>2, <4>1, WaitingFacts DEF e
    <3> QED BY <1>1, <3>1
  <2>4. /\ Len(p) = Len(top) + j
        /\ \A k \in 1 .. Len(top) + j - 1 : p[k] = e[k]
        /\ p[Len(top) + j] = st[j][i]
    BY <2>2 DEF WaitsAt, e
  <2>5. \A k \in 1 .. Len(top) + j - 1 : k \in 1 .. Len(e)
    BY <1>1, <1>4, <1>6
  <2>6. \A k \in 1 .. Len(top) + j - 1 : p[k] = f[k]
    BY <1>7, <2>4, <2>5
  <2>7. st2[j] = st[j]
    BY <1>2
  <2>8. WaitsAt(p, top, st2, j, i)
    BY <2>3, <2>4, <2>6, <2>7 DEF WaitsAt, f
  <2>9. j \in DOMAIN st2
    BY <1>1, <1>2
  <2> QED BY <2>7, <2>8, <2>9 DEF Waits
<1>10. ASSUME NEW p \in Pathname, Len(p) = Len(e) + 1, \A k \in 1 .. Len(e) : p[k] = e[k],
              NEW i \in DOMAIN names, p[Len(p)] = names[i]
       PROVE  Waits(p, top, st2)
  <2>1. Len(top) + (n + 1) = Len(p) /\ Len(top) + (n + 1) - 1 = Len(e)
    BY <1>1, <1>4, <1>6, <1>10
  <2>2. WaitsAt(p, top, st2, n + 1, i)
    BY <1>2, <1>7, <1>10, <2>1 DEF WaitsAt, f
  <2>3. n + 1 \in DOMAIN st2 /\ i \in DOMAIN st2[n + 1]
    BY <1>1, <1>2
  <2> QED BY <2>2, <2>3 DEF Waits
<1> QED BY <1>3, <1>8, <1>9, <1>10 DEF e, st2

(* The stack after an entry that is dealt with. *)
AdvanceOf(st) ==
    LET open == {j \in DOMAIN st : Len(st[j]) > 1}
    IN  IF open = {} THEN <<>>
        ELSE LET k == CHOOSE j \in open : \A l \in open : l <= j
             IN  Append(SubSeq(st, 1, k - 1), Tail(st[k]))

(* An entry that is dealt with, and nothing else, waits no longer. *)
LEMMA Popped ==
    ASSUME NEW top \in Pathname, NEW st, SoundStack(st), st # <<>>
    PROVE  /\ SoundStack(AdvanceOf(st))
           /\ \A p \in Pathname :
                Waits(p, top, AdvanceOf(st)) <=> Waits(p, top, st) /\ p # EntryOf(top, st)
<1> DEFINE e == EntryOf(top, st)
           open == {j \in DOMAIN st : Len(st[j]) > 1}
           n == Len(st)
<1>1. /\ n \in Nat /\ DOMAIN st = 1 .. n
      /\ \A l \in 1 .. n :
           /\ st[l] \in Seq(Nat) /\ DOMAIN st[l] = 1 .. Len(st[l])
           /\ Len(st[l]) \in Nat /\ Len(st[l]) >= 1
           /\ \A m \in 1 .. Len(st[l]) : st[l][m] \in Nat
  BY StackFacts
<1>2. /\ e \in Pathname /\ Len(e) = Len(top) + n /\ Len(e) \in Nat
      /\ \A l \in 1 .. n : e[Len(top) + l] = st[l][1]
      /\ \A k \in 1 .. Len(top) : e[k] = top[k]
  <2>1. e \in Pathname => Len(e) \in Nat
    BY DEF Pathname
  <2> QED BY <2>1, EntryFacts
<1>3. Len(top) \in Nat
  BY DEF Pathname
<1>4. /\ st \in Seq(Pathname)
      /\ \A l \in 1 .. n : st[l] # <<>> /\ Increasing(st[l])
  BY <1>1 DEF SoundStack
<1>5. ASSUME NEW p \in Pathname, Waits(p, top, st), p # e
      PROVE  \E j \in open : \E i \in 2 .. Len(st[j]) :
                /\ Len(p) = Len(top) + j
                /\ \A k \in 1 .. Len(top) + j - 1 : p[k] = e[k]
                /\ p[Len(top) + j] = st[j][i]
  <2>1. PICK j \in 1 .. n : \E i \in DOMAIN st[j] : WaitsAt(p, top, st, j, i)
    BY <1>1, <1>5 DEF Waits
  <2>2. PICK i \in DOMAIN st[j] : WaitsAt(p, top, st, j, i)
    BY <2>1
  <2>3. i # 1
    <3>1. j \in DOMAIN st
      BY <1>1
    <3> QED BY <1>5, <2>2, <3>1, WaitingFacts
  <2>4. i \in 2 .. Len(st[j])
    <3>1. i \in 1 .. Len(st[j]) /\ Len(st[j]) \in Nat
      BY <1>1
    <3> QED BY <2>3, <3>1
  <2>5. j \in open
    <3>1. Len(st[j]) \in Nat
      BY <1>1
    <3> QED BY <1>1, <2>4, <3>1
  <2> HIDE DEF open
  <2> QED BY <2>2, <2>4, <2>5 DEF WaitsAt
<1>6. CASE open = {}
  <2>1. AdvanceOf(st) = <<>>
    BY <1>6 DEF AdvanceOf
  <2>2. SoundStack(<<>>) /\ \A p : ~Waits(p, top, <<>>)
    BY DEF SoundStack, Waits
  <2> QED BY <1>5, <1>6, <2>1, <2>2
<1>7. CASE open # {}
  <2> DEFINE k == CHOOSE j \in open : \A l \in open : l <= j
             st2 == Append(SubSeq(st, 1, k - 1), Tail(st[k]))
             f == EntryOf(top, st2)
  <2>1. k \in open /\ \A l \in open : l <= k
    <3>1. open \subseteq 0 .. n
      BY <1>1
    <3>2. \E j \in open : \A l \in open : l <= j
      <4> HIDE DEF open, n
      <4> QED BY <1>1, <1>7, <3>1, GreatestOf
    <3> HIDE DEF open
    <3> QED BY <3>2
  <2>2. k \in 1 .. n /\ Len(st[k]) > 1 /\ \A j \in 1 .. n : Len(st[j]) > 1 => j <= k
    <3> HIDE DEF k
    <3> QED BY <1>1, <2>1
  <2>3. AdvanceOf(st) = st2
    BY <1>7 DEF AdvanceOf
  <2> HIDE DEF k
  <2>4. /\ Tail(st[k]) \in Pathname /\ Len(Tail(st[k])) = Len(st[k]) - 1
        /\ \A i \in 1 .. Len(st[k]) - 1 : Tail(st[k])[i] = st[k][i + 1]
    <3>1. st[k] \in Seq(Nat) /\ st[k] # <<>>
      BY <1>1, <1>4, <2>2
    <3> QED BY <3>1, HeadTailProperties DEF Pathname
  <2>5. /\ st2 \in Seq(Pathname) /\ Len(st2) = k /\ DOMAIN st2 = 1 .. k
        /\ \A l \in 1 .. k - 1 : st2[l] = st[l]
        /\ st2[k] = Tail(st[k])
    <3> DEFINE low == SubSeq(st, 1, k - 1)
    <3>1. \A l \in 1 .. k - 1 : st[l] \in Pathname
      BY <1>1, <2>2 DEF Pathname
    <3>2. low \in Seq(Pathname) /\ Len(low) = k - 1 /\ \A l \in 1 .. k - 1 : low[l] = st[l]
      <4> HIDE DEF Pathname
      <4> QED BY <1>1, <2>2, <3>1, SubSeqProperties
    <3> HIDE DEF low
    <3>3. st2 = Append(low, Tail(st[k]))
      BY DEF low
    <3>4. /\ st2 \in Seq(Pathname) /\ Len(st2) = Len(low) + 1
          /\ \A l \in 1 .. Len(low) : st2[l] = low[l]
          /\ st2[Len(low) + 1] = Tail(st[k])
      <4> HIDE DEF Pathname, st2
      <4> QED BY <2>4, <3>2, <3>3, AppendProperties
    <3> HIDE DEF st2, Pathname
    <3>5. k \in Nat
      BY <1>1, <2>2
    <3> QED BY <3>2, <3>4, <3>5
  <2>6. SoundStack(st2)
    <3>1. ASSUME NEW l \in 1 .. k PROVE st2[l] # <<>> /\ Increasing(st2[l])
      <4>1. CASE l = k
        <5>1. Len(Tail(st[k])) # 0
          BY <1>1, <2>2, <2>4
        <5>2. Increasing(st2[k])
          <6> DEFINE t == Tail(st[k])
                     m == Len(st[k])
          <6>1. /\ t \in Seq(Nat) /\ Len(t) = m - 1 /\ m \in Nat
                /\ \A i \in 1 .. m - 1 : t[i] = st[k][i + 1]
            BY <1>1, <2>2, <2>4 DEF Pathname
          <6>2. \A a, b \in 1 .. m : a < b => st[k][a] < st[k][b]
            BY <1>1, <1>4, <2>2 DEF Increasing
          <6> HIDE DEF t, m
          <6>3. \A a, b \in 1 .. m - 1 : a < b => t[a] < t[b]
            BY <6>1, <6>2
          <6>4. DOMAIN t = 1 .. m - 1
            BY <6>1
          <6>5. Increasing(t)
            BY <6>3, <6>4 DEF Increasing
          <6> QED BY <2>5, <6>5 DEF t
        <5>3. st2[l] # <<>>
          <6> HIDE DEF st2
          <6>1. <<>> \in Seq(Nat) /\ Len(<<>>) = 0
            OBVIOUS
          <6>2. st2[l] = Tail(st[k])
            BY <2>5, <4>1, Zenon
          <6> QED BY <5>1, <6>1, <6>2, Zenon
        <5> QED BY <4>1, <5>2, <5>3
      <4>2. CASE l \in 1 .. k - 1
        BY <1>1, <1>4, <2>2, <2>5, <4>2
      <4> QED BY <1>1, <2>2, <4>1, <4>2
    <3> HIDE DEF st2
    <3> QED BY <2>5, <3>1 DEF SoundStack
  <2> HIDE DEF st2
  <2>7. /\ f \in Pathname /\ Len(f) = Len(top) + k
        /\ \A l \in 1 .. k : f[Len(top) + l] = st2[l][1]
        /\ \A m \in 1 .. Len(top) : f[m] = top[m]
    <3>1. f \in Pathname /\ Len(f) = Len(top) + Len(st2)
      BY <2>6, EntryFacts, Zenon
    <3>2. ASSUME NEW l \in 1 .. Len(st2) PROVE f[Len(top) + l] = st2[l][1]
      BY <2>6, EntryHead
    <3>3. \A m \in 1 .. Len(top) : f[m] = top[m]
      BY <2>6, EntryFacts, Zenon
    <3> QED BY <2>5, <3>1, <3>2, <3>3
  <2> HIDE DEF f
  <2>8. \A m \in 1 .. Len(top) + k - 1 : f[m] = e[m]
    <3>1. ASSUME NEW m \in 1 .. Len(top) + k - 1, ~(m <= Len(top)) PROVE f[m] = e[m]
      <4> DEFINE l == m - Len(top)
      <4>1. l \in 1 .. k - 1 /\ l \in 1 .. k /\ l \in 1 .. n /\ m = Len(top) + l
        BY <1>1, <1>3, <2>2, <3>1
      <4> HIDE DEF l, e
      <4> QED BY <1>2, <2>5, <2>7, <4>1
    <3>2. \A m \in 1 .. Len(top) + k - 1 : m <= Len(top) => m \in 1 .. Len(top)
      BY <1>3
    <3> HIDE DEF e
    <3> QED BY <1>2, <2>7, <3>1, <3>2
  <2>9. ASSUME NEW p \in Pathname, Waits(p, top, st2) PROVE Waits(p, top, st) /\ p # e
    <3>1. PICK j \in 1 .. k : \E i \in DOMAIN st2[j] : WaitsAt(p, top, st2, j, i)
      BY <2>5, <2>9 DEF Waits
    <3>2. PICK i \in DOMAIN st2[j] : WaitsAt(p, top, st2, j, i)
      BY <3>1
    <3>3. /\ i > 1 \/ j = k
          /\ Len(p) = Len(top) + j
          /\ \A m \in 1 .. Len(top) + j - 1 : p[m] = f[m]
          /\ p[Len(top) + j] = st2[j][i]
      BY <2>5, <3>2 DEF WaitsAt, f
    <3>4. \E i2 \in DOMAIN st[j] : i2 > 1 /\ st[j][i2] = st2[j][i]
      <4>1. CASE j = k
        <5>1. i \in 1 .. Len(st[k]) - 1
          <6> DEFINE t == Tail(st[k])
          <6>1. t \in Seq(Nat) /\ i \in DOMAIN t /\ Len(t) = Len(st[k]) - 1
            BY <2>4, <2>5, <4>1 DEF Pathname
          <6> HIDE DEF t
          <6> QED BY <6>1
        <5>2. i + 1 \in DOMAIN st[k] /\ i + 1 > 1 /\ st[k][i + 1] = st2[k][i]
          BY <1>1, <2>2, <2>4, <2>5, <5>1
        <5> QED BY <4>1, <5>2
      <4>2. CASE j \in 1 .. k - 1
        BY <1>1, <2>2, <2>5, <3>3, <4>2
      <4> QED BY <1>1, <2>2, <4>1, <4>2
    <3>5. PICK i2 \in DOMAIN st[j] : i2 > 1 /\ st[j][i2] = st2[j][i]
      BY <3>4
    <3>6. \A m \in 1 .. Len(top) + j - 1 : m \in 1 .. Len(top) + k - 1
      BY <1>1, <1>3, <2>2
    <3>7. \A m \in 1 .. Len(top) + j - 1 : p[m] = e[m]
      BY <2>8, <3>3, <3>6
    <3>8. WaitsAt(p, top, st, j, i2) /\ j \in DOMAIN st
      <4>1. j \in DOMAIN st
        BY <1>1, <2>2
      <4> QED BY <3>3, <3>5, <3>7, <4>1 DEF WaitsAt
    <3>9. Waits(p, top, st)
      BY <3>8 DEF Waits
    <3>10. p[Len(p)] > e[Len(p)]
      BY <3>5, <3>8, WaitingFacts
    <3>11. Len(p) \in 1 .. Len(p)
      BY <1>1, <1>3, <2>2, <3>3
    <3>12. p[Len(p)] \in Nat
      BY <3>11 DEF Pathname
    <3>13. p # e
      <4> HIDE DEF e
      <4> QED BY <3>10, <3>12
    <3> QED BY <3>9, <3>13
  <2>10. ASSUME NEW p \in Pathname, Waits(p, top, st), p # e PROVE Waits(p, top, st2)
    <3>1. PICK j \in open : \E i \in 2 .. Len(st[j]) :
                /\ Len(p) = Len(top) + j
                /\ \A m \in 1 .. Len(top) + j - 1 : p[m] = e[m]
                /\ p[Len(top) + j] = st[j][i]
      BY <1>5, <2>10
    <3>2. PICK i \in 2 .. Len(st[j]) :
                /\ Len(p) = Len(top) + j
                /\ \A m \in 1 .. Len(top) + j - 1 : p[m] = e[m]
                /\ p[Len(top) + j] = st[j][i]
      BY <3>1
    <3>3. j \in 1 .. n /\ j <= k
      <4>1. j \in 1 .. n /\ Len(st[j]) > 1
        BY <1>1
      <4> QED BY <2>2, <4>1
    <3>4. \A m \in 1 .. Len(top) + j - 1 : m \in 1 .. Len(top) + k - 1
      BY <1>1, <1>3, <2>2, <3>3
    <3>5. \A m \in 1 .. Len(top) + j - 1 : p[m] = f[m]
      <4> HIDE DEF e
      <4> QED BY <2>8, <3>2, <3>4
    <3>6. j \in DOMAIN st2
      BY <1>1, <2>2, <2>5, <3>3
    <3>7. CASE j = k
      <4>1. i - 1 \in 1 .. Len(st[k]) - 1 /\ Tail(st[k])[i - 1] = st[k][i]
        <5>1. i - 1 \in 1 .. Len(st[k]) - 1
          BY <1>1, <2>2, <3>7
        <5> QED BY <2>4, <5>1
      <4>2. i - 1 \in DOMAIN st2[j]
        <5> DEFINE t == Tail(st[k])
        <5>1. t \in Seq(Nat) /\ Len(t) = Len(st[k]) - 1
          BY <2>4 DEF Pathname
        <5>2. DOMAIN t = 1 .. Len(st[k]) - 1
          <6> HIDE DEF t
          <6> QED BY <5>1
        <5> QED BY <2>5, <3>7, <4>1, <5>2
      <4>3. WaitsAt(p, top, st2, j, i - 1)
        BY <2>5, <3>2, <3>5, <3>7, <4>1 DEF WaitsAt, f
      <4> QED BY <3>6, <4>2, <4>3 DEF Waits
    <3>8. CASE j \in 1 .. k - 1
      <4>1. st2[j] = st[j] /\ i \in DOMAIN st2[j] /\ i > 1
        <5>1. st2[j] = st[j]
          BY <2>5, <3>8
        <5>2. DOMAIN st[j] = 1 .. Len(st[j]) /\ Len(st[j]) \in Nat
          BY <1>1, <3>3
        <5> QED BY <5>1, <5>2
      <4>2. WaitsAt(p, top, st2, j, i)
        BY <3>2, <3>5, <4>1 DEF WaitsAt, f
      <4> QED BY <3>6, <4>1, <4>2 DEF Waits
    <3> QED BY <1>1, <2>2, <3>3, <3>7, <3>8
  <2> QED BY <2>3, <2>6, <2>9, <2>10
<1> QED BY <1>6, <1>7

----------------------------------------------------------------------------
(* Types, and what the walk does in a step. *)

Typed ==
    /\ dirs \subseteq Universe /\ files \subseteq Universe /\ changes \in Nat
    /\ path \in Pathname /\ path # <<>> /\ recursion \in BOOLEAN
    /\ status \in {"init", "has_next", "finished", "crashed"}
    /\ SoundStack(stack)
    /\ current_path \in Pathname
    /\ call \in {"none", "open", "true", "false"}
    /\ engine \in BOOLEAN /\ looking \in BOOLEAN /\ done \in BOOLEAN
    /\ current_dir \in Pathname /\ next_dir \in Pathname /\ next_file \in Pathname
    /\ given \in Seq(Pathname) /\ matched \subseteq 1 .. Len(given)

LEMMA EntryIs == Entry = EntryOf(path, stack)
BY DEF Entry, EntryOf

LEMMA AdvanceIs == Advance = AdvanceOf(stack)
BY DEF Advance, AdvanceOf

(* A path that is one name longer than d and in d. *)
In(d, p) == Len(p) = Len(d) + 1 /\ \A k \in 1 .. Len(d) : p[k] = d[k]

LEMMA FrontIs ==
    ASSUME NEW d \in Pathname, NEW p \in Pathname, Len(p) = Len(d) + 1
    PROVE  /\ Front(p) = d <=> In(d, p)
           /\ Last(p) = p[Len(p)] /\ Last(p) \in Nat
<1>1. Len(d) \in Nat /\ Len(p) \in Nat /\ Len(d) \in 0 .. Len(p) /\ Len(p) - 1 = Len(d)
  BY DEF Pathname
<1>2. Front(p) = SubSeq(p, 1, Len(d))
  BY <1>1 DEF Front
<1>3. /\ SubSeq(p, 1, Len(d)) \in Pathname /\ Len(SubSeq(p, 1, Len(d))) = Len(d)
      /\ \A k \in 1 .. Len(d) : SubSeq(p, 1, Len(d))[k] = p[k]
  BY <1>1, FirstNames
<1>4. In(d, p) => Front(p) = d
  BY <1>2, <1>3, SameNames DEF In
<1>5. Front(p) = d => In(d, p)
  <2> SUFFICES ASSUME Front(p) = d PROVE \A k \in 1 .. Len(d) : p[k] = d[k]
    BY DEF In
  <2>1. SubSeq(p, 1, Len(d)) = d
    BY <1>2
  <2> QED BY <1>3, <2>1
<1>6. Last(p) = p[Len(p)] /\ Last(p) \in Nat
  BY <1>1 DEF Last, Pathname
<1> QED BY <1>4, <1>5, <1>6

(* scandir: the names of what is in the directory, in order. *)
LEMMA ScanIs ==
    ASSUME Typed, NEW d \in Pathname
    PROVE  /\ Scan(d) \in Seq(Nat) /\ Increasing(Scan(d))
           /\ \A i \in DOMAIN Scan(d) :
                d \in dirs /\ \E p \in Tree : p \in Pathname /\ In(d, p) /\ p[Len(p)] = Scan(d)[i]
           /\ \A p \in Tree :
                d \in dirs /\ p \in Pathname /\ In(d, p) =>
                    \E i \in DOMAIN Scan(d) : p[Len(p)] = Scan(d)[i]
<1>1. CASE d \notin dirs
  <2>1. Scan(d) = <<>>
    BY <1>1 DEF Scan
  <2>2. <<>> \in Seq(Nat) /\ DOMAIN <<>> = {}
    OBVIOUS
  <2> QED BY <1>1, <2>1, <2>2 DEF Increasing
<1>2. CASE d \in dirs
  <2> DEFINE C == Children(d, Tree)
             S == {Last(p) : p \in C}
             f == [p \in C |-> Last(p)]
  <2>1. Scan(d) = Listing(S)
    BY <1>2 DEF Scan
  <2>2. Tree \subseteq Universe /\ Tree \subseteq Pathname
    BY WalkAssumption DEF Typed, Tree, Pathname
  <2>3. \A p \in C : p \in Tree /\ p \in Pathname /\ In(d, p) /\ Last(p) = p[Len(p)] /\ Last(p) \in Nat
    BY <2>2, FrontIs DEF Children
  <2>4. \A p \in Tree : p \in Pathname /\ In(d, p) => p \in C
    BY FrontIs DEF Children, In
  <2>5. IsFiniteSet(S) /\ S \subseteq Nat
    <3>1. C \in SUBSET Universe /\ IsFiniteSet(Universe)
      BY <2>2, WalkAssumption DEF Children
    <3>2. IsFiniteSet(C)
      <4> HIDE DEF C
      <4> QED BY <3>1, FS_Subset
    <3>3. f \in Surjection(C, S)
      <4>1. f \in [C -> S] /\ \A s \in S : \E p \in C : f[p] = s
        <5> HIDE DEF C
        <5> QED OBVIOUS
      <4> HIDE DEF C, S, f
      <4> QED BY <4>1 DEF Surjection
    <3>4. IsFiniteSet(S)
      <4> HIDE DEF C, S, f
      <4> QED BY <3>2, <3>3, FS_Surjection
    <3>5. S \subseteq Nat
      <4> HIDE DEF C
      <4> QED BY <2>3
    <3> QED BY <3>4, <3>5
  <2>6. /\ Listing(S) \in Seq(Nat) /\ Increasing(Listing(S))
        /\ \A n : n \in S <=> \E i \in DOMAIN Listing(S) : Listing(S)[i] = n
    <3> HIDE DEF S
    <3> QED BY <2>5, Listed
  <2>7. \A n : n \in S <=> \E p \in C : n = Last(p)
    <3> HIDE DEF C
    <3> QED OBVIOUS
  <2> HIDE DEF S, C
  <2>8. Scan(d) \in Seq(Nat) /\ Increasing(Scan(d))
    BY <2>1, <2>6
  <2>9. ASSUME NEW i \in DOMAIN Scan(d)
        PROVE  \E p \in Tree : p \in Pathname /\ In(d, p) /\ p[Len(p)] = Scan(d)[i]
    <3>1. Scan(d)[i] \in S
      BY <2>1, <2>6
    <3>2. PICK p \in C : Scan(d)[i] = Last(p)
      BY <2>7, <3>1
    <3> QED BY <2>3, <3>2
  <2>10. ASSUME NEW p \in Tree, p \in Pathname, In(d, p)
         PROVE  \E i \in DOMAIN Scan(d) : p[Len(p)] = Scan(d)[i]
    <3>1. p \in C /\ Last(p) = p[Len(p)]
      BY <2>3, <2>4, <2>10
    <3>2. Last(p) \in S
      BY <2>7, <3>1
    <3>3. \E i \in DOMAIN Listing(S) : Listing(S)[i] = Last(p)
      BY <2>6, <3>2
    <3> QED BY <2>1, <3>1, <3>3
  <2> QED BY <1>2, <2>8, <2>9, <2>10
<1> QED BY <1>1, <1>2

(* The ends a walk comes to. *)
WalkEnds ==
    /\ stack' = stack
    /\ \/ status' = "finished" /\ call' = "false" /\ current_path' = current_path
       \/ status = "init" /\ path \notin Tree /\ rooted
          /\ status' = "crashed" /\ call' = call /\ current_path' = current_path
    /\ \/ status = "finished"
       \/ status = "init" /\ (path \notin Tree \/ TRUE \in Matches(path))
       \/ status = "has_next" /\ stack = <<>> /\ (~recursion \/ Scan(path) = <<>>)
       \/ status = "has_next" /\ stack # <<>> /\ Entry \notin Tree

WalkStarts ==
    /\ status = "init" /\ path \in Tree /\ FALSE \in Matches(path)
    /\ stack' = stack /\ current_path' = path /\ call' = "true"
    /\ status' = IF path \in dirs THEN "has_next" ELSE "finished"

WalkOpens ==
    /\ status = "has_next" /\ stack = <<>> /\ recursion /\ Scan(path) # <<>>
    /\ stack' = <<Scan(path)>> /\ status' = status /\ call' = call /\ current_path' = current_path

(* The first directory that is read. *)
LEMMA FirstPushed ==
    ASSUME NEW top \in Pathname, NEW names \in Seq(Nat), names # <<>>, Increasing(names)
    PROVE  \A p \in Pathname :
              Waits(p, top, <<names>>) <=>
                  In(top, p) /\ \E i \in DOMAIN names : p[Len(p)] = names[i]
<1>1. PICK st : st = <<>>
  OBVIOUS
<1>2. SoundStack(st) /\ \A p : ~Waits(p, top, st)
  BY <1>1 DEF SoundStack, Waits
<1>3. EntryOf(top, st) = top
  <2>1. /\ EntryOf(top, st) \in Pathname
        /\ Len(EntryOf(top, st)) = Len(top) + Len(st)
        /\ \A k \in 1 .. Len(top) : EntryOf(top, st)[k] = top[k]
    BY <1>2, EntryFacts
  <2>2. Len(st) = 0 /\ Len(top) \in Nat
    BY <1>1 DEF Pathname
  <2> QED BY <2>1, <2>2, SameNames
<1>4. Append(st, names) = <<names>>
  BY <1>1
<1>5. \A p \in Pathname :
         Waits(p, top, Append(st, names)) =>
             \/ Waits(p, top, st) /\ p # EntryOf(top, st)
             \/ /\ Len(p) = Len(EntryOf(top, st)) + 1
                /\ \A k \in 1 .. Len(EntryOf(top, st)) : p[k] = EntryOf(top, st)[k]
                /\ \E i \in DOMAIN names : p[Len(p)] = names[i]
  BY <1>2, Pushed
<1>6. \A p \in Pathname :
         /\ Len(p) = Len(EntryOf(top, st)) + 1
         /\ \A k \in 1 .. Len(EntryOf(top, st)) : p[k] = EntryOf(top, st)[k]
         /\ \E i \in DOMAIN names : p[Len(p)] = names[i]
         => Waits(p, top, Append(st, names))
  BY <1>2, Pushed
<1> QED BY <1>2, <1>3, <1>4, <1>5, <1>6 DEF In

(* What it does with an entry that is there: it goes down into a directory,  *)
(* gives out what has nothing in it, or passes what is excluded.            *)
WalkDescends ==
    /\ status = "has_next" /\ stack # <<>> /\ Entry \in Tree /\ FALSE \in Matches(Entry) /\ Scan(Entry) # <<>>
    /\ stack' = Append(stack, Scan(Entry)) /\ current_path' = Entry /\ call' = "true"
    /\ status' = status

WalkGives ==
    /\ status = "has_next" /\ stack # <<>> /\ Entry \in Tree /\ FALSE \in Matches(Entry) /\ Scan(Entry) = <<>>
    /\ stack' = Advance /\ current_path' = Entry /\ call' = "true"
    /\ status' = IF Advance = <<>> THEN "finished" ELSE status

WalkPasses ==
    /\ status = "has_next" /\ stack # <<>> /\ Entry \in Tree /\ TRUE \in Matches(Entry)
    /\ stack' = Advance /\ current_path' = Null
    /\ call' = IF Advance = <<>> THEN "false" ELSE call
    /\ status' = IF Advance = <<>> THEN "finished" ELSE status

(* The test of the excludes has a result. *)
LEMMA MatchesBoolean == \A p : Matches(p) \subseteq BOOLEAN
<1> TAKE p
<1>1. TagMatch(p) \subseteq BOOLEAN
  BY DEF TagMatch
<1> QED BY <1>1 DEF Matches

LEMMA WalkMoves ==
    ASSUME WalkStep
    PROVE  /\ call = "open" /\ UNCHANGED <<diskVars, settingVars>>
           /\ WalkEnds \/ WalkStarts \/ WalkOpens \/ WalkDescends \/ WalkGives \/ WalkPasses
<1>1. CASE WalkFinished
  BY <1>1 DEF WalkFinished, Finish, WalkEnds
<1>2. CASE WalkInit
  BY <1>2 DEF WalkInit, Finish, WalkEnds, WalkStarts
<1>3. CASE WalkOpen
  BY <1>3 DEF WalkOpen, Finish, WalkEnds, WalkOpens
<1>4. CASE WalkEntry
  <2>1. CASE Entry \notin Tree
    BY <1>4, <2>1 DEF WalkEntry, Finish, WalkEnds
  <2>2. CASE Entry \in Tree
    <3>1. PICK excluded \in Matches(Entry) :
             IF ~excluded /\ Scan(Entry) # <<>>
             THEN /\ stack' = Append(stack, Scan(Entry))
                  /\ current_path' = Entry
                  /\ call' = "true"
                  /\ UNCHANGED status
             ELSE /\ stack' = Advance
                  /\ status' = IF Advance = <<>> THEN "finished" ELSE status
                  /\ current_path' = IF excluded THEN Null ELSE Entry
                  /\ call' = IF ~excluded THEN "true" ELSE IF Advance = <<>> THEN "false" ELSE call
      BY <1>4, <2>2 DEF WalkEntry
    <3>2. excluded = TRUE \/ excluded = FALSE
      BY <3>1, MatchesBoolean
    <3>3. CASE excluded = FALSE /\ Scan(Entry) # <<>>
      BY <1>4, <2>2, <3>1, <3>3 DEF WalkEntry, WalkDescends
    <3>4. CASE excluded = FALSE /\ Scan(Entry) = <<>>
      BY <1>4, <2>2, <3>1, <3>4 DEF WalkEntry, WalkGives
    <3>5. CASE excluded = TRUE
      BY <1>4, <2>2, <3>1, <3>5 DEF WalkEntry, WalkPasses
    <3> QED BY <3>2, <3>3, <3>4, <3>5
  <2> QED BY <2>1, <2>2
<1> QED BY <1>1, <1>2, <1>3, <1>4 DEF WalkStep

(* has_next of either include is called. *)
HasNext ==
    /\ Idle /\ Call
    /\ engine => looking \/ (next_dir = Null /\ next_file = Null)
    /\ looking' = IF engine THEN TRUE ELSE looking
    /\ UNCHANGED <<pattern, engine, current_dir, next_dir, next_file, given, matched, done>>

LEMMA Steps ==
    ASSUME Typed, [Next]_vars
    PROVE  \/ HasNext
           \/ WalkStep /\ UNCHANGED includeVars
           \/ WalkNext \/ EngineFilter \/ EngineEnd \/ EngineNext
           \/ Change /\ UNCHANGED <<walkVars, includeVars>>
           \/ UNCHANGED vars
<1>1. CASE WalkHasNext
  BY <1>1 DEF WalkHasNext, HasNext, Typed, includeVars
<1>2. CASE EngineHasNext
  BY <1>2 DEF EngineHasNext, HasNext, Typed
<1> QED BY <1>1, <1>2 DEF Next, Include, FnmatchHasNext, FnmatchNext, PcreHasNext, PcreNext, Ended

LEMMA InitTyped == Init => Typed
<1> SUFFICES ASSUME Init PROVE Typed
  OBVIOUS
<1>1. <<>> \in Pathname /\ <<>> \in Seq(Pathname) /\ SoundStack(<<>>)
  BY DEF Pathname, SoundStack
<1>2. /\ pattern.path \in Pathname /\ pattern.path # <<>>
      /\ pattern.top \in Pathname /\ pattern.top # <<>> /\ pattern.recursion \in BOOLEAN
  <2>1. pattern \in Names
    BY DEF Init
  <2>2. {pattern.path, pattern.top} \subseteq Seq(Nat) \ {<<>>} /\ pattern.recursion \in BOOLEAN
    BY <2>1, NamesAssumption
  <2> QED BY <2>2 DEF Pathname
<1>3. /\ path \in Pathname /\ path # <<>> /\ recursion \in BOOLEAN /\ engine \in BOOLEAN
      /\ status \in {"init", "crashed"} /\ stack = <<>> /\ current_path = Null /\ call = "none"
  BY <1>2 DEF Init, GetInclude, WalkNew
<1>4. dirs \subseteq Universe /\ files \subseteq Universe /\ changes = 0
  BY DEF Init, DiskInit
<1> HIDE DEF Pathname
<1> QED BY <1>1, <1>3, <1>4 DEF Init, Typed, Null

LEMMA StepTyped == Typed /\ [Next]_vars => Typed'
<1> SUFFICES ASSUME Typed, [Next]_vars PROVE Typed'
  OBVIOUS
<1>0. <<>> \in Pathname /\ Len(given) \in Nat /\ SoundStack(<<>>)
  <2>1. <<>> \in Pathname /\ SoundStack(<<>>)
    BY DEF Pathname, SoundStack
  <2>2. Len(given) \in Nat
    BY DEF Typed
  <2> QED BY <2>1, <2>2
<1>1. CASE HasNext
  BY <1>0, <1>1 DEF HasNext, Call, Typed, diskVars, settingVars, Null
<1>2. CASE WalkStep /\ UNCHANGED includeVars
  <2>1. /\ call = "open" /\ UNCHANGED <<diskVars, settingVars, includeVars>>
        /\ WalkEnds \/ WalkStarts \/ WalkOpens \/ WalkDescends \/ WalkGives \/ WalkPasses
    BY <1>2, WalkMoves
  <2>2. Entry \in Pathname
    BY EntryIs, EntryFacts DEF Typed
  <2>3. SoundStack(stack') /\ current_path' \in Pathname
        /\ status' \in {"init", "has_next", "finished", "crashed"}
        /\ call' \in {"none", "open", "true", "false"}
    <3>1. CASE WalkEnds
      BY <3>1 DEF WalkEnds, Typed
    <3>2. CASE WalkStarts
      BY <3>2 DEF WalkStarts, Typed
    <3>3. CASE WalkOpens
      <4>1. SoundStack(Append(<<>>, Scan(path)))
        BY <1>0, <3>3, ScanIs, Pushed DEF WalkOpens, Typed
      <4>2. Append(<<>>, Scan(path)) = <<Scan(path)>>
        OBVIOUS
      <4> QED BY <3>3, <4>1, <4>2 DEF WalkOpens, Typed
    <3>4. CASE WalkDescends
      <4>1. SoundStack(Append(stack, Scan(Entry)))
        BY <2>2, <3>4, ScanIs, Pushed DEF WalkDescends, Typed
      <4> QED BY <2>2, <3>4, <4>1 DEF WalkDescends, Typed
    <3>5. CASE WalkGives
      BY <2>2, <3>5, AdvanceIs, Popped DEF WalkGives, Typed
    <3>6. CASE WalkPasses
      BY <1>0, <3>6, AdvanceIs, Popped DEF WalkPasses, Typed, Null
    <3> QED BY <2>1, <3>1, <3>2, <3>3, <3>4, <3>5, <3>6
  <2> QED BY <2>1, <2>3 DEF Typed, diskVars, settingVars, includeVars
<1>3. CASE WalkNext
  <2>1. Append(given, current_path) \in Seq(Pathname) /\ Len(Append(given, current_path)) = Len(given) + 1
    BY AppendProperties DEF Typed
  <2>2. given' \in Seq(Pathname) /\ Len(given') \in {Len(given), Len(given) + 1}
    BY <1>3, <2>1 DEF WalkNext, Typed
  <2>3. matched' \subseteq 1 .. Len(given')
    BY <1>0, <1>3, <2>2 DEF WalkNext, Typed
  <2>4. done' \in BOOLEAN /\ call' = "none"
    BY <1>3 DEF WalkNext, Typed
  <2> QED BY <1>3, <2>2, <2>3, <2>4 DEF WalkNext, Typed, diskVars, settingVars
<1>4. CASE EngineFilter
  <2>1. PICK isDir \in IsDirectory(current_path) :
          /\ next_dir' = DirectoryOf(current_path, isDir)
          /\ IF ~isDir /\ current_path \in pattern.glob
             THEN next_file' = current_path /\ looking' = FALSE
             ELSE UNCHANGED <<next_file, looking>>
    BY <1>4 DEF EngineFilter
  <2>2. Front(current_path) \in Pathname
    <3>1. CASE Len(current_path) = 0
      <4>1. current_path = <<>>
        BY <3>1 DEF Typed, Pathname
      <4>2. Front(current_path) = <<>>
        BY <4>1 DEF Front
      <4> QED BY <1>0, <4>2
    <3>2. CASE Len(current_path) # 0
      <4>1. Len(current_path) - 1 \in 0 .. Len(current_path)
        BY <3>2 DEF Typed, Pathname
      <4> QED BY <4>1, FirstNames DEF Front, Typed
    <3> QED BY <3>1, <3>2
  <2>3. next_dir' \in Pathname /\ next_file' \in Pathname /\ looking' \in BOOLEAN
    BY <2>1, <2>2 DEF DirectoryOf, Typed
  <2> QED BY <1>4, <2>3 DEF EngineFilter, Typed, diskVars, settingVars
<1>5. CASE EngineEnd
  BY <1>0, <1>5 DEF EngineEnd, Typed, diskVars, settingVars, Null
<1>6. CASE EngineNext
  <2>1. \A p \in Pathname : /\ Append(given, p) \in Seq(Pathname)
                            /\ Len(Append(given, p)) = Len(given) + 1
    BY AppendProperties DEF Typed
  <2>2. ASSUME Len(next_dir) > Len(current_dir) + 1
        PROVE  SubSeq(next_dir, 1, Len(current_dir) + 1) \in Pathname
    <3>1. Len(current_dir) + 1 \in 0 .. Len(next_dir)
      BY <2>2 DEF Typed, Pathname
    <3> QED BY <3>1, FirstNames DEF Typed
  <2>3. /\ given' \in Seq(Pathname) /\ Len(given') = Len(given) + 1
        /\ current_dir' \in Pathname /\ next_dir' \in Pathname /\ next_file' \in Pathname
        /\ matched' \subseteq matched \cup {Len(given) + 1}
    BY <1>0, <1>6, <2>1, <2>2 DEF EngineNext, Typed, Null
  <2>4. matched' \subseteq 1 .. Len(given')
    <3>1. \A i \in 1 .. Len(given) : i \in 1 .. Len(given) + 1
      BY <1>0
    <3>2. Len(given) + 1 \in 1 .. Len(given) + 1
      BY <1>0
    <3> QED BY <2>3, <3>1, <3>2 DEF Typed
  <2> QED BY <1>6, <2>3, <2>4 DEF EngineNext, Typed, diskVars, walkVars
<1>7. CASE Change /\ UNCHANGED <<walkVars, includeVars>>
  <2>1. dirs' \subseteq Universe /\ files' \subseteq Universe /\ changes' \in Nat
    BY <1>7 DEF Change, Typed
  <2> QED BY <1>7, <2>1 DEF Typed, walkVars, includeVars
<1>8. CASE UNCHANGED vars
  BY <1>8 DEF vars, Typed, diskVars, walkVars, includeVars
<1> QED BY <1>1, <1>2, <1>3, <1>4, <1>5, <1>6, <1>7, <1>8, Steps

(* The parts of an include in step: an engine that looks for a file has none *)
(* in hand and gives out nothing, and nothing is in hand before the walk     *)
(* starts or after the end.                                                 *)
Calm ==
    /\ engine /\ call # "none" => looking
    /\ looking => engine /\ next_file = Null /\ current_dir = Null
    /\ current_dir # Null => next_dir # Null
    /\ ~engine => next_file = Null /\ next_dir = Null
    /\ status \in {"init", "crashed"} =>
          /\ stack = <<>> /\ given = <<>> /\ matched = {} /\ call # "true"
          /\ next_file = Null /\ next_dir = Null
    /\ call = "true" => current_path # Null
    /\ call = "false" => status = "finished"
    /\ done => call = "none" /\ status = "finished" /\ next_dir = Null /\ next_file = Null

LEMMA InitCalm == Init => Calm
<1> SUFFICES ASSUME Init PROVE Calm
  OBVIOUS
<1>1. status \in {"init", "crashed"} /\ stack = <<>> /\ call = "none"
  BY DEF Init, GetInclude, WalkNew
<1> QED BY <1>1 DEF Init, Calm

LEMMA EntryNotNull == Typed => Entry \in Pathname /\ Entry # Null
<1> SUFFICES ASSUME Typed PROVE Entry \in Pathname /\ Entry # Null
  OBVIOUS
<1>1. /\ Entry \in Pathname /\ Len(Entry) = Len(path) + Len(stack)
  BY EntryIs, EntryFacts DEF Typed
<1>2. Len(stack) \in Nat
  BY StackFacts DEF Typed
<1>3. Len(path) \in Nat /\ Len(path) # 0
  BY DEF Typed, Pathname
<1>4. Len(Entry) # 0
  BY <1>1, <1>2, <1>3
<1> QED BY <1>1, <1>4 DEF Null

LEMMA StepCalm == Typed /\ Calm /\ [Next]_vars => Calm'
<1> SUFFICES ASSUME Typed, Calm, [Next]_vars PROVE Calm'
  OBVIOUS
<1>1. CASE HasNext
  BY <1>1 DEF HasNext, Idle, Call, Typed, Calm, settingVars
<1>2. CASE WalkStep /\ UNCHANGED includeVars
  <2>1. /\ call = "open" /\ UNCHANGED <<diskVars, settingVars, includeVars>>
        /\ WalkEnds \/ WalkStarts \/ WalkOpens \/ WalkDescends \/ WalkGives \/ WalkPasses
    BY <1>2, WalkMoves
  <2>2. Entry # Null /\ path # Null
    BY EntryNotNull DEF Typed, Null
  <2>3. CASE WalkEnds
    BY <2>1, <2>3 DEF WalkEnds, Typed, Calm, settingVars, includeVars
  <2>4. CASE WalkStarts
    BY <2>1, <2>2, <2>4 DEF WalkStarts, Typed, Calm, settingVars, includeVars
  <2>5. CASE WalkOpens
    BY <2>1, <2>2, <2>5 DEF WalkOpens, Typed, Calm, settingVars, includeVars
  <2>6. CASE WalkDescends
    BY <2>1, <2>2, <2>6 DEF WalkDescends, Typed, Calm, settingVars, includeVars
  <2>7. CASE WalkGives
    BY <2>1, <2>2, <2>7 DEF WalkGives, Typed, Calm, settingVars, includeVars
  <2>8. CASE WalkPasses
    BY <2>1, <2>2, <2>8 DEF WalkPasses, Typed, Calm, settingVars, includeVars
  <2> QED BY <2>1, <2>3, <2>4, <2>5, <2>6, <2>7, <2>8
<1>3. CASE WalkNext
  BY <1>3 DEF WalkNext, Typed, Calm, settingVars
<1>4. CASE EngineFilter
  <2>1. PICK isDir \in IsDirectory(current_path) :
          /\ next_dir' = DirectoryOf(current_path, isDir)
          /\ IF ~isDir /\ current_path \in pattern.glob
             THEN next_file' = current_path /\ looking' = FALSE
             ELSE UNCHANGED <<next_file, looking>>
    BY <1>4 DEF EngineFilter
  <2> HIDE DEF Null
  <2> QED BY <1>4, <2>1 DEF EngineFilter, Typed, Calm, settingVars
<1>5. CASE EngineEnd
  BY <1>5 DEF EngineEnd, Typed, Calm, settingVars
<1>6. CASE EngineNext
  <2>1. ~(status \in {"init", "crashed"}) /\ ~done /\ ~looking /\ call = "none" /\ engine
    BY <1>6 DEF EngineNext, Idle, Calm
  <2>2. CASE next_dir # Null /\ Len(next_dir) > Len(current_dir) + 1
    BY <1>6, <2>1, <2>2 DEF EngineNext, Typed, Calm, walkVars
  <2>3. CASE next_dir # Null /\ ~(Len(next_dir) > Len(current_dir) + 1)
    BY <1>6, <2>1, <2>3 DEF EngineNext, Typed, Calm, walkVars
  <2>4. CASE next_dir = Null
    BY <1>6, <2>1, <2>4 DEF EngineNext, Typed, Calm, walkVars
  <2> QED BY <2>2, <2>3, <2>4
<1>7. CASE Change /\ UNCHANGED <<walkVars, includeVars>>
  BY <1>7 DEF Calm, walkVars, includeVars, settingVars
<1>8. CASE UNCHANGED vars
  BY <1>8 DEF vars, Calm, walkVars, includeVars
<1> QED BY <1>1, <1>2, <1>3, <1>4, <1>5, <1>6, <1>7, <1>8, Steps

----------------------------------------------------------------------------
(* The order. *)

(* The places of what is in order, and what is found and not yet given out. *)
Ranked == IF engine THEN matched ELSE 1 .. Len(given)

InHand(q) == (call = "true" /\ q = current_path) \/ (engine /\ next_file # Null /\ q = next_file)

Passed(q) == InHand(q) \/ \E i \in Ranked : given[i] = q

Ordered ==
    /\ \A q, p \in Pathname : Passed(q) /\ Waits(p, path, stack) => Earlier(q, p)
    /\ \A i, j \in Ranked : i < j => Earlier(given[i], given[j])
    /\ \A q \in Pathname : InHand(q) => \A i \in Ranked : Earlier(given[i], q)
    /\ status = "has_next" /\ stack = <<>> => \A q \in Pathname : Passed(q) => q = path

NothingWaits == \A p, top : ~Waits(p, top, <<>>)

LEMMA EmptyStack == NothingWaits
BY DEF NothingWaits, Waits

LEMMA InitOrdered == Init => Ordered
<1> SUFFICES ASSUME Init PROVE Ordered
  OBVIOUS
<1>1. status \in {"init", "crashed"} /\ stack = <<>> /\ call = "none"
  BY DEF Init, GetInclude, WalkNew
<1>2. given = <<>> /\ matched = {} /\ next_file = Null /\ Len(<<>>) = 0
  BY DEF Init
<1>3. Ranked = {} /\ \A q : ~InHand(q)
  BY <1>1, <1>2 DEF Ranked, InHand
<1> QED BY <1>1, <1>3, EmptyStack DEF Ordered, Passed, NothingWaits

(* Nothing new comes into the hand. *)
LEMMA NoNewInHand ==
    ASSUME Ordered, path' = path, stack' = stack,
           status' = "has_next" => status = "has_next",
           Ranked' = Ranked, \A i \in Ranked : given'[i] = given[i],
           \A q \in Pathname : InHand(q)' => InHand(q)
    PROVE  Ordered'
<1>1. ASSUME NEW q \in Pathname, Passed(q)' PROVE Passed(q)
  <2>1. Passed(q)' <=> InHand(q)' \/ \E i \in Ranked' : given'[i] = q
    BY DEF Passed
  <2> QED BY <1>1, <2>1 DEF Passed
<1>2. \A q, p \in Pathname : Passed(q)' /\ Waits(p, path', stack') => Earlier(q, p)
  BY <1>1 DEF Ordered
<1>3. \A i, j \in Ranked' : i < j => Earlier(given'[i], given'[j])
  BY DEF Ordered
<1>4. \A q \in Pathname : InHand(q)' => \A i \in Ranked' : Earlier(given'[i], q)
  BY DEF Ordered
<1>5. status' = "has_next" /\ stack' = <<>> => \A q \in Pathname : Passed(q)' => q = path'
  BY <1>1 DEF Ordered
<1> QED BY <1>2, <1>3, <1>4, <1>5, Zenon DEF Ordered

(* What is in the hand is given out. *)
LEMMA HandGiven ==
    ASSUME Typed, Ordered, path' = path, stack' = stack, status' = status,
           NEW r \in Pathname, InHand(r), given' = Append(given, r),
           Ranked' = Ranked \cup {Len(given) + 1},
           \A q : ~InHand(q)'
    PROVE  Ordered'
<1> DEFINE n == Len(given)
<1>1. /\ n \in Nat /\ Ranked \subseteq 1 .. n
      /\ \A i \in 1 .. n : given'[i] = given[i]
      /\ given'[n + 1] = r
  <2>1. n \in Nat /\ Ranked \subseteq 1 .. n
    <3>1. given \in Seq(Pathname) /\ matched \subseteq 1 .. Len(given)
      BY DEF Typed
    <3>2. n \in Nat
      BY <3>1
    <3> QED BY <3>1, <3>2 DEF Ranked
  <2>2. given \in Seq(Pathname)
    BY DEF Typed
  <2> QED BY <2>1, <2>2, AppendProperties
<1> HIDE DEF n
<1>2. ASSUME NEW q \in Pathname, Passed(q)' PROVE Passed(q)
  <2>1. Passed(q)' <=> InHand(q)' \/ \E i \in Ranked' : given'[i] = q
    BY DEF Passed
  <2>2. PICK i \in Ranked' : given'[i] = q
    BY <1>2, <2>1
  <2>3. CASE i = n + 1
    BY <1>1, <2>2, <2>3 DEF Passed
  <2>4. CASE i \in Ranked
    BY <1>1, <2>2, <2>4 DEF Passed
  <2> QED BY <2>2, <2>3, <2>4 DEF n
<1>3. \A q, p \in Pathname : Passed(q)' /\ Waits(p, path', stack') => Earlier(q, p)
  BY <1>2 DEF Ordered
<1>4. ASSUME NEW i \in Ranked', NEW j \in Ranked', i < j PROVE Earlier(given'[i], given'[j])
  <2>1. i \in Ranked
    <3>1. i \in 1 .. n + 1 /\ j \in 1 .. n + 1 /\ i # n + 1
      BY <1>1, <1>4 DEF n
    <3> QED BY <3>1 DEF n
  <2>2. CASE j = n + 1
    BY <1>1, <2>1, <2>2 DEF Ordered
  <2>3. CASE j \in Ranked
    BY <1>1, <1>4, <2>1, <2>3 DEF Ordered
  <2> QED BY <2>2, <2>3 DEF n
<1>5. status' = "has_next" /\ stack' = <<>> => \A q \in Pathname : Passed(q)' => q = path'
  BY <1>2 DEF Ordered
<1> QED BY <1>3, <1>4, <1>5, Zenon DEF Ordered

(* The walk goes on: the entry is found, or nothing is.                     *)
LEMMA WalkOn ==
    ASSUME Ordered, path' = path, NEW found \in SUBSET Pathname,
           \A q \in found : \A i \in Ranked : Earlier(given[i], q),
           Ranked' = Ranked, given' = given,
           \A q \in Pathname : InHand(q)' <=> q \in found,
           \A q, p \in Pathname :
              (q \in found \/ \E i \in Ranked : given[i] = q) /\ Waits(p, path, stack') => Earlier(q, p),
           status' = "has_next" /\ stack' = <<>> =>
              \A q \in Pathname : q \in found \/ (\E i \in Ranked : given[i] = q) => q = path
    PROVE  Ordered'
<1>1. ASSUME NEW q \in Pathname, Passed(q)'
      PROVE  q \in found \/ \E i \in Ranked : given[i] = q
  <2>1. Passed(q)' <=> InHand(q)' \/ \E i \in Ranked' : given'[i] = q
    BY DEF Passed
  <2> QED BY <1>1, <2>1
<1>2. \A q, p \in Pathname : Passed(q)' /\ Waits(p, path', stack') => Earlier(q, p)
  BY <1>1
<1>3. \A i, j \in Ranked' : i < j => Earlier(given'[i], given'[j])
  BY DEF Ordered
<1>4. \A q \in Pathname : InHand(q)' => \A i \in Ranked' : Earlier(given'[i], q)
  OBVIOUS
<1>5. status' = "has_next" /\ stack' = <<>> => \A q \in Pathname : Passed(q)' => q = path'
  BY <1>1
<1> QED BY <1>2, <1>3, <1>4, <1>5, Zenon DEF Ordered

LEMMA WalkOrdered ==
    ASSUME Typed, Calm, Ordered, WalkStep, UNCHANGED includeVars
    PROVE  Ordered'
<1> DEFINE G(q) == \E i \in Ranked : given[i] = q
<1>1. /\ call = "open" /\ UNCHANGED <<diskVars, settingVars, includeVars>>
      /\ WalkEnds \/ WalkStarts \/ WalkOpens \/ WalkDescends \/ WalkGives \/ WalkPasses
  BY WalkMoves
<1>2. /\ path' = path /\ given' = given /\ matched' = matched /\ engine' = engine
      /\ next_file' = next_file
  BY <1>1 DEF settingVars, includeVars
<1>3. Ranked' = Ranked
  BY <1>2 DEF Ranked
<1>4. /\ \A q : ~InHand(q)
      /\ \A q : InHand(q)' <=> call' = "true" /\ q = current_path'
  <2>1. engine => next_file = Null
    BY <1>1 DEF Calm
  <2> QED BY <1>1, <1>2, <2>1 DEF InHand
<1>5. \A q : Passed(q) <=> G(q)
  BY <1>4 DEF Passed
<1>6. /\ Entry = EntryOf(path, stack) /\ Entry \in Pathname /\ Entry # <<>>
      /\ path \in Pathname /\ path # <<>> /\ SoundStack(stack)
  BY EntryIs, EntryNotNull DEF Typed, Null
<1>7. ASSUME stack # <<>>
      PROVE  /\ Waits(Entry, path, stack)
             /\ \A i \in Ranked : given[i] \in Pathname => Earlier(given[i], Entry)
             /\ \A p \in Pathname : Waits(p, path, stack) /\ p # Entry => Earlier(Entry, p)
  <2>1. Waits(Entry, path, stack)
    BY <1>6, <1>7, EntryWaits
  <2>2. \A p \in Pathname : Waits(p, path, stack) /\ p # Entry => Earlier(Entry, p)
    BY <1>6, WaitingBelow
  <2> QED BY <1>5, <1>6, <2>1, <2>2 DEF Ordered
<1>8. \A i \in Ranked : given[i] \in Pathname
  <2>1. Ranked \subseteq 1 .. Len(given)
    BY DEF Typed, Ranked
  <2> QED BY <2>1 DEF Typed
<1>9. CASE WalkEnds
  <2>1. \A q : InHand(q)' => InHand(q)
    BY <1>1, <1>4, <1>9 DEF WalkEnds
  <2>2. stack' = stack /\ status' # "has_next"
    BY <1>9 DEF WalkEnds
  <2> QED BY <1>2, <1>3, <2>1, <2>2, NoNewInHand
<1>10. CASE WalkStarts
  <2>1. Ranked = {} /\ stack' = <<>>
    <3>1. given = <<>> /\ matched = {} /\ stack' = <<>> /\ Len(<<>>) = 0
      BY <1>10 DEF WalkStarts, Calm
    <3> QED BY <3>1 DEF Ranked
  <2>2. \A q : InHand(q)' <=> q \in {path}
    BY <1>4, <1>10 DEF WalkStarts
  <2>3. \A p : ~Waits(p, path, stack')
    BY <2>1, EmptyStack DEF NothingWaits
  <2> QED BY <1>2, <1>3, <1>6, <2>1, <2>2, <2>3, WalkOn
<1>11. CASE WalkOpens
  <2>1. /\ stack = <<>> /\ stack' = Append(<<>>, Scan(path)) /\ Scan(path) # <<>>
        /\ status' = "has_next" /\ status = "has_next"
    BY <1>11 DEF WalkOpens
  <2>2. \A q : InHand(q)' <=> q \in {}
    BY <1>1, <1>4, <1>11 DEF WalkOpens
  <2>5. ASSUME NEW p \in Pathname, Waits(p, path, stack') PROVE Above(path, p)
    <3>1. Scan(path) \in Seq(Nat) /\ Increasing(Scan(path)) /\ stack' = <<Scan(path)>>
      BY <1>6, <1>11, ScanIs DEF WalkOpens
    <3>2. Len(p) = Len(path) + 1 /\ \A k \in 1 .. Len(path) : p[k] = path[k]
      BY <1>6, <2>1, <2>5, <3>1, FirstPushed DEF In
    <3>3. Len(path) \in Nat
      BY <1>6 DEF Pathname
    <3> QED BY <1>6, <3>2, <3>3 DEF Above
  <2>6. \A q \in Pathname : G(q) => q = path
    BY <1>5, <2>1 DEF Ordered
  <2>7. \A q, p \in Pathname : (q \in {} \/ G(q)) /\ Waits(p, path, stack') => Earlier(q, p)
    BY <2>5, <2>6 DEF Earlier
  <2>8. ~(status' = "has_next" /\ stack' = <<>>)
    BY <2>1
  <2> DEFINE found == {}
  <2>9. /\ found \in SUBSET Pathname /\ \A q \in found : \A i \in Ranked : Earlier(given[i], q)
        /\ \A q \in Pathname : InHand(q)' <=> q \in found
        /\ \A q, p \in Pathname : (q \in found \/ G(q)) /\ Waits(p, path, stack') => Earlier(q, p)
    BY <2>2, <2>7
  <2> HIDE DEF found
  <2> QED BY <1>2, <1>3, <2>8, <2>9, WalkOn
<1>12. CASE WalkDescends
  <2>1. stack # <<>> /\ stack' = Append(stack, Scan(Entry)) /\ Scan(Entry) # <<>>
    BY <1>12 DEF WalkDescends
  <2>2. \A q : InHand(q)' <=> q \in {Entry}
    BY <1>4, <1>12 DEF WalkDescends
  <2>3. Scan(Entry) \in Seq(Nat) /\ Increasing(Scan(Entry))
    BY <1>6, ScanIs
  <2>4. ASSUME NEW p \in Pathname, Waits(p, path, stack')
        PROVE  (Waits(p, path, stack) /\ p # Entry) \/ Above(Entry, p)
    <3>1. \/ Waits(p, path, stack) /\ p # Entry
          \/ Len(p) = Len(Entry) + 1 /\ \A k \in 1 .. Len(Entry) : p[k] = Entry[k]
      BY <1>6, <2>1, <2>3, <2>4, Pushed
    <3>2. Len(Entry) \in Nat
      BY <1>6 DEF Pathname
    <3> QED BY <1>6, <3>1, <3>2 DEF Above
  <2>5. ASSUME NEW q \in Pathname, NEW p \in Pathname, q \in {Entry} \/ G(q), Waits(p, path, stack')
        PROVE  Earlier(q, p)
    <3>1. CASE q = Entry
      BY <1>7, <2>1, <2>4, <2>5, <3>1 DEF Earlier
    <3>2. CASE G(q) /\ Waits(p, path, stack)
      BY <1>5, <3>2 DEF Ordered
    <3>3. CASE G(q) /\ Above(Entry, p)
      <4>1. Earlier(q, Entry)
        BY <1>7, <1>8, <2>1, <3>3
      <4> QED BY <1>6, <3>3, <4>1, EarlierBelow
    <3> QED BY <2>4, <2>5, <3>1, <3>2, <3>3
  <2>6. stack' # <<>>
    <3>1. stack \in Seq(Pathname) /\ Scan(Entry) \in Pathname
      BY <1>6, <2>3 DEF SoundStack, Pathname
    <3> QED BY <2>1, <3>1, AppendProperties
  <2>7. \A q \in {Entry} : \A i \in Ranked : Earlier(given[i], q)
    BY <1>7, <1>8, <2>1
  <2> QED BY <1>2, <1>3, <1>6, <2>2, <2>5, <2>6, <2>7, WalkOn
<1>13. CASE WalkGives \/ WalkPasses
  <2> DEFINE found == IF call' = "true" THEN {Entry} ELSE {}
  <2>1. stack # <<>> /\ stack' = AdvanceOf(stack) /\ (stack' = <<>> => status' = "finished")
    BY <1>13, AdvanceIs DEF WalkGives, WalkPasses
  <2>2. found \in SUBSET Pathname /\ \A q : InHand(q)' <=> q \in found
    BY <1>1, <1>4, <1>6, <1>13 DEF WalkGives, WalkPasses
  <2>3. \A p \in Pathname : Waits(p, path, stack') => Waits(p, path, stack) /\ p # Entry
    BY <1>6, <2>1, Popped
  <2>4. \A q \in found : q = Entry
    OBVIOUS
  <2> HIDE DEF found
  <2>5. ASSUME NEW q \in Pathname, NEW p \in Pathname, q \in found \/ G(q), Waits(p, path, stack')
        PROVE  Earlier(q, p)
    <3>1. CASE q \in found
      BY <1>7, <2>1, <2>3, <2>4, <2>5, <3>1
    <3>2. CASE G(q)
      BY <1>5, <2>3, <2>5, <3>2 DEF Ordered
    <3> QED BY <2>5, <3>1, <3>2
  <2>6. \A q \in found : \A i \in Ranked : Earlier(given[i], q)
    BY <1>7, <1>8, <2>1, <2>4
  <2>7. ~(status' = "has_next" /\ stack' = <<>>)
    BY <2>1
  <2> QED BY <1>2, <1>3, <2>2, <2>5, <2>6, <2>7, WalkOn
<1> QED BY <1>1, <1>9, <1>10, <1>11, <1>12, <1>13

LEMMA StepOrdered == Typed /\ Calm /\ Ordered /\ [Next]_vars => Ordered'
<1> SUFFICES ASSUME Typed, Calm, Ordered, [Next]_vars PROVE Ordered'
  OBVIOUS
<1>1. CASE HasNext
  <2>1. /\ path' = path /\ stack' = stack /\ status' = status /\ call' = "open"
        /\ UNCHANGED <<engine, next_file, given, matched>>
    BY <1>1 DEF HasNext, Call, settingVars
  <2>2. Ranked' = Ranked /\ \A q : InHand(q)' => InHand(q)
    BY <2>1 DEF Ranked, InHand
  <2> QED BY <2>1, <2>2, NoNewInHand
<1>2. CASE WalkStep /\ UNCHANGED includeVars
  BY <1>2, WalkOrdered
<1>3. CASE WalkNext
  <2>1. /\ path' = path /\ stack' = stack /\ status' = status /\ call' = "none" /\ ~engine
        /\ UNCHANGED <<engine, next_file, current_path, matched>>
        /\ IF call = "true" THEN given' = Append(given, current_path) ELSE given' = given
    BY <1>3 DEF WalkNext, settingVars
  <2>2. \A q : ~InHand(q)'
    BY <2>1 DEF InHand
  <2>3. CASE call = "true"
    <3>1. InHand(current_path) /\ current_path \in Pathname
      BY <2>3 DEF InHand, Typed
    <3>2. Len(given') = Len(given) + 1 /\ Len(given) \in Nat
      <4>1. given \in Seq(Pathname)
        BY DEF Typed
      <4> QED BY <2>1, <2>3, <3>1, <4>1, AppendProperties
    <3>3. Ranked' = Ranked \cup {Len(given) + 1}
      BY <2>1, <3>2 DEF Ranked
    <3> QED BY <2>1, <2>2, <2>3, <3>1, <3>3, HandGiven
  <2>4. CASE call # "true"
    <3>1. Ranked' = Ranked /\ given' = given
      BY <2>1, <2>4 DEF Ranked
    <3> QED BY <2>1, <2>2, <3>1, NoNewInHand
  <2> QED BY <2>3, <2>4
<1>4. CASE EngineFilter
  <2>1. PICK isDir \in IsDirectory(current_path) :
          IF ~isDir /\ current_path \in pattern.glob
          THEN next_file' = current_path /\ looking' = FALSE
          ELSE UNCHANGED <<next_file, looking>>
    BY <1>4 DEF EngineFilter
  <2>2. /\ path' = path /\ stack' = stack /\ status' = status /\ call = "true" /\ call' = "none"
        /\ UNCHANGED <<engine, given, matched, current_path>>
    BY <1>4 DEF EngineFilter, settingVars
  <2>3. Ranked' = Ranked /\ \A q : InHand(q)' => InHand(q)
    BY <2>1, <2>2 DEF Ranked, InHand
  <2> QED BY <2>2, <2>3, NoNewInHand
<1>5. CASE EngineEnd
  <2>1. /\ path' = path /\ stack' = stack /\ status' = status /\ call' = "none" /\ next_file' = Null
        /\ UNCHANGED <<engine, given, matched>>
    BY <1>5 DEF EngineEnd, settingVars
  <2>2. Ranked' = Ranked /\ \A q : InHand(q)' => InHand(q)
    BY <2>1 DEF Ranked, InHand
  <2> QED BY <2>1, <2>2, NoNewInHand
<1>6. CASE EngineNext
  <2>1. /\ path' = path /\ stack' = stack /\ status' = status /\ call = "none" /\ call' = "none"
        /\ engine /\ engine' = engine
    BY <1>6 DEF EngineNext, Idle, walkVars
  <2>2. given \in Seq(Pathname) /\ Len(given) \in Nat /\ matched \subseteq 1 .. Len(given)
    BY DEF Typed
  <2>3. CASE next_dir # Null
    <3>1. matched' = matched /\ next_file' = next_file /\ \E p \in Pathname : given' = Append(given, p)
      <4>1. ASSUME Len(next_dir) > Len(current_dir) + 1
            PROVE  SubSeq(next_dir, 1, Len(current_dir) + 1) \in Pathname
        <5>1. Len(current_dir) + 1 \in 0 .. Len(next_dir)
          BY <4>1 DEF Typed, Pathname
        <5> QED BY <5>1, FirstNames DEF Typed
      <4>2. next_dir \in Pathname
        BY DEF Typed
      <4> QED BY <1>6, <2>3, <4>1, <4>2 DEF EngineNext
    <3>2. Ranked' = Ranked /\ \A q : InHand(q)' => InHand(q)
      BY <2>1, <3>1 DEF Ranked, InHand
    <3>3. \A i \in Ranked : given'[i] = given[i]
      <4>1. \A i \in Ranked : i \in 1 .. Len(given)
        BY <2>1, <2>2 DEF Ranked
      <4> QED BY <2>2, <3>1, <4>1, AppendProperties
    <3> QED BY <2>1, <3>2, <3>3, NoNewInHand
  <2>4. CASE next_dir = Null
    <3>1. /\ given' = Append(given, next_file) /\ next_file' = Null
          /\ matched' = matched \cup {Len(given) + 1}
          /\ next_file # Null
      BY <1>6, <2>4 DEF EngineNext
    <3>2. InHand(next_file) /\ next_file \in Pathname
      BY <2>1, <3>1 DEF InHand, Typed
    <3>3. \A q : ~InHand(q)'
      BY <2>1, <3>1 DEF InHand
    <3>4. Ranked' = Ranked \cup {Len(given) + 1}
      BY <2>1, <3>1 DEF Ranked
    <3> QED BY <2>1, <3>1, <3>2, <3>3, <3>4, HandGiven
  <2> QED BY <2>3, <2>4
<1>7. CASE Change /\ UNCHANGED <<walkVars, includeVars>>
  <2>1. /\ path' = path /\ stack' = stack /\ status' = status
        /\ UNCHANGED <<engine, call, current_path, next_file, given, matched>>
    BY <1>7 DEF walkVars, includeVars
  <2>2. Ranked' = Ranked /\ \A q : InHand(q)' => InHand(q)
    BY <2>1 DEF Ranked, InHand
  <2> QED BY <2>1, <2>2, NoNewInHand
<1>8. CASE UNCHANGED vars
  <2>1. /\ path' = path /\ stack' = stack /\ status' = status
        /\ UNCHANGED <<engine, call, current_path, next_file, given, matched>>
    BY <1>8 DEF vars, walkVars, includeVars
  <2>2. Ranked' = Ranked /\ \A q : InHand(q)' => InHand(q)
    BY <2>1 DEF Ranked, InHand
  <2> QED BY <2>1, <2>2, NoNewInHand
<1> QED BY <1>1, <1>2, <1>3, <1>4, <1>5, <1>6, <1>7, <1>8, Steps

LEMMA OrderedIsInOrder == Typed /\ Ordered => GivenInOrder
<1> SUFFICES ASSUME Typed, Ordered,
                    NEW i \in DOMAIN given, NEW j \in DOMAIN given, i < j,
                    engine => {i, j} \subseteq matched
             PROVE  Before(given[i], given[j])
  BY DEF GivenInOrder
<1>1. given \in Seq(Pathname) /\ DOMAIN given = 1 .. Len(given)
  BY DEF Typed
<1>2. i \in Ranked /\ j \in Ranked
  BY <1>1 DEF Ranked
<1>3. Earlier(given[i], given[j])
  BY <1>2 DEF Ordered
<1> QED BY <1>1, <1>3, EarlierIsBefore

(* Whatever happens to the tree while it is walked, the paths of a walk and  *)
(* the files that an engine finds are given out in order, and none twice    *)
(* (has_next of default_pattern.c and of the engines' include.c).           *)
THEOREM InOrder == Spec => []GivenInOrder
<1>1. Init => Typed /\ Calm /\ Ordered
  BY InitTyped, InitCalm, InitOrdered
<1>2. Typed /\ Calm /\ Ordered /\ [Next]_vars => (Typed /\ Calm /\ Ordered)'
  BY StepTyped, StepCalm, StepOrdered
<1>3. Typed /\ Calm /\ Ordered => GivenInOrder
  BY OrderedIsInOrder
<1> QED BY <1>1, <1>2, <1>3, PTL DEF Spec

----------------------------------------------------------------------------
(* The directories. *)

Has(g, d) == \E j \in 1 .. Len(g) : g[j] = d

(* What has to be given out before p: of a walk the directories above it,    *)
(* from the start on; of an engine all of them, but those of the start.     *)
Leads(d, p) ==
    /\ Above(d, p)
    /\ IF engine THEN p # path ELSE Len(path) <= Len(d)

Led ==
    \A i \in 1 .. Len(given) : \A d \in Pathname :
        Leads(d, given[i]) => \E j \in 1 .. i - 1 : given[j] = d

LEMMA HasAlso ==
    ASSUME NEW g \in Seq(Pathname), NEW r \in Pathname
    PROVE  \A d : Has(Append(g, r), d) <=> Has(g, d) \/ d = r
<1> DEFINE h == Append(g, r)
<1>1. /\ Len(g) \in Nat /\ Len(h) = Len(g) + 1
      /\ \A j \in 1 .. Len(g) : h[j] = g[j]
      /\ h[Len(g) + 1] = r
  BY AppendProperties
<1> HIDE DEF h
<1>2. ASSUME NEW d, NEW j \in 1 .. Len(h), h[j] = d PROVE Has(g, d) \/ d = r
  <2>1. CASE j = Len(g) + 1
    BY <1>1, <1>2, <2>1
  <2>2. CASE j \in 1 .. Len(g)
    BY <1>1, <1>2, <2>2 DEF Has
  <2> QED BY <1>1, <2>1, <2>2
<1>3. ASSUME NEW d, NEW j \in 1 .. Len(g), g[j] = d PROVE Has(h, d)
  <2>1. j \in 1 .. Len(h) /\ h[j] = d
    BY <1>1, <1>3
  <2> QED BY <2>1 DEF Has
<1>4. Has(h, r)
  <2>1. Len(g) + 1 \in 1 .. Len(h)
    BY <1>1
  <2> QED BY <1>1, <2>1 DEF Has
<1>5. \A d : Has(h, d) => Has(g, d) \/ d = r
  BY <1>2 DEF Has
<1>6. \A d : Has(g, d) => Has(h, d)
  BY <1>3 DEF Has
<1> QED BY <1>4, <1>5, <1>6 DEF h

LEMMA LedOn ==
    ASSUME Led, given \in Seq(Pathname), engine' = engine, path' = path,
           NEW r \in Pathname, given' = Append(given, r),
           \A d \in Pathname : Leads(d, r) => Has(given, d)
    PROVE  Led'
<1>1. /\ Len(given) \in Nat /\ Len(given') = Len(given) + 1
      /\ \A j \in 1 .. Len(given) : given'[j] = given[j]
      /\ given'[Len(given) + 1] = r
  BY AppendProperties
<1>2. \A d, p : Leads(d, p)' <=> Leads(d, p)
  BY DEF Leads
<1>3. ASSUME NEW i \in 1 .. Len(given'), NEW d \in Pathname, Leads(d, given'[i])
      PROVE  \E j \in 1 .. i - 1 : given'[j] = d
  <2>1. CASE i = Len(given) + 1
    <3>1. PICK j \in 1 .. Len(given) : given[j] = d
      BY <1>1, <1>3, <2>1 DEF Has
    <3>2. j \in 1 .. i - 1 /\ given'[j] = d
      BY <1>1, <2>1, <3>1
    <3> QED BY <3>2
  <2>2. CASE i \in 1 .. Len(given)
    <3>1. PICK j \in 1 .. i - 1 : given[j] = d
      BY <1>1, <1>3, <2>2 DEF Led
    <3>2. j \in 1 .. Len(given)
      BY <1>1, <2>2
    <3> QED BY <1>1, <3>1, <3>2
  <2> QED BY <1>1, <2>1, <2>2
<1>4. \A i \in 1 .. Len(given') : \A d \in Pathname :
         Leads(d, given'[i]) => \E j \in 1 .. i - 1 : given'[j] = d
  BY <1>3
<1> QED BY <1>2, <1>4, Zenon DEF Led

LEMMA LedSame ==
    ASSUME Led, engine' = engine, path' = path, given' = given
    PROVE  Led'
BY DEF Led, Leads

(* Above what is above, and what is in a directory. *)
LEMMA AboveAbove ==
    ASSUME NEW a \in Pathname, NEW b \in Pathname, NEW c \in Pathname, Above(a, b), Above(b, c)
    PROVE  Above(a, c)
<1>1. Len(a) \in Nat /\ Len(b) \in Nat /\ Len(c) \in Nat
  BY DEF Pathname
<1> QED BY <1>1 DEF Above

LEMMA AboveIn ==
    ASSUME NEW d \in Pathname, NEW e \in Pathname, NEW p \in Pathname, In(e, p), Above(d, p)
    PROVE  d = e \/ Above(d, e)
<1>1. Len(d) \in Nat /\ Len(e) \in Nat /\ Len(p) \in Nat
  BY DEF Pathname
<1>2. Len(d) <= Len(e) /\ \A k \in 1 .. Len(d) : d[k] = e[k]
  BY <1>1 DEF Above, In
<1>3. CASE Len(d) = Len(e)
  BY <1>2, <1>3, SameNames
<1>4. CASE Len(d) < Len(e)
  BY <1>2, <1>4 DEF Above
<1> QED BY <1>1, <1>2, <1>3, <1>4

(* Of two directories above one path one is above the other. *)
LEMMA BothAbove ==
    ASSUME NEW d \in Pathname, NEW e \in Pathname, NEW p \in Pathname,
           Above(d, p), Above(e, p) \/ e = p, Len(d) <= Len(e)
    PROVE  d = e \/ Above(d, e)
<1>1. Len(d) \in Nat /\ Len(e) \in Nat /\ Len(p) \in Nat
  BY DEF Pathname
<1>2. \A k \in 1 .. Len(d) : d[k] = e[k]
  BY <1>1 DEF Above
<1>3. CASE Len(d) = Len(e)
  BY <1>2, <1>3, SameNames
<1>4. CASE Len(d) < Len(e)
  BY <1>2, <1>4 DEF Above
<1> QED BY <1>1, <1>3, <1>4

(* What is above a path that waits is above the entry, and the start is     *)
(* above all of them.                                                       *)
LEMMA AboveWaiting ==
    ASSUME Typed, NEW p \in Pathname, Waits(p, path, stack)
    PROVE  /\ stack # <<>> /\ Above(path, p)
           /\ \A d \in Pathname : Above(d, p) => Above(d, Entry)
<1>1. /\ Entry = EntryOf(path, stack) /\ Entry \in Pathname
      /\ path \in Pathname /\ path # <<>> /\ SoundStack(stack)
  BY EntryIs, EntryNotNull DEF Typed
<1>2. /\ stack # <<>> /\ Len(p) > Len(path) /\ Len(p) <= Len(Entry)
      /\ \A k \in 1 .. Len(p) - 1 : p[k] = Entry[k]
  BY <1>1, WaitingBelow
<1>3. \A k \in 1 .. Len(path) : Entry[k] = path[k]
  BY <1>1, EntryFacts
<1>4. Len(p) \in Nat /\ Len(path) \in Nat /\ Len(Entry) \in Nat
  BY <1>1 DEF Pathname
<1>5. Above(path, p)
  BY <1>1, <1>2, <1>3, <1>4 DEF Above
<1>6. ASSUME NEW d \in Pathname, Above(d, p) PROVE Above(d, Entry)
  <2>1. Len(d) \in Nat
    BY DEF Pathname
  <2> QED BY <1>2, <1>4, <1>6, <2>1 DEF Above
<1> QED BY <1>2, <1>5, <1>6

(* What a step of the walk adds to what waits is in the directory it reads,  *)
(* and what it takes away is the entry.                                     *)
LEMMA WaitsChange ==
    ASSUME Typed, WalkStep
    PROVE  /\ \A p \in Pathname : Waits(p, path, stack') =>
                 \/ Waits(p, path, stack)
                 \/ WalkOpens /\ In(path, p) /\ p \in Tree
                 \/ WalkDescends /\ In(Entry, p) /\ p \in Tree
           /\ \A p \in Pathname :
                 Waits(p, path, stack) /\ p # Entry => Waits(p, path, stack')
           /\ WalkOpens => \A p \in Pathname \cap Tree :
                 path \in dirs /\ In(path, p) => Waits(p, path, stack')
           /\ WalkDescends => \A p \in Pathname \cap Tree :
                 Entry \in dirs /\ In(Entry, p) => Waits(p, path, stack')
<1>1. WalkEnds \/ WalkStarts \/ WalkOpens \/ WalkDescends \/ WalkGives \/ WalkPasses
  BY WalkMoves
<1>2. /\ Entry = EntryOf(path, stack) /\ Entry \in Pathname
      /\ path \in Pathname /\ SoundStack(stack)
  BY EntryIs, EntryNotNull DEF Typed
<1>3. ASSUME NEW d \in Pathname, NEW p \in Pathname, In(d, p),
             NEW i \in DOMAIN Scan(d), p[Len(p)] = Scan(d)[i]
      PROVE  p \in Tree
  <2>1. PICK x \in Tree : x \in Pathname /\ In(d, x) /\ x[Len(x)] = Scan(d)[i]
    BY ScanIs
  <2>2. Len(d) \in Nat /\ Len(x) = Len(d) + 1 /\ Len(p) = Len(d) + 1
    BY <1>3, <2>1 DEF In, Pathname
  <2>3. \A k \in 1 .. Len(d) : x[k] = p[k]
    BY <1>3, <2>1 DEF In
  <2>4. x[Len(d) + 1] = p[Len(d) + 1]
    BY <1>3, <2>1, <2>2
  <2>5. \A k \in 1 .. Len(x) : x[k] = p[k]
    BY <2>2, <2>3, <2>4
  <2>6. x = p
    BY <2>1, <2>2, <2>5, SameNames
  <2> QED BY <2>1, <2>6
<1>4. CASE WalkOpens
  <2> DEFINE names == Scan(path)
  <2>1. stack = <<>> /\ stack' = <<names>> /\ names # <<>>
    BY <1>4 DEF WalkOpens
  <2>2. names \in Seq(Nat) /\ Increasing(names)
    BY <1>2, ScanIs
  <2>3. \A p \in Pathname : Waits(p, path, stack') <=>
            In(path, p) /\ \E i \in DOMAIN names : p[Len(p)] = names[i]
    <3> HIDE DEF names
    <3> QED BY <1>2, <2>1, <2>2, FirstPushed
  <2>4. \A p \in Pathname : ~Waits(p, path, stack)
    BY <2>1, EmptyStack DEF NothingWaits
  <2>5. \A p \in Pathname : Waits(p, path, stack') => In(path, p) /\ p \in Tree
    BY <1>2, <1>3, <2>3
  <2>6. \A p \in Pathname \cap Tree : path \in dirs /\ In(path, p) => Waits(p, path, stack')
    BY <1>2, <2>3, ScanIs
  <2>7. ~WalkDescends
    BY <2>1 DEF WalkDescends
  <2> QED BY <1>4, <2>4, <2>5, <2>6, <2>7
<1>5. CASE WalkDescends
  <2> DEFINE names == Scan(Entry)
  <2>1. stack # <<>> /\ stack' = Append(stack, names) /\ names # <<>>
    BY <1>5 DEF WalkDescends
  <2>2. names \in Seq(Nat) /\ Increasing(names)
    BY <1>2, ScanIs
  <2>3. \A p \in Pathname : Waits(p, path, stack') =>
            \/ Waits(p, path, stack) /\ p # Entry
            \/ In(Entry, p) /\ \E i \in DOMAIN names : p[Len(p)] = names[i]
    <3> HIDE DEF names
    <3> QED BY <1>2, <2>1, <2>2, Pushed DEF In
  <2>4. \A p \in Pathname :
            \/ Waits(p, path, stack) /\ p # Entry
            \/ In(Entry, p) /\ \E i \in DOMAIN names : p[Len(p)] = names[i]
            => Waits(p, path, stack')
    <3> HIDE DEF names
    <3> QED BY <1>2, <2>1, <2>2, Pushed DEF In
  <2>5. \A p \in Pathname : Waits(p, path, stack') =>
            Waits(p, path, stack) \/ (In(Entry, p) /\ p \in Tree)
    BY <1>2, <1>3, <2>3
  <2>6. ASSUME NEW p \in Pathname \cap Tree, Entry \in dirs, In(Entry, p) PROVE Waits(p, path, stack')
    <3>1. PICK i \in DOMAIN names : p[Len(p)] = names[i]
      BY <1>2, <2>6, ScanIs
    <3> QED BY <2>4, <2>6, <3>1
  <2>7. ~WalkOpens
    BY <2>1 DEF WalkOpens
  <2> QED BY <1>5, <2>4, <2>5, <2>6, <2>7
<1>6. CASE WalkGives \/ WalkPasses
  <2>1. stack # <<>> /\ stack' = AdvanceOf(stack)
    BY <1>6, AdvanceIs DEF WalkGives, WalkPasses
  <2>3. ~WalkOpens
    BY <2>1 DEF WalkOpens
  <2>4. ~WalkDescends
    <3>1. CASE WalkGives
      BY <3>1 DEF WalkGives, WalkDescends
    <3>2. CASE WalkPasses
      BY <3>2, EntryNotNull DEF WalkPasses, WalkDescends
    <3> QED BY <1>6, <3>1, <3>2
  <2>2. \A p \in Pathname : Waits(p, path, stack') <=> Waits(p, path, stack) /\ p # Entry
    BY <1>2, <2>1, Popped
  <2> QED BY <2>1, <2>2, <2>3, <2>4
<1>7. CASE WalkEnds \/ WalkStarts
  <2>1. stack' = stack /\ ~WalkOpens /\ ~WalkDescends
    <3>1. stack' = stack
      BY <1>7 DEF WalkEnds, WalkStarts
    <3>2. ~WalkOpens
      <4> SUFFICES ASSUME WalkOpens PROVE FALSE
        OBVIOUS
      <4>1. stack = <<>> /\ stack' = <<Scan(path)>>
        BY DEF WalkOpens
      <4> QED BY <3>1, <4>1
    <3>3. ~WalkDescends
      <4> SUFFICES ASSUME WalkDescends PROVE FALSE
        OBVIOUS
      <4>1. stack' = Append(stack, Scan(Entry)) /\ Scan(Entry) \in Pathname /\ stack \in Seq(Pathname)
        BY <1>2, ScanIs DEF WalkDescends, SoundStack, Pathname
      <4>2. Len(stack') = Len(stack) + 1 /\ Len(stack) \in Nat
        BY <4>1, AppendProperties
      <4> QED BY <3>1, <4>2
    <3> QED BY <3>1, <3>2, <3>3
  <2> QED BY <1>7, <2>1
<1> QED BY <1>1, <1>4, <1>5, <1>6, <1>7
(* The path in hand lies deeper than what waits is in: every directory above *)
(* a path that waits is that one or above it.                               *)
Near ==
    call = "true" =>
        \A p, d \in Pathname : Waits(p, path, stack) /\ Above(d, p) =>
            d = current_path \/ Above(d, current_path)

LEMMA InitNear == Init => Near
BY DEF Init, GetInclude, WalkNew, Near

LEMMA StepNear == Typed /\ Calm /\ Near /\ [Next]_vars => Near'
<1> SUFFICES ASSUME Typed, Calm, Near, [Next]_vars PROVE Near'
  OBVIOUS
<1>1. CASE UNCHANGED <<call, path, stack, current_path>> \/ call' # "true"
  BY <1>1 DEF Near
<1>2. CASE WalkStep /\ UNCHANGED includeVars
  <2> SUFFICES ASSUME call' = "true",
                      NEW p \in Pathname, NEW d \in Pathname, Waits(p, path, stack'), Above(d, p)
               PROVE  d = current_path' \/ Above(d, current_path')
    <3>1. path' = path
      BY <1>2, WalkMoves DEF settingVars
    <3> QED BY <3>1 DEF Near
  <2>1. /\ call = "open" /\ Entry \in Pathname
        /\ WalkEnds \/ WalkStarts \/ WalkOpens \/ WalkDescends \/ WalkGives \/ WalkPasses
    BY <1>2, WalkMoves, EntryNotNull
  <2>2. ~WalkEnds /\ ~WalkOpens /\ ~WalkPasses
    BY <2>1 DEF WalkEnds, WalkOpens, WalkPasses
  <2>3. CASE WalkStarts
    <3>1. stack' = <<>>
      BY <2>3 DEF WalkStarts, Calm
    <3> QED BY <3>1, EmptyStack DEF NothingWaits
  <2>4. CASE WalkDescends \/ WalkGives
    <3>1. current_path' = Entry
      BY <2>4 DEF WalkDescends, WalkGives
    <3>2. CASE Waits(p, path, stack)
      BY <3>1, <3>2, AboveWaiting
    <3>3. CASE WalkDescends /\ In(Entry, p)
      BY <2>1, <3>1, <3>3, AboveIn
    <3> QED BY <1>2, <2>2, <3>2, <3>3, WaitsChange
  <2> QED BY <2>1, <2>2, <2>3, <2>4
<1>3. HasNext => call' # "true"
  BY DEF HasNext, Call
<1>4. WalkNext \/ EngineFilter \/ EngineEnd => call' # "true"
  BY DEF WalkNext, EngineFilter, EngineEnd
<1>5. EngineNext \/ (Change /\ UNCHANGED <<walkVars, includeVars>>) \/ UNCHANGED vars
          => UNCHANGED <<call, path, stack, current_path>>
  BY DEF EngineNext, vars, walkVars
<1> QED BY <1>1, <1>2, <1>3, <1>4, <1>5, Steps

(* As long as nobody changes the tree, what the walk has in mind is there.  *)
Still ==
    changes = 0 =>
        /\ \A p \in Tree : \A d \in Pathname : Above(d, p) => d \in dirs
        /\ \A p \in Pathname : Waits(p, path, stack) => p \in Tree
        /\ call = "true" => current_path \in Tree
        /\ status = "has_next" => path \in dirs

LEMMA InitStill == Init => Still
<1> SUFFICES ASSUME Init PROVE Still
  OBVIOUS
<1>1. ASSUME NEW p \in Tree, NEW d \in Pathname, Above(d, p) PROVE d \in dirs
  <2>1. p \in Pathname
    BY WalkAssumption DEF Init, DiskInit, Tree, Pathname
  <2>2. Len(d) \in Nat /\ Len(p) \in Nat /\ Len(d) # 0
    BY <1>1 DEF Pathname, Above
  <2>3. Len(d) \in 1 .. Len(p) - 1 /\ Len(d) \in 0 .. Len(p)
    BY <1>1, <2>2 DEF Above
  <2>4. SubSeq(p, 1, Len(d)) \in dirs
    BY <2>3 DEF Init, DiskInit, Tree
  <2>5. d = SubSeq(p, 1, Len(d))
    <3>1. /\ SubSeq(p, 1, Len(d)) \in Pathname /\ Len(SubSeq(p, 1, Len(d))) = Len(d)
          /\ \A k \in 1 .. Len(d) : SubSeq(p, 1, Len(d))[k] = p[k]
      BY <2>1, <2>3, FirstNames
    <3>2. \A k \in 1 .. Len(d) : d[k] = SubSeq(p, 1, Len(d))[k]
      BY <1>1, <3>1 DEF Above
    <3> QED BY <3>1, <3>2, SameNames
  <2> QED BY <2>4, <2>5
<1>2. stack = <<>> /\ call = "none" /\ status # "has_next"
  BY DEF Init, GetInclude, WalkNew
<1>3. \A p : ~Waits(p, path, stack)
  BY <1>2, EmptyStack DEF NothingWaits
<1> QED BY <1>1, <1>2, <1>3 DEF Still

LEMMA StepStill == Typed /\ Calm /\ Still /\ [Next]_vars => Still'
<1> SUFFICES ASSUME Typed, Calm, Still, [Next]_vars PROVE Still'
  OBVIOUS
<1>1. CASE /\ UNCHANGED <<diskVars, path, stack, status, current_path>>
           /\ call' = call \/ call' # "true"
  BY <1>1 DEF Still, Tree, diskVars
<1>2. CASE WalkStep /\ UNCHANGED includeVars
  <2>1. /\ call = "open" /\ UNCHANGED <<dirs, files, changes, path, Tree>>
        /\ WalkEnds \/ WalkStarts \/ WalkOpens \/ WalkDescends \/ WalkGives \/ WalkPasses
    BY <1>2, WalkMoves DEF diskVars, settingVars, Tree
  <2> SUFFICES ASSUME changes = 0
               PROVE  /\ \A p \in Pathname : Waits(p, path, stack') => p \in Tree
                      /\ call' = "true" => current_path' \in Tree
                      /\ status' = "has_next" => path \in dirs
    BY <2>1 DEF Still
  <2>2. \A p \in Pathname : Waits(p, path, stack') => p \in Tree
    BY <1>2, WaitsChange DEF Still
  <2>3. call' = "true" => current_path' \in Tree
    BY <2>1 DEF WalkEnds, WalkStarts, WalkOpens, WalkDescends, WalkGives, WalkPasses
  <2>4. status' = "has_next" => path \in dirs
    BY <2>1 DEF Still, WalkEnds, WalkStarts, WalkOpens, WalkDescends, WalkGives, WalkPasses
  <2> QED BY <2>2, <2>3, <2>4
<1>3. CASE Change /\ UNCHANGED <<walkVars, includeVars>>
  <2>1. changes' # 0
    BY <1>3 DEF Change, Typed
  <2> QED BY <2>1 DEF Still
<1>4. CASE HasNext
  <2>1. UNCHANGED <<diskVars, path, stack, status>> /\ call' = "open"
    BY <1>4 DEF HasNext, Call, settingVars
  <2> QED BY <2>1 DEF Still, Tree, diskVars
<1>5. WalkNext \/ EngineFilter \/ EngineEnd =>
          UNCHANGED <<diskVars, path, stack, status, current_path>> /\ call' # "true"
  BY DEF WalkNext, EngineFilter, EngineEnd, settingVars
<1>6. EngineNext \/ UNCHANGED vars => UNCHANGED <<diskVars, path, stack, status, current_path, call>>
  BY DEF EngineNext, vars, walkVars
<1> QED BY <1>1, <1>2, <1>3, <1>4, <1>5, <1>6, Steps

(* A directory that was given out, or will be before anything else: the one  *)
(* in hand and, of an engine, the one in mind with those above it.          *)
Known(d) ==
    \/ Has(given, d)
    \/ call = "true" /\ d = current_path
    \/ engine /\ next_dir # Null /\ (d = next_dir \/ Above(d, next_dir))

(* What leads to all that the walk and the engine still have is known. *)
Leading ==
    /\ Led
    /\ ~done => \A p, d \in Pathname : Waits(p, path, stack) /\ Leads(d, p) => Known(d)
    /\ call = "true" => \A d \in Pathname : Leads(d, current_path) => Known(d)
    /\ engine /\ next_file # Null => \A d \in Pathname : Leads(d, next_file) => Known(d)
    /\ status = "has_next" /\ stack = <<>> =>
          \A d \in Pathname : d = path \/ (engine /\ Above(d, path)) =>
              Known(d) \/ (call = "true" /\ current_path = path)
    /\ engine /\ current_dir # Null =>
          /\ Above(current_dir, next_dir)
          /\ \A d \in Pathname : d = current_dir \/ Above(d, current_dir) => Has(given, d)

Undisturbed == engine => ~rooted /\ changes = 0

LEMMA InitLeading == Init => Leading
<1> SUFFICES ASSUME Init PROVE Leading
  OBVIOUS
<1>1. /\ stack = <<>> /\ call = "none" /\ status # "has_next"
      /\ given = <<>> /\ next_file = Null /\ current_dir = Null
  BY DEF Init, GetInclude, WalkNew
<1>2. \A p : ~Waits(p, path, stack)
  BY <1>1, EmptyStack DEF NothingWaits
<1>3. Led
  BY <1>1 DEF Led
<1> QED BY <1>1, <1>2, <1>3 DEF Leading

(* Where nothing new waits and what is known stays known. *)
LEMMA LeadingOn ==
    ASSUME Leading, Led', UNCHANGED <<path, engine, stack, status>>,
           ~done' => ~done,
           \A d \in Pathname : Known(d) => Known(d)',
           call' # "true",
           next_file' = next_file \/ next_file' = Null,
           status = "has_next" /\ stack = <<>> /\ call = "true" =>
               \A d \in Pathname : d = path \/ (engine /\ Above(d, path)) => Known(d)',
           engine /\ current_dir' # Null =>
              /\ Above(current_dir', next_dir')
              /\ \A d \in Pathname : d = current_dir' \/ Above(d, current_dir') => Has(given', d)
    PROVE  Leading'
<1>1. \A p, d : Leads(d, p)' <=> Leads(d, p)
  BY DEF Leads
<1>2. ~done' => \A p, d \in Pathname : Waits(p, path, stack)' /\ Leads(d, p)' => Known(d)'
  BY <1>1 DEF Leading
<1>3. (engine /\ next_file # Null)' => \A d \in Pathname : Leads(d, next_file)' => Known(d)'
  BY <1>1 DEF Leading
<1>4. (status = "has_next" /\ stack = <<>>)' =>
          \A d \in Pathname : d = path' \/ (engine' /\ Above(d, path')) =>
              Known(d)' \/ (call = "true" /\ current_path = path)'
  BY DEF Leading
<1> QED BY <1>2, <1>3, <1>4, Zenon DEF Leading

LEMMA WalkLeading ==
    ASSUME Typed, Calm, Leading, WalkStep, UNCHANGED includeVars
    PROVE  Leading'
<1>1. /\ call = "open" /\ UNCHANGED <<path, engine, given, done, next_dir, next_file, current_dir>>
      /\ WalkEnds \/ WalkStarts \/ WalkOpens \/ WalkDescends \/ WalkGives \/ WalkPasses
  BY WalkMoves DEF settingVars, includeVars
<1>2. \A d : Known(d) => Known(d)'
  BY <1>1 DEF Known
<1>3. \A d : call' = "true" /\ d = current_path' => Known(d)'
  BY <1>1 DEF Known
<1>4. \A p, d : Leads(d, p)' <=> Leads(d, p)
  BY <1>1 DEF Leads
<1>5. Entry \in Pathname /\ path \in Pathname /\ Len(path) \in Nat
  BY EntryNotNull DEF Typed, Pathname
<1>6. next_file = Null \/ ~engine
  BY <1>1 DEF Calm
<1>7. engine => current_dir = Null
  BY <1>1 DEF Calm
<1>8. stack # <<>> => Waits(Entry, path, stack) /\ Entry # path
  <2> SUFFICES ASSUME stack # <<>> PROVE Waits(Entry, path, stack) /\ Entry # path
    OBVIOUS
  <2>1. Waits(Entry, path, stack)
    BY <1>5, EntryWaits, EntryIs DEF Typed
  <2>2. Above(path, Entry)
    BY <1>5, <2>1, AboveWaiting
  <2> QED BY <1>5, <2>1, <2>2 DEF Above
<1>9. Led'
  BY <1>1, LedSame DEF Leading
<1>10. ASSUME call' = "true", NEW d \in Pathname, Leads(d, current_path') PROVE Known(d)'
  <2>1. CASE WalkStarts
    <3>1. Above(d, path) /\ ~engine /\ Len(path) <= Len(d)
      BY <1>10, <2>1 DEF WalkStarts, Leads
    <3>2. Len(d) \in Nat
      BY DEF Pathname
    <3> QED BY <1>5, <3>1, <3>2 DEF Above
  <2>2. CASE WalkDescends \/ WalkGives \/ WalkPasses
    <3>1. stack # <<>> /\ current_path' = Entry
      BY <1>1, <1>10, <2>2 DEF WalkDescends, WalkGives, WalkPasses
    <3>2. ~done
      BY <1>1 DEF Calm
    <3> QED BY <1>2, <1>5, <1>8, <1>10, <3>1, <3>2 DEF Leading
  <2>3. CASE WalkEnds \/ WalkOpens
    BY <1>1, <1>10, <2>3 DEF WalkEnds, WalkOpens
  <2> QED BY <1>1, <2>1, <2>2, <2>3
<1>11. ASSUME ~done, NEW p \in Pathname, NEW d \in Pathname, Waits(p, path, stack'), Leads(d, p)
       PROVE  Known(d)'
  <2>1. CASE Waits(p, path, stack)
    BY <1>2, <1>11, <2>1 DEF Leading
  <2>2. CASE WalkOpens /\ In(path, p)
    <3>1. d = path \/ Above(d, path)
      BY <1>5, <1>11, <2>2, AboveIn DEF Leads
    <3>2. ~engine => d = path
      <4>1. Len(d) \in Nat
        BY DEF Pathname
      <4> QED BY <1>5, <1>11, <3>1, <4>1 DEF Leads, Above
    <3>3. status = "has_next" /\ stack = <<>>
      BY <2>2 DEF WalkOpens
    <3>4. Known(d)
      BY <1>1, <3>1, <3>2, <3>3 DEF Leading
    <3> QED BY <1>2, <3>4
  <2>3. CASE WalkDescends /\ In(Entry, p)
    <3>1. stack # <<>> /\ current_path' = Entry /\ call' = "true"
      BY <2>3 DEF WalkDescends
    <3>2. d = Entry \/ Above(d, Entry)
      BY <1>5, <1>11, <2>3, AboveIn DEF Leads
    <3>3. CASE d = Entry
      BY <1>3, <3>1, <3>3
    <3>4. CASE Above(d, Entry)
      <4>1. Leads(d, Entry)
        BY <1>8, <1>11, <3>1, <3>4 DEF Leads
      <4> QED BY <1>10, <3>1, <4>1
    <3> QED BY <3>2, <3>3, <3>4
  <2> QED BY <1>11, <2>1, <2>2, <2>3, WaitsChange
<1>12. ASSUME status' = "has_next", stack' = <<>>, NEW d \in Pathname, d = path \/ (engine /\ Above(d, path))
       PROVE  Known(d)' \/ (call' = "true" /\ current_path' = path)
  <2>1. CASE WalkStarts
    BY <2>1 DEF WalkStarts
  <2>2. CASE WalkOpens
    <3>1. stack' = <<Scan(path)>> /\ <<Scan(path)>> # <<>>
      BY <2>2 DEF WalkOpens
    <3> QED BY <1>12, <3>1
  <2>3. CASE WalkDescends
    <3>1. stack' = Append(stack, Scan(Entry)) /\ Scan(Entry) \in Pathname /\ stack \in Seq(Pathname)
      BY <1>5, <2>3, ScanIs DEF WalkDescends, Typed, SoundStack, Pathname
    <3>2. Len(stack') = Len(stack) + 1 /\ Len(stack) \in Nat
      BY <3>1, AppendProperties
    <3> QED BY <1>12, <3>2
  <2>4. CASE WalkGives \/ WalkPasses
    BY <1>12, <2>4 DEF WalkGives, WalkPasses
  <2>5. CASE WalkEnds
    BY <1>12, <2>5 DEF WalkEnds
  <2> QED BY <1>1, <2>1, <2>2, <2>3, <2>4, <2>5
<1>13. ~done' => \A p, d \in Pathname : Waits(p, path, stack)' /\ Leads(d, p)' => Known(d)'
  BY <1>1, <1>4, <1>11
<1>14. (call = "true")' => \A d \in Pathname : Leads(d, current_path)' => Known(d)'
  BY <1>4, <1>10
<1>15. /\ ~(engine /\ next_file # Null)'
       /\ ~(engine /\ current_dir # Null)'
  BY <1>1, <1>6, <1>7
<1>16. (status = "has_next" /\ stack = <<>>)' =>
          \A d \in Pathname : d = path' \/ (engine' /\ Above(d, path')) =>
              Known(d)' \/ (call = "true" /\ current_path = path)'
  BY <1>1, <1>12
<1> QED BY <1>9, <1>13, <1>14, <1>15, <1>16, Zenon DEF Leading
LEMMA GivesDirectory ==
    ASSUME Typed, Calm, Leading, EngineNext, next_dir # Null
    PROVE  Leading'
<1>1. /\ UNCHANGED <<path, engine, stack, status, done, call, next_file>> /\ ~looking
      /\ call = "none" /\ engine
      /\ given \in Seq(Pathname) /\ next_dir \in Pathname /\ current_dir \in Pathname
  BY DEF EngineNext, Idle, walkVars, Typed
<1>2. Len(next_dir) \in Nat /\ Len(current_dir) \in Nat
  BY <1>1 DEF Pathname
<1>3. current_dir # Null =>
          /\ Above(current_dir, next_dir)
          /\ \A d \in Pathname : d = current_dir \/ Above(d, current_dir) => Has(given, d)
  BY <1>1 DEF Leading
<1>4. CASE Len(next_dir) > Len(current_dir) + 1
  <2> DEFINE r == SubSeq(next_dir, 1, Len(current_dir) + 1)
  <2>1. current_dir' = r /\ given' = Append(given, r) /\ next_dir' = next_dir
    BY <1>4 DEF EngineNext
  <2>2. Len(current_dir) + 1 \in 0 .. Len(next_dir)
    BY <1>2, <1>4
  <2>3. /\ r \in Pathname /\ Len(r) = Len(current_dir) + 1
        /\ \A k \in 1 .. Len(current_dir) + 1 : r[k] = next_dir[k]
    BY <1>1, <2>2, FirstNames
  <2> HIDE DEF r
  <2>4. Above(r, next_dir)
    <3>1. r # <<>>
      BY <1>2, <2>3
    <3> QED BY <1>2, <1>4, <2>3, <3>1 DEF Above
  <2>5. ASSUME NEW d \in Pathname, Above(d, r) PROVE Has(given, d)
    <3>1. Len(d) \in Nat /\ d # <<>> /\ Len(d) <= Len(current_dir)
      BY <1>2, <2>3, <2>5 DEF Above, Pathname
    <3>2. current_dir # Null
      <4>1. CASE current_dir = Null
        <5>1. Len(d) = 0
          BY <3>1, <4>1 DEF Null
        <5> QED BY <3>1, <5>1 DEF Pathname
      <4> QED BY <4>1
    <3>3. Above(d, next_dir)
      BY <1>1, <2>3, <2>4, <2>5, AboveAbove
    <3>4. d = current_dir \/ Above(d, current_dir)
      BY <1>1, <1>3, <3>1, <3>2, <3>3, BothAbove
    <3> QED BY <1>3, <3>2, <3>4
  <2>6. \A d : Has(given', d) <=> Has(given, d) \/ d = r
    BY <1>1, <2>1, <2>3, HasAlso
  <2>7. Led'
    BY <1>1, <2>1, <2>3, <2>5, LedOn DEF Leading, Leads
  <2>8. \A d \in Pathname : Known(d) => Known(d)'
    BY <1>1, <2>1, <2>6 DEF Known
  <2>9. \A d \in Pathname : d = current_dir' \/ Above(d, current_dir') => Has(given', d)
    BY <2>1, <2>5, <2>6
  <2> QED BY <1>1, <2>1, <2>4, <2>7, <2>8, <2>9, LeadingOn
<1>5. CASE ~(Len(next_dir) > Len(current_dir) + 1)
  <2>1. current_dir' = Null /\ given' = Append(given, next_dir) /\ next_dir' = Null
    BY <1>5 DEF EngineNext
  <2>2. ASSUME NEW d \in Pathname, Above(d, next_dir) PROVE Has(given, d)
    <3>1. Len(d) \in Nat /\ d # <<>> /\ Len(d) < Len(next_dir)
      BY <2>2 DEF Above, Pathname
    <3>2. current_dir # Null
      <4>1. CASE current_dir = Null
        <5>1. Len(d) = 0
          BY <1>2, <1>5, <3>1, <4>1 DEF Null
        <5> QED BY <3>1, <5>1 DEF Pathname
      <4> QED BY <4>1
    <3>3. Len(d) <= Len(current_dir)
      BY <1>2, <1>5, <3>1
    <3>4. d = current_dir \/ Above(d, current_dir)
      BY <1>1, <1>3, <2>2, <3>2, <3>3, BothAbove
    <3> QED BY <1>3, <3>2, <3>4
  <2>3. \A d : Has(given', d) <=> Has(given, d) \/ d = next_dir
    BY <1>1, <2>1, HasAlso
  <2>4. Led'
    BY <1>1, <2>1, <2>2, LedOn DEF Leading, Leads
  <2>5. \A d \in Pathname : Known(d) => Known(d)'
    BY <1>1, <2>1, <2>2, <2>3 DEF Known
  <2> QED BY <1>1, <2>1, <2>4, <2>5, LeadingOn
<1> QED BY <1>4, <1>5

LEMMA GivesFile ==
    ASSUME Typed, Calm, Leading, EngineNext, next_dir = Null
    PROVE  Leading'
<1>1. /\ UNCHANGED <<path, engine, stack, status, done, call, next_dir, current_dir>>
      /\ call = "none" /\ engine /\ next_file # Null /\ next_file' = Null
      /\ given \in Seq(Pathname) /\ next_file \in Pathname
      /\ given' = Append(given, next_file) /\ current_dir = Null
  BY DEF EngineNext, Idle, walkVars, Typed, Calm
<1>2. \A d : Known(d) <=> Has(given, d)
  BY <1>1 DEF Known
<1>3. Led'
  BY <1>1, <1>2, LedOn DEF Leading
<1>4. \A d : Has(given', d) <=> Has(given, d) \/ d = next_file
  BY <1>1, HasAlso
<1>5. \A d \in Pathname : Known(d) => Known(d)'
  BY <1>2, <1>4 DEF Known
<1> QED BY <1>1, <1>3, <1>5, LeadingOn

(* What the engine finds: the directories above it are known before, and     *)
(* they stay in mind.                                                       *)
LEMMA FilterLeading ==
    ASSUME Typed, Calm, Ordered, Near, Still, Leading, EngineFilter, ~rooted, changes = 0
    PROVE  Leading'
<1>0. PICK p : p = current_path
  OBVIOUS
<1>1. /\ UNCHANGED <<path, engine, stack, status, done, given, current_dir>>
      /\ call = "true" /\ call' = "none" /\ engine
      /\ p \in Pathname /\ p # Null /\ next_dir \in Pathname /\ path \in Pathname
      /\ looking /\ next_file = Null /\ current_dir = Null /\ ~done
  BY <1>0 DEF EngineFilter, settingVars, Typed, Calm
<1>2. p \in Tree
  BY <1>0, <1>1 DEF Still
<1>3. PICK isDir \in BOOLEAN :
          /\ isDir = (p \in dirs)
          /\ next_dir' = DirectoryOf(p, isDir)
          /\ next_file' = p \/ next_file' = next_file
  <2>1. IsDirectory(p) = {p \in dirs}
    BY <1>2 DEF IsDirectory
  <2>2. PICK isDir \in IsDirectory(p) :
          /\ next_dir' = DirectoryOf(p, isDir)
          /\ next_file' = p \/ next_file' = next_file
    <3>1. \E isDir \in IsDirectory(p) :
            /\ next_dir' = DirectoryOf(p, isDir)
            /\ IF ~isDir /\ p \in pattern.glob THEN next_file' = p /\ looking' = FALSE
               ELSE UNCHANGED <<next_file, looking>>
      BY <1>0 DEF EngineFilter
    <3> QED BY <3>1
  <2>3. isDir = (p \in dirs) /\ isDir \in BOOLEAN
    BY <2>1, <2>2
  <2> QED BY <2>2, <2>3
<1>15. next_dir' = IF isDir THEN p ELSE IF StringPrefix(next_dir, p) THEN next_dir ELSE Front(p)
  BY <1>3 DEF DirectoryOf
<1>4. ASSUME NEW d \in Pathname, Above(d, p), Known(d) PROVE Known(d)'
  <2>1. d # p
    BY <1>1, <1>4 DEF Above, Pathname
  <2>2. Has(given, d) \/ (next_dir # Null /\ (d = next_dir \/ Above(d, next_dir)))
    BY <1>0, <1>4, <2>1 DEF Known
  <2>3. CASE Has(given, d)
    BY <1>1, <2>3 DEF Known
  <2>4. CASE isDir
    BY <1>1, <1>15, <1>4, <2>4 DEF Known
  <2>5. CASE ~isDir /\ StringPrefix(next_dir, p)
    BY <1>1, <1>15, <2>2, <2>5 DEF Known
  <2>6. CASE ~isDir /\ ~StringPrefix(next_dir, p)
    <3>1. next_dir' = Front(p) /\ Front(p) = SubSeq(p, 1, Len(p) - 1)
      BY <1>15, <2>6 DEF Front
    <3>2. Len(p) \in Nat /\ Len(d) \in Nat /\ Len(d) # 0 /\ Len(d) <= Len(p) - 1
      BY <1>1, <1>4 DEF Above, Pathname
    <3>3. Len(p) - 1 \in 0 .. Len(p)
      BY <3>2
    <3>4. /\ next_dir' \in Pathname /\ Len(next_dir') = Len(p) - 1
          /\ \A k \in 1 .. Len(p) - 1 : next_dir'[k] = p[k]
      BY <1>1, <3>1, <3>3, FirstNames
    <3>5. next_dir' # Null
      <4>1. Len(next_dir') # 0
        BY <3>2, <3>4
      <4> QED BY <4>1 DEF Null
    <3>6. d = next_dir' \/ Above(d, next_dir')
      <4>1. Above(next_dir', p)
        BY <3>2, <3>4, <3>5 DEF Above, Null
      <4> QED BY <1>1, <1>4, <3>2, <3>4, <4>1, BothAbove
    <3> QED BY <1>1, <3>5, <3>6 DEF Known
  <2> QED BY <2>3, <2>4, <2>5, <2>6
<1>5. p \in dirs => Known(p)'
  BY <1>1, <1>3, <1>15 DEF Known
<1>6. \A d, q : Leads(d, q)' <=> Leads(d, q)
  BY <1>1 DEF Leads
<1>7. Led'
  BY <1>1, LedSame DEF Leading
<1>8. ASSUME NEW w \in Pathname, NEW d \in Pathname, Waits(w, path, stack), Leads(d, w)
      PROVE  Known(d)'
  <2>1. Known(d)
    BY <1>1, <1>8 DEF Leading
  <2>2. Above(d, w) /\ w \in Tree
    BY <1>8 DEF Leads, Still
  <2>3. d = p \/ Above(d, p)
    BY <1>0, <1>1, <1>8, <2>2 DEF Near
  <2>4. d \in dirs
    BY <2>2 DEF Still
  <2> QED BY <1>4, <1>5, <2>1, <2>3, <2>4
<1>9. ASSUME NEW d \in Pathname, Leads(d, p) PROVE Known(d)'
  <2>1. Known(d) /\ Above(d, p)
    BY <1>0, <1>1, <1>9 DEF Leading, Leads
  <2> QED BY <1>4, <2>1
<1>10. (engine /\ next_file # Null)' => \A d \in Pathname : Leads(d, next_file)' => Known(d)'
  BY <1>1, <1>3, <1>6, <1>9
<1>11. ASSUME status = "has_next", stack = <<>>, NEW d \in Pathname, d = path \/ (engine /\ Above(d, path))
       PROVE  Known(d)'
  <2>1. p = path /\ path \in dirs
    <3>1. Passed(p)
      BY <1>0, <1>1 DEF Passed, InHand
    <3> QED BY <1>1, <1>11, <3>1 DEF Ordered, Still
  <2>2. next_dir' = path
    BY <1>3, <1>15, <2>1
  <2> QED BY <1>1, <1>11, <2>1, <2>2 DEF Known
<1>12. (~done)' => \A w, d \in Pathname : Waits(w, path, stack)' /\ Leads(d, w)' => Known(d)'
  BY <1>1, <1>6, <1>8
<1>13. (status = "has_next" /\ stack = <<>>)' =>
          \A d \in Pathname : d = path' \/ (engine' /\ Above(d, path')) =>
              Known(d)' \/ (call = "true" /\ current_path = path)'
  BY <1>1, <1>11
<1>14. (call # "true")' /\ ~(engine /\ current_dir # Null)'
  BY <1>1
<1> QED BY <1>7, <1>10, <1>12, <1>13, <1>14, Zenon DEF Leading

LEMMA StepLeading ==
    ASSUME Typed, Calm, Ordered, Near, Still, Undisturbed => Leading, [Next]_vars
    PROVE  (Undisturbed => Leading)'
<1> SUFFICES ASSUME Undisturbed' PROVE Leading'
  OBVIOUS
<1>1. CASE HasNext
  <2>1. /\ UNCHANGED <<path, engine, stack, status, done, given, current_dir, next_dir, next_file>>
        /\ UNCHANGED <<changes, rooted>> /\ call = "none" /\ call' = "open"
    BY <1>1 DEF HasNext, Call, settingVars, diskVars
  <2>2. Leading
    BY <2>1 DEF Undisturbed
  <2>3. Led'
    BY <2>1, <2>2, LedSame DEF Leading
  <2>4. \A d \in Pathname : Known(d) => Known(d)'
    BY <2>1 DEF Known
  <2>5. engine /\ current_dir' # Null =>
           /\ Above(current_dir', next_dir')
           /\ \A d \in Pathname : d = current_dir' \/ Above(d, current_dir') => Has(given', d)
    BY <2>1, <2>2 DEF Leading
  <2> QED BY <2>1, <2>2, <2>3, <2>4, <2>5, LeadingOn
<1>2. CASE WalkStep /\ UNCHANGED includeVars
  <2>1. UNCHANGED <<changes, rooted, engine>>
    BY <1>2, WalkMoves DEF diskVars, settingVars, includeVars
  <2> QED BY <1>2, <2>1, WalkLeading DEF Undisturbed
<1>3. CASE WalkNext
  <2>1. /\ UNCHANGED <<path, engine, stack, status, current_path, next_dir, next_file, current_dir>>
        /\ call' = "none" /\ ~engine
        /\ IF call = "true" THEN given' = Append(given, current_path) /\ done' = done
           ELSE given' = given /\ done' = TRUE
    BY <1>3 DEF WalkNext, settingVars
  <2>2. Leading
    BY <2>1 DEF Undisturbed
  <2>3. CASE call = "true"
    <3>1. given \in Seq(Pathname) /\ current_path \in Pathname
      BY DEF Typed
    <3>2. \A d : Has(given', d) <=> Has(given, d) \/ d = current_path
      <4>1. given' = Append(given, current_path)
        BY <2>1, <2>3
      <4>2. \A d : Has(Append(given, current_path), d) <=> Has(given, d) \/ d = current_path
        BY <3>1, HasAlso
      <4> QED BY <4>1, <4>2, Zenon
    <3>3. \A d \in Pathname : Known(d) => Known(d)'
      BY <2>1, <3>2 DEF Known
    <3>4. ASSUME NEW d \in Pathname, Leads(d, current_path) PROVE Has(given, d)
      <4>1. Known(d)
        BY <2>2, <2>3, <3>4 DEF Leading
      <4>2. d # current_path
        BY <3>1, <3>4 DEF Leads, Above, Pathname
      <4> QED BY <2>1, <4>1, <4>2 DEF Known
    <3>5. Led'
      BY <2>1, <2>2, <2>3, <3>1, <3>4, LedOn DEF Leading
    <3>6. ASSUME status = "has_next", stack = <<>>, NEW d \in Pathname, d = path \/ (engine /\ Above(d, path))
          PROVE  Known(d)'
      <4>1. d = path /\ (Known(d) \/ current_path = path)
        BY <2>1, <2>2, <3>6 DEF Leading
      <4> QED BY <3>2, <3>3, <4>1 DEF Known
    <3> QED BY <2>1, <2>2, <2>3, <3>3, <3>5, <3>6, LeadingOn
  <2>4. CASE call # "true"
    <3>1. Led'
      BY <2>1, <2>2, <2>4, LedSame DEF Leading
    <3>2. \A d \in Pathname : Known(d) => Known(d)'
      BY <2>1, <2>4 DEF Known
    <3> QED BY <2>1, <2>2, <2>4, <3>1, <3>2, LeadingOn
  <2> QED BY <2>3, <2>4
<1>4. CASE EngineFilter
  <2>1. UNCHANGED <<changes, rooted, engine>> /\ engine
    BY <1>4 DEF EngineFilter, settingVars, diskVars
  <2> QED BY <1>4, <2>1, FilterLeading DEF Undisturbed
<1>5. CASE EngineEnd
  <2>1. /\ UNCHANGED <<path, engine, stack, status, given, changes, rooted>>
        /\ call = "false" /\ call' = "none" /\ done' = TRUE
        /\ current_dir' = Null /\ next_file' = Null
    BY <1>5 DEF EngineEnd, settingVars, diskVars
  <2>2. Leading
    BY <2>1 DEF Undisturbed
  <2>3. Led'
    BY <2>1, <2>2, LedSame DEF Leading
  <2>4. status' # "has_next"
    BY <2>1 DEF Calm
  <2> QED BY <2>1, <2>3, <2>4 DEF Leading
<1>6. CASE EngineNext
  <2>1. UNCHANGED <<changes, rooted, engine>>
    BY <1>6 DEF EngineNext, walkVars, diskVars
  <2> QED BY <1>6, <2>1, GivesDirectory, GivesFile DEF Undisturbed
<1>7. CASE Change /\ UNCHANGED <<walkVars, includeVars>>
  <2>1. /\ UNCHANGED <<path, engine, stack, status, current_path, call, rooted>>
        /\ UNCHANGED <<given, done, next_dir, next_file, current_dir>>
        /\ changes' # 0
    BY <1>7 DEF Change, Typed, walkVars, includeVars
  <2>2. Leading
    BY <2>1 DEF Undisturbed
  <2>3. Led' /\ \A d : Known(d)' <=> Known(d)
    BY <2>1, <2>2, LedSame DEF Leading, Known
  <2> QED BY <2>1, <2>2, <2>3 DEF Leading, Leads
<1>8. CASE UNCHANGED vars
  <2>1. /\ UNCHANGED <<path, engine, stack, status, current_path, call, rooted, changes>>
        /\ UNCHANGED <<given, done, next_dir, next_file, current_dir>>
    BY <1>8 DEF vars, diskVars, walkVars, includeVars
  <2>2. Leading
    BY <2>1 DEF Undisturbed
  <2>3. Led' /\ \A d : Known(d)' <=> Known(d)
    BY <2>1, <2>2, LedSame DEF Leading, Known
  <2> QED BY <2>1, <2>2, <2>3 DEF Leading, Leads
<1> QED BY <1>1, <1>2, <1>3, <1>4, <1>5, <1>6, <1>7, <1>8, Steps

LEMMA LeadingIsFirst == Typed /\ (Undisturbed => Leading) => DirectoryFirst
<1> SUFFICES ASSUME Typed, Leading,
                    NEW i \in DOMAIN given, NEW n \in 1 .. Len(given[i]) - 1
             PROVE  \/ n < Len(path) /\ (engine => given[i] = path)
                    \/ \E j \in 1 .. i - 1 : given[j] = SubSeq(given[i], 1, n)
  BY DEF DirectoryFirst, Undisturbed
<1> DEFINE d == SubSeq(given[i], 1, n)
<1>1. i \in 1 .. Len(given) /\ given[i] \in Pathname
  BY DEF Typed
<1>2. n \in 0 .. Len(given[i]) /\ n \in Nat /\ n # 0 /\ n < Len(given[i])
  BY <1>1 DEF Pathname
<1>3. d \in Pathname /\ Len(d) = n /\ \A k \in 1 .. n : d[k] = given[i][k]
  BY <1>1, <1>2, FirstNames
<1> HIDE DEF d
<1>4. Above(d, given[i])
  BY <1>2, <1>3 DEF Above
<1>5. CASE Leads(d, given[i])
  BY <1>1, <1>3, <1>5 DEF Leading, Led, d
<1>6. CASE ~Leads(d, given[i])
  <2>1. IF engine THEN given[i] = path ELSE Len(path) > n
    BY <1>2, <1>3, <1>4, <1>6 DEF Leads, Typed, Pathname
  <2>2. given[i] = path => n < Len(path)
    BY <1>2
  <2>3. Len(path) > n => n < Len(path)
    BY <1>2 DEF Typed, Pathname
  <2> QED BY <2>1, <2>2, <2>3
<1> QED BY <1>5, <1>6

(* When nobody changes the tree, what an engine gives out is in directories  *)
(* that were given out before it; of a walk this holds even while the tree  *)
(* changes (has_next of default_pattern.c, next of the engines' include.c). *)
THEOREM DirectoriesLead == Spec => []DirectoryFirst
<1> DEFINE IInv == Typed /\ Calm /\ Ordered /\ Near /\ Still /\ (Undisturbed => Leading)
<1>1. Init => IInv
  BY InitTyped, InitCalm, InitOrdered, InitNear, InitStill, InitLeading
<1>2. IInv /\ [Next]_vars => IInv'
  BY StepTyped, StepCalm, StepOrdered, StepNear, StepStill, StepLeading
<1>3. IInv => DirectoryFirst
  BY LeadingIsFirst
<1> QED BY <1>1, <1>2, <1>3, PTL DEF Spec

----------------------------------------------------------------------------
(* All of it. *)

Quiet == changes = 0 /\ Documented /\ (engine => ~rooted)

(* What an include is to give out. *)
Wanted == IF engine THEN Kept \cap files \cap pattern.glob ELSE Kept

(* What the walk has to do is not excluded so far, and it does not end       *)
(* before it has done it.                                                   *)
Clean ==
    changes = 0 /\ Documented =>
        /\ dirs \cap files = {}
        /\ status = "finished" => stack = <<>>
        /\ status = "has_next" => ~Excluded(path)
        /\ stack # <<>> => recursion
        /\ \A w, d \in Pathname :
              Waits(w, path, stack) /\ Above(d, w) /\ Len(path) <= Len(d) => ~Excluded(d)
        /\ call = "true" => current_path \in Kept

(* What is given out, or will be, is wanted, or a directory of an engine. *)
Sound ==
    Quiet =>
        /\ \A p \in Pathname : Has(given, p) => p \in Wanted \/ (engine /\ p \in dirs)
        /\ next_file # Null => next_file \in Wanted
        /\ next_dir # Null => engine /\ next_dir \in dirs

(* Where a path that is wanted is: given out, in hand, or still to come. *)
Found(p) ==
    \/ Has(given, p) \/ InHand(p)
    \/ status \in {"init", "crashed"}
    \/ status = "has_next" /\ stack = <<>> /\ p # path
    \/ \E w \in Pathname : Waits(w, path, stack) /\ (w = p \/ Above(w, p))

Complete == Quiet => \A p \in Wanted : Found(p)

LEMMA TreePaths == ASSUME Typed PROVE Tree \subseteq Pathname /\ dirs \subseteq Tree /\ files \subseteq Tree
BY WalkAssumption DEF Typed, Tree, Pathname

LEMMA WholePath == ASSUME NEW p \in Pathname PROVE SubSeq(p, 1, Len(p)) = p
<1>1. Len(p) \in 0 .. Len(p)
  BY DEF Pathname
<1>2. /\ SubSeq(p, 1, Len(p)) \in Pathname /\ Len(SubSeq(p, 1, Len(p))) = Len(p)
      /\ \A k \in 1 .. Len(p) : SubSeq(p, 1, Len(p))[k] = p[k]
  BY <1>1, FirstNames
<1> QED BY <1>2, SameNames

LEMMA AboveIsFirst ==
    ASSUME NEW p \in Pathname, NEW d \in Pathname, Above(d, p)
    PROVE  d = SubSeq(p, 1, Len(d)) /\ Len(d) \in 1 .. Len(p) - 1
<1>1. Len(d) \in Nat /\ Len(p) \in Nat /\ Len(d) # 0
  BY DEF Pathname, Above
<1>2. Len(d) < Len(p) /\ Len(d) \in 0 .. Len(p)
  BY <1>1 DEF Above
<1>3. /\ SubSeq(p, 1, Len(d)) \in Pathname /\ Len(SubSeq(p, 1, Len(d))) = Len(d)
      /\ \A k \in 1 .. Len(d) : SubSeq(p, 1, Len(d))[k] = p[k]
  BY <1>2, FirstNames
<1>4. \A k \in 1 .. Len(d) : d[k] = SubSeq(p, 1, Len(d))[k]
  BY <1>3 DEF Above
<1>5. d = SubSeq(p, 1, Len(d))
  BY <1>3, <1>4, SameNames
<1> QED BY <1>1, <1>2, <1>5

LEMMA FirstIsAbove ==
    ASSUME NEW p \in Pathname, NEW n \in 1 .. Len(p) - 1
    PROVE  /\ SubSeq(p, 1, n) \in Pathname /\ Len(SubSeq(p, 1, n)) = n
           /\ Above(SubSeq(p, 1, n), p)
<1>1. n \in 0 .. Len(p) /\ n # 0 /\ n < Len(p)
  BY DEF Pathname
<1>2. /\ SubSeq(p, 1, n) \in Pathname /\ Len(SubSeq(p, 1, n)) = n
      /\ \A k \in 1 .. n : SubSeq(p, 1, n)[k] = p[k]
  BY <1>1, FirstNames
<1>3. SubSeq(p, 1, n) # <<>>
  <2>1. Len(SubSeq(p, 1, n)) # 0
    BY <1>1, <1>2
  <2> QED BY <2>1
<1> QED BY <1>1, <1>2, <1>3 DEF Above

LEMMA FrontAbove ==
    ASSUME NEW p \in Pathname, Front(p) # Null
    PROVE  Front(p) \in Pathname /\ Above(Front(p), p)
<1>1. Len(p) \in Nat
  BY DEF Pathname
<1>2. CASE Len(p) > 1
  <2>1. Len(p) - 1 \in 1 .. Len(p) - 1
    BY <1>1, <1>2
  <2> QED BY <2>1, FirstIsAbove DEF Front
<1>3. CASE Len(p) = 1
  <2>1. 0 \in 0 .. Len(p) /\ Len(p) - 1 = 0
    BY <1>3
  <2>2. SubSeq(p, 1, 0) \in Pathname /\ Len(SubSeq(p, 1, 0)) = 0
    BY <2>1, FirstNames
  <2>3. SubSeq(p, 1, 0) = <<>>
    BY <2>2 DEF Pathname
  <2> QED BY <2>1, <2>3 DEF Front, Null
<1>4. CASE Len(p) = 0
  <2>1. p = <<>>
    BY <1>4 DEF Pathname
  <2>2. Front(p) = <<>>
    BY <2>1 DEF Front
  <2> QED BY <2>2 DEF Null
<1> QED BY <1>1, <1>2, <1>3, <1>4

(* What is to be archived, by the directories above it. *)
LEMMA KeptIs ==
    ASSUME Typed, NEW p \in Pathname
    PROVE  p \in Kept <=>
              /\ p \in Tree /\ (p = path \/ Above(path, p)) /\ (recursion \/ p = path) /\ ~Excluded(p)
              /\ \A d \in Pathname : Above(d, p) /\ Len(path) <= Len(d) => ~Excluded(d)
<1>1. path \in Pathname /\ path # <<>> /\ Len(path) \in Nat /\ Len(path) # 0 /\ Len(p) \in Nat
  BY DEF Typed, Pathname
<1>2. SubSeq(path, 1, Len(path)) = path /\ SubSeq(p, 1, Len(p)) = p
  BY <1>1, WholePath
<1>3. ASSUME NEW d \in Pathname, Above(d, p)
      PROVE  d = SubSeq(p, 1, Len(d)) /\ Len(d) \in 1 .. Len(p) - 1
  BY <1>3, AboveIsFirst
<1>4. ASSUME NEW n \in 1 .. Len(p) - 1
      PROVE  /\ SubSeq(p, 1, n) \in Pathname /\ Len(SubSeq(p, 1, n)) = n
             /\ Above(SubSeq(p, 1, n), p)
  BY <1>4, FirstIsAbove
<1>5. IsPrefix(path, p) <=> p = path \/ Above(path, p)
  <2>1. IsPrefix(path, p) <=> Len(path) <= Len(p) /\ path = SubSeq(p, 1, Len(path))
    BY <1>2 DEF IsPrefix
  <2>2. CASE Len(path) = Len(p)
    <3>1. IsPrefix(path, p) <=> path = p
      BY <1>1, <1>2, <2>1, <2>2
    <3>2. ~Above(path, p)
      BY <1>1, <2>2 DEF Above
    <3> QED BY <3>1, <3>2
  <2>3. CASE Len(path) < Len(p)
    <3>1. Len(path) \in 1 .. Len(p) - 1
      BY <1>1, <2>3
    <3>2. p # path
      BY <2>3, <1>1
    <3>3. Above(SubSeq(p, 1, Len(path)), p)
      BY <1>4, <3>1
    <3>4. Above(path, p) => path = SubSeq(p, 1, Len(path))
      BY <1>1, <1>3
    <3>5. IsPrefix(path, p) => Above(path, p)
      BY <2>1, <3>3, Zenon
    <3>6. Above(path, p) => IsPrefix(path, p)
      BY <1>1, <2>1, <2>3, <3>4
    <3> QED BY <3>2, <3>5, <3>6
  <2>4. CASE Len(path) > Len(p)
    <3>1. p # path /\ ~Above(path, p)
      BY <1>1, <2>4 DEF Above
    <3> QED BY <1>1, <2>1, <2>4, <3>1
  <2> QED BY <1>1, <2>2, <2>3, <2>4
<1>6. ASSUME p = path \/ Above(path, p)
      PROVE  (\A n \in Len(path) .. Len(p) : ~Excluded(SubSeq(p, 1, n))) <=>
                /\ ~Excluded(p)
                /\ \A d \in Pathname : Above(d, p) /\ Len(path) <= Len(d) => ~Excluded(d)
  <2>1. Len(path) <= Len(p)
    BY <1>1, <1>6 DEF Above
  <2>2. ASSUME \A n \in Len(path) .. Len(p) : ~Excluded(SubSeq(p, 1, n))
        PROVE  /\ ~Excluded(p)
               /\ \A d \in Pathname : Above(d, p) /\ Len(path) <= Len(d) => ~Excluded(d)
    <3>1. ~Excluded(p)
      <4>1. Len(p) \in Len(path) .. Len(p)
        BY <1>1, <2>1
      <4>2. ~Excluded(SubSeq(p, 1, Len(p)))
        BY <2>2, <4>1
      <4> QED BY <1>2, <4>2
    <3>2. ASSUME NEW d \in Pathname, Above(d, p), Len(path) <= Len(d) PROVE ~Excluded(d)
      <4>1. Len(d) \in Len(path) .. Len(p) /\ d = SubSeq(p, 1, Len(d))
        BY <1>1, <1>3, <3>2
      <4>2. ~Excluded(SubSeq(p, 1, Len(d)))
        BY <2>2, <4>1
      <4> QED BY <4>1, <4>2
    <3> QED BY <3>1, <3>2
  <2>3. ASSUME ~Excluded(p),
               \A d \in Pathname : Above(d, p) /\ Len(path) <= Len(d) => ~Excluded(d),
               NEW n \in Len(path) .. Len(p)
        PROVE  ~Excluded(SubSeq(p, 1, n))
    <3>1. CASE n = Len(p)
      BY <1>2, <2>3, <3>1
    <3>2. CASE n # Len(p)
      <4>1. n \in 1 .. Len(p) - 1
        BY <1>1, <3>2
      <4>2. /\ SubSeq(p, 1, n) \in Pathname /\ Len(SubSeq(p, 1, n)) = n
            /\ Above(SubSeq(p, 1, n), p)
        BY <1>4, <4>1
      <4>3. Len(path) <= Len(SubSeq(p, 1, n))
        BY <1>1, <4>2
      <4> QED BY <2>3, <4>2, <4>3
    <3> QED BY <3>1, <3>2
  <2> QED BY <2>2, <2>3
<1> QED BY <1>5, <1>6 DEF Kept

LEMMA KeptSame ==
    ASSUME UNCHANGED <<diskVars, settingVars>>
    PROVE  Kept' = Kept /\ (\A p : Excluded(p)' <=> Excluded(p)) /\ Documented' = Documented
<1>1. UNCHANGED <<dirs, files, option, path, recursion, Tree>>
  BY DEF diskVars, settingVars, Tree
<1>2. \A p : Excluded(p)' <=> Excluded(p)
  BY <1>1 DEF Excluded, Gives, PcreExclude
<1>3. Documented' = Documented
  BY <1>1 DEF Documented
<1>4. Kept' = Kept
  BY <1>1, <1>2 DEF Kept
<1> QED BY <1>2, <1>3, <1>4

(* What the help says is excluded is what the code excludes, but for tags   *)
(* and anchored excludes of fnmatch.                                        *)
LEMMA MatchesIs == ASSUME Documented, NEW p PROVE Matches(p) = {Excluded(p)}
<1>1. ASSUME NEW ex \in option.excludes
      PROVE  (IF ex.engine = "fnmatch" THEN FnmatchExclude(ex, p) ELSE PcreExclude(ex, p)) <=> Gives(ex, p)
  BY DEF Documented, Gives, FnmatchExclude
<1>2. Selected(p) <=> Excluded(p)
  BY <1>1 DEF Selected, Excluded
<1>3. option.tags = {}
  BY DEF Documented
<1>4. CASE Excluded(p)
  BY <1>2, <1>4 DEF Matches
<1>5. CASE ~Excluded(p)
  <2>1. Matches(p) = {FALSE}
    BY <1>2, <1>3, <1>5 DEF Matches
  <2>2. Excluded(p) \in BOOLEAN
    BY DEF Excluded
  <2> QED BY <1>5, <2>1, <2>2
<1> QED BY <1>4, <1>5

(* A directory above a path that is there has an entry on the way to it. *)
LEMMA OnTheWay ==
    ASSUME Typed, Still, changes = 0,
           NEW e \in Pathname, NEW p \in Tree, Above(e, p)
    PROVE  /\ e \in dirs
           /\ \E c \in Pathname \cap Tree : In(e, c) /\ (c = p \/ Above(c, p))
<1>1. p \in Pathname /\ Len(p) \in Nat /\ Len(e) \in Nat
  BY TreePaths DEF Pathname
<1>2. e \in dirs
  BY DEF Still
<1> DEFINE c == SubSeq(p, 1, Len(e) + 1)
<1>3. Len(e) + 1 \in 0 .. Len(p)
  BY <1>1 DEF Above
<1>4. /\ c \in Pathname /\ Len(c) = Len(e) + 1
      /\ \A k \in 1 .. Len(e) + 1 : c[k] = p[k]
  BY <1>1, <1>3, FirstNames
<1> HIDE DEF c
<1>5. In(e, c)
  BY <1>1, <1>4 DEF In, Above
<1>6. c = p \/ Above(c, p)
  <2>1. CASE Len(p) = Len(e) + 1
    BY <1>1, <1>4, <2>1, SameNames
  <2>2. CASE Len(p) # Len(e) + 1
    <3>1. c # <<>>
      BY <1>1, <1>4
    <3> QED BY <1>1, <1>3, <1>4, <2>2, <3>1 DEF Above
  <2> QED BY <2>1, <2>2
<1>7. c \in Tree
  BY <1>4, <1>6, TreePaths DEF Still
<1> QED BY <1>2, <1>4, <1>5, <1>6, <1>7

LEMMA InitClean == Init => Clean
<1> SUFFICES ASSUME Init PROVE Clean
  OBVIOUS
<1>1. stack = <<>> /\ call = "none" /\ status \notin {"has_next", "finished"}
  BY DEF Init, GetInclude, WalkNew
<1>2. \A p : ~Waits(p, path, stack)
  BY <1>1, EmptyStack DEF NothingWaits
<1>3. dirs \cap files = {}
  BY DEF Init, DiskInit
<1> QED BY <1>1, <1>2, <1>3 DEF Clean

LEMMA PathKept ==
    ASSUME Typed, path \in Tree, ~Excluded(path)
    PROVE  path \in Kept
<1>1. path \in Pathname /\ Len(path) \in Nat
  BY DEF Typed, Pathname
<1>2. \A d \in Pathname : ~(Above(d, path) /\ Len(path) <= Len(d))
  BY <1>1 DEF Above, Pathname
<1> QED BY <1>1, <1>2, KeptIs

LEMMA EntryKept ==
    ASSUME Typed, Clean, changes = 0, Documented, stack # <<>>, Entry \in Tree, ~Excluded(Entry)
    PROVE  Entry \in Kept /\ Above(path, Entry)
<1>1. Entry \in Pathname /\ path \in Pathname
  BY EntryNotNull DEF Typed
<1>2. Waits(Entry, path, stack)
  BY <1>1, EntryWaits, EntryIs DEF Typed
<1>3. Above(path, Entry) /\ recursion
  BY <1>1, <1>2, AboveWaiting DEF Clean
<1>4. \A d \in Pathname : Above(d, Entry) /\ Len(path) <= Len(d) => ~Excluded(d)
  BY <1>1, <1>2 DEF Clean
<1> QED BY <1>1, <1>3, <1>4, KeptIs

LEMMA WalkClean ==
    ASSUME Typed, Calm, Still, Clean, WalkStep, changes = 0, Documented
    PROVE  Clean'
<1>0. /\ TRUE \in Matches(path) => Excluded(path)
      /\ FALSE \in Matches(path) => ~Excluded(path)
      /\ FALSE \in Matches(Entry) => ~Excluded(Entry)
  BY MatchesIs
<1>1. /\ call = "open" /\ UNCHANGED <<diskVars, settingVars>> /\ UNCHANGED <<dirs, files, path, recursion>>
      /\ WalkEnds \/ WalkStarts \/ WalkOpens \/ WalkDescends \/ WalkGives \/ WalkPasses
  BY WalkMoves DEF diskVars, settingVars
<1>2. Kept' = Kept /\ \A p : Excluded(p)' <=> Excluded(p)
  BY <1>1, KeptSame
<1>3. Entry \in Pathname /\ path \in Pathname /\ Len(path) \in Nat
  BY EntryNotNull DEF Typed, Pathname
<1>4. stack # <<>> => Waits(Entry, path, stack)
  BY <1>3, EntryWaits, EntryIs DEF Typed
<1>5. (status = "finished")' => stack' = <<>>
  <2>1. CASE WalkEnds
    <3>1. stack # <<>> => status # "has_next" \/ Entry \in Tree
      BY <1>3, <1>4 DEF Still
    <3>2. status = "init" => stack = <<>>
      BY DEF Calm
    <3> QED BY <2>1, <3>1, <3>2 DEF WalkEnds, Clean
  <2>2. CASE WalkStarts
    BY <2>2 DEF WalkStarts, Calm
  <2>3. CASE WalkOpens \/ WalkDescends
    BY <2>3 DEF WalkOpens, WalkDescends
  <2>4. CASE WalkGives \/ WalkPasses
    BY <2>4 DEF WalkGives, WalkPasses
  <2> QED BY <1>1, <2>1, <2>2, <2>3, <2>4
<1>6. (status = "has_next")' => ~Excluded(path)'
  <2>1. status' = "has_next" => status = "has_next" \/ ~Excluded(path)
    BY <1>0, <1>1 DEF WalkEnds, WalkStarts, WalkOpens, WalkDescends, WalkGives, WalkPasses
  <2>2. Excluded(path)' <=> Excluded(path)
    <3>1. PICK q : q = path
      OBVIOUS
    <3>2. q = path'
      BY <1>1, <3>1
    <3> QED BY <1>2, <3>1, <3>2
  <2> QED BY <2>1, <2>2 DEF Clean
<1>7. (stack # <<>>)' => recursion'
  <2>1. stack' # <<>> => stack # <<>> \/ recursion
    BY <1>1 DEF WalkEnds, WalkStarts, WalkOpens, WalkDescends, WalkGives, WalkPasses
  <2> QED BY <1>1, <2>1 DEF Clean
<1>8. ASSUME NEW w \in Pathname, NEW d \in Pathname, Waits(w, path, stack'), Above(d, w), Len(path) <= Len(d)
      PROVE  ~Excluded(d)
  <2>1. CASE Waits(w, path, stack)
    BY <1>8, <2>1 DEF Clean
  <2>2. CASE WalkOpens /\ In(path, w)
    <3>1. d = path \/ Above(d, path)
      BY <1>3, <1>8, <2>2, AboveIn
    <3>2. d = path
      BY <1>3, <1>8, <3>1 DEF Above, Pathname
    <3> QED BY <2>2, <3>2 DEF Clean, WalkOpens
  <2>3. CASE WalkDescends /\ In(Entry, w)
    <3>1. d = Entry \/ Above(d, Entry)
      BY <1>3, <1>8, <2>3, AboveIn
    <3>2. stack # <<>> /\ ~Excluded(Entry)
      BY <1>0, <2>3 DEF WalkDescends
    <3> QED BY <1>3, <1>4, <1>8, <3>1, <3>2 DEF Clean
  <2> QED BY <1>8, <2>1, <2>2, <2>3, WaitsChange
<1>9. (call = "true")' => current_path' \in Kept
  <2>1. CASE WalkStarts
    <3>1. path \in Kept
      BY <1>0, <2>1, PathKept DEF WalkStarts
    <3> QED BY <2>1, <3>1 DEF WalkStarts
  <2>2. CASE WalkDescends \/ WalkGives
    <3>1. stack # <<>> /\ Entry \in Tree /\ ~Excluded(Entry) /\ current_path' = Entry
      BY <1>0, <2>2 DEF WalkDescends, WalkGives
    <3> QED BY <3>1, EntryKept
  <2>3. CASE WalkEnds \/ WalkOpens \/ WalkPasses
    BY <1>1, <2>3 DEF WalkEnds, WalkOpens, WalkPasses
  <2> QED BY <1>1, <2>1, <2>2, <2>3
<1>10. (dirs \cap files = {})'
  BY <1>1 DEF Clean
<1>11. \A w, d \in Pathname :
          Waits(w, path, stack)' /\ Above(d, w) /\ Len(path') <= Len(d) => ~Excluded(d)'
  BY <1>1, <1>2, <1>8
<1>12. (call = "true" => current_path \in Kept)'
  BY <1>2, <1>9
<1> QED BY <1>5, <1>6, <1>7, <1>10, <1>11, <1>12, Zenon DEF Clean

LEMMA CleanSame ==
    ASSUME Clean, UNCHANGED <<diskVars, settingVars, stack, status>>,
           call' # "true" \/ (call' = call /\ current_path' = current_path)
    PROVE  Clean'
<1>1. UNCHANGED <<dirs, files, changes, path, recursion, stack, status>>
  BY DEF diskVars, settingVars
<1>2. Kept' = Kept /\ (\A p : Excluded(p)' <=> Excluded(p)) /\ Documented' = Documented
  BY KeptSame
<1>3. (changes = 0 /\ Documented)' =>
          /\ (dirs \cap files = {})' /\ (status = "finished" => stack = <<>>)'
          /\ (status = "has_next" => ~Excluded(path))' /\ (stack # <<>> => recursion)'
  BY <1>1, <1>2 DEF Clean
<1>4. (changes = 0 /\ Documented)' => \A w, d \in Pathname :
          Waits(w, path, stack)' /\ Above(d, w) /\ Len(path') <= Len(d) => ~Excluded(d)'
  BY <1>1, <1>2 DEF Clean
<1>5. (changes = 0 /\ Documented)' => (call = "true" => current_path \in Kept)'
  BY <1>1, <1>2 DEF Clean
<1> QED BY <1>3, <1>4, <1>5, Zenon DEF Clean

LEMMA StepClean == Typed /\ Calm /\ Still /\ Clean /\ [Next]_vars => Clean'
<1> SUFFICES ASSUME Typed, Calm, Still, Clean, [Next]_vars PROVE Clean'
  OBVIOUS
<1>1. CASE HasNext
  <2>1. UNCHANGED <<diskVars, settingVars, stack, status>> /\ call' # "true"
    BY <1>1 DEF HasNext, Call
  <2> QED BY <2>1, CleanSame
<1>2. CASE WalkStep /\ UNCHANGED includeVars
  <2>1. changes' = changes /\ Documented' = Documented
    BY <1>2, WalkMoves, KeptSame DEF diskVars
  <2>2. CASE changes = 0 /\ Documented
    BY <1>2, <2>2, WalkClean
  <2>3. CASE ~(changes = 0 /\ Documented)
    BY <2>1, <2>3 DEF Clean
  <2> QED BY <2>2, <2>3
<1>3. CASE WalkNext \/ EngineFilter \/ EngineEnd
  <2>1. UNCHANGED <<diskVars, settingVars, stack, status>> /\ call' # "true"
    BY <1>3 DEF WalkNext, EngineFilter, EngineEnd
  <2> QED BY <2>1, CleanSame
<1>4. CASE Change /\ UNCHANGED <<walkVars, includeVars>>
  <2>1. changes' # 0
    BY <1>4 DEF Change, Typed
  <2> QED BY <2>1 DEF Clean
<1>5. CASE EngineNext \/ UNCHANGED vars
  <2>1. UNCHANGED <<diskVars, settingVars, stack, status, call, current_path>>
    BY <1>5 DEF EngineNext, vars, walkVars, settingVars
  <2> QED BY <2>1, CleanSame
<1> QED BY <1>1, <1>2, <1>3, <1>4, <1>5, Steps

LEMMA WantedSame ==
    ASSUME UNCHANGED <<diskVars, settingVars, pattern, engine>>
    PROVE  Wanted' = Wanted
<1>1. Kept' = Kept
  BY KeptSame
<1> QED BY <1>1 DEF Wanted, diskVars

LEMMA InitSound == Init => Sound
<1> SUFFICES ASSUME Init PROVE Sound
  OBVIOUS
<1>1. given = <<>> /\ Len(<<>>) = 0 /\ next_file = Null /\ next_dir = Null
  BY DEF Init
<1> QED BY <1>1 DEF Sound, Has

LEMMA SoundSame ==
    ASSUME Sound, UNCHANGED <<diskVars, settingVars, pattern, engine, given>>,
           next_file' \in {next_file, Null}, next_dir' \in {next_dir, Null}
    PROVE  Sound'
<1>1. Wanted' = Wanted /\ UNCHANGED <<changes, rooted, dirs>> /\ Documented' = Documented
  BY WantedSame, KeptSame DEF diskVars, settingVars
<1>2. Quiet' = Quiet
  BY <1>1 DEF Quiet
<1> QED BY <1>1, <1>2 DEF Sound, Null

(* What is given out next: it was wanted, or is a directory of an engine. *)
LEMMA SoundOn ==
    ASSUME Typed, Sound, Quiet, UNCHANGED <<diskVars, settingVars, pattern, engine>>,
           NEW r \in Pathname, given' = Append(given, r),
           r \in Wanted \/ (engine /\ r \in dirs),
           next_file' \in {next_file, Null}, next_dir' \in {next_dir, Null}
    PROVE  Sound'
<1>1. Wanted' = Wanted /\ UNCHANGED <<changes, rooted, dirs>> /\ Documented' = Documented
  BY WantedSame, KeptSame DEF diskVars, settingVars
<1>2. Quiet' = Quiet
  BY <1>1 DEF Quiet
<1>3. \A p : Has(given', p) <=> Has(given, p) \/ p = r
  <2>1. given \in Seq(Pathname)
    BY DEF Typed
  <2>2. \A p : Has(Append(given, r), p) <=> Has(given, p) \/ p = r
    BY <2>1, HasAlso
  <2> QED BY <2>2, Zenon
<1>4. \A p \in Pathname : Has(given, p)' => p \in Wanted' \/ (engine /\ p \in dirs)'
  BY <1>1, <1>3 DEF Sound
<1>5. (next_file # Null)' => next_file' \in Wanted'
  BY <1>1 DEF Sound, Null
<1>6. (next_dir # Null)' => engine' /\ next_dir' \in dirs'
  BY <1>1 DEF Sound, Null
<1> QED BY <1>4, <1>5, <1>6, Zenon DEF Sound

LEMMA FilterIs ==
    ASSUME Typed, Calm, Still, Clean, Quiet, EngineFilter,
           NEW p \in Pathname, p = current_path
    PROVE  /\ engine /\ call = "true" /\ call' = "none" /\ p \in Kept /\ p \in Tree
           /\ UNCHANGED <<diskVars, settingVars, stack, status, pattern, engine, given, current_path>>
           /\ UNCHANGED <<dirs, files, path>>
           /\ next_file = Null
           /\ next_file' = IF p \notin dirs /\ p \in pattern.glob THEN p ELSE Null
           /\ next_dir' = DirectoryOf(p, p \in dirs)
<1>1. /\ engine /\ call = "true" /\ call' = "none" /\ p \in Kept /\ p \in Tree
      /\ UNCHANGED <<diskVars, settingVars, stack, status, pattern, engine, given, current_path>>
      /\ next_file = Null
  BY DEF EngineFilter, Quiet, Clean, Still, Calm
<1>2. IsDirectory(p) = {p \in dirs}
  BY <1>1 DEF IsDirectory, Quiet
<1>3. PICK isDir \in IsDirectory(p) :
         /\ next_dir' = DirectoryOf(p, isDir)
         /\ IF ~isDir /\ p \in pattern.glob THEN next_file' = p /\ looking' = FALSE
            ELSE UNCHANGED <<next_file, looking>>
  BY DEF EngineFilter
<1>4. isDir = (p \in dirs)
  BY <1>2, <1>3
<1> QED BY <1>1, <1>3, <1>4 DEF diskVars, settingVars

LEMMA StepSound ==
    ASSUME Typed, Calm, Still, Clean, Sound, [Next]_vars
    PROVE  Sound'
<1>1. CASE HasNext
  BY <1>1, SoundSame DEF HasNext, Call
<1>2. CASE WalkStep /\ UNCHANGED includeVars
  BY <1>2, WalkMoves, SoundSame DEF includeVars
<1>3. CASE WalkNext
  <2>1. /\ UNCHANGED <<diskVars, settingVars, pattern, engine, next_file, next_dir, changes, rooted, option>>
        /\ ~engine
    BY <1>3 DEF WalkNext, diskVars, settingVars
  <2>2. CASE call = "true" /\ Quiet
    <3>1. current_path \in Wanted /\ current_path \in Pathname /\ given' = Append(given, current_path)
      BY <1>3, <2>1, <2>2 DEF Clean, Quiet, Wanted, WalkNext, Typed
    <3> QED BY <2>1, <2>2, <3>1, SoundOn
  <2>3. CASE call # "true"
    BY <1>3, <2>1, <2>3, SoundSame DEF WalkNext
  <2>4. CASE ~Quiet
    BY <2>1, <2>4 DEF Sound, Quiet, Documented
  <2> QED BY <2>2, <2>3, <2>4
<1>4. CASE EngineFilter
  <2>1. CASE Quiet
    <3>1. PICK p \in Pathname : p = current_path
      BY DEF Typed
    <3>2. /\ engine /\ p \in Kept /\ p \in Tree
          /\ UNCHANGED <<diskVars, settingVars, pattern, engine, given>>
          /\ UNCHANGED <<dirs, files, path>>
          /\ next_file' = IF p \notin dirs /\ p \in pattern.glob THEN p ELSE Null
          /\ next_dir' = DirectoryOf(p, p \in dirs)
      BY <1>4, <2>1, <3>1, FilterIs
    <3>3. Wanted' = Wanted
      BY <3>2, WantedSame
    <3>4. next_file' # Null => next_file' \in Wanted
      BY <3>2 DEF Wanted, Tree
    <3>5. next_dir' # Null => next_dir' \in dirs
      <4>1. CASE p \in dirs
        BY <3>2, <4>1 DEF DirectoryOf
      <4>2. CASE p \notin dirs /\ StringPrefix(next_dir, p)
        BY <2>1, <3>2, <4>2 DEF DirectoryOf, Sound
      <4>3. CASE p \notin dirs /\ ~StringPrefix(next_dir, p)
        <5>1. next_dir' = Front(p)
          BY <3>2, <4>3 DEF DirectoryOf
        <5>2. Front(p) # Null => Above(Front(p), p) /\ Front(p) \in Pathname
          BY FrontAbove
        <5> QED BY <2>1, <3>2, <5>1, <5>2 DEF Still, Quiet
      <4> QED BY <4>1, <4>2, <4>3
    <3>6. \A q \in Pathname : Has(given, q)' => q \in Wanted' \/ (engine /\ q \in dirs)'
      BY <2>1, <3>2, <3>3 DEF Sound
    <3>7. (next_file # Null => next_file \in Wanted)' /\ (next_dir # Null => engine /\ next_dir \in dirs)'
      BY <3>2, <3>3, <3>4, <3>5 DEF Null
    <3> QED BY <3>6, <3>7, Zenon DEF Sound
  <2>2. CASE ~Quiet
    BY <1>4, <2>2 DEF Sound, Quiet, Documented, EngineFilter, diskVars, settingVars
  <2> QED BY <2>1, <2>2
<1>5. CASE EngineEnd
  BY <1>5, SoundSame DEF EngineEnd
<1>6. CASE EngineNext
  <2>1. UNCHANGED <<diskVars, settingVars, pattern, engine, changes, rooted, option>> /\ engine
    BY <1>6 DEF EngineNext, diskVars, walkVars, settingVars
  <2>2. CASE ~Quiet
    BY <2>1, <2>2 DEF Sound, Quiet, Documented
  <2>3. CASE Quiet /\ next_dir # Null
    <3>1. next_dir \in dirs /\ next_dir \in Pathname /\ next_dir \in Tree
      BY <2>3 DEF Sound, Typed, Tree
    <3>2. CASE Len(next_dir) > Len(current_dir) + 1
      <4> DEFINE r == SubSeq(next_dir, 1, Len(current_dir) + 1)
      <4>1. given' = Append(given, r) /\ UNCHANGED <<next_dir, next_file>>
        BY <1>6, <2>3, <3>2 DEF EngineNext
      <4>2. Len(current_dir) + 1 \in 1 .. Len(next_dir) - 1
        <5>1. Len(current_dir) \in Nat /\ Len(next_dir) \in Nat
          BY DEF Typed, Pathname
        <5> QED BY <3>2, <5>1
      <4>3. r \in Pathname /\ Above(r, next_dir)
        BY <3>1, <4>2, FirstIsAbove
      <4>4. r \in dirs
        BY <2>3, <3>1, <4>3 DEF Still, Quiet
      <4> HIDE DEF r
      <4> QED BY <2>1, <2>3, <4>1, <4>3, <4>4, SoundOn
    <3>3. CASE ~(Len(next_dir) > Len(current_dir) + 1)
      <4>1. given' = Append(given, next_dir) /\ next_dir' = Null /\ next_file' = next_file
        BY <1>6, <2>3, <3>3 DEF EngineNext
      <4> QED BY <2>1, <2>3, <3>1, <4>1, SoundOn
    <3> QED BY <3>2, <3>3
  <2>4. CASE Quiet /\ next_dir = Null
    <3>1. /\ given' = Append(given, next_file) /\ next_file # Null
          /\ next_file' = Null /\ next_dir' = next_dir
      BY <1>6, <2>4 DEF EngineNext
    <3>2. next_file \in Wanted /\ next_file \in Pathname
      BY <2>4, <3>1 DEF Sound, Typed
    <3> QED BY <2>1, <2>4, <3>1, <3>2, SoundOn
  <2> QED BY <2>2, <2>3, <2>4
<1>7. CASE Change /\ UNCHANGED <<walkVars, includeVars>>
  <2>1. changes' # 0
    BY <1>7 DEF Change, Typed
  <2> QED BY <2>1 DEF Sound, Quiet
<1>8. CASE UNCHANGED vars
  BY <1>8, SoundSame DEF vars, walkVars, includeVars, settingVars
<1> QED BY <1>1, <1>2, <1>3, <1>4, <1>5, <1>6, <1>7, <1>8, Steps

LEMMA NothingKept ==
    ASSUME Typed, Still, changes = 0, path \notin Tree
    PROVE  Kept = {}
<1> SUFFICES ASSUME NEW p \in Kept PROVE FALSE
  OBVIOUS
<1>1. p \in Tree /\ p \in Pathname /\ path \in Pathname
  BY TreePaths DEF Kept, Typed
<1>2. p = path \/ Above(path, p)
  BY <1>1, KeptIs
<1> QED BY <1>1, <1>2, OnTheWay, TreePaths

LEMMA PathExcluded ==
    ASSUME Typed, Excluded(path)
    PROVE  Kept = {}
<1> SUFFICES ASSUME NEW p \in Kept PROVE FALSE
  OBVIOUS
<1>1. p \in Pathname /\ path \in Pathname /\ Len(path) \in Nat
  BY TreePaths DEF Kept, Typed, Pathname
<1>2. p = path \/ Above(path, p)
  BY <1>1, KeptIs
<1> QED BY <1>1, <1>2, KeptIs

(* A directory in which something is there is not read in vain. *)
LEMMA SomethingRead ==
    ASSUME Typed, Still, changes = 0, NEW e \in Pathname, NEW p \in Tree, Above(e, p)
    PROVE  Scan(e) # <<>>
<1>1. e \in dirs
  BY OnTheWay
<1>2. PICK c \in Pathname \cap Tree : In(e, c)
  BY OnTheWay
<1>3. PICK i \in DOMAIN Scan(e) : c[Len(c)] = Scan(e)[i]
  BY <1>1, <1>2, ScanIs
<1>4. DOMAIN <<>> = {}
  OBVIOUS
<1> QED BY <1>3, <1>4

LEMMA InitComplete == Init => Complete
<1> SUFFICES ASSUME Init PROVE status \in {"init", "crashed"}
  BY DEF Complete, Found
<1> QED BY DEF Init, GetInclude, WalkNew

LEMMA WalkComplete ==
    ASSUME Typed, Calm, Still, Clean, Complete, WalkStep, UNCHANGED includeVars, Quiet
    PROVE  Complete'
<1>1. /\ call = "open" /\ UNCHANGED <<diskVars, settingVars, includeVars, path, given, engine, pattern, next_file>>
      /\ WalkEnds \/ WalkStarts \/ WalkOpens \/ WalkDescends \/ WalkGives \/ WalkPasses
  BY WalkMoves DEF settingVars, includeVars
<1>2. Wanted' = Wanted
  BY <1>1, WantedSame
<1>3. Entry \in Pathname /\ path \in Pathname
  BY EntryNotNull DEF Typed
<1>4. Wanted \subseteq Kept /\ Kept \subseteq Tree /\ Tree \subseteq Pathname
  BY TreePaths DEF Wanted, Kept
<1>5. changes = 0 /\ Documented
  BY DEF Quiet
<1>0. /\ TRUE \in Matches(path) => Excluded(path)
      /\ TRUE \in Matches(Entry) => Excluded(Entry)
  BY <1>5, MatchesIs
<1> SUFFICES ASSUME NEW p \in Wanted PROVE Found(p)'
  BY <1>2 DEF Complete
<1>6. p \in Tree /\ p \in Pathname /\ p \in Kept
  BY <1>4
<1>7. Found(p)
  BY DEF Complete
<1>8. /\ Has(given, p) \/ InHand(p) => Found(p)'
      /\ call' = "true" /\ p = current_path' => Found(p)'
      /\ \A w \in Pathname : Waits(w, path, stack') /\ (w = p \/ Above(w, p)) => Found(p)'
  BY <1>1 DEF Found, InHand
<1>9. p = path \/ Above(path, p)
  BY <1>6, KeptIs
<1>10. CASE WalkStarts
  <2>1. CASE p = path
    BY <1>8, <1>10, <2>1 DEF WalkStarts
  <2>2. CASE p # path
    <3>1. path \in dirs
      BY <1>3, <1>5, <1>6, <1>9, <2>2, OnTheWay
    <3>2. status' = "has_next" /\ stack' = <<>>
      BY <1>10, <3>1 DEF WalkStarts, Calm
    <3> QED BY <1>1, <2>2, <3>2 DEF Found
  <2> QED BY <2>1, <2>2
<1>11. CASE WalkEnds
  <2>1. CASE status = "finished"
    <3>1. \A w : ~Waits(w, path, stack)
      BY <1>5, <2>1, EmptyStack DEF Clean, NothingWaits
    <3> QED BY <1>7, <1>8, <2>1, <3>1 DEF Found
  <2>2. CASE status = "init"
    <3>1. Kept = {}
      BY <1>0, <1>5, <1>11, <2>2, NothingKept, PathExcluded DEF WalkEnds
    <3> QED BY <1>6, <3>1
  <2>3. CASE status = "has_next" /\ stack = <<>> /\ (~recursion \/ Scan(path) = <<>>)
    <3>1. p = path
      <4>1. CASE ~recursion
        BY <1>6, <4>1, KeptIs
      <4>2. CASE Scan(path) = <<>> /\ p # path
        BY <1>3, <1>5, <1>6, <1>9, <4>2, SomethingRead
      <4> QED BY <2>3, <4>1, <4>2
    <3>2. \A w : ~Waits(w, path, stack)
      BY <2>3, EmptyStack DEF NothingWaits
    <3> QED BY <1>7, <1>8, <2>3, <3>1, <3>2 DEF Found
  <2>4. CASE status = "has_next" /\ stack # <<>> /\ Entry \notin Tree
    <3>1. Waits(Entry, path, stack)
      BY <1>3, <2>4, EntryWaits, EntryIs DEF Typed
    <3> QED BY <1>3, <1>5, <2>4, <3>1 DEF Still
  <2> QED BY <1>11, <2>1, <2>2, <2>3, <2>4 DEF WalkEnds
<1>12. CASE WalkOpens
  <2>1. \A w : ~Waits(w, path, stack)
    BY <1>12, EmptyStack DEF NothingWaits, WalkOpens
  <2>2. status = "has_next" /\ stack = <<>>
    BY <1>12 DEF WalkOpens
  <2>3. CASE p # path
    <3>1. path \in dirs /\ \E c \in Pathname \cap Tree : In(path, c) /\ (c = p \/ Above(c, p))
      BY <1>3, <1>5, <1>6, <1>9, <2>3, OnTheWay
    <3>2. \A c \in Pathname \cap Tree : path \in dirs /\ In(path, c) => Waits(c, path, stack')
      BY <1>12, WaitsChange
    <3> QED BY <1>8, <3>1, <3>2
  <2>4. CASE p = path
    BY <1>7, <1>8, <2>1, <2>2, <2>4 DEF Found
  <2> QED BY <2>3, <2>4
<1>13. CASE WalkDescends \/ WalkGives \/ WalkPasses
  <2>1. stack # <<>> /\ Entry \in Tree /\ status = "has_next"
    BY <1>13 DEF WalkDescends, WalkGives, WalkPasses
  <2>2. Has(given, p) \/ InHand(p) \/ \E w \in Pathname : Waits(w, path, stack) /\ (w = p \/ Above(w, p))
    BY <1>7, <2>1 DEF Found
  <2>3. ASSUME NEW w \in Pathname, Waits(w, path, stack), w = p \/ Above(w, p), w # Entry
        PROVE  Found(p)'
    <3>1. Waits(w, path, stack')
      BY <2>3, WaitsChange
    <3> QED BY <1>8, <2>3, <3>1
  <2>4. ASSUME Entry = p \/ Above(Entry, p) PROVE Found(p)'
    <3>1. CASE WalkPasses
      <4>1. Excluded(Entry)
        BY <1>0, <3>1 DEF WalkPasses
      <4>2. Above(path, Entry)
        <5>1. Waits(Entry, path, stack)
          BY <1>3, <2>1, EntryWaits, EntryIs DEF Typed
        <5> QED BY <1>3, <5>1, AboveWaiting
      <4>3. Len(path) <= Len(Entry)
        BY <1>3, <4>2 DEF Above, Pathname
      <4> QED BY <1>3, <1>6, <2>4, <4>1, <4>3, KeptIs
    <3>2. CASE (WalkDescends \/ WalkGives) /\ Entry = p
      BY <1>8, <3>2 DEF WalkDescends, WalkGives
    <3>3. CASE WalkDescends /\ Above(Entry, p)
      <4>1. Entry \in dirs /\ \E c \in Pathname \cap Tree : In(Entry, c) /\ (c = p \/ Above(c, p))
        BY <1>3, <1>5, <1>6, <3>3, OnTheWay
      <4>2. \A c \in Pathname \cap Tree : Entry \in dirs /\ In(Entry, c) => Waits(c, path, stack')
        BY <3>3, WaitsChange
      <4> QED BY <1>8, <4>1, <4>2
    <3>4. CASE WalkGives /\ Above(Entry, p)
      BY <1>3, <1>5, <1>6, <3>4, SomethingRead DEF WalkGives
    <3> QED BY <1>13, <2>4, <3>1, <3>2, <3>3, <3>4
  <2> QED BY <1>8, <2>2, <2>3, <2>4
<1> QED BY <1>1, <1>10, <1>11, <1>12, <1>13

LEMMA CompleteOn ==
    ASSUME Complete, UNCHANGED <<diskVars, settingVars, pattern, engine, stack, status>>,
           Quiet => \A p \in Wanted : Has(given, p) \/ InHand(p) => Has(given, p)' \/ InHand(p)'
    PROVE  Complete'
<1>1. Wanted' = Wanted /\ UNCHANGED <<changes, rooted, path>> /\ Documented' = Documented
  BY WantedSame, KeptSame DEF diskVars, settingVars
<1>2. Quiet' = Quiet
  BY <1>1 DEF Quiet
<1>3. ASSUME Quiet, NEW p \in Wanted PROVE Found(p)'
  <2>1. Found(p)
    BY <1>3 DEF Complete
  <2>2. Has(given, p) \/ InHand(p) => Has(given, p)' \/ InHand(p)'
    BY <1>3
  <2> QED BY <1>1, <2>1, <2>2 DEF Found
<1> QED BY <1>1, <1>2, <1>3 DEF Complete

LEMMA HasOn ==
    ASSUME Typed, NEW r \in Pathname, given' = Append(given, r)
    PROVE  \A p : Has(given, p)' <=> Has(given, p) \/ p = r
<1>1. given \in Seq(Pathname)
  BY DEF Typed
<1>2. \A p : Has(Append(given, r), p) <=> Has(given, p) \/ p = r
  BY <1>1, HasAlso
<1> QED BY <1>2, Zenon

LEMMA StepComplete ==
    ASSUME Typed, Calm, Still, Clean, Complete, [Next]_vars
    PROVE  Complete'
<1>1. CASE HasNext
  <2>1. /\ UNCHANGED <<diskVars, settingVars, pattern, engine, stack, status, given, next_file>>
        /\ call = "none"
    BY <1>1 DEF HasNext, Call
  <2>2. \A p : Has(given, p) \/ InHand(p) => Has(given, p)' \/ InHand(p)'
    BY <2>1 DEF InHand
  <2> QED BY <2>1, <2>2, CompleteOn
<1>2. CASE WalkStep /\ UNCHANGED includeVars
  <2>1. UNCHANGED <<changes, rooted, engine>> /\ Documented' = Documented
    BY <1>2, WalkMoves, KeptSame DEF diskVars, settingVars, includeVars
  <2>2. CASE Quiet
    BY <1>2, <2>2, WalkComplete
  <2>3. CASE ~Quiet
    BY <2>1, <2>3 DEF Complete, Quiet
  <2> QED BY <2>2, <2>3
<1>3. CASE WalkNext
  <2>1. UNCHANGED <<diskVars, settingVars, pattern, engine, stack, status, next_file>> /\ ~engine
    BY <1>3 DEF WalkNext
  <2>2. CASE call = "true"
    <3>1. given' = Append(given, current_path) /\ current_path \in Pathname
      BY <1>3, <2>2 DEF WalkNext, Typed
    <3>2. \A p : Has(given, p)' <=> Has(given, p) \/ p = current_path
      BY <3>1, HasOn
    <3>3. \A p : Has(given, p) \/ InHand(p) => Has(given, p)' \/ InHand(p)'
      BY <2>1, <3>2 DEF InHand
    <3> QED BY <2>1, <3>3, CompleteOn
  <2>3. CASE call # "true"
    <3>1. given' = given
      BY <1>3, <2>3 DEF WalkNext
    <3>2. \A p : Has(given, p) \/ InHand(p) => Has(given, p)' \/ InHand(p)'
      BY <2>1, <2>3, <3>1 DEF InHand
    <3> QED BY <2>1, <3>2, CompleteOn
  <2> QED BY <2>2, <2>3
<1>4. CASE EngineFilter
  <2>1. UNCHANGED <<diskVars, settingVars, pattern, engine, stack, status, given, changes, rooted>>
    BY <1>4 DEF EngineFilter, diskVars, settingVars
  <2>2. ASSUME Quiet, NEW p \in Wanted, Has(given, p) \/ InHand(p)
        PROVE  Has(given, p)' \/ InHand(p)'
    <3>1. PICK q \in Pathname : q = current_path
      BY DEF Typed
    <3>2. /\ engine /\ next_file = Null
          /\ next_file' = IF q \notin dirs /\ q \in pattern.glob THEN q ELSE Null
      BY <1>4, <2>2, <3>1, FilterIs
    <3>3. CASE Has(given, p)
      BY <2>1, <3>3
    <3>4. CASE InHand(p)
      <4>1. p = q
        BY <3>1, <3>2, <3>4 DEF InHand
      <4>2. p \in files /\ p \in pattern.glob /\ p \notin dirs
        BY <2>2, <3>2 DEF Wanted, Clean, Quiet
      <4>3. q # Null
        BY <1>4, <3>1 DEF Calm, EngineFilter
      <4>4. next_file' = p /\ p # Null
        BY <3>2, <4>1, <4>2, <4>3
      <4> QED BY <2>1, <3>2, <4>4 DEF InHand
    <3> QED BY <2>2, <3>3, <3>4
  <2> QED BY <2>1, <2>2, CompleteOn
<1>5. CASE EngineEnd
  <2>1. /\ UNCHANGED <<diskVars, settingVars, pattern, engine, stack, status, given>>
        /\ call = "false" /\ next_file = Null
    BY <1>5 DEF EngineEnd, Calm
  <2>2. \A p : Has(given, p) \/ InHand(p) => Has(given, p)' \/ InHand(p)'
    BY <2>1 DEF InHand
  <2> QED BY <2>1, <2>2, CompleteOn
<1>6. CASE EngineNext
  <2>1. /\ UNCHANGED <<diskVars, settingVars, pattern, engine, stack, status>>
        /\ call = "none" /\ call' = "none" /\ engine
    BY <1>6 DEF EngineNext, walkVars, settingVars, Idle
  <2>2. CASE next_dir # Null
    <3>1. next_file' = next_file /\ \E r \in Pathname : given' = Append(given, r)
      <4>1. ASSUME Len(next_dir) > Len(current_dir) + 1
            PROVE  SubSeq(next_dir, 1, Len(current_dir) + 1) \in Pathname
        <5>1. Len(current_dir) + 1 \in 0 .. Len(next_dir)
          BY <4>1 DEF Typed, Pathname
        <5> QED BY <5>1, FirstNames DEF Typed
      <4>2. next_dir \in Pathname
        BY DEF Typed
      <4> QED BY <1>6, <2>2, <4>1, <4>2 DEF EngineNext
    <3>2. \A p : Has(given, p) => Has(given, p)'
      BY <3>1, HasOn
    <3>3. \A p : Has(given, p) \/ InHand(p) => Has(given, p)' \/ InHand(p)'
      BY <2>1, <3>1, <3>2 DEF InHand
    <3> QED BY <2>1, <3>3, CompleteOn
  <2>3. CASE next_dir = Null
    <3>1. given' = Append(given, next_file) /\ next_file \in Pathname
      BY <1>6, <2>3 DEF EngineNext, Typed
    <3>2. \A p : Has(given, p)' <=> Has(given, p) \/ p = next_file
      BY <3>1, HasOn
    <3>3. \A p : Has(given, p) \/ InHand(p) => Has(given, p)' \/ InHand(p)'
      BY <2>1, <3>2 DEF InHand
    <3> QED BY <2>1, <3>3, CompleteOn
  <2> QED BY <2>2, <2>3
<1>7. CASE Change /\ UNCHANGED <<walkVars, includeVars>>
  <2>1. changes' # 0
    BY <1>7 DEF Change, Typed
  <2> QED BY <2>1 DEF Complete, Quiet
<1>8. CASE UNCHANGED vars
  <2>1. /\ UNCHANGED <<diskVars, settingVars, pattern, engine, stack, status, given, call>>
        /\ UNCHANGED <<current_path, next_file>>
    BY <1>8 DEF vars, walkVars, includeVars, settingVars
  <2>2. \A p : Has(given, p) \/ InHand(p) => Has(given, p)' \/ InHand(p)'
    BY <2>1 DEF InHand
  <2> QED BY <2>1, <2>2, CompleteOn
<1> QED BY <1>1, <1>2, <1>3, <1>4, <1>5, <1>6, <1>7, <1>8, Steps

(* The names on the command line find again what they put into the archive. *)
LEMMA WantedMatches ==
    ASSUME Typed, NEW p \in Wanted
    PROVE  IncludeMatch(p)
<1>1. /\ p \in Kept /\ p \in Pathname /\ path \in Pathname /\ path # <<>>
      /\ Len(p) \in Nat /\ Len(path) \in Nat /\ Len(path) # 0
  BY TreePaths DEF Wanted, Kept, Typed, Pathname
<1>2. p = path \/ Above(path, p)
  BY <1>1, KeptIs
<1>3. StringPrefix(path, p)
  <2>1. Len(path) <= Len(p) /\ \A k \in 1 .. Len(path) : path[k] = p[k]
    BY <1>1, <1>2 DEF Above
  <2>2. Len(path) - 1 \in 0 .. Len(path) /\ Len(path) - 1 \in 0 .. Len(p) /\ Len(path) \in 1 .. Len(path)
    BY <1>1, <2>1
  <2>3. /\ SubSeq(path, 1, Len(path) - 1) \in Pathname /\ Len(SubSeq(path, 1, Len(path) - 1)) = Len(path) - 1
        /\ \A k \in 1 .. Len(path) - 1 : SubSeq(path, 1, Len(path) - 1)[k] = path[k]
    BY <1>1, <2>2, FirstNames
  <2>4. /\ SubSeq(p, 1, Len(path) - 1) \in Pathname /\ Len(SubSeq(p, 1, Len(path) - 1)) = Len(path) - 1
        /\ \A k \in 1 .. Len(path) - 1 : SubSeq(p, 1, Len(path) - 1)[k] = p[k]
    BY <1>1, <2>2, FirstNames
  <2>5. SubSeq(p, 1, Len(path) - 1) = SubSeq(path, 1, Len(path) - 1)
    <3>1. \A k \in 1 .. Len(path) - 1 :
              SubSeq(p, 1, Len(path) - 1)[k] = SubSeq(path, 1, Len(path) - 1)[k]
      BY <1>1, <2>1, <2>3, <2>4
    <3> QED BY <2>3, <2>4, <3>1, SameNames
  <2>6. SubSeq(p, 1, Len(path) - 1) = Front(path) /\ Last(path) = p[Len(path)]
    BY <2>1, <2>2, <2>5 DEF Front, Last
  <2> QED BY <2>1, <2>6 DEF StringPrefix
<1>4. CASE ~engine
  BY <1>3, <1>4 DEF IncludeMatch
<1>5. CASE engine
  <2>1. p \in pattern.glob
    BY <1>5 DEF Wanted
  <2>2. p \in Suffixes(p)
    <3>1. CASE p = <<>>
      BY <1>1, <1>2, <3>1 DEF Above
    <3>2. CASE p # <<>>
      <4>1. 1 \in 1 .. Len(p) /\ SubSeq(p, 1, Len(p)) = p
        BY <1>1, <3>2, WholePath
      <4> QED BY <4>1 DEF Suffixes
    <3> QED BY <3>1, <3>2
  <2>3. FnmatchMatch(p)
    BY <1>3, <2>1, <2>2 DEF FnmatchMatch
  <2> QED BY <1>5, <2>1, <2>3 DEF IncludeMatch
<1> QED BY <1>4, <1>5

LEMMA CompleteIsAll == Typed /\ Calm /\ Clean /\ Sound /\ Complete => AllGiven
<1> SUFFICES ASSUME Typed, Calm, Clean, Sound, Complete, done, Quiet
             PROVE  /\ IF engine THEN Given \cap files = Kept \cap files \cap pattern.glob
                       ELSE Given = Kept
                    /\ \A p \in Given \cap files : IncludeMatch(p)
  BY DEF AllGiven, Quiet
<1>1. \A p : p \in Given <=> Has(given, p)
  <2>1. given \in Seq(Pathname) /\ DOMAIN given = 1 .. Len(given)
    BY DEF Typed
  <2> QED BY <2>1 DEF Given, ToSet, Has
<1>2. Given \subseteq Pathname
  BY <1>1 DEF Has, Typed
<1>3. \A p \in Wanted : Has(given, p)
  <2>1. stack = <<>> /\ status = "finished" /\ call = "none" /\ next_file = Null
    BY DEF Calm, Clean, Quiet
  <2>2. \A w : ~Waits(w, path, stack)
    BY <2>1, EmptyStack DEF NothingWaits
  <2>3. \A p : ~InHand(p)
    BY <2>1 DEF InHand
  <2> QED BY <2>1, <2>2, <2>3 DEF Complete, Found
<1>4. \A p \in Given : p \in Wanted \/ (engine /\ p \in dirs)
  BY <1>1, <1>2 DEF Sound
<1>5. dirs \cap files = {}
  BY DEF Clean, Quiet
<1>6. Given \cap files \subseteq Wanted
  BY <1>4, <1>5
<1>7. \A p \in Given \cap files : IncludeMatch(p)
  BY <1>6, WantedMatches
<1>8. CASE engine
  BY <1>1, <1>3, <1>6, <1>7, <1>8 DEF Wanted
<1>9. CASE ~engine
  BY <1>1, <1>3, <1>4, <1>7, <1>9 DEF Wanted
<1> QED BY <1>8, <1>9

(* When nobody changes the tree, a walk gives out all that is not excluded,  *)
(* an engine every file of it that matches and no other, and the names find *)
(* them again in the archive (has_next of default_pattern.c and of the      *)
(* engines' include.c, and their match).                                    *)
THEOREM AllAreGiven == Spec => []AllGiven
<1> DEFINE IInv == Typed /\ Calm /\ Still /\ Clean /\ Sound /\ Complete
<1>1. Init => IInv
  BY InitTyped, InitCalm, InitStill, InitClean, InitSound, InitComplete
<1>2. IInv /\ [Next]_vars => IInv'
  BY StepTyped, StepCalm, StepStill, StepClean, StepSound, StepComplete
<1>3. IInv => AllGiven
  BY CompleteIsAll
<1> QED BY <1>1, <1>2, <1>3, PTL DEF Spec

----------------------------------------------------------------------------
(* Remainders. *)

LEMMA ModDef ==
    ASSUME NEW h \in Nat, NEW n \in Nat \ {0}
    PROVE  /\ h \div n \in Nat /\ h % n \in 0 .. n - 1
           /\ h = n * (h \div n) + (h % n)
OBVIOUS

LEMMA ModIs ==
    ASSUME NEW q \in Int, NEW n \in Nat \ {0}, NEW r \in 0 .. n - 1
    PROVE  (n * q + r) % n = r
OBVIOUS

LEMMA Twice ==
    ASSUME NEW n \in Int, NEW q \in Int, NEW p \in Int
    PROVE  (2 * n) * q + n * p = n * (2 * q + p)
OBVIOUS

(* A chain of the larger table comes from one of the smaller.               *)
LEMMA ModTwice ==
    ASSUME NEW h \in Nat, NEW n \in Nat \ {0}
    PROVE  (h % (2 * n)) % n = h % n
<1>1. PICK m \in Nat \ {0} : m = 2 * n
  OBVIOUS
<1>2. PICK q \in Nat, r \in Nat : h = m * q + r /\ r = h % m
  <2>1. PICK r \in Nat : r = h % m
    BY ModDef
  <2>2. PICK q \in Nat : q = h \div m
    BY ModDef
  <2> QED BY <2>1, <2>2, ModDef
<1>3. PICK p \in Nat, t \in 0 .. n - 1 : r = n * p + t /\ t = r % n
  BY ModDef
<1>4. h = n * (2 * q + p) + t
  <2>1. m * q + n * p = n * (2 * q + p)
    BY <1>1, Twice
  <2>2. m * q \in Int /\ n * p \in Int /\ t \in Int
    OBVIOUS
  <2>3. h = m * q + (n * p + t)
    BY <1>2, <1>3
  <2> QED BY <2>1, <2>2, <2>3
<1>5. (n * (2 * q + p) + t) % n = t
  <2>1. 2 * q + p \in Int
    OBVIOUS
  <2> QED BY <2>1, ModIs
<1> QED BY <1>1, <1>2, <1>3, <1>4, <1>5
----------------------------------------------------------------------------
(* Parts of chains. *)

(* The numbers up to one of a set tell which it is, and every count occurs: *)
(* as many counts are possible as there are numbers.                        *)
LEMMA NodesCount ==
    ASSUME NEW S, S \subseteq Nat, IsFiniteSet(S)
    PROVE  LET Upto(n) == {m \in S : m <= n}
           IN  /\ \A a, b \in S : a < b => Cardinality(Upto(a)) < Cardinality(Upto(b))
               /\ \A i \in 1 .. Cardinality(S) : \E n \in S : Cardinality(Upto(n)) = i
<1> DEFINE Upto(n) == {m \in S : m <= n}
           T == 1 .. Cardinality(S)
           r == [n \in S |-> Cardinality(Upto(n))]
<1>1. Cardinality(S) \in Nat
  BY FS_CardinalityType
<1>2. ASSUME NEW n \in S PROVE Cardinality(Upto(n)) \in T
  <2>1. IsFiniteSet(Upto(n)) /\ Cardinality(Upto(n)) <= Cardinality(S)
    <3>1. Upto(n) \in SUBSET S
      OBVIOUS
    <3> QED BY <3>1, FS_Subset
  <2>2. Cardinality(Upto(n)) \in Nat /\ Cardinality(Upto(n)) # 0
    <3>1. n \in Upto(n)
      OBVIOUS
    <3> HIDE DEF Upto
    <3> QED BY <2>1, <3>1, FS_CardinalityType, FS_EmptySet
  <2> QED BY <1>1, <2>1, <2>2
<1>3. ASSUME NEW a \in S, NEW b \in S, a < b
      PROVE  Cardinality(Upto(a)) < Cardinality(Upto(b))
  <2>1. Upto(a) \in SUBSET Upto(b) /\ b \in Upto(b) /\ b \notin Upto(a)
    <3>1. a \in Nat /\ b \in Nat /\ \A m \in S : m \in Nat
      OBVIOUS
    <3>2. \A m \in S : m <= a => m <= b
      BY <1>3, <3>1
    <3>3. b <= b /\ ~(b <= a)
      BY <1>3, <3>1
    <3> QED BY <3>2, <3>3
  <2>2. IsFiniteSet(Upto(b))
    <3>1. Upto(b) \in SUBSET S
      OBVIOUS
    <3> QED BY <3>1, FS_Subset
  <2>3. Cardinality(Upto(a)) \in Nat /\ Cardinality(Upto(b)) \in Nat
    BY <1>1, <1>2
  <2>4. Cardinality(Upto(a)) <= Cardinality(Upto(b)) /\ Cardinality(Upto(a)) # Cardinality(Upto(b))
    <3> HIDE DEF Upto
    <3> QED BY <2>1, <2>2, FS_Subset
  <2> QED BY <2>3, <2>4
<1>4. r \in Injection(S, T)
  <2>1. r \in [S -> T]
    BY <1>2
  <2>2. ASSUME NEW a \in S, NEW b \in S, r[a] = r[b] PROVE a = b
    <3>1. Cardinality(Upto(a)) = Cardinality(Upto(b))
      BY <2>2
    <3>2. a \in Nat /\ b \in Nat /\ (a < b \/ b < a \/ a = b)
      OBVIOUS
    <3>3. Cardinality(Upto(a)) \in Nat
      BY <1>1, <1>2
    <3> HIDE DEF Upto, r
    <3> QED BY <1>3, <3>1, <3>2, <3>3
  <2> HIDE DEF r
  <2> QED BY <2>1, <2>2 DEF Injection, IsInjective
<1>5. r \in Surjection(S, T)
  <2>1. IsFiniteSet(T) /\ Cardinality(T) = Cardinality(S)
    BY <1>1, FS_Interval
  <2> HIDE DEF r, T
  <2> QED BY <1>4, <2>1, FS_Injection
<1>6. ASSUME NEW i \in T PROVE \E n \in S : Cardinality(Upto(n)) = i
  <2>1. PICK n \in S : r[n] = i
    <3> HIDE DEF r, T
    <3> QED BY <1>5, <1>6 DEF Surjection
  <2> QED BY <2>1
<1> QED BY <1>3, <1>6

(* Among gives each node at one of the places once.                         *)
LEMMA AmongNodes ==
    ASSUME NEW T, NEW chain \in Seq(T), NEW S, S \subseteq DOMAIN chain
    PROVE  /\ Among(chain, S) \in Seq(T)
           /\ \E f :
              /\ \A k \in DOMAIN Among(chain, S) : f[k] \in S /\ Among(chain, S)[k] = chain[f[k]]
              /\ \A j \in S : \E k \in DOMAIN Among(chain, S) : f[k] = j
              /\ \A k, l \in DOMAIN Among(chain, S) : f[k] = f[l] => k = l
<1>0. S \subseteq Nat /\ IsFiniteSet(S)
  <2>1. DOMAIN chain = 1 .. Len(chain) /\ Len(chain) \in Nat
    OBVIOUS
  <2>2. IsFiniteSet(1 .. Len(chain)) /\ S \in SUBSET (1 .. Len(chain))
    BY <2>1, FS_Interval
  <2> QED BY <2>1, <2>2, FS_Subset
<1> DEFINE Upto(n) == {l \in S : l <= n}
           c(k) == CHOOSE j \in S : Cardinality(Upto(j)) = k
           N == Cardinality(S)
           f == [k \in 1 .. N |-> c(k)]
<1>1. /\ \A a, b \in S : a < b => Cardinality(Upto(a)) < Cardinality(Upto(b))
      /\ \A k \in 1 .. N : \E n \in S : Cardinality(Upto(n)) = k
  BY <1>0, NodesCount
<1>2. N \in Nat /\ \A j \in S : Cardinality(Upto(j)) \in 1 .. N
  <2>1. N \in Nat
    BY <1>0, FS_CardinalityType
  <2>2. ASSUME NEW j \in S PROVE Cardinality(Upto(j)) \in 1 .. N
    <3>1. Upto(j) \in SUBSET S /\ j \in Upto(j)
      OBVIOUS
    <3> HIDE DEF Upto
    <3>2. IsFiniteSet(Upto(j)) /\ Cardinality(Upto(j)) <= N
      BY <1>0, <3>1, FS_Subset
    <3>3. Cardinality(Upto(j)) \in Nat /\ Cardinality(Upto(j)) # 0
      BY <3>1, <3>2, FS_CardinalityType, FS_EmptySet
    <3> QED BY <2>1, <3>2, <3>3
  <2> QED BY <2>1, <2>2
<1>3. \A k \in 1 .. N : c(k) \in S /\ Cardinality(Upto(c(k))) = k
  <2> HIDE DEF Upto, N
  <2> QED BY <1>1
<1>4. f \in [1 .. N -> S]
  BY <1>3
<1>5. Among(chain, S) = [k \in 1 .. N |-> chain[f[k]]]
  BY DEF Among
<1>6. ASSUME NEW j \in S PROVE \E k \in 1 .. N : f[k] = j
  <2> DEFINE k == Cardinality(Upto(j))
  <2>1. k \in 1 .. N
    BY <1>2
  <2>2. c(k) \in S /\ Cardinality(Upto(c(k))) = k
    BY <1>3, <2>1
  <2>3. c(k) \in Nat /\ j \in Nat
    BY <1>0, <2>2
  <2>4. c(k) = j
    <3>1. c(k) < j \/ j < c(k) \/ c(k) = j
      BY <2>3
    <3>2. \A a, b \in S : a < b => Cardinality(Upto(a)) # Cardinality(Upto(b))
      <4> HIDE DEF Upto, N
      <4> QED BY <1>1, <1>2
    <3> HIDE DEF Upto, c
    <3> QED BY <2>2, <3>1, <3>2 DEF k
  <2> QED BY <2>1, <2>4
<1>7. ASSUME NEW k \in 1 .. N, NEW l \in 1 .. N, f[k] = f[l] PROVE k = l
  <2> HIDE DEF Upto, N, c
  <2> QED BY <1>3, <1>7
<1>8. Among(chain, S) \in Seq(T)
  <2> HIDE DEF f, N
  <2>1. \A k \in 1 .. N : chain[f[k]] \in T
    BY <1>4
  <2> QED BY <1>2, <1>5, <2>1
<1> HIDE DEF f, N
<1>9. /\ DOMAIN Among(chain, S) = 1 .. N
      /\ \A k \in 1 .. N : f[k] \in S /\ Among(chain, S)[k] = chain[f[k]]
  BY <1>4, <1>5
<1> QED BY <1>6, <1>7, <1>8, <1>9

----------------------------------------------------------------------------
(* Chains. *)

(* A chain b of a table of n chains: its nodes belong there, and no two     *)
(* have the same hash.                                                      *)
Good(chain, b, n) ==
    /\ chain \in Seq(Node)
    /\ \A j \in DOMAIN chain : chain[j].hash % n = b
    /\ \A j, l \in DOMAIN chain : chain[j].hash = chain[l].hash => j = l

(* The hash has the value in the chain. *)
Holds(chain, h, v) == \E j \in DOMAIN chain : chain[j].hash = h /\ chain[j].value = v

LEMMA Lookup ==
    ASSUME NEW chain, NEW b, NEW n, Good(chain, b, n), NEW j \in DOMAIN chain
    PROVE  At(chain, chain[j].hash) = {j} /\ First(chain, chain[j].hash) = j
<1>1. At(chain, chain[j].hash) = {j}
  BY DEF At, Good
<1>2. j \in Nat
  BY DEF Good
<1> QED BY <1>1, <1>2 DEF First

LEMMA LookupValue ==
    ASSUME NEW chain, NEW b, NEW n, Good(chain, b, n), NEW h, At(chain, h) # {}
    PROVE  /\ First(chain, h) \in DOMAIN chain
           /\ chain[First(chain, h)].hash = h
           /\ \A v : Holds(chain, h, v) <=> v = chain[First(chain, h)].value
<1>1. PICK j \in DOMAIN chain : chain[j].hash = h
  BY DEF At
<1>2. First(chain, h) = j
  BY <1>1, Lookup
<1> QED BY <1>1, <1>2 DEF Good, Holds

(* A chain without the hash holds nothing for it. *)
LEMMA Missing ==
    ASSUME NEW chain, NEW h
    PROVE  At(chain, h) = {} <=> ~\E v : Holds(chain, h, v)
BY DEF At, Holds

(* put2: the hash has the new value, and nothing else changes.              *)
LEMMA Put2Good ==
    ASSUME NEW chain, NEW b, NEW n, Good(chain, b, n),
           NEW node \in Node, node.hash % n = b
    PROVE  /\ Good(Put2(chain, node), b, n)
           /\ \A h, v : Holds(Put2(chain, node), h, v) <=>
                IF h = node.hash THEN v = node.value ELSE Holds(chain, h, v)
<1> DEFINE c == Put2(chain, node)
<1>0. chain \in Seq(Node) /\ Len(chain) \in Nat /\ DOMAIN chain = 1 .. Len(chain)
  BY DEF Good
<1>1. CASE At(chain, node.hash) = {}
  <2>1. c = Append(chain, node)
    BY <1>1 DEF Put2
  <2>2. c \in Seq(Node) /\ DOMAIN c = 1 .. Len(chain) + 1
        /\ (\A j \in DOMAIN chain : c[j] = chain[j]) /\ c[Len(chain) + 1] = node
    BY <1>0, <2>1
  <2>3. \A j \in DOMAIN c : j \in DOMAIN chain \/ j = Len(chain) + 1
    BY <1>0, <2>2
  <2>4. \A j \in DOMAIN chain : chain[j].hash # node.hash /\ j \in DOMAIN c
    BY <1>0, <1>1, <2>2 DEF At
  <2>5. Len(chain) + 1 \in DOMAIN c
    BY <1>0, <2>2
  <2> HIDE DEF c
  <2>6. Good(c, b, n)
    BY <2>2, <2>3, <2>4 DEF Good
  <2>7. ASSUME NEW h, NEW v
        PROVE  Holds(c, h, v) <=> IF h = node.hash THEN v = node.value ELSE Holds(chain, h, v)
    BY <2>2, <2>3, <2>4, <2>5 DEF Holds
  <2> QED BY <2>6, <2>7 DEF c
<1>2. CASE At(chain, node.hash) # {}
  <2> DEFINE f == First(chain, node.hash)
  <2>1. f \in DOMAIN chain /\ chain[f].hash = node.hash
    BY <1>2, LookupValue
  <2>2. c = [chain EXCEPT ![f] = node]
    BY <1>2 DEF Put2
  <2> HIDE DEF f
  <2>3. c \in Seq(Node) /\ DOMAIN c = DOMAIN chain /\ c[f] = node
        /\ \A j \in DOMAIN chain : j # f => c[j] = chain[j]
    BY <1>0, <2>1, <2>2
  <2> HIDE DEF c
  <2>4. \A j \in DOMAIN chain : c[j].hash = chain[j].hash
    BY <2>1, <2>3
  <2>5. Good(c, b, n)
    BY <2>3, <2>4 DEF Good
  <2>6. \A j \in DOMAIN chain : chain[j].hash = node.hash => j = f
    BY <2>1 DEF Good
  <2>7. ASSUME NEW h, NEW v
        PROVE  Holds(c, h, v) <=> IF h = node.hash THEN v = node.value ELSE Holds(chain, h, v)
    BY <2>1, <2>3, <2>4, <2>6 DEF Holds
  <2> QED BY <2>5, <2>7 DEF c
<1> QED BY <1>1, <1>2

(* The nodes of a chain that go to chain b of a table twice as large.       *)
LEMMA AmongGood ==
    ASSUME NEW chain, NEW b, NEW a, NEW n, NEW m, Good(chain, a, n),
           NEW S, S \subseteq DOMAIN chain,
           \A j \in DOMAIN chain : j \in S <=> chain[j].hash % m = b
    PROVE  Good(Among(chain, S), b, m)
<1> DEFINE c == Among(chain, S)
<1>1. chain \in Seq(Node)
  BY DEF Good
<1>2. c \in Seq(Node)
  BY <1>1, AmongNodes
<1>3. PICK f :
         /\ \A k \in DOMAIN c : f[k] \in S /\ c[k] = chain[f[k]]
         /\ \A k, l \in DOMAIN c : f[k] = f[l] => k = l
  BY <1>1, AmongNodes
<1> HIDE DEF c
<1>4. \A k \in DOMAIN c : c[k] = chain[f[k]] /\ f[k] \in DOMAIN chain /\ chain[f[k]].hash % m = b
  BY <1>3
<1>5. Good(c, b, m)
  BY <1>2, <1>3, <1>4 DEF Good
<1> QED BY <1>5 DEF c

(* They keep their values. *)
LEMMA AmongHolds ==
    ASSUME NEW chain, NEW a, NEW n, Good(chain, a, n),
           NEW S, S \subseteq DOMAIN chain, NEW h, NEW v
    PROVE  Holds(Among(chain, S), h, v) <=>
             \E j \in S : chain[j].hash = h /\ chain[j].value = v
<1> DEFINE c == Among(chain, S)
<1>1. chain \in Seq(Node)
  BY DEF Good
<1>2. PICK f :
         /\ \A k \in DOMAIN c : f[k] \in S /\ c[k] = chain[f[k]]
         /\ \A j \in S : \E k \in DOMAIN c : f[k] = j
  BY <1>1, AmongNodes
<1> HIDE DEF c
<1>3. Holds(c, h, v) <=> \E j \in S : chain[j].hash = h /\ chain[j].value = v
  BY <1>2 DEF Holds
<1> QED BY <1>3 DEF c

----------------------------------------------------------------------------
(* Tables. *)

GoodTable(table, n) ==
    /\ table \in [0 .. n - 1 -> Seq(Node)]
    /\ \A b \in 0 .. n - 1 : Good(table[b], b, n)

Maps(table, n, h, v) == Holds(table[h % n], h, v)

(* What rehash makes of a table finds the same values.                      *)
LEMMA RehashGood ==
    ASSUME NEW n \in Nat \ {0}, NEW table, GoodTable(table, n)
    PROVE  /\ GoodTable(Rehash(table, n), 2 * n)
           /\ \A h \in Nat : \A v : Maps(Rehash(table, n), 2 * n, h, v) <=> Maps(table, n, h, v)
<1> DEFINE new == Rehash(table, n)
           S(b) == {j \in DOMAIN table[b % n] : table[b % n][j].hash % (2 * n) = b}
<1>1. new = [b \in 0 .. 2 * n - 1 |-> Among(table[b % n], S(b))]
  BY DEF Rehash
<1>2. 2 * n \in Nat \ {0}
  OBVIOUS
<1>3. ASSUME NEW b \in 0 .. 2 * n - 1
      PROVE  /\ Good(new[b], b, 2 * n)
             /\ \A h \in Nat : \A v : Holds(new[b], h, v) <=> h % (2 * n) = b /\ Holds(table[b % n], h, v)
  <2>1. b % n \in 0 .. n - 1
    BY ModDef
  <2>2. Good(table[b % n], b % n, n)
    BY <2>1 DEF GoodTable
  <2>3. new[b] = Among(table[b % n], S(b))
    BY <1>1
  <2>4. /\ S(b) \subseteq DOMAIN table[b % n]
        /\ \A j \in DOMAIN table[b % n] :
              j \in S(b) <=> table[b % n][j].hash % (2 * n) = b
    OBVIOUS
  <2> HIDE DEF S
  <2>5. Good(new[b], b, 2 * n)
    BY <2>2, <2>3, <2>4, AmongGood
  <2>6. ASSUME NEW h \in Nat, NEW v
        PROVE  Holds(new[b], h, v) <=> h % (2 * n) = b /\ Holds(table[b % n], h, v)
    <3>1. Holds(new[b], h, v) <=>
            \E j \in S(b) : table[b % n][j].hash = h /\ table[b % n][j].value = v
      BY <2>2, <2>3, <2>4, AmongHolds
    <3> QED BY <2>4, <3>1 DEF Holds
  <2> QED BY <2>5, <2>6
<1> HIDE DEF new, S
<1>4. GoodTable(new, 2 * n)
  <2>1. DOMAIN new = 0 .. 2 * n - 1 /\ new = [b \in 0 .. 2 * n - 1 |-> new[b]]
    BY <1>1
  <2>2. \A b \in 0 .. 2 * n - 1 : new[b] \in Seq(Node)
    BY <1>3 DEF Good
  <2> QED BY <1>3, <2>1, <2>2 DEF GoodTable
<1>5. ASSUME NEW h \in Nat, NEW v
      PROVE  Maps(new, 2 * n, h, v) <=> Maps(table, n, h, v)
  <2>1. h % (2 * n) \in 0 .. 2 * n - 1
    BY <1>2, ModDef
  <2>2. (h % (2 * n)) % n = h % n
    BY ModTwice
  <2> DEFINE b == h % (2 * n)
  <2> HIDE DEF b
  <2>3. Holds(new[b], h, v) <=> h % (2 * n) = b /\ Holds(table[b % n], h, v)
    BY <1>3, <2>1 DEF b
  <2>4. Holds(new[b], h, v) <=> Holds(table[h % n], h, v)
    BY <2>2, <2>3 DEF b
  <2> QED BY <2>4 DEF Maps, b
<1> QED BY <1>4, <1>5 DEF new

(* The table with the node. *)
PutInto(table, n, h, v) ==
    [table EXCEPT ![h % n] = Put2(table[h % n], [hash |-> h, value |-> v])]

(* A node that is put is found, and so are the others.                      *)
LEMMA PutGood ==
    ASSUME HashAssumption, NEW n \in Nat \ {0}, NEW table, GoodTable(table, n),
           NEW h \in Hashes, NEW v \in Values
    PROVE  /\ GoodTable(PutInto(table, n, h, v), n)
           /\ \A x \in Nat : \A w : Maps(PutInto(table, n, h, v), n, x, w) <=>
                 IF x = h THEN w = v ELSE Maps(table, n, x, w)
<1> DEFINE b == h % n
           node == [hash |-> h, value |-> v]
           new == PutInto(table, n, h, v)
<1>1. h \in Nat /\ b \in 0 .. n - 1 /\ node \in Node /\ node.hash = h /\ node.value = v
  <2>1. h \in Nat
    BY DEF HashAssumption
  <2> QED BY <2>1, ModDef DEF Node
<1> HIDE DEF node
<1>2. /\ Good(Put2(table[b], node), b, n)
      /\ \A x, w : Holds(Put2(table[b], node), x, w) <=>
           IF x = node.hash THEN w = node.value ELSE Holds(table[b], x, w)
  <2>1. Good(table[b], b, n) /\ node.hash % n = b
    BY <1>1 DEF GoodTable
  <2> QED BY <1>1, <2>1, Put2Good
<1>3. /\ new[b] = Put2(table[b], node)
      /\ \A a \in 0 .. n - 1 : a # b => new[a] = table[a]
      /\ new \in [0 .. n - 1 -> Seq(Node)]
  BY <1>1, <1>2 DEF GoodTable, Good, node, PutInto
<1> HIDE DEF new
<1>4. GoodTable(new, n)
  BY <1>2, <1>3 DEF GoodTable
<1>5. ASSUME NEW x \in Nat, NEW w
      PROVE  Maps(new, n, x, w) <=> IF x = h THEN w = v ELSE Maps(table, n, x, w)
  <2>1. x % n \in 0 .. n - 1
    BY ModDef
  <2>2. CASE x % n = b
    BY <1>1, <1>2, <1>3, <2>2 DEF Maps
  <2>3. CASE x % n # b
    BY <1>1, <1>3, <2>1, <2>3 DEF Maps
  <2> QED BY <2>2, <2>3
<1> QED BY <1>4, <1>5 DEF new

(* A key is there when it has a value. *)
LEMMA KeyEntry ==
    ASSUME NEW n \in Nat \ {0}, NEW table, GoodTable(table, n), NEW h \in Nat
    PROVE  /\ At(table[h % n], h) # {} <=> \E v : Maps(table, n, h, v)
           /\ At(table[h % n], h) # {} =>
                /\ table[h % n][First(table[h % n], h)].value \in Values
                /\ \A v : Maps(table, n, h, v) <=> v = table[h % n][First(table[h % n], h)].value
<1> DEFINE c == table[h % n]
<1>1. Good(c, h % n, n)
  <2>1. h % n \in 0 .. n - 1
    BY ModDef
  <2> QED BY <2>1 DEF GoodTable
<1>2. At(c, h) # {} <=> \E v : Holds(c, h, v)
  <2> HIDE DEF c
  <2> QED BY Missing
<1>3. ASSUME At(c, h) # {}
      PROVE  /\ c[First(c, h)].value \in Values
             /\ \A v : Holds(c, h, v) <=> v = c[First(c, h)].value
  <2> HIDE DEF c
  <2>1. /\ First(c, h) \in DOMAIN c
        /\ \A v : Holds(c, h, v) <=> v = c[First(c, h)].value
    BY <1>1, <1>3, LookupValue
  <2>2. c \in Seq(Node)
    BY <1>1 DEF Good
  <2>3. c[First(c, h)] \in Node
    BY <2>1, <2>2
  <2> QED BY <2>1, <2>3 DEF Node
<1> QED BY <1>2, <1>3 DEF Maps

----------------------------------------------------------------------------
(* The inductive invariant. *)

Keys == {h \in Hashes : HasKey(h)}

IInv ==
    /\ TypeOK
    /\ GoodTable(nodes, size_node)
    /\ IsFiniteSet(Keys) /\ Cardinality(Keys) <= nb_elements
    /\ ~removes => Cardinality(Keys) = nb_elements

(* Keys and their values, now ... *)
LEMMA Now ==
    ASSUME HashAssumption, IInv, NEW h \in Hashes
    PROVE  /\ h \in Nat
           /\ HasKey(h) <=> \E v : Maps(nodes, size_node, h, v)
           /\ HasKey(h) => \A v : Maps(nodes, size_node, h, v) <=> v = Value(h)
<1>1. h \in Nat
  BY DEF HashAssumption
<1> QED BY <1>1, KeyEntry DEF IInv, TypeOK, HasKey, Value, Chain

(* ... and after a step. *)
LEMMA Later ==
    ASSUME HashAssumption, size_node' \in Nat \ {0}, GoodTable(nodes', size_node'), NEW h \in Hashes
    PROVE  /\ HasKey(h)' <=> \E v : Maps(nodes', size_node', h, v)
           /\ HasKey(h)' => \A v : Maps(nodes', size_node', h, v) <=> v = Value(h)'
<1>1. h \in Nat
  BY DEF HashAssumption
<1> QED BY <1>1, KeyEntry DEF HasKey, Value, Chain

LEMMA GoodType ==
    ASSUME NEW n \in Nat \ {0}, NEW table, GoodTable(table, n)
    PROVE  table \in [0 .. n - 1 -> Seq(Node)]
BY DEF GoodTable

(* What a put does to the keys and their values. *)
LEMMA PutChanges ==
    ASSUME HashAssumption, IInv, NEW h \in Hashes, NEW v \in Values, Put(h, v)
    PROVE  /\ size_node' \in Nat \ {0} /\ GoodTable(nodes', size_node')
           /\ \A x \in Nat : \A w : Maps(nodes', size_node', x, w) <=>
                IF x = h THEN w = v ELSE Maps(nodes, size_node, x, w)
<1> DEFINE table == PutInto(nodes, size_node, h, v)
<1>1. /\ size_node \in Nat \ {0} /\ GoodTable(nodes, size_node)
  BY DEF IInv, TypeOK
<1>2. /\ GoodTable(table, size_node)
      /\ \A x \in Nat : \A w : Maps(table, size_node, x, w) <=>
            IF x = h THEN w = v ELSE Maps(nodes, size_node, x, w)
  BY <1>1, PutGood
<1>3. \/ nodes' = table /\ size_node' = size_node
      \/ nodes' = Rehash(table, size_node) /\ size_node' = 2 * size_node
  BY DEF Put, Chain, PutInto
<1> HIDE DEF table
<1>4. CASE nodes' = table /\ size_node' = size_node
  BY <1>1, <1>2, <1>4
<1>5. CASE nodes' = Rehash(table, size_node) /\ size_node' = 2 * size_node
  <2>1. /\ GoodTable(Rehash(table, size_node), 2 * size_node)
        /\ \A x \in Nat : \A w :
             Maps(Rehash(table, size_node), 2 * size_node, x, w) <=> Maps(table, size_node, x, w)
    BY <1>1, <1>2, RehashGood
  <2>2. 2 * size_node \in Nat \ {0}
    BY <1>1
  <2> QED BY <1>2, <1>5, <2>1, <2>2
<1> QED BY <1>3, <1>4, <1>5

LEMMA PutKeys ==
    ASSUME HashAssumption, IInv, NEW h \in Hashes, NEW v \in Values, Put(h, v)
    PROVE  /\ Keys' = Keys \cup {h}
           /\ \A x \in Keys' : Value(x)' = IF x = h THEN v ELSE Value(x)
<1>1. /\ size_node' \in Nat \ {0} /\ GoodTable(nodes', size_node')
      /\ \A x \in Nat : \A w : Maps(nodes', size_node', x, w) <=>
                IF x = h THEN w = v ELSE Maps(nodes, size_node, x, w)
  BY PutChanges
<1>2. ASSUME NEW x \in Hashes
      PROVE  /\ HasKey(x)' <=> x = h \/ HasKey(x)
             /\ HasKey(x)' => Value(x)' = IF x = h THEN v ELSE Value(x)
  <2>1. /\ HasKey(x)' <=> \E w : Maps(nodes', size_node', x, w)
        /\ HasKey(x)' => \A w : Maps(nodes', size_node', x, w) <=> w = Value(x)'
    BY <1>1, Later
  <2>2. /\ x \in Nat
        /\ HasKey(x) <=> \E w : Maps(nodes, size_node, x, w)
        /\ HasKey(x) => \A w : Maps(nodes, size_node, x, w) <=> w = Value(x)
    BY Now
  <2>3. \A w : Maps(nodes', size_node', x, w) <=>
                IF x = h THEN w = v ELSE Maps(nodes, size_node, x, w)
    BY <1>1, <2>2
  <2>4. CASE x = h
    <3>1. \A w : Maps(nodes', size_node', x, w) <=> w = v
      BY <2>3, <2>4
    <3> QED BY <2>1, <2>4, <3>1
  <2>5. CASE x # h
    <3>1. \A w : Maps(nodes', size_node', x, w) <=> Maps(nodes, size_node, x, w)
      BY <2>3, <2>5
    <3> QED BY <2>1, <2>2, <2>5, <3>1
  <2> QED BY <2>4, <2>5
<1> QED BY <1>2 DEF Keys

LEMMA PutKeeps ==
    ASSUME HashAssumption, IInv, NEW h \in Hashes, NEW v \in Values, Put(h, v)
    PROVE  IInv'
<1>1. /\ size_node' \in Nat \ {0} /\ GoodTable(nodes', size_node')
  BY PutChanges
<1>2. Keys' = Keys \cup {h}
  BY PutKeys
<1>3. h \in Keys <=> HasKey(h)
  BY DEF Keys
<1>4. nb_elements' = (IF HasKey(h) THEN nb_elements ELSE nb_elements + 1) /\ removes' = removes
  BY DEF Put, Counted
<1>5. IsFiniteSet(Keys) /\ Cardinality(Keys) \in Nat
  BY FS_CardinalityType DEF IInv
<1>6. /\ IsFiniteSet(Keys \cup {h})
      /\ Cardinality(Keys \cup {h}) = IF h \in Keys THEN Cardinality(Keys) ELSE Cardinality(Keys) + 1
  BY <1>5, FS_AddElement
<1>7. /\ nb_elements' \in Nat /\ Cardinality(Keys') <= nb_elements'
      /\ ~removes' => Cardinality(Keys') = nb_elements'
  BY <1>2, <1>3, <1>4, <1>5, <1>6 DEF IInv, TypeOK
<1>8. TypeOK'
  BY <1>1, <1>4, <1>7, GoodType DEF IInv, TypeOK
<1> QED BY <1>1, <1>2, <1>6, <1>7, <1>8 DEF IInv

(* Some nodes of a chain, each of them once. *)
From(rest, chain, f) ==
    /\ \A k \in DOMAIN rest : f[k] \in DOMAIN chain /\ rest[k] = chain[f[k]]
    /\ \A k, l \in DOMAIN rest : f[k] = f[l] => k = l

LEMMA FromGood ==
    ASSUME NEW chain, NEW b, NEW n, Good(chain, b, n),
           NEW rest \in Seq(Node), NEW f, From(rest, chain, f)
    PROVE  /\ Good(rest, b, n)
           /\ \A h : At(rest, h) # {} => \E k \in DOMAIN rest : f[k] \in At(chain, h)
<1>1. Good(rest, b, n)
  BY DEF Good, From
<1>2. \A h : At(rest, h) # {} => \E k \in DOMAIN rest : f[k] \in At(chain, h)
  BY DEF At, From
<1> QED BY <1>1, <1>2

LEMMA SkipTo ==
    ASSUME NEW T, NEW chain \in Seq(T), NEW p \in 2 .. Len(chain)
    PROVE  LET rest == <<chain[1]>> \o SubSeq(chain, p + 1, Len(chain))
           IN  /\ rest \in Seq(T) /\ DOMAIN rest = 1 .. Len(chain) - p + 1
               /\ \A k \in 1 .. Len(chain) - p + 1 :
                     rest[k] = IF k = 1 THEN chain[1] ELSE chain[p + (k - 1)]
<1> DEFINE tail == SubSeq(chain, p + 1, Len(chain))
           rest == <<chain[1]>> \o tail
<1>1. tail \in Seq(T) /\ Len(tail) = Len(chain) - p /\ Len(chain) \in Nat
  OBVIOUS
<1>2. ASSUME NEW k \in 1 .. Len(chain) - p PROVE tail[k] = chain[p + k]
  OBVIOUS
<1>3. chain[1] \in T
  OBVIOUS
<1> HIDE DEF tail
<1>4. rest \in Seq(T) /\ Len(rest) = Len(chain) - p + 1
  BY <1>1, <1>3
<1>5. DOMAIN rest = 1 .. Len(chain) - p + 1
  <2> HIDE DEF rest
  <2> QED BY <1>4
<1>6. ASSUME NEW k \in 1 .. Len(chain) - p + 1
      PROVE  rest[k] = IF k = 1 THEN chain[1] ELSE chain[p + (k - 1)]
  <2>1. CASE k = 1
    BY <1>1, <1>3, <2>1
  <2>2. CASE k # 1
    <3>1. k - 1 \in 1 .. Len(chain) - p /\ k \in 2 .. Len(tail) + 1
      BY <1>1, <2>2
    <3>2. rest[k] = tail[k - 1]
      BY <1>1, <1>3, <3>1
    <3> QED BY <1>2, <2>2, <3>1, <3>2
  <2> QED BY <2>1, <2>2
<1> QED BY <1>4, <1>5, <1>6 DEF tail

(* What remove leaves of a chain: some of the nodes, and not that one.      *)
LEMMA UnlinkedFrom ==
    ASSUME NEW chain, NEW b, NEW n, Good(chain, b, n), NEW h
    PROVE  /\ Unlinked(chain, h) \in Seq(Node)
           /\ \E f : /\ From(Unlinked(chain, h), chain, f)
                     /\ \A k \in DOMAIN Unlinked(chain, h) : f[k] \notin At(chain, h)
<1> DEFINE rest == Unlinked(chain, h)
<1>0. chain \in Seq(Node) /\ Len(chain) \in Nat /\ DOMAIN chain = 1 .. Len(chain)
  BY DEF Good
<1>1. CASE chain = <<>>
  <2>1. rest = <<>>
    BY <1>1 DEF Unlinked
  <2> HIDE DEF rest
  <2>2. rest \in Seq(Node) /\ DOMAIN rest = {}
    BY <2>1
  <2>3. From(rest, chain, <<>>)
    BY <2>2 DEF From
  <2> QED BY <2>2, <2>3 DEF rest
<1>2. CASE chain # <<>> /\ At(chain, h) = {}
  <2>1. rest = <<chain[1]>>
    BY <1>2 DEF Unlinked
  <2> HIDE DEF rest
  <2>2. 1 \in DOMAIN chain /\ chain[1] \in Node
    BY <1>0, <1>2
  <2>3. rest \in Seq(Node) /\ DOMAIN rest = {1} /\ rest[1] = chain[1]
    BY <2>1, <2>2
  <2> DEFINE f == [k \in {1} |-> 1]
  <2>4. From(rest, chain, f)
    BY <2>2, <2>3 DEF From
  <2>5. \A k \in DOMAIN rest : f[k] \notin At(chain, h)
    BY <1>2
  <2> HIDE DEF f
  <2> QED BY <2>3, <2>4, <2>5 DEF rest
<1>3. CASE At(chain, h) # {}
  <2> DEFINE p == First(chain, h)
  <2>1. p \in 1 .. Len(chain) /\ chain # <<>>
    BY <1>0, <1>3, LookupValue DEF At
  <2>2. At(chain, h) = {p}
    <3>1. p \in DOMAIN chain /\ chain[p].hash = h
      BY <1>3, LookupValue
    <3> HIDE DEF p
    <3> QED BY <3>1, Lookup
  <2>3. CASE p = 1
    <3>1. rest = Tail(chain)
      BY <1>3, <2>1, <2>3 DEF Unlinked
    <3> HIDE DEF rest, p
    <3>2. /\ rest \in Seq(Node) /\ Len(rest) = Len(chain) - 1
      BY <1>0, <2>1, <3>1
    <3>3. ASSUME NEW k \in 1 .. Len(chain) - 1 PROVE rest[k] = chain[k + 1]
      BY <1>0, <2>1, <3>1
    <3>4. DOMAIN rest = 1 .. Len(chain) - 1
      BY <1>0, <3>2
    <3> DEFINE f == [k \in DOMAIN rest |-> k + 1]
    <3>5. From(rest, chain, f)
      BY <1>0, <3>3, <3>4 DEF From
    <3>6. \A k \in DOMAIN rest : f[k] \notin At(chain, h)
      BY <2>2, <2>3, <3>4
    <3> HIDE DEF f
    <3> QED BY <3>2, <3>5, <3>6 DEF rest
  <2>4. CASE p # 1
    <3>1. rest = <<chain[1]>> \o SubSeq(chain, p + 1, Len(chain))
      BY <1>3, <2>1, <2>4 DEF Unlinked
    <3> HIDE DEF rest, p
    <3>2. p \in 2 .. Len(chain)
      BY <1>0, <2>1, <2>4
    <3>3. /\ rest \in Seq(Node) /\ DOMAIN rest = 1 .. Len(chain) - p + 1
          /\ \A k \in 1 .. Len(chain) - p + 1 :
                rest[k] = IF k = 1 THEN chain[1] ELSE chain[p + (k - 1)]
      BY <1>0, <3>1, <3>2, SkipTo
    <3> DEFINE f == [k \in DOMAIN rest |-> IF k = 1 THEN 1 ELSE p + (k - 1)]
    <3>4. \A k \in 1 .. Len(chain) - p + 1 : f[k] = IF k = 1 THEN 1 ELSE p + (k - 1)
      BY <3>3
    <3> HIDE DEF f
    <3>5. From(rest, chain, f)
      <4>1. ASSUME NEW k \in DOMAIN rest PROVE f[k] \in DOMAIN chain /\ rest[k] = chain[f[k]]
        <5>1. CASE k = 1
          BY <1>0, <3>2, <3>3, <3>4, <5>1
        <5>2. CASE k # 1
          <6>1. f[k] = p + (k - 1) /\ rest[k] = chain[p + (k - 1)]
            BY <3>3, <3>4, <5>2
          <6>2. p + (k - 1) \in DOMAIN chain
            BY <1>0, <3>2, <3>3
          <6> QED BY <6>1, <6>2
        <5> QED BY <5>1, <5>2
      <4>2. \A k, l \in DOMAIN rest : f[k] = f[l] => k = l
        BY <1>0, <3>2, <3>3, <3>4
      <4> QED BY <4>1, <4>2 DEF From
    <3>6. \A k \in DOMAIN rest : f[k] \notin At(chain, h)
      BY <1>0, <2>2, <3>2, <3>3, <3>4
    <3> QED BY <3>3, <3>5, <3>6 DEF rest
  <2> QED BY <2>3, <2>4
<1> QED BY <1>1, <1>2, <1>3

LEMMA UnlinkedGood ==
    ASSUME NEW chain, NEW b, NEW n, Good(chain, b, n), NEW h
    PROVE  /\ Good(Unlinked(chain, h), b, n) /\ At(Unlinked(chain, h), h) = {}
           /\ \A x : At(Unlinked(chain, h), x) # {} => At(chain, x) # {}
<1> DEFINE rest == Unlinked(chain, h)
<1>1. PICK f : From(rest, chain, f) /\ \A k \in DOMAIN rest : f[k] \notin At(chain, h)
  BY UnlinkedFrom
<1>2. rest \in Seq(Node)
  BY UnlinkedFrom
<1> HIDE DEF rest
<1>3. /\ Good(rest, b, n)
      /\ \A x : At(rest, x) # {} => \E k \in DOMAIN rest : f[k] \in At(chain, x)
  BY <1>1, <1>2, FromGood
<1>4. Good(rest, b, n) /\ At(rest, h) = {} /\ \A x : At(rest, x) # {} => At(chain, x) # {}
  BY <1>1, <1>3
<1> QED BY <1>4 DEF rest

LEMMA RemoveKeeps ==
    ASSUME HashAssumption, IInv, NEW h \in Hashes, RemoveKey(h)
    PROVE  IInv'
<1> DEFINE b == h % size_node
<1>1. /\ size_node \in Nat \ {0} /\ nb_elements \in Nat /\ removes /\ removes'
      /\ size_node' = size_node /\ GoodTable(nodes, size_node)
      /\ h \in Nat /\ b \in 0 .. size_node - 1
  <2>1. h \in Nat /\ size_node \in Nat \ {0}
    BY DEF HashAssumption, IInv, TypeOK
  <2>2. h % size_node \in 0 .. size_node - 1
    BY <2>1, ModDef
  <2> QED BY <2>1, <2>2 DEF RemoveKey, IInv, TypeOK
<1> DEFINE rest == Unlinked(nodes[b], h)
<1>2. nodes' = [nodes EXCEPT ![b] = rest]
  BY DEF RemoveKey, Chain
<1>3. Good(nodes[b], b, size_node)
  BY <1>1 DEF GoodTable
<1>4. /\ Good(rest, b, size_node) /\ At(rest, h) = {}
      /\ \A x : At(rest, x) # {} => At(nodes[b], x) # {}
  BY <1>3, UnlinkedGood
<1> HIDE DEF b, rest
<1>5. rest \in Seq(Node)
  BY <1>4 DEF Good
<1>6. /\ nodes' \in [0 .. size_node - 1 -> Seq(Node)]
      /\ nodes'[b] = rest
      /\ \A a \in 0 .. size_node - 1 : a # b => nodes'[a] = nodes[a]
  BY <1>1, <1>2, <1>5 DEF GoodTable
<1>7. GoodTable(nodes', size_node)
  BY <1>1, <1>4, <1>6 DEF GoodTable
<1>8. Keys' \subseteq Keys \ {h}
  <2> SUFFICES ASSUME NEW x \in Hashes, HasKey(x)' PROVE HasKey(x) /\ x # h
    BY DEF Keys
  <2>1. x \in Nat /\ x % size_node \in 0 .. size_node - 1
    <3>1. x \in Nat
      BY DEF HashAssumption
    <3> QED BY <1>1, <3>1, ModDef
  <2>2. At(nodes'[x % size_node], x) # {}
    BY <1>1 DEF HasKey, Chain
  <2>3. CASE x % size_node = b
    BY <1>4, <1>6, <2>2, <2>3 DEF HasKey, Chain
  <2>4. CASE x % size_node # b
    BY <1>6, <2>1, <2>2, <2>4 DEF HasKey, Chain, b
  <2> QED BY <2>3, <2>4
<1>9. IsFiniteSet(Keys) /\ Cardinality(Keys) \in Nat
  BY FS_CardinalityType DEF IInv
<1>10. /\ IsFiniteSet(Keys \ {h})
       /\ Cardinality(Keys \ {h}) = IF h \in Keys THEN Cardinality(Keys) - 1 ELSE Cardinality(Keys)
  BY <1>9, FS_RemoveElement
<1>11. /\ IsFiniteSet(Keys') /\ Cardinality(Keys') \in Nat
       /\ Cardinality(Keys') <= Cardinality(Keys \ {h})
  <2>1. Keys' \in SUBSET (Keys \ {h})
    BY <1>8
  <2> HIDE DEF Keys
  <2> QED BY <1>10, <2>1, FS_Subset, FS_CardinalityType
<1>12. nb_elements' = IF h \in Keys THEN nb_elements - 1 ELSE nb_elements
  BY DEF RemoveKey, Left, Keys
<1>13. nb_elements' \in Nat /\ Cardinality(Keys') <= nb_elements'
  BY <1>1, <1>9, <1>10, <1>11, <1>12 DEF IInv
<1>14. TypeOK'
  BY <1>1, <1>6, <1>13 DEF TypeOK
<1> QED BY <1>1, <1>7, <1>11, <1>13, <1>14 DEF IInv

----------------------------------------------------------------------------
LEMMA Start == ASSUME HashAssumption, TableInit PROVE IInv
<1>1. /\ removes \in BOOLEAN /\ size_node \in Nat \ {0} /\ nb_elements = 0
      /\ nodes = [b \in 0 .. size_node - 1 |-> <<>>]
  BY DEF TableInit, HashAssumption
<1>2. TypeOK
  BY <1>1 DEF TypeOK
<1>3. \A b \in 0 .. size_node - 1 : nodes[b] = <<>>
  BY <1>1
<1>4. GoodTable(nodes, size_node)
  <2>1. \A b, n : Good(<<>>, b, n)
    BY DEF Good
  <2> QED BY <1>2, <1>3, <2>1 DEF GoodTable, TypeOK
<1>5. Keys = {}
  <2> SUFFICES ASSUME NEW h \in Hashes PROVE ~HasKey(h)
    BY DEF Keys
  <2>1. h \in Nat
    BY DEF HashAssumption
  <2>2. h % size_node \in 0 .. size_node - 1
    BY <1>1, <2>1, ModDef
  <2> QED BY <1>3, <2>2 DEF HasKey, Chain, At
<1>6. IsFiniteSet(Keys) /\ Cardinality(Keys) = 0
  BY <1>5, FS_EmptySet
<1> QED BY <1>1, <1>2, <1>4, <1>6 DEF IInv

LEMMA StepKeeps == ASSUME HashAssumption, IInv, [TableNext]_tableVars PROVE IInv'
<1>1. CASE UNCHANGED tableVars
  <2>1. Keys' = Keys
    BY <1>1 DEF tableVars, Keys, HasKey, Chain
  <2> QED BY <1>1, <2>1 DEF tableVars, IInv, TypeOK
<1>2. CASE TableNext
  BY <1>2, PutKeeps, RemoveKeeps DEF TableNext
<1> QED BY <1>1, <1>2

(* The invariant: types, the nodes are where they belong, and of the        *)
(* elements that are counted none is missing in a table nothing is removed  *)
(* from.                                                                    *)
THEOREM Inductive == TableSpec => []IInv
<1>1. HashAssumption /\ TableInit => IInv
  BY Start
<1>2. HashAssumption /\ IInv /\ [TableNext]_tableVars => IInv'
  BY StepKeeps
<1> QED BY <1>1, <1>2, HashAssumption, PTL DEF TableSpec

(* A node is a key: there are no more nodes than keys. *)
LEMMA Fit == ASSUME HashAssumption, IInv PROVE KeysFit
<1> DEFINE f == [p \in Places |-> nodes[p[1]][p[2]].hash]
<1>0. /\ size_node \in Nat \ {0} /\ nodes \in [0 .. size_node - 1 -> Seq(Node)]
      /\ \A b \in 0 .. size_node - 1 : Good(nodes[b], b, size_node)
      /\ IsFiniteSet(Keys) /\ Cardinality(Keys) <= nb_elements /\ nb_elements \in Nat
  BY DEF IInv, TypeOK, GoodTable
<1>1. ASSUME NEW p \in Places
      PROVE  \E b \in 0 .. size_node - 1 : \E j \in DOMAIN nodes[b] : p = <<b, j>>
  BY <1>0 DEF Places
<1>2. ASSUME NEW b \in 0 .. size_node - 1, NEW j \in DOMAIN nodes[b]
      PROVE  nodes[b][j].hash \in Keys /\ nodes[b][j].hash % size_node = b
  <2>1. nodes[b] \in Seq(Node) /\ nodes[b][j].hash % size_node = b
    BY <1>0, <1>2 DEF Good
  <2>2. nodes[b][j] \in Node
    BY <2>1
  <2>3. nodes[b][j].hash \in Hashes
    BY <2>2 DEF Node
  <2>4. j \in At(nodes[b], nodes[b][j].hash)
    BY DEF At
  <2> QED BY <2>1, <2>3, <2>4 DEF Keys, HasKey, Chain
<1>3. f \in [Places -> Keys]
  <2> SUFFICES ASSUME NEW p \in Places PROVE nodes[p[1]][p[2]].hash \in Keys
    OBVIOUS
  <2> QED BY <1>1, <1>2
<1>4. ASSUME NEW p \in Places, NEW q \in Places, f[p] = f[q] PROVE p = q
  <2>1. PICK a \in 0 .. size_node - 1 : \E i \in DOMAIN nodes[a] : p = <<a, i>>
    BY <1>1
  <2>2. PICK i \in DOMAIN nodes[a] : p = <<a, i>>
    BY <2>1
  <2>3. PICK b \in 0 .. size_node - 1 : \E j \in DOMAIN nodes[b] : q = <<b, j>>
    BY <1>1
  <2>4. PICK j \in DOMAIN nodes[b] : q = <<b, j>>
    BY <2>3
  <2>5. nodes[a][i].hash = nodes[b][j].hash
    BY <1>4, <2>2, <2>4
  <2>6. a = b
    BY <1>2, <2>5
  <2>7. i = j
    BY <1>0, <2>5, <2>6 DEF Good
  <2> QED BY <2>2, <2>4, <2>6, <2>7
<1>5. f \in Injection(Places, Keys)
  <2> HIDE DEF f
  <2> QED BY <1>3, <1>4 DEF Injection, IsInjective
<1>6. IsFiniteSet(Places) /\ Cardinality(Places) <= Cardinality(Keys)
  <2> HIDE DEF f
  <2> QED BY <1>0, <1>5, FS_Injection
<1>7. Cardinality(Places) \in Nat /\ Cardinality(Keys) \in Nat
  BY <1>0, <1>6, FS_CardinalityType
<1> QED BY <1>0, <1>6, <1>7 DEF KeysFit

LEMMA ChainsAreSound == ASSUME HashAssumption, IInv PROVE ChainsSound
<1>1. ASSUME NEW b \in DOMAIN nodes, NEW j \in DOMAIN nodes[b]
      PROVE  /\ nodes[b][j].hash % size_node = b
             /\ At(nodes[b], nodes[b][j].hash) = {j}
  <2>1. Good(nodes[b], b, size_node)
    BY DEF IInv, TypeOK, GoodTable
  <2>2. At(nodes[b], nodes[b][j].hash) = {j}
    BY <2>1, Lookup
  <2> QED BY <2>1, <2>2 DEF Good
<1> QED BY <1>1, Fit DEF ChainsSound

(* However nodes are put, moved to a larger table and removed, each is in   *)
(* the chain its hash leads to and the only one there with its hash, and    *)
(* keys and values have room for all (hashtable.c:72-95, 127-203, 266-286). *)
THEOREM ChainsStaySound == TableSpec => []ChainsSound
<1>1. HashAssumption /\ IInv => ChainsSound
  BY ChainsAreSound
<1> QED BY <1>1, HashAssumption, Inductive, PTL

----------------------------------------------------------------------------
(* The refinement. *)

MapOf == [h \in {x \in Hashes : ~removes /\ HasKey(x)} |-> Value(h)]
CountOf == IF removes THEN 0 ELSE nb_elements

LEMMA PutIsPut ==
    ASSUME HashAssumption, IInv, ~removes, NEW h \in Hashes, NEW v \in Values, Put(h, v)
    PROVE  Map!Put(h, v)
<1>1. removes' = removes
  BY DEF Put
<1>2. /\ Keys' = Keys \cup {h}
      /\ \A x \in Keys' : Value(x)' = IF x = h THEN v ELSE Value(x)
  BY PutKeys
<1>3. MapOf = [x \in Keys |-> Value(x)]
  BY DEF MapOf, Keys
<1>4. MapOf' = [x \in Keys' |-> Value(x)']
  BY <1>1 DEF MapOf, Keys
<1>5. DOMAIN MapOf = Keys /\ \A x \in Keys : MapOf[x] = Value(x)
  <2> HIDE DEF MapOf, Keys
  <2> QED BY <1>3
<1>6. MapOf' = [x \in Keys \cup {h} |-> IF x = h THEN v ELSE MapOf[x]]
  <2> HIDE DEF MapOf, Keys
  <2> QED BY <1>2, <1>4, <1>5
<1>7. CountOf' = Cardinality(Keys \cup {h})
  <2>1. IInv'
    BY PutKeeps
  <2>2. nb_elements' = Cardinality(Keys')
    BY <1>1, <2>1 DEF IInv
  <2> QED BY <1>1, <1>2, <2>2 DEF CountOf
<1>8. /\ MapOf' = [x \in DOMAIN MapOf \cup {h} |-> IF x = h THEN v ELSE MapOf[x]]
      /\ CountOf' = Cardinality(DOMAIN MapOf \cup {h})
  <2> HIDE DEF MapOf, Keys, CountOf
  <2> QED BY <1>5, <1>6, <1>7
<1> QED BY <1>8, Zenon DEF Map!Put, MapOf, CountOf, Map!Cardinality, Cardinality,
                           Map!IsFiniteSet, IsFiniteSet

LEMMA StepSimulates ==
    ASSUME HashAssumption, IInv, [TableNext]_tableVars
    PROVE  [Map!Next]_<<MapOf, CountOf>>
<1>1. CASE UNCHANGED tableVars
  BY <1>1 DEF tableVars, MapOf, CountOf, HasKey, Value, Chain
<1>2. CASE removes
  <2>1. removes'
    BY <1>1, <1>2 DEF TableNext, Put, RemoveKey, tableVars
  <2>2. MapOf = [h \in {} |-> Value(h)] /\ CountOf = 0
    BY <1>2 DEF MapOf, CountOf
  <2>3. MapOf' = [h \in {} |-> Value(h)'] /\ CountOf' = 0
    BY <2>1 DEF MapOf, CountOf
  <2>4. MapOf' = MapOf
    <3> HIDE DEF MapOf
    <3> QED BY <2>2, <2>3
  <2> QED BY <2>2, <2>3, <2>4
<1>3. CASE ~removes /\ TableNext
  <2>1. PICK h \in Hashes, v \in Values : Put(h, v)
    BY <1>3 DEF TableNext, RemoveKey
  <2>2. Map!Put(h, v)
    BY <1>3, <2>1, PutIsPut
  <2> QED BY <2>2, Zenon DEF Map!Next
<1> QED BY <1>1, <1>2, <1>3

(* For a client that only puts and looks up, as the program does, a table   *)
(* is a map from hashes to values, and nb_elements the number of its keys:  *)
(* IsMap, through every rehash (hashtable.c:127-203).                       *)
THEOREM TableIsMap == TableSpec => IsMap
<1>1. HashAssumption /\ TableInit => Map!Init
  <2> SUFFICES ASSUME HashAssumption, TableInit PROVE Map!Init
    OBVIOUS
  <2>1. Keys = {}
    <3> SUFFICES ASSUME NEW h \in Hashes PROVE ~HasKey(h)
      BY DEF Keys
    <3>1. h \in Nat /\ size_node \in Nat \ {0}
      BY DEF HashAssumption, TableInit
    <3>2. h % size_node \in 0 .. size_node - 1
      BY <3>1, ModDef
    <3>3. nodes[h % size_node] = <<>>
      BY <3>2 DEF TableInit
    <3> QED BY <3>3 DEF HasKey, Chain, At
  <2>2. {x \in Hashes : ~removes /\ HasKey(x)} = {}
    BY <2>1 DEF Keys
  <2>3. nb_elements = 0
    BY DEF TableInit
  <2>4. MapOf = [h \in {} |-> h]
    BY <2>2 DEF MapOf
  <2> QED BY <2>3, <2>4 DEF Map!Init, MapOf
<1>2. HashAssumption /\ IInv /\ [TableNext]_tableVars => [Map!Next]_<<MapOf, CountOf>>
  BY StepSimulates
<1> QED BY <1>1, <1>2, HashAssumption, Inductive, PTL DEF TableSpec, IsMap, Map!Spec, MapOf, CountOf

=============================================================================
