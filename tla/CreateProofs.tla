---------------------------- MODULE CreateProofs ----------------------------
(***************************************************************************)
(* Proofs about Create for every list of entries, volume size, block size   *)
(* and number of failures: the type invariant, that no volume is written    *)
(* past its end, and that the content of a file reaches the archive in      *)
(* order, without a hole or a repetition (DataInOrder).  As long as no call *)
(* fails and no file changes, the operator is asked for a volume only when  *)
(* the current one is full, to the last unit; and the header a file goes on *)
(* with on the next volume says how much of it the archive holds already.   *)
(*                                                                         *)
(* Then what is in the archive mtar -c makes: a hard link names an entry    *)
(* that is there, and an inode is there once; a run that ends with status 0 *)
(* has written every file.  And it can be read back header by header: as    *)
(* long as no file changes and no header is cut, the next header is where   *)
(* the size of the last one says and what is between them is what that      *)
(* header announces.                                                        *)
(***************************************************************************)
EXTENDS Create, SequenceTheorems, FiniteSetTheorems, TLAPS

----------------------------------------------------------------------------
(* The inductive invariant. *)

(* The entry at hand has no content in the archive yet ... *)
Unwritten ==
    \/ pc \in {"label", "next", "link", "add"}
    \/ pc = "prompt" /\ back \in {"label", "link", "add"}

(* ... or its content is being written. *)
AtVolumeEnd == pc \in {"prompt", "restart"} /\ back \in {"enospc", "split"}
InContent == pc \in {"read", "write", "rest"} \/ AtVolumeEnd

(* How much of it is written. *)
Archived ==
    IF pc \in {"read", "write"} \/ nb_write = -1 THEN total_nb_write
    ELSE total_nb_write + nb_write

Upto(s, e) == \A j \in DOMAIN s : s[j].k = "data" => s[j].f <= e /\ s[j].o \in Nat
Below(s, f, a) == \A j \in DOMAIN s : s[j].k = "data" /\ s[j].f = f => s[j].o < a
Reaches(s, f, a) ==
    a > 0 => \E j \in DOMAIN s : s[j].k = "data" /\ s[j].f = f /\ s[j].o = a - 1
NoData(s) == \A j \in DOMAIN s : s[j].k # "data"

(* What the loop of create.c:236-301 keeps true of its counters. *)
Counters ==
    /\ pc = "read" => roff = total_nb_write
    /\ pc \in {"write", "rest"} \/ AtVolumeEnd => roff = total_nb_write + nb_read
    /\ pc = "rest" \/ AtVolumeEnd => nb_write <= nb_read
    /\ AtVolumeEnd /\ back = "enospc" => nb_write = -1
    /\ pc = "prompt" /\ back = "add" =>
          roff = 0 /\ nb_read = 0 /\ nb_write = 0 /\ total_nb_write = 0

(* Where the control can be. *)
Control ==
    /\ pc = "prompt" => back # "none"
    /\ pc = "restart" => back \in {"enospc", "split"}
    /\ pc = "rest" => back = "split"
    /\ pc \in {"link", "add", "eof"} \/ InContent \/ (pc = "prompt" /\ back # "label")
          => i <= Len(Entries)

(* What the archive holds of each file. *)
Contents ==
    /\ InOrder(log)
    /\ NoData(remain_header)
    /\ Upto(log, i)
    /\ Unwritten => Upto(log, i - 1)
    /\ InContent => Below(log, i, Archived) /\ Reaches(log, i, Archived)

IInv == TypeOK /\ VolumeOK /\ Counters /\ Control /\ Contents

----------------------------------------------------------------------------
(* Lemmas about the operators. *)

(* Arithmetic that the solvers need stated. *)
LEMMA ModRange == \A a \in Int, b \in Nat \ {0} : a % b \in 0 .. b - 1
  OBVIOUS

LEMMA ProductNat == \A a, b \in Nat : a * b \in Nat
  OBVIOUS

(* A function on 1 .. n is a sequence of length n. *)
LEMMA FunctionIsSeq ==
  ASSUME NEW S, NEW n \in Nat, NEW T \in [1 .. n -> S]
  PROVE  T \in Seq(S) /\ Len(T) = n /\ DOMAIN T = 1 .. n
  OBVIOUS

(* What s \o T contains, index by index. *)
LEMMA ConcatUnits ==
  ASSUME NEW s \in Seq(Units), NEW T \in Seq(Units)
  PROVE  /\ s \o T \in Seq(Units)
         /\ DOMAIN s = 1 .. Len(s) /\ Len(s) \in Nat
         /\ DOMAIN T = 1 .. Len(T) /\ Len(T) \in Nat
         /\ DOMAIN (s \o T) = 1 .. Len(s) + Len(T)
         /\ \A j \in 1 .. Len(s) : (s \o T)[j] = s[j]
         /\ \A j \in 1 .. Len(T) : (s \o T)[Len(s) + j] = T[j]
         /\ \A j \in Len(s) + 1 .. Len(s) + Len(T) : (s \o T)[j] = T[j - Len(s)]
<1>1. /\ s \o T \in Seq(Units)
      /\ Len(s \o T) = Len(s) + Len(T)
      /\ \A j \in 1 .. Len(s) + Len(T) : (s \o T)[j] =
                     IF j <= Len(s) THEN s[j] ELSE T[j - Len(s)]
  BY ConcatProperties
<1>2. /\ Len(s) \in Nat /\ DOMAIN s = 1 .. Len(s)
      /\ Len(T) \in Nat /\ DOMAIN T = 1 .. Len(T)
      /\ DOMAIN (s \o T) = 1 .. Len(s \o T)
  BY <1>1, LenProperties
<1> QED BY <1>1, <1>2

(* Stamping changes the volume of a unit and nothing else. *)
LEMMA StampedUnits ==
  ASSUME NEW units \in Seq(Units), NEW n \in 0 .. Len(units), volume \in Nat
  PROVE  /\ Stamped(units, n) \in Seq(Units)
         /\ Len(Stamped(units, n)) = n
         /\ \A j \in 1 .. n : /\ Stamped(units, n)[j].k = units[j].k
                             /\ Stamped(units, n)[j].f = units[j].f
                             /\ Stamped(units, n)[j].o = units[j].o
<1>1. \A j \in 1 .. n : units[j] \in Units
  BY ElementOfSeq
<1>2. \A j \in 1 .. n : [units[j] EXCEPT !.v = volume] \in Units
  BY <1>1 DEF Units
<1>3. Stamped(units, n) \in [1 .. n -> Units]
  BY <1>2 DEF Stamped
<1>4. n \in Nat
  BY LenProperties
<1>5. Stamped(units, n) \in Seq(Units) /\ Len(Stamped(units, n)) = n
  BY <1>3, <1>4, FunctionIsSeq
<1>6. \A j \in 1 .. n : /\ Stamped(units, n)[j].k = units[j].k
                       /\ Stamped(units, n)[j].f = units[j].f
                       /\ Stamped(units, n)[j].o = units[j].o
  BY <1>1 DEF Stamped, Units
<1> QED BY <1>5, <1>6

(* Writing units that are no data leaves the order of the data alone. *)
LEMMA AppendOther ==
  ASSUME NEW s \in Seq(Units), NEW T \in Seq(Units), NoData(T)
  PROVE  /\ InOrder(s) => InOrder(s \o T)
         /\ \A e : Upto(s, e) => Upto(s \o T, e)
         /\ \A f, a : Below(s, f, a) => Below(s \o T, f, a)
         /\ \A f, a : Reaches(s, f, a) => Reaches(s \o T, f, a)
<1> DEFINE u == s \o T
<1>1. /\ DOMAIN s \subseteq DOMAIN u
      /\ \A j \in DOMAIN s : u[j] = s[j]
      /\ \A j \in DOMAIN u : u[j].k = "data" => j \in DOMAIN s
  BY ConcatUnits DEF NoData
<1> HIDE DEF u
<1>2. InOrder(s) => InOrder(u)
  BY <1>1 DEF InOrder
<1>3. \A e : Upto(s, e) => Upto(u, e)
  BY <1>1 DEF Upto
<1>4. \A f, a : Below(s, f, a) => Below(u, f, a)
  BY <1>1 DEF Below
<1>5. \A f, a : Reaches(s, f, a) => Reaches(u, f, a)
  BY <1>1 DEF Reaches
<1> QED BY <1>2, <1>3, <1>4, <1>5 DEF u

(* Writing the next units of file f, after at most one unit of junk, keeps  *)
(* the order and moves the bound.                                           *)
LEMMA AppendData ==
  ASSUME NEW s \in Seq(Units), NEW T \in Seq(Units), NEW f \in Nat, NEW a \in Nat,
         NEW c \in 0 .. 1, Len(T) > 0,
         InOrder(s), Upto(s, f), Below(s, f, a), Reaches(s, f, a),
         \A j \in 1 .. Len(T) : IF j <= c THEN T[j].k # "data"
                               ELSE T[j].k = "data" /\ T[j].f = f /\ T[j].o = a + j - c - 1
  PROVE  /\ InOrder(s \o T)
         /\ Upto(s \o T, f)
         /\ Below(s \o T, f, a + Len(T) - c)
         /\ Reaches(s \o T, f, a + Len(T) - c)
<1> DEFINE u == s \o T
           m == Len(s)
           n == Len(T)
<1>1. /\ m \in Nat /\ n \in Nat
      /\ DOMAIN s = 1 .. m
      /\ DOMAIN u = 1 .. m + n
      /\ \A j \in 1 .. m : u[j] = s[j]
      /\ \A j \in m + 1 .. m + n : u[j] = T[j - m]
  BY ConcatUnits
<1>2. \A j \in m + 1 .. m + n :
        IF j <= m + c THEN u[j].k # "data"
        ELSE u[j].k = "data" /\ u[j].f = f /\ u[j].o = a + (j - m) - c - 1
  BY <1>1
<1> HIDE DEF u, m, n
<1>3. n > 0
  BY DEF n
<1>4. InOrder(u)
  <2> SUFFICES ASSUME NEW j \in 1 .. m + n, u[j].k = "data"
               PROVE  /\ \A l \in 1 .. m + n :
                           l < j /\ u[l].k = "data" /\ u[l].f = u[j].f => u[l].o < u[j].o
                      /\ u[j].o > 0 =>
                           \E l \in 1 .. m + n : l < j /\ u[l].k = "data"
                              /\ u[l].f = u[j].f /\ u[l].o = u[j].o - 1
    BY <1>1 DEF InOrder
  <2>1. CASE j \in 1 .. m
    <3>1. u[j] = s[j] /\ s[j].k = "data" /\ j \in DOMAIN s
      BY <1>1, <2>1
    <3>2. \A l \in 1 .. m + n : l < j => l \in DOMAIN s /\ u[l] = s[l]
      BY <1>1, <2>1
    <3>3. \A l \in DOMAIN s : l \in 1 .. m + n /\ u[l] = s[l]
      BY <1>1
    <3>4. \A l \in DOMAIN s :
            l < j /\ s[l].k = "data" /\ s[l].f = s[j].f => s[l].o < s[j].o
      BY <3>1 DEF InOrder
    <3>5. s[j].o > 0 =>
            \E l \in DOMAIN s : l < j /\ s[l].k = "data"
                              /\ s[l].f = s[j].f /\ s[l].o = s[j].o - 1
      BY <3>1 DEF InOrder
    <3> QED BY <3>1, <3>2, <3>3, <3>4, <3>5
  <2>2. CASE j \in m + 1 .. m + n
    <3>1. u[j].f = f /\ u[j].o = a + (j - m) - c - 1 /\ j > m + c
      BY <1>1, <1>2, <2>2
    <3>2. ASSUME NEW l \in 1 .. m + n, l < j, u[l].k = "data", u[l].f = u[j].f
          PROVE  u[l].o < u[j].o
      <4>1. CASE l \in 1 .. m
        <5>1. u[l].o < a /\ u[l].o \in Nat
          BY <1>1, <3>1, <3>2, <4>1 DEF Below, Upto
        <5> QED BY <5>1, <3>1, <1>1, <2>2
      <4>2. CASE l \in m + 1 .. m + n
        BY <1>1, <1>2, <3>1, <3>2, <4>2
      <4> QED BY <4>1, <4>2, <1>1
    <3>3. ASSUME u[j].o > 0
          PROVE  \E l \in 1 .. m + n : l < j /\ u[l].k = "data"
                              /\ u[l].f = u[j].f /\ u[l].o = u[j].o - 1
      <4>1. CASE j = m + c + 1
        <5>1. u[j].o = a
          BY <3>1, <4>1, <1>1
        <5>2. PICK l \in 1 .. m : s[l].k = "data" /\ s[l].f = f /\ s[l].o = a - 1
          BY <5>1, <3>3, <1>1 DEF Reaches
        <5>3. l \in 1 .. m + n /\ l < j /\ u[l] = s[l]
          BY <5>2, <1>1, <2>2
        <5> QED BY <5>1, <5>2, <5>3, <3>1
      <4>2. CASE j # m + c + 1
        <5>1. j - 1 \in m + 1 .. m + n /\ j - 1 > m + c
          BY <3>1, <4>2, <1>1, <2>2
        <5>2. /\ u[j - 1].k = "data" /\ u[j - 1].f = f
              /\ u[j - 1].o = a + (j - 1 - m) - c - 1
          BY <5>1, <1>2, <1>1
        <5>3. u[j - 1].o = u[j].o - 1
          BY <5>2, <3>1, <1>1
        <5> QED BY <5>1, <5>2, <5>3, <3>1, <1>1
      <4> QED BY <4>1, <4>2
    <3> QED BY <3>2, <3>3
  <2> QED BY <2>1, <2>2, <1>1
<1>5. Upto(u, f)
  <2> SUFFICES ASSUME NEW j \in 1 .. m + n, u[j].k = "data"
               PROVE  u[j].f <= f /\ u[j].o \in Nat
    BY <1>1 DEF Upto
  <2>1. CASE j \in 1 .. m
    BY <1>1, <2>1 DEF Upto
  <2>2. CASE j \in m + 1 .. m + n
    BY <1>1, <1>2, <2>2
  <2> QED BY <2>1, <2>2, <1>1
<1>6. Below(u, f, a + n - c)
  <2> SUFFICES ASSUME NEW j \in 1 .. m + n, u[j].k = "data", u[j].f = f
               PROVE  u[j].o < a + n - c
    BY <1>1 DEF Below
  <2>1. CASE j \in 1 .. m
    <3>1. u[j].o < a /\ u[j].o \in Nat
      BY <1>1, <2>1 DEF Below, Upto
    <3> QED BY <3>1, <1>1, <1>3
  <2>2. CASE j \in m + 1 .. m + n
    BY <1>1, <1>2, <2>2
  <2> QED BY <2>1, <2>2, <1>1
<1>7. Reaches(u, f, a + n - c)
  <2>1. CASE n = c
    <3>1. a + n - c = a
      BY <2>1, <1>1
    <3> QED BY <3>1, <1>1 DEF Reaches
  <2>2. CASE n > c
    <3>1. /\ m + n \in m + 1 .. m + n
          /\ u[m + n].k = "data" /\ u[m + n].f = f
          /\ u[m + n].o = a + n - c - 1
      BY <1>1, <1>2, <1>3, <2>2
    <3>2. \E j \in DOMAIN u :
            u[j].k = "data" /\ u[j].f = f /\ u[j].o = (a + n - c) - 1
      <4>1. m + n \in DOMAIN u
        BY <3>1, <1>1
      <4>2. u[m + n].o = (a + n - c) - 1
        BY <3>1, <1>1
      <4> QED BY <3>1, <4>1, <4>2
    <3> QED BY <3>2 DEF Reaches
  <2> QED BY <2>1, <2>2, <1>1, <1>3
<1> QED BY <1>4, <1>5, <1>6, <1>7 DEF u, n

----------------------------------------------------------------------------
(* The operations of the two writers. *)

(* What is known of the outcome r of writing `length' units. *)
GoodResult(length, r) ==
    /\ r.n \in -1 .. length
    /\ r.err \in Errno
    /\ faults + r.fault \in 0 .. MaxFaults
    /\ VolumeSize > 0 /\ r.n > 0 => position + r.n <= VolumeSize

LEMMA WriteResult ==
  ASSUME FileTypeOK, VolumeOK, NEW length \in Nat, NEW r \in WriteResults(length)
  PROVE  GoodResult(length, r)
<1> USE FileAssumption DEF FileTypeOK, VolumeOK, GoodResult, Errno
<1>1. CASE ~fd \/ length < 1
  BY <1>1 DEF WriteResults
<1>2. CASE fd /\ length >= 1 /\ VolumeSize > 0 /\ position = VolumeSize
  BY <1>2 DEF WriteResults
<1>3. CASE fd /\ length >= 1 /\ ~(VolumeSize > 0 /\ position = VolumeSize)
  <2> DEFINE room == IF VolumeSize > 0 THEN Least(length, VolumeSize - position) ELSE length
  <2>1. /\ room \in 1 .. length
        /\ VolumeSize > 0 => position + room <= VolumeSize
    BY <1>3 DEF Least
  <2>2. \/ r = [n |-> room, err |-> "none", fault |-> 0]
        \/ /\ faults < MaxFaults
           /\ \/ r \in [n : 1 .. room - 1, err : {"none"}, fault : {1}]
              \/ r \in [n : {-1}, err : {"ENOSPC", "EIO"}, fault : {1}]
    BY <1>3 DEF WriteResults
  <2> HIDE DEF room
  <2>3. CASE r = [n |-> room, err |-> "none", fault |-> 0]
    BY <2>1, <2>3
  <2>4. CASE /\ faults < MaxFaults
             /\ r \in [n : 1 .. room - 1, err : {"none"}, fault : {1}]
    BY <2>1, <2>4
  <2>5. CASE /\ faults < MaxFaults
             /\ r \in [n : {-1}, err : {"ENOSPC", "EIO"}, fault : {1}]
    BY <2>1, <2>5
  <2> QED BY <2>2, <2>3, <2>4, <2>5
<1> QED BY <1>1, <1>2, <1>3

LEMMA HeaderResult ==
  ASSUME FileTypeOK, VolumeOK, NEW length \in Nat, NEW r \in HeaderResults(length)
  PROVE  GoodResult(length, r)
<1>1. CASE r \in WriteResults(length)
  BY <1>1, WriteResult
<1>2. CASE r \notin WriteResults(length)
  <2>1. PICK a \in AvailableSpace :
          r \in IF a > 0 THEN WriteResults(length)
                ELSE {[n |-> 0, err |-> last_errno,
                       fault |-> IF VolumeSize > 0 THEN 0 ELSE 1]}
    BY DEF HeaderResults
  <2>2. ~(a > 0) /\ r = [n |-> 0, err |-> last_errno,
                         fault |-> IF VolumeSize > 0 THEN 0 ELSE 1]
    BY <1>2, <2>1
  <2>3. VolumeSize > 0 \/ faults < MaxFaults
    BY <2>1, <2>2, FileAssumption DEF AvailableSpace
  <2> QED BY <2>2, <2>3, FileAssumption DEF GoodResult, FileTypeOK
<1> QED BY <1>1, <1>2

LEMMA FormatResult ==
  ASSUME FormatTypeOK, VolumeOK, NEW length \in Nat, NEW r \in FormatResults(length)
  PROVE  GoodResult(length, r)
<1>1. CASE format_position >= format_size
  BY <1>1, FileAssumption DEF FormatResults, GoodResult, FormatTypeOK, FileTypeOK
<1>2. CASE ~(format_position >= format_size)
  <2> DEFINE m == Least(length, format_size - format_position)
  <2>1. m \in Nat /\ m <= length
    BY <1>2 DEF Least, FormatTypeOK
  <2>2. r \in WriteResults(m)
    BY <1>2 DEF FormatResults
  <2> HIDE DEF m
  <2>3. GoodResult(m, r)
    BY <2>1, <2>2, WriteResult DEF FormatTypeOK
  <2> QED BY <2>1, <2>3 DEF GoodResult
<1> QED BY <1>1, <1>2

LEMMA PadLengthNat ==
  ASSUME FormatTypeOK
  PROVE  PadLength \in Nat
<1>1. format_position % Block \in 0 .. Block - 1
  BY ModRange, FileAssumption DEF FormatTypeOK
<1>2. Block - (format_position % Block) \in Int
  BY <1>1, FileAssumption
<1>3. PadLength \in 0 .. Block - 1
  BY <1>2, ModRange, FileAssumption DEF PadLength
<1> QED BY <1>3, FileAssumption

LEMMA EndOfFileResult ==
  ASSUME FormatTypeOK, VolumeOK, NEW r \in EndOfFileResults
  PROVE  GoodResult(PadLength, r)
<1>1. CASE PadLength = 0
  BY <1>1, FileAssumption DEF EndOfFileResults, GoodResult, FormatTypeOK, FileTypeOK
<1>2. CASE PadLength # 0
  BY <1>2, PadLengthNat, WriteResult DEF EndOfFileResults, FormatTypeOK
<1> QED BY <1>1, <1>2

(* A write keeps the types of the file writer and extends the log by what   *)
(* it wrote.                                                                *)
LEMMA WriteStep ==
  ASSUME FileTypeOK, VolumeOK, NEW units \in Seq(Units), NEW r,
         GoodResult(Len(units), r), Write(units, r), fd' \in BOOLEAN
  PROVE  /\ FileTypeOK'
         /\ VolumeOK'
         /\ r.n <= 0 => log' = log
         /\ r.n > 0 => /\ r.n \in 1 .. Len(units)
                       /\ Stamped(units, r.n) \in Seq(Units)
                       /\ log' = log \o Stamped(units, r.n)
<1>1. Len(units) \in Nat
  BY LenProperties
<1>2. r.n \in Int /\ (r.n > 0 => r.n \in 1 .. Len(units))
  BY <1>1 DEF GoodResult
<1>3. r.n > 0 => Stamped(units, r.n) \in Seq(Units) /\ log \o Stamped(units, r.n) \in Seq(Units)
  <2> SUFFICES ASSUME r.n > 0
               PROVE  Stamped(units, r.n) \in Seq(Units) /\ log \o Stamped(units, r.n) \in Seq(Units)
    OBVIOUS
  <2>1. Stamped(units, r.n) \in Seq(Units)
    BY <1>1, <1>2, StampedUnits DEF FileTypeOK
  <2> QED BY <2>1, ConcatProperties DEF FileTypeOK
<1>4. log' \in Seq(Units)
  BY <1>3 DEF Write, FileTypeOK
<1>5. position' \in Nat /\ VolumeOK'
  BY <1>2, FileAssumption DEF Write, FileTypeOK, VolumeOK, GoodResult
<1>6. last_errno' \in Errno /\ volume' \in Nat \ {0} /\ faults' \in 0 .. MaxFaults
  BY DEF Write, FileTypeOK, GoodResult
<1> QED BY <1>2, <1>3, <1>4, <1>5, <1>6 DEF FileTypeOK, Write

(* A step that writes anything but data. *)
OtherStep == log' = log \/ \E T \in Seq(Units) : NoData(T) /\ log' = log \o T

LEMMA OtherWrite ==
  ASSUME FileTypeOK, VolumeOK, NEW units \in Seq(Units), NoData(units), NEW r,
         GoodResult(Len(units), r), Write(units, r), fd' \in BOOLEAN
  PROVE  FileTypeOK' /\ VolumeOK' /\ OtherStep
<1>1. CASE r.n > 0
  <2>1. /\ r.n \in 1 .. Len(units)
        /\ Stamped(units, r.n) \in Seq(Units)
        /\ log' = log \o Stamped(units, r.n)
    BY <1>1, WriteStep
  <2>2. DOMAIN units = 1 .. Len(units) /\ Len(units) \in Nat
    BY LenProperties
  <2>3. NoData(Stamped(units, r.n))
    <3>1. r.n \in 0 .. Len(units) /\ volume \in Nat
      BY <2>1, <2>2 DEF FileTypeOK
    <3>2. /\ Len(Stamped(units, r.n)) = r.n
          /\ \A j \in 1 .. r.n : Stamped(units, r.n)[j].k = units[j].k
      BY <3>1, StampedUnits
    <3>3. DOMAIN Stamped(units, r.n) = 1 .. r.n
      BY DEF Stamped
    <3> QED BY <2>1, <2>2, <3>2, <3>3 DEF NoData
  <2> QED BY <2>1, <2>3, WriteStep DEF OtherStep
<1>2. CASE ~(r.n > 0)
  <2>1. r.n \in Int
    BY LenProperties DEF GoodResult
  <2> QED BY <1>2, <2>1, WriteStep DEF OtherStep
<1> QED BY <1>1, <1>2

LEMMA OtherStepKeeps ==
  ASSUME log \in Seq(Units), OtherStep
  PROVE  /\ InOrder(log) => InOrder(log')
         /\ \A e : Upto(log, e) => Upto(log', e)
         /\ \A f, a : Below(log, f, a) => Below(log', f, a)
         /\ \A f, a : Reaches(log, f, a) => Reaches(log', f, a)
<1>1. CASE log' = log
  BY <1>1
<1>2. CASE \E T \in Seq(Units) : NoData(T) /\ log' = log \o T
  <2>1. PICK T \in Seq(Units) : NoData(T) /\ log' = log \o T
    BY <1>2
  <2>2. /\ InOrder(log) => InOrder(log \o T)
        /\ \A e : Upto(log, e) => Upto(log \o T, e)
        /\ \A f, a : Below(log, f, a) => Below(log \o T, f, a)
        /\ \A f, a : Reaches(log, f, a) => Reaches(log \o T, f, a)
    BY <2>1, AppendOther
  <2> QED BY <2>1, <2>2
<1> QED BY <1>1, <1>2 DEF OtherStep

LEMMA HeaderUnitsType ==
  ASSUME NEW k \in Kind \ {"data"}, NEW f \in Nat, NEW blocks \in Nat,
         NEW p \in Int, NEW s \in Int
  PROVE  /\ HeaderUnits(k, f, blocks, p, s) \in Seq(Units)
         /\ Len(HeaderUnits(k, f, blocks, p, s)) = blocks * Block
         /\ NoData(HeaderUnits(k, f, blocks, p, s))
<1>1. blocks * Block \in Nat
  BY ProductNat, FileAssumption
<1>2. HeaderUnits(k, f, blocks, p, s) \in [1 .. blocks * Block -> Units]
  BY <1>1 DEF HeaderUnits, Unit, Units
<1>3. \A j \in 1 .. blocks * Block : HeaderUnits(k, f, blocks, p, s)[j].k # "data"
  BY DEF HeaderUnits, Unit
<1>4. /\ HeaderUnits(k, f, blocks, p, s) \in Seq(Units)
      /\ Len(HeaderUnits(k, f, blocks, p, s)) = blocks * Block
      /\ DOMAIN HeaderUnits(k, f, blocks, p, s) = 1 .. blocks * Block
  BY <1>1, <1>2, FunctionIsSeq
<1> QED BY <1>3, <1>4 DEF NoData

LEMMA WriteHeaderStep ==
  ASSUME FormatTypeOK, VolumeOK, NoData(remain_header),
         NEW units \in Seq(Units), NoData(units),
         NEW r \in HeaderResults(Len(units)), WriteHeader(units, r)
  PROVE  /\ FileTypeOK' /\ VolumeOK' /\ OtherStep
         /\ remain_header' \in Seq(Units) /\ NoData(remain_header')
<1>1. Len(units) \in Nat /\ DOMAIN units = 1 .. Len(units)
  BY LenProperties
<1>2. GoodResult(Len(units), r)
  BY <1>1, HeaderResult DEF FormatTypeOK
<1>3. Write(units, r) /\ fd' \in BOOLEAN
  BY DEF WriteHeader, FormatTypeOK, FileTypeOK
<1>4. FileTypeOK' /\ VolumeOK' /\ OtherStep
  BY <1>2, <1>3, OtherWrite DEF FormatTypeOK
<1>5. remain_header' \in Seq(Units) /\ NoData(remain_header')
  <2> DEFINE left == IF r.n > 0 THEN Len(units) - r.n ELSE Len(units)
             front == SubSeq(units, 1, left)
  <2>1. left \in 0 .. Len(units)
    BY <1>1, <1>2 DEF GoodResult
  <2>2. remain_header' = front \/ remain_header' = remain_header
    BY DEF WriteHeader
  <2> HIDE DEF left
  <2>3. \A j \in 1 .. left : units[j] \in Units
    BY <2>1, <1>1, ElementOfSeq
  <2>4. /\ front \in Seq(Units)
        /\ Len(front) = left
        /\ \A j \in 1 .. left : front[j] = units[j]
    BY <2>1, <2>3, <1>1, SubSeqProperties
  <2>5. DOMAIN front = 1 .. left
    BY <2>4, LenProperties
  <2>6. NoData(front)
    BY <2>4, <2>5, <2>1, <1>1 DEF NoData
  <2> QED BY <2>2, <2>4, <2>6 DEF FormatTypeOK
<1> QED BY <1>4, <1>5

----------------------------------------------------------------------------
(* The invariant holds initially, and every action keeps it. *)

LEMMA UptoMore ==
  ASSUME NEW s \in Seq(Units), NEW e \in Nat, Upto(s, e)
  PROVE  Upto(s, e + 1)
<1>1. \A j \in DOMAIN s : s[j] \in Units
  BY LenProperties, ElementOfSeq
<1>2. \A j \in DOMAIN s : s[j].f \in Nat
  BY <1>1 DEF Units
<1> QED BY <1>2 DEF Upto

LEMMA EntryInType ==
  ASSUME i \in 1 .. Len(Entries)
  PROVE  /\ Entry.blocks \in Nat
         /\ size \in [Inodes -> Nat] => StSize \in Nat
<1>1. Entry \in EntryType
  BY ElementOfSeq, CreateAssumption DEF Entry
<1> QED BY <1>1 DEF EntryType, StSize

THEOREM InitInv == Init => IInv
<1> SUFFICES ASSUME Init PROVE IInv
  OBVIOUS
<1> USE DEF Init, FileInit, FormatInit
<1>1. <<>> \in Seq(Units) /\ DOMAIN <<>> = {}
  BY EmptySeq
<1>2. TypeOK
  <2>1. FormatTypeOK
    BY <1>1, FileAssumption DEF FormatTypeOK, FileTypeOK, Errno
  <2>2. size \in [Inodes -> Nat]
    BY CreateAssumption
  <2>3. MaxResizes \in Nat
    BY CreateAssumption
  <2>4. /\ pc \in Pc
        /\ i \in Nat \ {0}
        /\ inode \subseteq 1 .. Len(Entries)
    BY DEF Pc
  <2>5. roff \in Nat /\ nb_read \in Nat /\ nb_write \in Nat \cup {-1} /\ total_nb_write \in Nat
    OBVIOUS
  <2>6. /\ back \in {"none", "label", "link", "add", "enospc", "split"}
        /\ resizes \in 0 .. MaxResizes
        /\ cuts \in Nat
    BY <2>3
  <2>7. failed \in BOOLEAN /\ named \in BOOLEAN
    OBVIOUS
  <2> HIDE DEF Init
  <2> QED BY <2>1, <2>2, <2>4, <2>5, <2>6, <2>7 DEF TypeOK
<1>3. VolumeOK /\ Counters /\ Control
  BY FileAssumption DEF VolumeOK, Counters, Control, AtVolumeEnd, InContent
<1>4. Contents
  BY DEF Contents, InOrder, NoData, Upto, Unwritten, InContent, AtVolumeEnd
<1> QED BY <1>2, <1>3, <1>4 DEF IInv

(* Unwritten the first data of a file there is none. *)
LEMMA NothingYet ==
  ASSUME NEW s \in Seq(Units), NEW f \in Nat, Upto(s, f - 1)
  PROVE  Below(s, f, 0) /\ Reaches(s, f, 0)
<1>1. \A j \in DOMAIN s : s[j].k = "data" => s[j].f # f
  BY DEF Upto
<1> QED BY <1>1 DEF Below, Reaches

(* What a step that writes no data keeps of the contents. *)
LEMMA ContentsKept ==
  ASSUME IInv, OtherStep
  PROVE  /\ InOrder(log')
         /\ Upto(log', i) /\ Upto(log', i + 1)
         /\ Unwritten => Upto(log', i - 1)
         /\ InContent => Below(log', i, Archived) /\ Reaches(log', i, Archived)
<1>1. log \in Seq(Units) /\ i \in Nat
  BY DEF IInv, TypeOK, FormatTypeOK, FileTypeOK
<1>2. InOrder(log') /\ Upto(log', i)
  BY <1>1, OtherStepKeeps DEF IInv, Contents
<1>3. Unwritten => Upto(log', i - 1)
  BY <1>1, OtherStepKeeps DEF IInv, Contents
<1>4. InContent => Below(log', i, Archived) /\ Reaches(log', i, Archived)
  BY <1>1, OtherStepKeeps DEF IInv, Contents
<1>5. Upto(log', i + 1)
  BY <1>1, OtherStepKeeps, UptoMore DEF IInv, Contents
<1> QED BY <1>2, <1>3, <1>4, <1>5

(* A step that writes no data keeps what the archive holds of each file.    *)
LEMMA ContentsStep ==
  ASSUME IInv, OtherStep, NoData(remain_header'),
         i' = i \/ i' = i + 1,
         Unwritten' => Unwritten \/ i' = i + 1,
         InContent' => /\ i' = i
                       /\ \/ InContent /\ Archived' = Archived
                          \/ Unwritten /\ Archived' = 0
  PROVE  Contents'
<1>1. log' \in Seq(Units) /\ i \in Nat /\ log \in Seq(Units)
  BY ConcatProperties DEF IInv, TypeOK, FormatTypeOK, FileTypeOK, OtherStep
<1>2. InOrder(log') /\ Upto(log', i')
  BY ContentsKept
<1>3. Unwritten' => Upto(log', i' - 1)
  <2>1. CASE i' = i
    BY <1>1, <2>1, ContentsKept
  <2>2. CASE i' = i + 1
    BY <1>1, <2>2, ContentsKept
  <2> QED BY <2>1, <2>2
<1>4. InContent' => Below(log', i', Archived') /\ Reaches(log', i', Archived')
  <2> SUFFICES ASSUME InContent' PROVE Below(log', i, Archived') /\ Reaches(log', i, Archived')
    OBVIOUS
  <2>1. CASE InContent /\ Archived' = Archived
    BY <2>1, ContentsKept
  <2>2. CASE Unwritten /\ Archived' = 0
    <3>1. Upto(log', i - 1)
      BY <2>2, ContentsKept
    <3> QED BY <1>1, <2>2, <3>1, NothingYet
  <2> QED BY <2>1, <2>2
<1> QED BY <1>2, <1>3, <1>4 DEF Contents

(* The prompt. *)
LEMMA NextVolumeInv == IInv /\ NextVolume => IInv'
<1> SUFFICES ASSUME IInv, NextVolume PROVE IInv'
  OBVIOUS
<1>1. /\ fd' = TRUE /\ position' = 0 /\ last_errno' = "none" /\ volume' = volume + 1
      /\ log' = log /\ faults' = faults
      /\ format_position' = format_position /\ format_size' = format_size
      /\ remain_header' = remain_header
  BY DEF NextVolume, NewVolume, NewWriter, formatVars
<1>2. /\ inode' = inode /\ roff' = roff /\ nb_read' = nb_read /\ nb_write' = nb_write
      /\ total_nb_write' = total_nb_write
      /\ back' = back /\ size' = size /\ resizes' = resizes /\ cuts' = cuts
      /\ failed' = FALSE /\ pc = "prompt"
  BY DEF NextVolume, Skip, loopVars, envVars
<1>3. /\ pc' \in {"next", "read", "restart"}
      /\ pc' = "read" => back = "add" /\ i' = i
      /\ pc' = "restart" => back \in {"enospc", "split"} /\ i' = i
      /\ pc' = "next" => \/ back = "label" /\ i' = i
                         \/ back \in {"link", "add"} /\ i' = i + 1
  BY DEF IInv, Control, TypeOK, AfterAdd, NextVolume, Skip, loopVars
<1>4. TypeOK' /\ VolumeOK'
  <2>1. FormatTypeOK' /\ VolumeOK'
    BY <1>1, FileAssumption DEF IInv, TypeOK, FormatTypeOK, FileTypeOK, VolumeOK, Errno
  <2>2. pc' \in Pc /\ i' \in Nat \ {0}
    BY <1>3 DEF IInv, TypeOK, Pc
  <2>9. named' \in BOOLEAN
    BY DEF NextVolume, IInv, TypeOK
  <2> QED BY <2>1, <2>2, <1>2, <2>9 DEF IInv, TypeOK
<1>5. Counters' /\ Control'
  BY <1>2, <1>3 DEF IInv, Counters, Control, InContent, AtVolumeEnd
<1>6. OtherStep
  BY <1>1 DEF OtherStep
<1>7. Contents'
  <2>1. Unwritten' => Unwritten
    BY <1>2, <1>3 DEF Unwritten
  <2>2. InContent' => /\ i' = i
                      /\ \/ InContent /\ Archived' = Archived
                         \/ Unwritten /\ Archived' = 0
    <3>1. CASE pc' = "read"
      BY <1>2, <1>3, <3>1 DEF Archived, Unwritten, IInv, Counters
    <3>2. CASE pc' = "restart"
      BY <1>2, <1>3, <3>2 DEF InContent, AtVolumeEnd, Archived
    <3>3. CASE pc' = "next"
      BY <3>3 DEF InContent, AtVolumeEnd
    <3> QED BY <1>3, <3>1, <3>2, <3>3
  <2>3. i' = i \/ i' = i + 1
    BY <1>3
  <2> QED BY <1>1, <1>6, <2>1, <2>2, <2>3, ContentsStep DEF IInv, Contents
<1> QED BY <1>4, <1>5, <1>7 DEF IInv

LEMMA PromptEndsInv == IInv /\ PromptEnds => IInv'
<1> SUFFICES ASSUME IInv, PromptEnds PROVE IInv'
  OBVIOUS
<1>1. /\ fd' = fd /\ position' = position /\ last_errno' = last_errno /\ volume' = volume
      /\ log' = log /\ faults' = faults
      /\ format_position' = format_position /\ format_size' = format_size
      /\ remain_header' = remain_header
  BY DEF PromptEnds, fileVars, formatVars
<1>2. /\ i' = i /\ inode' = inode /\ roff' = roff /\ nb_read' = nb_read
      /\ nb_write' = nb_write /\ total_nb_write' = total_nb_write
      /\ size' = size /\ resizes' = resizes /\ cuts' = cuts /\ pc = "prompt"
  BY DEF PromptEnds, loopVars, envVars
<1>3. failed' \in BOOLEAN
  BY DEF PromptEnds
<1>4. \/ pc' = "exit" /\ back' = back
      \/ pc' = "prompt" /\ back = "enospc" /\ back' = "split"
      \/ pc' = "eof" /\ back = "split" /\ back' = "split"
  BY DEF PromptEnds, IInv, TypeOK, Control
<1>5. TypeOK' /\ VolumeOK'
  <2>1. FormatTypeOK' /\ VolumeOK'
    BY <1>1 DEF IInv, TypeOK, FormatTypeOK, FileTypeOK, VolumeOK
  <2>2. pc' \in Pc /\ back' \in {"none", "label", "link", "add", "enospc", "split"}
    BY <1>4 DEF IInv, TypeOK, Pc
  <2>9. named' \in BOOLEAN
    BY DEF PromptEnds, IInv, TypeOK
  <2> QED BY <2>1, <2>2, <1>2, <1>3, <2>9 DEF IInv, TypeOK
<1>6. Counters' /\ Control'
  BY <1>2, <1>4 DEF IInv, Counters, Control, InContent, AtVolumeEnd
<1>7. Contents'
  <2>1. OtherStep
    BY <1>1 DEF OtherStep
  <2>2. ~Unwritten'
    BY <1>4 DEF Unwritten
  <2>3. InContent' => InContent /\ Archived' = Archived
    BY <1>2, <1>4 DEF InContent, AtVolumeEnd, Archived
  <2> QED BY <1>1, <1>2, <2>1, <2>2, <2>3, ContentsStep DEF IInv, Contents
<1> QED BY <1>5, <1>6, <1>7 DEF IInv

(* A step after which nothing is written any more, or only the padding.     *)
LEMMA LeaveInv ==
  ASSUME IInv, FormatTypeOK', VolumeOK', OtherStep, remain_header' = remain_header,
         UNCHANGED loopVars, UNCHANGED envVars, UNCHANGED <<back, cuts>>,
         failed' \in BOOLEAN, named' \in BOOLEAN,
         pc' \in {"exit", "eof", "done", "aborted", "crashed"},
         pc' = "eof" => i <= Len(Entries)
  PROVE  IInv'
<1>1. /\ i' = i /\ inode' = inode /\ roff' = roff /\ nb_read' = nb_read
      /\ nb_write' = nb_write /\ total_nb_write' = total_nb_write
      /\ size' = size /\ resizes' = resizes /\ cuts' = cuts /\ back' = back
  BY DEF loopVars, envVars
<1>2. ~Unwritten' /\ ~InContent' /\ ~AtVolumeEnd'
  BY DEF Unwritten, InContent, AtVolumeEnd
<1>3. pc' \in Pc
  BY DEF Pc
<1>4. TypeOK'
  BY <1>1, <1>3 DEF IInv, TypeOK
<1>5. Counters' /\ Control'
  BY <1>1, <1>2 DEF Counters, Control
<1>6. Contents'
  BY <1>1, <1>2, ContentsStep DEF IInv, Contents
<1> QED BY <1>4, <1>5, <1>6 DEF IInv

LEMMA StopsInv == IInv /\ (PromptQuits \/ NoMoreEntries) => IInv'
<1> SUFFICES ASSUME IInv, PromptQuits \/ NoMoreEntries PROVE IInv'
  OBVIOUS
<1>1. /\ UNCHANGED fileVars /\ UNCHANGED formatVars /\ UNCHANGED loopVars
      /\ UNCHANGED envVars /\ UNCHANGED <<back, cuts>> /\ failed' = failed /\ named' = named
      /\ pc' \in {"exit", "aborted"}
  BY DEF PromptQuits, NoMoreEntries
<1>2. FormatTypeOK' /\ VolumeOK' /\ OtherStep /\ remain_header' = remain_header
  BY <1>1 DEF IInv, TypeOK, FormatTypeOK, FileTypeOK, VolumeOK, OtherStep, fileVars, formatVars
<1>3. failed' \in BOOLEAN /\ named' \in BOOLEAN
  BY <1>1 DEF IInv, TypeOK
<1> QED BY <1>1, <1>2, <1>3, LeaveInv

LEMMA ClosesInv == IInv /\ (BadVolume \/ Exit) => IInv'
<1> SUFFICES ASSUME IInv, BadVolume \/ Exit PROVE IInv'
  OBVIOUS
<1>1. /\ Close /\ UNCHANGED formatVars /\ UNCHANGED loopVars
      /\ UNCHANGED envVars /\ UNCHANGED <<back, cuts>> /\ failed' = failed /\ named' = named
      /\ pc' \in {"done", "crashed"}
  BY DEF BadVolume, Exit
<1>2. FormatTypeOK' /\ VolumeOK' /\ OtherStep /\ remain_header' = remain_header
  BY <1>1 DEF IInv, TypeOK, FormatTypeOK, FileTypeOK, VolumeOK, OtherStep, Close, formatVars
<1>3. failed' \in BOOLEAN /\ named' \in BOOLEAN
  BY <1>1 DEF IInv, TypeOK
<1> QED BY <1>1, <1>2, <1>3, LeaveInv

LEMMA FailsInv == IInv /\ (StatFails \/ ReadFails) => IInv'
<1> SUFFICES ASSUME IInv, StatFails \/ ReadFails PROVE IInv'
  OBVIOUS
<1>1. /\ CallFails /\ UNCHANGED loopVars
      /\ UNCHANGED envVars /\ UNCHANGED <<back, cuts>> /\ failed' = TRUE /\ named' = named
      /\ pc' \in {"exit", "eof"}
      /\ pc' = "eof" => pc = "read"
  BY DEF StatFails, ReadFails
<1>2. FormatTypeOK' /\ VolumeOK' /\ OtherStep /\ remain_header' = remain_header
  <2>1. faults' \in 0 .. MaxFaults
    BY <1>1, FileAssumption DEF CallFails, IInv, TypeOK, FormatTypeOK, FileTypeOK
  <2> QED BY <1>1, <2>1
        DEF CallFails, IInv, TypeOK, FormatTypeOK, FileTypeOK, VolumeOK, OtherStep, formatVars
<1>3. pc' = "eof" => i <= Len(Entries)
  BY <1>1 DEF IInv, Control, InContent
<1>4. named' \in BOOLEAN
  BY <1>1 DEF IInv, TypeOK
<1> QED BY <1>1, <1>2, <1>3, <1>4, LeaveInv

(* The headers. *)

LEMMA HeaderStatusType ==
  ASSUME NEW length, NEW r
  PROVE  HeaderStatus(length, r) \in {"error", "end_of_tape", "ok"}
  BY DEF HeaderStatus

LEMMA OnStatusCases ==
  ASSUME NEW st \in {"error", "end_of_tape", "ok"}, NEW from, NEW ok,
         OnStatus(st, from, ok), cuts \in Nat, failed \in BOOLEAN
  PROVE  /\ cuts' \in Nat /\ failed' \in BOOLEAN
         /\ \/ st = "error" /\ pc' = "exit" /\ back' = back
            \/ st = "end_of_tape" /\ pc' = "prompt" /\ back' = from
            \/ st = "ok" /\ pc' = ok /\ back' = back
<1>1. cuts' \in Nat
  BY DEF OnStatus
<1>2. failed' \in BOOLEAN
  BY DEF OnStatus
<1>3. \/ st = "error" /\ pc' = "exit" /\ back' = back
      \/ st = "end_of_tape" /\ pc' = "prompt" /\ back' = from
      \/ st = "ok" /\ pc' = ok /\ back' = back
  BY DEF OnStatus
<1> QED BY <1>1, <1>2, <1>3

LEMMA StartLabelInv == IInv /\ StartLabel => IInv'
<1> SUFFICES ASSUME IInv, StartLabel PROVE IInv'
  OBVIOUS
<1>1. /\ i' = i /\ inode' = inode /\ roff' = roff /\ nb_read' = nb_read
      /\ nb_write' = nb_write /\ total_nb_write' = total_nb_write
      /\ size' = size /\ resizes' = resizes /\ pc = "label"
  BY DEF StartLabel, loopVars, envVars
<1>2. /\ FormatTypeOK' /\ VolumeOK' /\ OtherStep /\ NoData(remain_header')
      /\ cuts' \in Nat /\ failed' \in BOOLEAN
      /\ \/ pc' \in {"exit", "next"} /\ back' = back
         \/ pc' = "prompt" /\ back' = "label"
  <2>1. CASE Label
    <3> DEFINE units == HeaderUnits("label", 0, 1, 0, 0)
    <3>1. PICK r \in HeaderResults(Block) :
             AddLabel(r) /\ OnStatus(HeaderStatus(Block, r), "label", "next")
      BY <2>1 DEF StartLabel
    <3>2. units \in Seq(Units) /\ Len(units) = 1 * Block /\ NoData(units)
      <4>1. "label" \in Kind \ {"data"} /\ 0 \in Nat /\ 1 \in Nat /\ 0 \in Int
        BY DEF Kind
      <4> QED BY <4>1, HeaderUnitsType
    <3>3. 1 * Block = Block
      BY FileAssumption
    <3>4. /\ WriteHeader(units, r) /\ r \in HeaderResults(Len(units))
          /\ format_position' = 0 /\ format_size' = 0
      BY <3>1, <3>2, <3>3 DEF AddLabel
    <3> HIDE DEF units
    <3>5. /\ FileTypeOK' /\ VolumeOK' /\ OtherStep
          /\ remain_header' \in Seq(Units) /\ NoData(remain_header')
      BY <3>2, <3>4, WriteHeaderStep DEF IInv, TypeOK, Contents
    <3>6. /\ cuts' \in Nat /\ failed' \in BOOLEAN
          /\ \/ pc' \in {"exit", "next"} /\ back' = back
             \/ pc' = "prompt" /\ back' = "label"
      <4>1. HeaderStatus(Block, r) \in {"error", "end_of_tape", "ok"}
        BY HeaderStatusType
      <4>2. cuts \in Nat /\ failed \in BOOLEAN
        BY DEF IInv, TypeOK
      <4> QED BY <3>1, <4>1, <4>2, OnStatusCases
    <3> QED BY <3>4, <3>5, <3>6 DEF FormatTypeOK
  <2>2. CASE ~Label
    <3>1. /\ UNCHANGED fileVars /\ UNCHANGED formatVars
          /\ pc' = "next" /\ back' = back /\ cuts' = cuts /\ failed' = failed
      BY <2>2 DEF StartLabel
    <3>2. FormatTypeOK' /\ VolumeOK' /\ OtherStep
      BY <3>1 DEF fileVars, formatVars, IInv, TypeOK, FormatTypeOK, FileTypeOK, VolumeOK, OtherStep
    <3>3. NoData(remain_header')
      BY <3>1 DEF formatVars, IInv, Contents
    <3>4. failed' \in BOOLEAN
      BY <3>1 DEF IInv, TypeOK
    <3>5. cuts' \in Nat
      BY <3>1 DEF IInv, TypeOK
    <3> QED BY <3>1, <3>2, <3>3, <3>4, <3>5
  <2> QED BY <2>1, <2>2
<1>3. TypeOK'
  <2>1. pc' \in Pc /\ back' \in {"none", "label", "link", "add", "enospc", "split"}
    BY <1>2 DEF IInv, TypeOK, Pc
  <2>9. named' \in BOOLEAN
    BY DEF StartLabel, IInv, TypeOK
  <2> QED BY <1>1, <1>2, <2>1, <2>9 DEF IInv, TypeOK
<1>4. ~InContent' /\ ~AtVolumeEnd' /\ Unwritten
  BY <1>1, <1>2 DEF InContent, AtVolumeEnd, Unwritten
<1>5. Counters' /\ Control'
  BY <1>1, <1>2, <1>4 DEF Counters, Control
<1>6. Contents'
  BY <1>1, <1>2, <1>4, ContentsStep
<1> QED BY <1>2, <1>3, <1>5, <1>6 DEF IInv

LEMMA NextEntryInv == IInv /\ NextEntry => IInv'
<1> SUFFICES ASSUME IInv, NextEntry PROVE IInv'
  OBVIOUS
<1>1. /\ UNCHANGED fileVars /\ UNCHANGED formatVars /\ back' = back /\ cuts' = cuts
      /\ size' = size /\ resizes' = resizes /\ failed' = failed /\ pc = "next"
      /\ i <= Len(Entries)
  BY DEF NextEntry, envVars
<1>2. /\ roff' = roff /\ nb_read' = nb_read
      /\ nb_write' = nb_write /\ total_nb_write' = total_nb_write
      /\ \/ i' = i + 1 /\ inode' = inode /\ pc' = "next"
         \/ i' = i /\ inode' = inode /\ pc' = "link"
         \/ i' = i /\ inode' = inode \cup {i} /\ pc' = "add"
  BY DEF NextEntry, Skip, loopVars
<1>3. TypeOK' /\ VolumeOK' /\ OtherStep /\ NoData(remain_header')
  <2>1. FormatTypeOK' /\ VolumeOK' /\ OtherStep
    BY <1>1 DEF fileVars, formatVars, IInv, TypeOK, FormatTypeOK, FileTypeOK, VolumeOK, OtherStep
  <2>2. NoData(remain_header')
    BY <1>1 DEF formatVars, IInv, Contents
  <2>3. failed' \in BOOLEAN
    BY <1>1 DEF IInv, TypeOK
  <2>4. i' \in Nat \ {0} /\ pc' \in Pc
    BY <1>2 DEF IInv, TypeOK, Pc
  <2>5. inode' \subseteq 1 .. Len(Entries)
    <3>1. Len(Entries) \in Nat
      BY LenProperties, CreateAssumption
    <3>2. i \in 1 .. Len(Entries)
      BY <1>1, <3>1 DEF IInv, TypeOK
    <3> QED BY <1>2, <3>2 DEF IInv, TypeOK
  <2>9. named' \in BOOLEAN
    BY DEF NextEntry, IInv, TypeOK
  <2>6. TypeOK'
    BY <1>1, <1>2, <2>1, <2>3, <2>4, <2>5, <2>9 DEF IInv, TypeOK
  <2> QED BY <2>1, <2>2, <2>6
<1>4. ~InContent' /\ ~AtVolumeEnd' /\ Unwritten
  BY <1>1, <1>2 DEF InContent, AtVolumeEnd, Unwritten
<1>5. Counters' /\ Control'
  BY <1>1, <1>2, <1>4 DEF Counters, Control
<1>6. Contents'
  BY <1>1, <1>2, <1>3, <1>4, ContentsStep
<1> QED BY <1>3, <1>5, <1>6 DEF IInv

LEMMA HeaderStep ==
  ASSUME IInv, NEW k \in Kind \ {"data"}, NEW f \in Nat, NEW blocks \in Nat, NEW st \in Int,
         NEW r \in HeaderResults(blocks * Block),
         WriteHeader(HeaderUnits(k, f, blocks, 0, st), r)
  PROVE  /\ FileTypeOK' /\ VolumeOK' /\ OtherStep
         /\ remain_header' \in Seq(Units) /\ NoData(remain_header')
<1> DEFINE units == HeaderUnits(k, f, blocks, 0, st)
<1>1. units \in Seq(Units) /\ Len(units) = blocks * Block /\ NoData(units)
  BY HeaderUnitsType
<1> HIDE DEF units
<1>2. FormatTypeOK /\ VolumeOK /\ NoData(remain_header)
  BY DEF IInv, TypeOK, Contents
<1>3. WriteHeader(units, r) /\ r \in HeaderResults(Len(units))
  BY <1>1 DEF units
<1> QED BY <1>1, <1>2, <1>3, WriteHeaderStep

LEMMA HardLinkInv == IInv /\ HardLink => IInv'
<1> SUFFICES ASSUME IInv, HardLink PROVE IInv'
  OBVIOUS
<1>1. PICK r \in HeaderResults(Block) :
        /\ AddLink(i, r)
        /\ OnStatus(HeaderStatus(Block, r), "link", "next")
        /\ IF HeaderStatus(Block, r) = "ok" THEN Skip ELSE UNCHANGED loopVars
  BY DEF HardLink
<1>2. /\ pc = "link" /\ i \in Nat \ {0} /\ i <= Len(Entries)
      /\ cuts \in Nat /\ failed \in BOOLEAN
  BY DEF HardLink, IInv, TypeOK, Control
<1>3. FormatTypeOK' /\ VolumeOK' /\ OtherStep /\ NoData(remain_header')
  <2>1. 1 * Block = Block
    BY FileAssumption
  <2>2. /\ "link" \in Kind \ {"data"} /\ i \in Nat /\ 1 \in Nat /\ 0 \in Int
        /\ r \in HeaderResults(1 * Block)
        /\ WriteHeader(HeaderUnits("link", i, 1, 0, 0), r)
    BY <1>1, <1>2, <2>1 DEF AddLink, Kind
  <2>3. /\ FileTypeOK' /\ VolumeOK' /\ OtherStep
        /\ remain_header' \in Seq(Units) /\ NoData(remain_header')
    BY <2>2, HeaderStep
  <2> QED BY <1>1, <2>3 DEF AddLink, FormatTypeOK
<1>4. /\ cuts' \in Nat /\ failed' \in BOOLEAN
      /\ \/ HeaderStatus(Block, r) = "error" /\ pc' = "exit" /\ back' = back
         \/ HeaderStatus(Block, r) = "end_of_tape" /\ pc' = "prompt" /\ back' = "link"
         \/ HeaderStatus(Block, r) = "ok" /\ pc' = "next" /\ back' = back
  <2>1. HeaderStatus(Block, r) \in {"error", "end_of_tape", "ok"}
    BY HeaderStatusType
  <2> QED BY <1>1, <1>2, <2>1, OnStatusCases
<1>5. /\ inode' = inode /\ roff' = roff /\ nb_read' = nb_read
      /\ nb_write' = nb_write /\ total_nb_write' = total_nb_write
      /\ size' = size /\ resizes' = resizes
      /\ \/ pc' = "next" /\ i' = i + 1
         \/ pc' = "prompt" /\ i' = i
         \/ pc' = "exit" /\ i' = i
  BY <1>1, <1>4 DEF HardLink, Skip, loopVars, envVars
<1>6. TypeOK'
  <2>1. /\ pc' \in Pc /\ i' \in Nat \ {0}
        /\ back' \in {"none", "label", "link", "add", "enospc", "split"}
    BY <1>2, <1>4, <1>5 DEF IInv, TypeOK, Pc
  <2>9. named' \in BOOLEAN
    BY DEF HardLink, IInv, TypeOK
  <2> QED BY <1>3, <1>4, <1>5, <2>1, <2>9 DEF IInv, TypeOK
<1>7. ~InContent' /\ ~AtVolumeEnd' /\ Unwritten
  BY <1>2, <1>4 DEF InContent, AtVolumeEnd, Unwritten
<1>8. Counters' /\ Control'
  BY <1>2, <1>4, <1>5, <1>7 DEF Counters, Control
<1>9. Contents'
  BY <1>3, <1>5, <1>7, ContentsStep
<1> QED BY <1>3, <1>6, <1>8, <1>9 DEF IInv

LEMMA AddEntryInv == IInv /\ AddEntry => IInv'
<1> SUFFICES ASSUME IInv, AddEntry PROVE IInv'
  OBVIOUS
<1> DEFINE length == Entry.blocks * Block
           ok == IF failed THEN "exit" ELSE AfterAdd
<1>1. PICK r \in HeaderResults(length) :
        /\ AddFile(i, Entry.blocks, StSize, r)
        /\ OnStatus(HeaderStatus(length, r), "add", ok)
        /\ IF HeaderStatus(length, r) = "ok" /\ ~failed /\ AfterAdd = "next"
           THEN Skip
           ELSE /\ roff' = 0
                /\ nb_read' = 0
                /\ nb_write' = 0
                /\ total_nb_write' = 0
                /\ UNCHANGED <<i, inode>>
  BY DEF AddEntry
<1>2. /\ pc = "add" /\ i \in Nat \ {0} /\ i <= Len(Entries)
      /\ cuts \in Nat /\ failed \in BOOLEAN
      /\ Entry.blocks \in Nat /\ StSize \in Nat
  <2>1. /\ pc = "add" /\ i \in Nat \ {0} /\ i <= Len(Entries)
        /\ cuts \in Nat /\ failed \in BOOLEAN /\ size \in [Inodes -> Nat]
    BY DEF AddEntry, IInv, TypeOK, Control
  <2>2. i \in 1 .. Len(Entries)
    BY <2>1, LenProperties, CreateAssumption
  <2> QED BY <2>1, <2>2, EntryInType
<1>3. FormatTypeOK' /\ VolumeOK' /\ OtherStep /\ NoData(remain_header')
  <2>1. /\ "hdr" \in Kind \ {"data"} /\ i \in Nat /\ Entry.blocks \in Nat /\ StSize \in Int
        /\ r \in HeaderResults(Entry.blocks * Block)
        /\ WriteHeader(HeaderUnits("hdr", i, Entry.blocks, 0, StSize), r)
    BY <1>1, <1>2 DEF AddFile, Kind
  <2>2. /\ FileTypeOK' /\ VolumeOK' /\ OtherStep
        /\ remain_header' \in Seq(Units) /\ NoData(remain_header')
    BY <2>1, HeaderStep
  <2> QED BY <1>1, <1>2, <2>2 DEF AddFile, FormatTypeOK
<1>4. ok \in {"exit", "read", "next"} /\ (ok = "next" <=> ~failed /\ AfterAdd = "next")
  BY <1>2 DEF AfterAdd
<1> HIDE DEF ok, length
<1>5. /\ cuts' \in Nat /\ failed' \in BOOLEAN
      /\ \/ HeaderStatus(length, r) = "error" /\ pc' = "exit" /\ back' = back
         \/ HeaderStatus(length, r) = "end_of_tape" /\ pc' = "prompt" /\ back' = "add"
         \/ HeaderStatus(length, r) = "ok" /\ pc' = ok /\ back' = back
  <2>1. HeaderStatus(length, r) \in {"error", "end_of_tape", "ok"}
    BY HeaderStatusType
  <2> QED BY <1>1, <1>2, <2>1, OnStatusCases
<1>6. /\ inode' = inode /\ size' = size /\ resizes' = resizes
      /\ \/ /\ pc' = "next" /\ i' = i + 1 /\ roff' = roff /\ nb_read' = nb_read
            /\ nb_write' = nb_write /\ total_nb_write' = total_nb_write
         \/ /\ pc' \in {"read", "exit", "prompt"} /\ i' = i /\ roff' = 0 /\ nb_read' = 0
            /\ nb_write' = 0 /\ total_nb_write' = 0
            /\ pc' = "prompt" => back' = "add"
  BY <1>1, <1>4, <1>5 DEF AddEntry, Skip, envVars
<1>7. TypeOK'
  <2>1. /\ pc' \in Pc /\ i' \in Nat \ {0}
        /\ back' \in {"none", "label", "link", "add", "enospc", "split"}
    BY <1>2, <1>5, <1>6 DEF IInv, TypeOK, Pc
  <2>2. roff' \in Nat /\ nb_read' \in Nat /\ nb_write' \in Nat \cup {-1} /\ total_nb_write' \in Nat
    BY <1>6 DEF IInv, TypeOK
  <2>9. named' \in BOOLEAN
    BY DEF AddEntry, IInv, TypeOK
  <2> QED BY <1>3, <1>5, <1>6, <2>1, <2>2, <2>9 DEF IInv, TypeOK
<1>8. Counters' /\ Control'
  BY <1>2, <1>6 DEF Counters, Control, InContent, AtVolumeEnd
<1>9. Contents'
  <2>1. Unwritten
    BY <1>2 DEF Unwritten
  <2>2. i' = i \/ i' = i + 1
    BY <1>6
  <2>3. InContent' => i' = i /\ Archived' = 0
    BY <1>6 DEF InContent, AtVolumeEnd, Archived
  <2> QED BY <1>3, <2>1, <2>2, <2>3, ContentsStep
<1> QED BY <1>3, <1>7, <1>8, <1>9 DEF IInv

LEMMA FinishFileInv == IInv /\ FinishFile => IInv'
<1> SUFFICES ASSUME IInv, FinishFile PROVE IInv'
  OBVIOUS
<1>1. PICK r \in EndOfFileResults : EndOfFile(r)
  BY DEF FinishFile
<1>2. /\ i' = i + 1 /\ inode' = inode /\ roff' = roff /\ nb_read' = nb_read
      /\ nb_write' = nb_write /\ total_nb_write' = total_nb_write
      /\ size' = size /\ resizes' = resizes /\ back' = back /\ cuts' = cuts
      /\ failed' = failed /\ pc' = "next"
  BY DEF FinishFile, Skip, envVars
<1>3. FormatTypeOK' /\ VolumeOK' /\ OtherStep /\ NoData(remain_header')
  <2> DEFINE pad == [j \in 1 .. PadLength |-> Unit("pad", 0, 0, 0, 0)]
  <2>1. FormatTypeOK /\ VolumeOK /\ NoData(remain_header)
    BY DEF IInv, TypeOK, Contents
  <2>2. PadLength \in Nat
    BY <2>1, PadLengthNat
  <2>3. pad \in [1 .. PadLength -> Units] /\ (\A j \in 1 .. PadLength : pad[j].k # "data")
    BY DEF Unit, Units, Kind
  <2> HIDE DEF pad
  <2>4. pad \in Seq(Units) /\ Len(pad) = PadLength /\ NoData(pad)
    <3>1. pad \in Seq(Units) /\ Len(pad) = PadLength /\ DOMAIN pad = 1 .. PadLength
      BY <2>2, <2>3, FunctionIsSeq
    <3> QED BY <2>3, <3>1 DEF NoData
  <2>5. GoodResult(Len(pad), r)
    BY <1>1, <2>1, <2>4, EndOfFileResult
  <2>6. /\ Write(pad, r) /\ fd' = fd
        /\ format_position' = format_position /\ format_size' = format_size
        /\ remain_header' = remain_header
    BY <1>1 DEF EndOfFile, pad, formatVars
  <2>7. FileTypeOK /\ fd' \in BOOLEAN
    BY <2>1, <2>6 DEF FormatTypeOK, FileTypeOK
  <2>8. FileTypeOK' /\ VolumeOK' /\ OtherStep
    BY <2>1, <2>4, <2>5, <2>6, <2>7, OtherWrite
  <2> QED BY <2>1, <2>6, <2>8 DEF FormatTypeOK
<1>4. TypeOK'
  <2>1. pc' \in Pc /\ i' \in Nat \ {0}
    BY <1>2 DEF IInv, TypeOK, Pc
  <2>2. failed' \in BOOLEAN
    BY <1>2 DEF IInv, TypeOK
  <2>9. named' \in BOOLEAN
    BY DEF FinishFile, IInv, TypeOK
  <2> QED BY <1>2, <1>3, <2>1, <2>2, <2>9 DEF IInv, TypeOK
<1>5. ~InContent' /\ ~AtVolumeEnd'
  BY <1>2 DEF InContent, AtVolumeEnd
<1>6. Counters' /\ Control'
  BY <1>2, <1>5 DEF Counters, Control
<1>7. Contents'
  BY <1>2, <1>3, <1>5, ContentsStep
<1> QED BY <1>3, <1>4, <1>6, <1>7 DEF IInv

(* The content of a regular file. *)

(* The room that is left on the volume is never negative. *)
LEMMA PreferedSizeNat ==
  ASSUME FileTypeOK, VolumeOK
  PROVE  NextPreferedSize \in Nat
<1>1. position % IoBlock \in 0 .. IoBlock - 1
  BY ModRange, FileAssumption DEF FileTypeOK
<1> QED BY <1>1, FileAssumption DEF NextPreferedSize, FileTypeOK, VolumeOK

LEMMA ReadDataInv == IInv /\ ReadData => IInv'
<1> SUFFICES ASSUME IInv, ReadData PROVE IInv'
  OBVIOUS
<1> DEFINE left == IF roff < StSize THEN StSize - roff ELSE 0
<1>1. /\ pc = "read" /\ i \in Nat \ {0} /\ i <= Len(Entries)
      /\ roff \in Nat /\ total_nb_write \in Nat /\ roff = total_nb_write
  BY DEF ReadData, IInv, TypeOK, Control, Counters, InContent
<1>2. NextPreferedSize \in Nat /\ left \in Nat
  <2>1. i \in 1 .. Len(Entries) /\ size \in [Inodes -> Nat]
    BY <1>1, LenProperties, CreateAssumption DEF IInv, TypeOK
  <2>2. StSize \in Nat
    BY <2>1, EntryInType
  <2> QED BY <1>1, <2>2, PreferedSizeNat DEF IInv, TypeOK, FormatTypeOK
<1>3. /\ nb_read' = Least(NextPreferedSize, left)
      /\ roff' = roff + nb_read'
      /\ \/ NextPreferedSize = 0 /\ pc' = "prompt" /\ back' = "split"
         \/ pc' \in {"eof", "write"} /\ back' = back
      /\ nb_write' = 0 /\ total_nb_write' = total_nb_write
      /\ i' = i /\ inode' = inode /\ failed' = failed /\ cuts' = cuts
      /\ size' = size /\ resizes' = resizes
      /\ UNCHANGED fileVars /\ UNCHANGED formatVars
  BY DEF ReadData, envVars
<1> HIDE DEF left
<1>4. nb_read' \in Nat
  BY <1>2, <1>3 DEF Least
<1>5. FormatTypeOK' /\ VolumeOK' /\ OtherStep /\ NoData(remain_header')
  <2>1. FormatTypeOK' /\ VolumeOK' /\ OtherStep
    BY <1>3 DEF fileVars, formatVars, IInv, TypeOK, FormatTypeOK, FileTypeOK, VolumeOK, OtherStep
  <2> QED BY <1>3, <2>1 DEF formatVars, IInv, Contents
<1>6. TypeOK'
  <2>1. pc' \in Pc /\ back' \in {"none", "label", "link", "add", "enospc", "split"}
    BY <1>3 DEF IInv, TypeOK, Pc
  <2>2. failed' \in BOOLEAN
    BY <1>3 DEF IInv, TypeOK
  <2>3. roff' \in Nat
    BY <1>1, <1>3, <1>4
  <2>9. named' \in BOOLEAN
    BY DEF ReadData, IInv, TypeOK
  <2> QED BY <1>3, <1>4, <1>5, <2>1, <2>2, <2>3, <2>9 DEF IInv, TypeOK
<1>7. Counters'
  BY <1>1, <1>3, <1>4 DEF Counters, AtVolumeEnd
<1>8. Control'
  BY <1>1, <1>3 DEF Control, AtVolumeEnd, InContent
<1>9. Contents'
  <2>1. ~Unwritten'
    BY <1>3 DEF Unwritten
  <2>2. InContent /\ Archived = total_nb_write
    BY <1>1 DEF InContent, Archived
  <2>3. InContent' => Archived' = total_nb_write
    BY <1>1, <1>3 DEF InContent, AtVolumeEnd, Archived
  <2> QED BY <1>3, <1>5, <2>1, <2>2, <2>3, ContentsStep
<1> QED BY <1>5, <1>6, <1>7, <1>8, <1>9 DEF IInv

(* restart_file is given the offset up to which the file is archived. *)
LEMMA RestartTypes ==
  ASSUME IInv, pc = "restart"
  PROVE  /\ RestartAt \in Int /\ StSize \in Nat
         /\ RestartUnits(i, RestartAt, StSize) \in Seq(Units)
         /\ NoData(RestartUnits(i, RestartAt, StSize))
<1>1. i \in Nat /\ i \in 1 .. Len(Entries) /\ size \in [Inodes -> Nat]
  <2>1. i \in Nat \ {0} /\ i <= Len(Entries) /\ size \in [Inodes -> Nat]
    BY DEF IInv, TypeOK, Control, InContent, AtVolumeEnd
  <2> QED BY <2>1, LenProperties, CreateAssumption
<1>2. StSize \in Nat
  BY <1>1, EntryInType
<1>3. RestartAt \in Int
  BY DEF RestartAt, IInv, TypeOK
<1>4. /\ HeaderUnits("cont", i, 1, RestartAt, StSize - RestartAt) \in Seq(Units)
      /\ NoData(HeaderUnits("cont", i, 1, RestartAt, StSize - RestartAt))
  <2>1. /\ "cont" \in Kind \ {"data"} /\ 1 \in Nat
        /\ StSize - RestartAt \in Int
    BY <1>2, <1>3 DEF Kind
  <2> QED BY <1>1, <1>3, <2>1, HeaderUnitsType
<1>5. remain_header \in Seq(Units) /\ NoData(remain_header)
  BY DEF IInv, TypeOK, FormatTypeOK, Contents
<1> QED BY <1>2, <1>3, <1>4, <1>5 DEF RestartUnits

LEMMA RestartInv == IInv /\ (Restart \/ RestartIgnored) => IInv'
<1> SUFFICES ASSUME IInv, Restart \/ RestartIgnored PROVE IInv'
  OBVIOUS
<1>1. /\ pc = "restart" /\ AfterRestart /\ back \in {"enospc", "split"}
      /\ i \in Nat \ {0} /\ i <= Len(Entries)
      /\ roff = total_nb_write + nb_read /\ nb_write <= nb_read
      /\ back = "enospc" => nb_write = -1
      /\ total_nb_write \in Nat /\ nb_read \in Nat /\ nb_write \in Nat \cup {-1}
  BY DEF Restart, RestartIgnored, IInv, TypeOK, Counters, Control, InContent, AtVolumeEnd
<1>2. FormatTypeOK' /\ VolumeOK' /\ OtherStep /\ NoData(remain_header')
  <2>1. CASE Restart
    <3> DEFINE units == RestartUnits(i, RestartAt, StSize)
    <3>1. PICK r \in WriteResults(Len(units)) : RestartFile(i, RestartAt, StSize, r)
      BY <2>1 DEF Restart
    <3>2. units \in Seq(Units) /\ NoData(units) /\ StSize \in Nat
      BY <1>1, RestartTypes
    <3>3. /\ Write(units, r) /\ fd' = fd /\ remain_header' = <<>>
          /\ \/ format_position' = format_position /\ format_size' = format_size
             \/ format_position' = 0 /\ format_size' = StSize
      BY <3>1 DEF RestartFile
    <3> HIDE DEF units
    <3>4. FormatTypeOK /\ FileTypeOK /\ VolumeOK /\ fd \in BOOLEAN
      BY DEF IInv, TypeOK, FormatTypeOK, FileTypeOK
    <3>5. GoodResult(Len(units), r)
      BY <3>1, <3>2, <3>4, WriteResult, LenProperties
    <3>6. FileTypeOK' /\ VolumeOK' /\ OtherStep
      BY <3>2, <3>3, <3>4, <3>5, OtherWrite
    <3>7. remain_header' \in Seq(Units) /\ NoData(remain_header')
      BY <3>3, EmptySeq DEF NoData
    <3>8. format_position' \in Nat /\ format_size' \in Nat
      BY <3>2, <3>3, <3>4 DEF FormatTypeOK
    <3> QED BY <3>6, <3>7, <3>8 DEF FormatTypeOK
  <2>2. CASE RestartIgnored
    <3>1. /\ faults < MaxFaults /\ faults' = faults + 1
          /\ UNCHANGED <<fd, position, last_errno, volume, log, formatVars>>
      BY <2>2 DEF RestartIgnored, RestartFails
    <3>2. faults' \in 0 .. MaxFaults
      BY <3>1, FileAssumption DEF IInv, TypeOK, FormatTypeOK, FileTypeOK
    <3>3. FormatTypeOK' /\ VolumeOK' /\ OtherStep
      BY <3>1, <3>2
         DEF formatVars, IInv, TypeOK, FormatTypeOK, FileTypeOK, VolumeOK, OtherStep
    <3> QED BY <3>1, <3>3 DEF formatVars, IInv, Contents
  <2> QED BY <2>1, <2>2
<1>3. /\ i' = i /\ inode' = inode /\ roff' = roff /\ nb_read' = nb_read /\ nb_write' = nb_write
      /\ failed' = failed /\ back' = back /\ cuts' = cuts /\ size' = size /\ resizes' = resizes
      /\ \/ pc' = "write" /\ back = "enospc" /\ total_nb_write' = total_nb_write
         \/ pc' = "rest" /\ back = "split" /\ total_nb_write' = total_nb_write
         \/ /\ pc' = "read" /\ back = "split" /\ ~(nb_read > nb_write)
            /\ total_nb_write' = total_nb_write + nb_write
  BY <1>1 DEF AfterRestart, envVars
<1>4. pc' = "read" => nb_write = nb_read
  BY <1>1, <1>3
<1>5. TypeOK'
  <2>1. pc' \in Pc
    BY <1>3 DEF Pc
  <2>2. total_nb_write' \in Nat
    BY <1>1, <1>3, <1>4
  <2>3. failed' \in BOOLEAN
    BY <1>3 DEF IInv, TypeOK
  <2>8. named' = named
    BY DEF Restart, RestartIgnored, AfterRestart
  <2>9. named' \in BOOLEAN
    BY <2>8 DEF IInv, TypeOK
  <2> QED BY <1>2, <1>3, <2>1, <2>2, <2>3, <2>9 DEF IInv, TypeOK
<1>6. Counters'
  BY <1>1, <1>3, <1>4 DEF Counters, AtVolumeEnd
<1>7. Control'
  BY <1>1, <1>3 DEF Control, AtVolumeEnd, InContent
<1>8. Contents'
  <2>1. ~Unwritten' /\ InContent
    BY <1>1, <1>3 DEF Unwritten, InContent, AtVolumeEnd
  <2>2. Archived' = Archived
    BY <1>1, <1>3, <1>4 DEF Archived
  <2> QED BY <1>2, <1>3, <2>1, <2>2, ContentsStep
<1> QED BY <1>2, <1>5, <1>6, <1>7, <1>8 DEF IInv

LEMMA FormatWriteStep ==
  ASSUME FormatTypeOK, VolumeOK, NEW units \in Seq(Units),
         NEW r \in FormatResults(Len(units)), FormatWrite(units, r)
  PROVE  /\ FormatTypeOK' /\ VolumeOK' /\ remain_header' = remain_header
         /\ r.n \in -1 .. Len(units)
         /\ r.n <= 0 => log' = log
         /\ r.n > 0 => /\ Stamped(units, r.n) \in Seq(Units)
                       /\ log' = log \o Stamped(units, r.n)
<1>1. Len(units) \in Nat /\ FileTypeOK /\ fd \in BOOLEAN
  BY LenProperties DEF FormatTypeOK, FileTypeOK
<1>2. GoodResult(Len(units), r)
  BY <1>1, FormatResult
<1>3. /\ Write(units, r) /\ fd' = fd /\ format_size' = format_size
      /\ remain_header' = remain_header
      /\ format_position' = IF r.n > 0 THEN format_position + r.n ELSE format_position
  BY DEF FormatWrite
<1>4. /\ FileTypeOK' /\ VolumeOK'
      /\ r.n <= 0 => log' = log
      /\ r.n > 0 => /\ Stamped(units, r.n) \in Seq(Units)
                    /\ log' = log \o Stamped(units, r.n)
  BY <1>1, <1>2, <1>3, WriteStep
<1>5. r.n \in -1 .. Len(units)
  BY <1>2 DEF GoodResult
<1>6. format_position' \in Nat /\ format_size' \in Nat /\ remain_header' \in Seq(Units)
  BY <1>1, <1>3, <1>5 DEF FormatTypeOK
<1> QED BY <1>3, <1>4, <1>5, <1>6 DEF FormatTypeOK

LEMMA BufferUnits ==
  ASSUME NEW from \in Nat \cup {-1}, NEW length \in Nat,
         i \in Nat, roff \in Nat, nb_read \in Nat
  PROVE  /\ Buffer(from, length) \in Seq(Units)
         /\ Len(Buffer(from, length)) = length
         /\ \A j \in 1 .. length :
              IF from + j < 1 THEN Buffer(from, length)[j].k # "data"
              ELSE /\ Buffer(from, length)[j].k = "data"
                   /\ Buffer(from, length)[j].f = i
                   /\ Buffer(from, length)[j].o = roff - nb_read + from + j - 1
<1>1. \A j \in 1 .. length : Buffer(from, length)[j] =
          IF from + j < 1 THEN Unit("junk", 0, 0, 0, 0)
          ELSE Unit("data", i, roff - nb_read + from + j - 1, 0, 0)
  BY DEF Buffer
<1>2. \A o \in Int : Unit("data", i, o, 0, 0) \in Units
  BY DEF Unit, Units, Kind
<1>3. Unit("junk", 0, 0, 0, 0) \in Units
  BY DEF Unit, Units, Kind
<1>4. \A j \in 1 .. length : roff - nb_read + from + j - 1 \in Int
  OBVIOUS
<1>5. \A j \in 1 .. length : Buffer(from, length)[j] \in Units
  BY <1>1, <1>2, <1>3, <1>4
<1>6. Buffer(from, length) \in [1 .. length -> Units]
  BY <1>5 DEF Buffer
<1>7. Buffer(from, length) \in Seq(Units) /\ Len(Buffer(from, length)) = length
  BY <1>6, FunctionIsSeq
<1>8. \A j \in 1 .. length :
              IF from + j < 1 THEN Buffer(from, length)[j].k # "data"
              ELSE /\ Buffer(from, length)[j].k = "data"
                   /\ Buffer(from, length)[j].f = i
                   /\ Buffer(from, length)[j].o = roff - nb_read + from + j - 1
  <2>1. /\ Unit("junk", 0, 0, 0, 0).k # "data"
        /\ \A o : /\ Unit("data", i, o, 0, 0).k = "data"
                 /\ Unit("data", i, o, 0, 0).f = i
                 /\ Unit("data", i, o, 0, 0).o = o
    BY DEF Unit
  <2> QED BY <1>1, <2>1
<1> QED BY <1>7, <1>8

(* Writing from the buffer, wherever the round stands, moves the content of *)
(* the file on by what was written of it.  A round that starts at -1 writes *)
(* a unit of junk first.                                                    *)
LEMMA BufferWritten ==
  ASSUME IInv, InContent, i \in Nat, roff \in Nat, nb_read \in Nat,
         NEW from \in Nat \cup {-1}, NEW length \in Nat,
         NEW r \in FormatResults(length), FormatWrite(Buffer(from, length), r),
         Archived \in Nat,
         Archived = roff - nb_read + (IF from = -1 THEN 0 ELSE from)
  PROVE  /\ FormatTypeOK' /\ VolumeOK' /\ NoData(remain_header')
         /\ r.n \in -1 .. length
         /\ InOrder(log') /\ Upto(log', i)
         /\ r.n <= 0 => Below(log', i, Archived) /\ Reaches(log', i, Archived)
         /\ r.n > 0 => LET a == roff - nb_read + from + r.n
                       IN  Below(log', i, a) /\ Reaches(log', i, a)
<1> DEFINE units == Buffer(from, length)
           c == IF from = -1 THEN 1 ELSE 0
<1>1. /\ units \in Seq(Units) /\ Len(units) = length
      /\ \A j \in 1 .. length :
              IF from + j < 1 THEN units[j].k # "data"
              ELSE /\ units[j].k = "data"
                   /\ units[j].f = i
                   /\ units[j].o = roff - nb_read + from + j - 1
  BY BufferUnits
<1>2. FormatWrite(units, r) /\ r \in FormatResults(Len(units))
  BY <1>1
<1> HIDE DEF units
<1>3. /\ FormatTypeOK /\ VolumeOK /\ NoData(remain_header) /\ log \in Seq(Units)
      /\ volume \in Nat
      /\ InOrder(log) /\ Upto(log, i) /\ Below(log, i, Archived) /\ Reaches(log, i, Archived)
  BY DEF IInv, TypeOK, FormatTypeOK, FileTypeOK, Contents
<1>4. /\ FormatTypeOK' /\ VolumeOK' /\ remain_header' = remain_header
      /\ r.n \in -1 .. length
      /\ r.n <= 0 => log' = log
      /\ r.n > 0 => /\ Stamped(units, r.n) \in Seq(Units)
                    /\ log' = log \o Stamped(units, r.n)
  BY <1>1, <1>2, <1>3, FormatWriteStep
<1>5. CASE r.n <= 0
  BY <1>3, <1>4, <1>5
<1>6. CASE r.n > 0
  <2> DEFINE T == Stamped(units, r.n)
             a == Archived
  <2>1. r.n \in 1 .. length /\ r.n \in 0 .. Len(units)
    BY <1>1, <1>4, <1>6
  <2>2. /\ T \in Seq(Units) /\ Len(T) = r.n
        /\ \A j \in 1 .. r.n : /\ T[j].k = units[j].k
                               /\ T[j].f = units[j].f
                               /\ T[j].o = units[j].o
    BY <1>1, <1>3, <2>1, StampedUnits
  <2>3. log' = log \o T
    BY <1>4, <1>6
  <2> HIDE DEF T, a
  <2>4. a \in Nat /\ c \in 0 .. 1 /\ a = roff - nb_read + from + c
    BY DEF a
  <2>5. \A j \in 1 .. Len(T) : IF j <= c THEN T[j].k # "data"
                               ELSE T[j].k = "data" /\ T[j].f = i /\ T[j].o = a + j - c - 1
    <3> SUFFICES ASSUME NEW j \in 1 .. r.n
                 PROVE  IF j <= c THEN T[j].k # "data"
                        ELSE T[j].k = "data" /\ T[j].f = i /\ T[j].o = a + j - c - 1
      BY <2>2
    <3>1. j \in 1 .. length /\ j \in Nat
      BY <2>1
    <3>2. T[j].k = units[j].k /\ T[j].f = units[j].f /\ T[j].o = units[j].o
      BY <2>2
    <3>3. (from + j < 1) <=> (j <= c)
      BY <3>1
    <3>4. roff - nb_read + from + j - 1 = a + j - c - 1
      BY <2>4, <3>1
    <3> HIDE DEF c
    <3> QED BY <1>1, <3>1, <3>2, <3>3, <3>4
  <2>6. /\ InOrder(log) /\ Upto(log, i) /\ Below(log, i, a) /\ Reaches(log, i, a)
    BY <1>3 DEF a
  <2>7. /\ InOrder(log') /\ Upto(log', i)
        /\ Below(log', i, a + Len(T) - c) /\ Reaches(log', i, a + Len(T) - c)
    <3>1. Len(T) > 0
      BY <2>1, <2>2
    <3> HIDE DEF c
    <3> QED BY <1>3, <2>2, <2>3, <2>4, <2>5, <2>6, <3>1, AppendData
  <2>8. a + Len(T) - c = roff - nb_read + from + r.n
    <3>1. r.n \in Int /\ from \in Int /\ Len(T) = r.n
      BY <2>1, <2>2
    <3> HIDE DEF c
    <3> QED BY <2>4, <3>1
  <2> QED BY <1>3, <1>4, <1>6, <2>1, <2>7, <2>8
<1> QED BY <1>4, <1>5, <1>6

LEMMA WriteDataInv == IInv /\ WriteData => IInv'
<1> SUFFICES ASSUME IInv, WriteData PROVE IInv'
  OBVIOUS
<1>1. PICK r \in FormatResults(nb_read) :
        /\ FormatWrite(Buffer(0, nb_read), r)
        /\ nb_write' = r.n
        /\ failed' = (r.n < 0 /\ r.err # "ENOSPC")
        /\ pc' = IF r.n = nb_read THEN "read" ELSE "prompt"
        /\ back' = IF r.n = nb_read THEN back
                   ELSE IF r.n < 0 /\ r.err = "ENOSPC" THEN "enospc" ELSE "split"
        /\ total_nb_write' = IF r.n = nb_read THEN total_nb_write + r.n
                             ELSE total_nb_write
  BY DEF WriteData
<1>2. /\ pc = "write" /\ i \in Nat \ {0} /\ i <= Len(Entries)
      /\ roff \in Nat /\ nb_read \in Nat /\ total_nb_write \in Nat
      /\ roff = total_nb_write + nb_read
      /\ InContent /\ Archived = total_nb_write
  BY DEF WriteData, IInv, TypeOK, Counters, Control, InContent, Archived
<1>3. /\ i' = i /\ inode' = inode /\ roff' = roff /\ nb_read' = nb_read
      /\ cuts' = cuts /\ size' = size /\ resizes' = resizes
  BY DEF WriteData, envVars
<1>4. /\ FormatTypeOK' /\ VolumeOK' /\ NoData(remain_header')
      /\ r.n \in -1 .. nb_read
      /\ InOrder(log') /\ Upto(log', i)
      /\ r.n <= 0 => Below(log', i, Archived) /\ Reaches(log', i, Archived)
      /\ r.n > 0 => Below(log', i, roff - nb_read + 0 + r.n)
                    /\ Reaches(log', i, roff - nb_read + 0 + r.n)
  <2>1. Archived = roff - nb_read + (IF 0 = -1 THEN 0 ELSE 0) /\ 0 \in Nat \cup {-1}
    BY <1>2
  <2> QED BY <1>1, <1>2, <2>1, BufferWritten
<1>5. \/ pc' = "read" /\ r.n = nb_read /\ back' = back /\ total_nb_write' = total_nb_write + r.n
      \/ /\ pc' = "prompt" /\ r.n < nb_read /\ total_nb_write' = total_nb_write
         /\ back' = "split" \/ (back' = "enospc" /\ r.n = -1)
  BY <1>1, <1>2, <1>4
<1>6. TypeOK'
  <2>1. pc' \in Pc /\ back' \in {"none", "label", "link", "add", "enospc", "split"}
    BY <1>5 DEF IInv, TypeOK, Pc
  <2>2. total_nb_write' \in Nat /\ nb_write' \in Nat \cup {-1}
    BY <1>1, <1>2, <1>4, <1>5
  <2>3. failed' \in BOOLEAN
    BY <1>1
  <2>9. named' \in BOOLEAN
    BY DEF WriteData, IInv, TypeOK
  <2> QED BY <1>3, <1>4, <2>1, <2>2, <2>3, <2>9 DEF IInv, TypeOK
<1>7. Counters'
  <2>1. nb_write' = r.n /\ r.n \in -1 .. nb_read
    BY <1>1, <1>4
  <2>2. CASE pc' = "read"
    BY <1>2, <1>3, <1>5, <2>2 DEF Counters, AtVolumeEnd
  <2>3. CASE pc' = "prompt"
    BY <1>2, <1>3, <1>5, <2>1, <2>3 DEF Counters, AtVolumeEnd
  <2> QED BY <1>5, <2>2, <2>3
<1>8. Control'
  BY <1>2, <1>3, <1>5 DEF Control
<1>9. Below(log', i', Archived') /\ Reaches(log', i', Archived')
  <2>1. CASE r.n <= 0
    <3>1. Archived' = Archived
      BY <1>1, <1>2, <1>4, <1>5, <2>1 DEF Archived
    <3> QED BY <1>3, <1>4, <2>1, <3>1
  <2>2. CASE r.n > 0
    <3>1. Archived' = roff - nb_read + 0 + r.n
      BY <1>1, <1>2, <1>4, <1>5, <2>2 DEF Archived
    <3> QED BY <1>3, <1>4, <2>2, <3>1
  <2> QED BY <1>4, <2>1, <2>2
<1>10. Contents'
  <2>1. ~Unwritten'
    BY <1>5 DEF Unwritten
  <2> QED BY <1>3, <1>4, <1>9, <2>1 DEF Contents
<1> QED BY <1>4, <1>6, <1>7, <1>8, <1>10 DEF IInv

LEMMA WriteRestInv == IInv /\ WriteRest => IInv'
<1> SUFFICES ASSUME IInv, WriteRest PROVE IInv'
  OBVIOUS
<1> DEFINE length == nb_read - nb_write
<1>1. PICK r \in FormatResults(length) :
        /\ FormatWrite(Buffer(nb_write, length), r)
        /\ nb_write' = IF r.n > 0 THEN nb_write + r.n ELSE nb_write
        /\ pc' = IF nb_write' < nb_read THEN "prompt" ELSE "read"
        /\ total_nb_write' = IF nb_write' < nb_read THEN total_nb_write
                             ELSE total_nb_write + nb_write'
  BY DEF WriteRest
<1>2. /\ pc = "rest" /\ i \in Nat \ {0} /\ i <= Len(Entries) /\ back = "split"
      /\ roff \in Nat /\ nb_read \in Nat /\ total_nb_write \in Nat
      /\ nb_write \in Nat \cup {-1} /\ nb_write <= nb_read
      /\ roff = total_nb_write + nb_read
      /\ InContent
      /\ Archived = IF nb_write = -1 THEN total_nb_write ELSE total_nb_write + nb_write
  BY DEF WriteRest, IInv, TypeOK, Counters, Control, InContent, Archived
<1>3. /\ i' = i /\ inode' = inode /\ roff' = roff /\ nb_read' = nb_read
      /\ failed' = failed /\ back' = back
      /\ cuts' = cuts /\ size' = size /\ resizes' = resizes
  BY DEF WriteRest, envVars
<1>4. length \in Nat
  BY <1>2
<1>5. /\ FormatTypeOK' /\ VolumeOK' /\ NoData(remain_header')
      /\ r.n \in -1 .. length
      /\ InOrder(log') /\ Upto(log', i)
      /\ r.n <= 0 => Below(log', i, Archived) /\ Reaches(log', i, Archived)
      /\ r.n > 0 => Below(log', i, roff - nb_read + nb_write + r.n)
                    /\ Reaches(log', i, roff - nb_read + nb_write + r.n)
  <2>1. /\ Archived = roff - nb_read + (IF nb_write = -1 THEN 0 ELSE nb_write)
        /\ Archived \in Nat
    BY <1>2
  <2> HIDE DEF length
  <2> QED BY <1>1, <1>2, <1>4, <2>1, BufferWritten
<1>6. /\ nb_write' \in Nat \cup {-1} /\ nb_write' <= nb_read
      /\ \/ pc' = "prompt" /\ nb_write' < nb_read /\ total_nb_write' = total_nb_write
         \/ /\ pc' = "read" /\ nb_write' = nb_read
            /\ total_nb_write' = total_nb_write + nb_write'
  BY <1>1, <1>2, <1>5
<1>7. TypeOK'
  <2>1. pc' \in Pc
    BY <1>6 DEF Pc
  <2>2. total_nb_write' \in Nat
    BY <1>2, <1>6
  <2>3. failed' \in BOOLEAN
    BY <1>3 DEF IInv, TypeOK
  <2>9. named' \in BOOLEAN
    BY DEF WriteRest, IInv, TypeOK
  <2> QED BY <1>3, <1>5, <1>6, <2>1, <2>2, <2>3, <2>9 DEF IInv, TypeOK
<1>8. Counters'
  BY <1>2, <1>3, <1>6 DEF Counters, AtVolumeEnd
<1>9. Control'
  BY <1>2, <1>3, <1>6 DEF Control
<1>10. Below(log', i', Archived') /\ Reaches(log', i', Archived')
  <2>1. CASE r.n <= 0
    <3>1. Archived' = Archived
      BY <1>1, <1>2, <1>5, <1>6, <2>1 DEF Archived
    <3> QED BY <1>3, <1>5, <2>1, <3>1
  <2>2. CASE r.n > 0
    <3>1. nb_write' = nb_write + r.n /\ nb_write' # -1
      BY <1>1, <1>2, <1>5, <2>2
    <3>2. Archived' = total_nb_write + nb_write + r.n
      BY <1>2, <1>5, <1>6, <3>1 DEF Archived
    <3>3. roff - nb_read + nb_write + r.n = total_nb_write + nb_write + r.n
      BY <1>2, <1>5
    <3> QED BY <1>3, <1>5, <2>2, <3>2, <3>3
  <2> QED BY <1>5, <2>1, <2>2
<1>11. Contents'
  <2>1. ~Unwritten'
    BY <1>2, <1>3, <1>6 DEF Unwritten
  <2> QED BY <1>3, <1>5, <1>10, <2>1 DEF Contents
<1> QED BY <1>5, <1>7, <1>8, <1>9, <1>11 DEF IInv

----------------------------------------------------------------------------
(* A file changes its size: the program's own state stays. *)
LEMMA ResizeInv == IInv /\ Resize => IInv'
<1> SUFFICES ASSUME IInv, Resize PROVE IInv'
  OBVIOUS
<1>1. /\ UNCHANGED fileVars /\ UNCHANGED formatVars /\ UNCHANGED loopVars
      /\ pc' = pc /\ failed' = failed /\ back' = back /\ cuts' = cuts
      /\ resizes < MaxResizes /\ resizes' = resizes + 1
  BY DEF Resize
<1>2. size' \in [Inodes -> Nat]
  <2>1. PICK n \in Inodes, s \in 0 .. MaxSize : size' = [size EXCEPT ![n] = s]
    BY DEF Resize
  <2>2. s \in Nat
    BY <2>1, CreateAssumption
  <2> QED BY <2>1, <2>2 DEF IInv, TypeOK
<1>3. /\ i' = i /\ inode' = inode /\ roff' = roff /\ nb_read' = nb_read
      /\ nb_write' = nb_write /\ total_nb_write' = total_nb_write
  BY <1>1 DEF loopVars
<1>4. FormatTypeOK' /\ VolumeOK' /\ OtherStep /\ NoData(remain_header')
  <2>1. FormatTypeOK' /\ VolumeOK' /\ OtherStep
    BY <1>1 DEF fileVars, formatVars, IInv, TypeOK, FormatTypeOK, FileTypeOK, VolumeOK, OtherStep
  <2> QED BY <1>1, <2>1 DEF formatVars, IInv, Contents
<1>5. TypeOK'
  <2>1. resizes' \in 0 .. MaxResizes
    BY <1>1, CreateAssumption DEF IInv, TypeOK
  <2>2. failed' \in BOOLEAN
    BY <1>1 DEF IInv, TypeOK
  <2>9. named' \in BOOLEAN
    BY DEF Resize, IInv, TypeOK
  <2> QED BY <1>1, <1>2, <1>3, <1>4, <2>1, <2>2, <2>9 DEF IInv, TypeOK
<1>6. Counters' /\ Control'
  BY <1>1, <1>3 DEF IInv, Counters, Control, InContent, AtVolumeEnd
<1>7. Contents'
  <2>1. Unwritten' => Unwritten
    BY <1>1 DEF Unwritten
  <2>2. InContent' => InContent /\ Archived' = Archived
    BY <1>1, <1>3 DEF InContent, AtVolumeEnd, Archived
  <2> QED BY <1>3, <1>4, <2>1, <2>2, ContentsStep
<1> QED BY <1>4, <1>5, <1>6, <1>7 DEF IInv

LEMMA StutterInv == IInv /\ UNCHANGED vars => IInv'
<1> SUFFICES ASSUME IInv, UNCHANGED vars PROVE IInv'
  OBVIOUS
<1>1. /\ UNCHANGED fileVars /\ UNCHANGED formatVars /\ UNCHANGED loopVars /\ UNCHANGED envVars
      /\ pc' = pc /\ failed' = failed /\ back' = back /\ cuts' = cuts
  BY DEF vars
<1>2. /\ i' = i /\ inode' = inode /\ roff' = roff /\ nb_read' = nb_read
      /\ nb_write' = nb_write /\ total_nb_write' = total_nb_write
      /\ size' = size /\ resizes' = resizes
  BY <1>1 DEF loopVars, envVars
<1>3. FormatTypeOK' /\ VolumeOK' /\ OtherStep /\ NoData(remain_header')
  <2>1. FormatTypeOK' /\ VolumeOK' /\ OtherStep
    BY <1>1 DEF fileVars, formatVars, IInv, TypeOK, FormatTypeOK, FileTypeOK, VolumeOK, OtherStep
  <2> QED BY <1>1, <2>1 DEF formatVars, IInv, Contents
<1>4. TypeOK'
  <2>1. failed' \in BOOLEAN
    BY <1>1 DEF IInv, TypeOK
  <2>9. named' \in BOOLEAN
    BY DEF vars, IInv, TypeOK
  <2> QED BY <1>1, <1>2, <1>3, <2>1, <2>9 DEF IInv, TypeOK
<1>5. Counters' /\ Control'
  BY <1>1, <1>2 DEF IInv, Counters, Control, InContent, AtVolumeEnd
<1>6. Contents'
  <2>1. Unwritten' => Unwritten
    BY <1>1 DEF Unwritten
  <2>2. InContent' => InContent /\ Archived' = Archived
    BY <1>1, <1>2 DEF InContent, AtVolumeEnd, Archived
  <2> QED BY <1>2, <1>3, <2>1, <2>2, ContentsStep
<1> QED BY <1>3, <1>4, <1>5, <1>6 DEF IInv

LEMMA NextInv == IInv /\ [Next]_vars => IInv'
<1> SUFFICES ASSUME IInv, [Next]_vars PROVE IInv'
  OBVIOUS
<1>1. CASE Program
  BY <1>1, StartLabelInv, NextEntryInv, StopsInv, FailsInv, HardLinkInv, AddEntryInv,
     ReadDataInv, WriteDataInv, RestartInv, WriteRestInv, FinishFileInv, ClosesInv
     DEF Program
<1>2. CASE Operator
  BY <1>2, NextVolumeInv, PromptEndsInv, StopsInv, ClosesInv DEF Operator
<1>3. CASE Resize
  BY <1>3, ResizeInv
<1>4. CASE Finished \/ UNCHANGED vars
  BY <1>4, StutterInv DEF Finished
<1> QED BY <1>1, <1>2, <1>3, <1>4 DEF Next

----------------------------------------------------------------------------
(* The theorems. *)

(* The conjuncts of the inductive invariant hold throughout every run. *)
THEOREM Inductive == Spec => []IInv
<1>1. Init => IInv
  BY InitInv
<1>2. IInv /\ [Next]_vars => IInv'
  BY NextInv
<1> QED BY <1>1, <1>2, PTL DEF Spec

(* Every variable keeps its type: among others the number of units still to *)
(* be written, which the loops of create.c subtract from each other, never  *)
(* falls below what the calls take.                                         *)
THEOREM TypeCorrect == Spec => []TypeOK
<1>1. IInv => TypeOK
  BY DEF IInv
<1> QED BY <1>1, Inductive, PTL

(* The file writer never goes past the size of the volume, whatever the     *)
(* clients ask it to write (io/file/writer.c).                              *)
THEOREM VolumeBound == Spec => []VolumeOK
<1>1. IInv => VolumeOK
  BY DEF IInv
<1> QED BY <1>1, Inductive, PTL

(* The content of every file reaches the archive in order and without a     *)
(* hole or a repetition (the copy loop of create.c), for any entries, any   *)
(* sizes of blocks and volumes, any changes of the files and any failures.  *)
THEOREM ArchiveInOrder == Spec => []DataInOrder
<1>1. IInv => DataInOrder
  BY DEF IInv, Contents, DataInOrder
<1> QED BY <1>1, Inductive, PTL

----------------------------------------------------------------------------
(* The invariant of the counters at the ends of the volumes. *)

(* Whoever has the content of a file still to write: it is at hand, or its  *)
(* header has just met the end of a volume.                                 *)
ContentAhead ==
    \/ pc \in {"read", "write", "restart", "rest"}
    \/ pc = "prompt" /\ (back = "split" \/ (back = "add" /\ Entry.kind = "reg"))

(* What is still to be written of the file, from the buffer and behind it,  *)
(* and what the format writer would still take before it refuses.           *)
Owed == nb_read - nb_write + (StSize - roff)
Room == format_size - format_position

(* The volume is open wherever it is written on.                            *)
VolumeOpen ==
    \/ pc \in {"exit", "done", "aborted", "crashed"}
    \/ pc = "prompt" /\ back # "split"
    \/ fd

(* A volume is not full when the buffer is written for the first time: that *)
(* is seen before the file is read.  So an ENOSPC never comes up.           *)
NotFull == pc = "write" => nb_write = 0 /\ (VolumeSize > 0 => position < VolumeSize)

(* The buffer is on the volumes when the next part of the file is read.     *)
BufferDone == pc = "read" => nb_write = nb_read

Quiet ==
    /\ VolumeOpen
    /\ NotFull
    /\ BufferDone
    /\ back # "enospc"
    /\ ContentAhead => nb_write # -1 /\ roff <= StSize /\ Owed <= Room
    /\ PromptAtEnd

QuietInv == Undisturbed => Quiet

----------------------------------------------------------------------------
(* What a call returns when nothing goes wrong. *)

LEMMA FaultSign ==
  ASSUME NEW length \in Nat
  PROVE  /\ \A r \in WriteResults(length) : r.fault \in Nat
         /\ \A r \in HeaderResults(length) : r.fault \in Nat
         /\ \A r \in FormatResults(length) : r.fault \in Nat
<1>1. ASSUME NEW n, NEW r \in WriteResults(n) PROVE r.fault \in Nat
  BY DEF WriteResults
<1>2. ASSUME NEW r \in HeaderResults(length) PROVE r.fault \in Nat
  <2>1. CASE r \in WriteResults(length)
    BY <1>1, <2>1
  <2>2. CASE r \notin WriteResults(length)
    <3>1. PICK a \in AvailableSpace :
            r \in IF a > 0 THEN WriteResults(length)
                  ELSE {[n |-> 0, err |-> last_errno,
                         fault |-> IF VolumeSize > 0 THEN 0 ELSE 1]}
      BY DEF HeaderResults
    <3> QED BY <2>2, <3>1
  <2> QED BY <2>1, <2>2
<1>3. ASSUME NEW r \in FormatResults(length) PROVE r.fault \in Nat
  BY <1>1 DEF FormatResults
<1> QED BY <1>1, <1>2, <1>3

(* A write that goes right is short only when it fills the volume, and is   *)
(* refused only when the volume is full.                                    *)
GoesRight(length, r) ==
    /\ r.n \in -1 .. length
    /\ r.n = length => (VolumeSize > 0 => position < VolumeSize)
    /\ r.n < length => /\ VolumeSize > 0
                       /\ IF r.n > 0 THEN position + r.n = VolumeSize
                          ELSE position = VolumeSize

LEMMA WriteRight ==
  ASSUME FileTypeOK, VolumeOK, fd, NEW length \in Nat \ {0},
         NEW r \in WriteResults(length), r.fault = 0
  PROVE  GoesRight(length, r)
<1> USE FileAssumption DEF FileTypeOK, VolumeOK, GoesRight
<1>1. CASE VolumeSize > 0 /\ position = VolumeSize
  BY <1>1 DEF WriteResults
<1>2. CASE ~(VolumeSize > 0 /\ position = VolumeSize)
  <2> DEFINE room == IF VolumeSize > 0 THEN Least(length, VolumeSize - position) ELSE length
  <2>1. /\ room \in 1 .. length
        /\ VolumeSize > 0 => position < VolumeSize
        /\ room < length => VolumeSize > 0 /\ position + room = VolumeSize
    BY <1>2 DEF Least
  <2>2. r.n = room
    BY <1>2 DEF WriteResults
  <2> HIDE DEF room
  <2> QED BY <2>1, <2>2
<1> QED BY <1>1, <1>2

(* The same for a header, which asks for the space first. *)
LEMMA HeaderRight ==
  ASSUME FileTypeOK, VolumeOK, fd, NEW length \in Nat \ {0},
         NEW r \in HeaderResults(length), r.fault = 0
  PROVE  GoesRight(length, r)
<1>1. CASE r \in WriteResults(length)
  BY <1>1, WriteRight
<1>2. CASE r \notin WriteResults(length)
  <2>1. PICK a \in AvailableSpace :
          r \in IF a > 0 THEN WriteResults(length)
                ELSE {[n |-> 0, err |-> last_errno,
                       fault |-> IF VolumeSize > 0 THEN 0 ELSE 1]}
    BY DEF HeaderResults
  <2>2. ~(a > 0) /\ VolumeSize > 0 /\ r.n = 0
    BY <1>2, <2>1
  <2>3. a = VolumeSize - position
    BY <2>1, <2>2 DEF AvailableSpace
  <2> QED BY <2>2, <2>3, FileAssumption DEF GoesRight, FileTypeOK, VolumeOK
<1> QED BY <1>1, <1>2

(* And for content that the format writer has room for. *)
LEMMA FormatRight ==
  ASSUME FormatTypeOK, VolumeOK, fd, NEW length \in Nat \ {0}, length <= Room,
         NEW r \in FormatResults(length), r.fault = 0
  PROVE  GoesRight(length, r)
<1>1. format_position < format_size /\ Least(length, format_size - format_position) = length
  BY DEF Room, Least, FormatTypeOK
<1>2. r \in WriteResults(length)
  BY <1>1 DEF FormatResults, FormatTypeOK
<1> QED BY <1>2, WriteRight DEF FormatTypeOK

(* Nothing goes wrong in a step behind which nothing has gone wrong. *)
LEMMA StillUndisturbed ==
  ASSUME IInv, Undisturbed', resizes' = resizes, NEW r, r.fault \in Nat,
         faults' = faults + r.fault
  PROVE  Undisturbed /\ r.fault = 0
  BY FileAssumption DEF Undisturbed, IInv, TypeOK, FormatTypeOK, FileTypeOK

----------------------------------------------------------------------------
(* Every action keeps the invariant. *)

LEMMA InitQuiet == Init => QuietInv
  BY DEF Init, FileInit, QuietInv, Quiet, VolumeOpen, NotFull, BufferDone, ContentAhead, PromptAtEnd

(* At the end of a volume the header is short, and only then. *)
LEMMA HeaderPrompt ==
  ASSUME IInv, fd, NEW units \in Seq(Units), Len(units) > 0,
         NEW r \in HeaderResults(Len(units)), r.fault = 0, WriteHeader(units, r)
  PROVE  /\ HeaderStatus(Len(units), r) = "ok" => fd'
         /\ HeaderStatus(Len(units), r) = "end_of_tape" =>
              VolumeSize > 0 /\ position' = VolumeSize
<1>1. Len(units) \in Nat \ {0}
  BY LenProperties
<1>2. GoesRight(Len(units), r)
  BY <1>1, HeaderRight DEF IInv, TypeOK, FormatTypeOK
<1>3. /\ position' = IF r.n > 0 THEN position + r.n ELSE position
      /\ fd' = (fd /\ HeaderStatus(Len(units), r) # "end_of_tape")
  BY DEF WriteHeader, Write
<1>4. HeaderStatus(Len(units), r) = "end_of_tape" => r.n < Len(units)
  BY DEF HeaderStatus
<1>5. HeaderStatus(Len(units), r) = "ok" => fd'
  BY <1>3
<1> QED BY <1>1, <1>2, <1>3, <1>4, <1>5 DEF GoesRight

(* The length of a header. *)
LEMMA HeaderNotEmpty ==
  ASSUME NEW k \in Kind \ {"data"}, NEW f \in Nat, NEW blocks \in Nat \ {0},
         NEW p \in Int, NEW s \in Int
  PROVE  /\ HeaderUnits(k, f, blocks, p, s) \in Seq(Units)
         /\ Len(HeaderUnits(k, f, blocks, p, s)) = blocks * Block
         /\ blocks * Block \in Nat \ {0}
<1>1. blocks * Block > 0
  BY FileAssumption
<1> QED BY <1>1, HeaderUnitsType

LEMMA StartLabelQuiet == IInv /\ QuietInv /\ StartLabel => QuietInv'
<1> SUFFICES ASSUME IInv, QuietInv, StartLabel, Undisturbed' PROVE Quiet'
  BY DEF QuietInv
<1>1. pc = "label" /\ resizes' = resizes
  BY DEF StartLabel, envVars
<1>2. CASE Label
  <2> DEFINE units == HeaderUnits("label", 0, 1, 0, 0)
  <2>1. PICK r \in HeaderResults(Block) :
           AddLabel(r) /\ OnStatus(HeaderStatus(Block, r), "label", "next")
    BY <1>2 DEF StartLabel
  <2>2. units \in Seq(Units) /\ Len(units) = Block /\ Len(units) > 0
    <3>1. "label" \in Kind \ {"data"} /\ 0 \in Nat /\ 1 \in Nat \ {0} /\ 0 \in Int
      BY DEF Kind
    <3>2. 1 * Block = Block
      BY FileAssumption
    <3> QED BY <3>1, <3>2, HeaderNotEmpty
  <2>3. WriteHeader(units, r) /\ faults' = faults + r.fault
    BY <2>1 DEF AddLabel, WriteHeader, Write
  <2> HIDE DEF units
  <2>4. Undisturbed /\ r.fault = 0
    BY <1>1, <2>1, <2>3, FaultSign, StillUndisturbed, FileAssumption
  <2>5. fd /\ back # "enospc"
    BY <1>1, <2>4 DEF QuietInv, Quiet, VolumeOpen
  <2>6. /\ HeaderStatus(Block, r) = "ok" => fd'
        /\ HeaderStatus(Block, r) = "end_of_tape" => VolumeSize > 0 /\ position' = VolumeSize
    BY <2>1, <2>2, <2>3, <2>4, <2>5, HeaderPrompt
  <2>7. \/ HeaderStatus(Block, r) = "error" /\ pc' = "exit" /\ back' = back
        \/ HeaderStatus(Block, r) = "end_of_tape" /\ pc' = "prompt" /\ back' = "label"
        \/ HeaderStatus(Block, r) = "ok" /\ pc' = "next" /\ back' = back
    BY <2>1, HeaderStatusType, OnStatusCases DEF IInv, TypeOK
  <2> QED BY <2>5, <2>6, <2>7 DEF Quiet, VolumeOpen, NotFull, BufferDone, ContentAhead, PromptAtEnd
<1>3. CASE ~Label
  <2>1. pc' = "next" /\ back' = back /\ fd' = fd /\ faults' = faults
    BY <1>3 DEF StartLabel, fileVars
  <2>2. Undisturbed
    BY <1>1, <2>1 DEF Undisturbed
  <2>3. fd /\ back # "enospc"
    BY <1>1, <2>2 DEF QuietInv, Quiet, VolumeOpen
  <2> QED BY <2>1, <2>3 DEF Quiet, VolumeOpen, NotFull, BufferDone, ContentAhead, PromptAtEnd
<1> QED BY <1>2, <1>3

LEMMA NextEntryQuiet == IInv /\ QuietInv /\ (NextEntry \/ NoMoreEntries) => QuietInv'
<1> SUFFICES ASSUME IInv, QuietInv, NextEntry \/ NoMoreEntries, Undisturbed' PROVE Quiet'
  BY DEF QuietInv
<1>1. /\ pc = "next" /\ pc' \in {"next", "link", "add", "exit"} /\ back' = back
      /\ fd' = fd /\ faults' = faults /\ resizes' = resizes
  BY DEF NextEntry, NoMoreEntries, fileVars, envVars
<1>2. fd /\ back # "enospc"
  BY <1>1 DEF Undisturbed, QuietInv, Quiet, VolumeOpen
<1> QED BY <1>1, <1>2 DEF Quiet, VolumeOpen, NotFull, BufferDone, ContentAhead, PromptAtEnd

(* A failing call is a disturbance. *)
LEMMA FailsQuiet ==
  IInv /\ QuietInv /\ (StatFails \/ ReadFails \/ RestartIgnored \/ Resize) => QuietInv'
<1> SUFFICES ASSUME IInv, StatFails \/ ReadFails \/ RestartIgnored \/ Resize PROVE ~Undisturbed'
  BY DEF QuietInv
<1>1. faults' = faults + 1 \/ resizes' = resizes + 1
  BY DEF StatFails, ReadFails, CallFails, RestartIgnored, RestartFails, Resize
<1> QED BY <1>1, FileAssumption, CreateAssumption
        DEF Undisturbed, IInv, TypeOK, FormatTypeOK, FileTypeOK

(* What ends the program leaves nothing to ask for. *)
LEMMA LeaveQuiet ==
  IInv /\ QuietInv /\ (PromptQuits \/ BadVolume \/ Exit) => QuietInv'
<1> SUFFICES ASSUME IInv, QuietInv, PromptQuits \/ BadVolume \/ Exit, Undisturbed' PROVE Quiet'
  BY DEF QuietInv
<1>1. /\ pc' \in {"aborted", "crashed", "done"} /\ back' = back
      /\ faults' = faults /\ resizes' = resizes
  BY DEF PromptQuits, BadVolume, Exit, Close, fileVars, envVars
<1>2. back # "enospc"
  BY <1>1 DEF Undisturbed, QuietInv, Quiet
<1> QED BY <1>1, <1>2 DEF Quiet, VolumeOpen, NotFull, BufferDone, ContentAhead, PromptAtEnd

LEMMA HardLinkQuiet == IInv /\ QuietInv /\ HardLink => QuietInv'
<1> SUFFICES ASSUME IInv, QuietInv, HardLink, Undisturbed' PROVE Quiet'
  BY DEF QuietInv
<1> DEFINE units == HeaderUnits("link", i, 1, 0, 0)
<1>1. PICK r \in HeaderResults(Block) :
        AddLink(i, r) /\ OnStatus(HeaderStatus(Block, r), "link", "next")
  BY DEF HardLink
<1>2. pc = "link" /\ resizes' = resizes /\ i \in Nat
  BY DEF HardLink, envVars, IInv, TypeOK
<1>3. units \in Seq(Units) /\ Len(units) = Block /\ Len(units) > 0
  <2>1. "link" \in Kind \ {"data"} /\ 1 \in Nat \ {0} /\ 0 \in Int
    BY DEF Kind
  <2>2. 1 * Block = Block
    BY FileAssumption
  <2> QED BY <1>2, <2>1, <2>2, HeaderNotEmpty
<1>4. WriteHeader(units, r) /\ faults' = faults + r.fault
  BY <1>1 DEF AddLink, WriteHeader, Write
<1> HIDE DEF units
<1>5. Undisturbed /\ r.fault = 0
  BY <1>1, <1>2, <1>4, FaultSign, StillUndisturbed, FileAssumption
<1>6. fd /\ back # "enospc"
  BY <1>2, <1>5 DEF QuietInv, Quiet, VolumeOpen
<1>7. /\ HeaderStatus(Block, r) = "ok" => fd'
      /\ HeaderStatus(Block, r) = "end_of_tape" => VolumeSize > 0 /\ position' = VolumeSize
  BY <1>1, <1>3, <1>4, <1>5, <1>6, HeaderPrompt
<1>8. \/ HeaderStatus(Block, r) = "error" /\ pc' = "exit" /\ back' = back
      \/ HeaderStatus(Block, r) = "end_of_tape" /\ pc' = "prompt" /\ back' = "link"
      \/ HeaderStatus(Block, r) = "ok" /\ pc' = "next" /\ back' = back
  BY <1>1, HeaderStatusType, OnStatusCases DEF IInv, TypeOK
<1> QED BY <1>6, <1>7, <1>8 DEF Quiet, VolumeOpen, NotFull, BufferDone, ContentAhead, PromptAtEnd

(* A new file is owed as much as the writer will take of it. *)
LEMMA AddEntryQuiet == IInv /\ QuietInv /\ AddEntry => QuietInv'
<1> SUFFICES ASSUME IInv, QuietInv, AddEntry, Undisturbed' PROVE Quiet'
  BY DEF QuietInv
<1> DEFINE length == Entry.blocks * Block
           ok == IF failed THEN "exit" ELSE AfterAdd
           units == HeaderUnits("hdr", i, Entry.blocks, 0, StSize)
<1>1. PICK r \in HeaderResults(length) :
        /\ AddFile(i, Entry.blocks, StSize, r)
        /\ OnStatus(HeaderStatus(length, r), "add", ok)
        /\ IF HeaderStatus(length, r) = "ok" /\ ~failed /\ AfterAdd = "next"
           THEN Skip
           ELSE /\ roff' = 0
                /\ nb_read' = 0
                /\ nb_write' = 0
                /\ total_nb_write' = 0
                /\ UNCHANGED <<i, inode>>
  BY DEF AddEntry
<1>2. /\ pc = "add" /\ resizes' = resizes /\ size' = size /\ i \in Nat
      /\ Entry.blocks \in Nat \ {0} /\ StSize \in Nat
  <2>1. /\ pc = "add" /\ resizes' = resizes /\ size' = size /\ i \in Nat \ {0}
        /\ i <= Len(Entries) /\ size \in [Inodes -> Nat]
    BY DEF AddEntry, envVars, IInv, TypeOK, Control
  <2>2. i \in 1 .. Len(Entries)
    BY <2>1, LenProperties, CreateAssumption
  <2>3. Entry \in EntryType
    BY <2>2, ElementOfSeq, CreateAssumption DEF Entry
  <2> QED BY <2>1, <2>2, <2>3, EntryInType DEF EntryType
<1>3. units \in Seq(Units) /\ Len(units) = length /\ Len(units) > 0
  <2>1. "hdr" \in Kind \ {"data"} /\ 0 \in Int
    BY DEF Kind
  <2> QED BY <1>2, <2>1, HeaderNotEmpty
<1>4. /\ WriteHeader(units, r) /\ faults' = faults + r.fault
      /\ format_position' = 0 /\ format_size' = StSize
  BY <1>1 DEF AddFile, WriteHeader, Write
<1>5. ok \in {"exit", "read", "next"} /\ (ok = "next" <=> ~failed /\ AfterAdd = "next")
  BY DEF AfterAdd
<1> HIDE DEF units, length, ok
<1>6. Undisturbed /\ r.fault = 0
  BY <1>1, <1>2, <1>3, <1>4, LenProperties, FaultSign, StillUndisturbed
<1>7. fd /\ back # "enospc"
  BY <1>2, <1>6 DEF QuietInv, Quiet, VolumeOpen
<1>8. /\ HeaderStatus(length, r) = "ok" => fd'
      /\ HeaderStatus(length, r) = "end_of_tape" => VolumeSize > 0 /\ position' = VolumeSize
  BY <1>1, <1>3, <1>4, <1>6, <1>7, HeaderPrompt
<1>9. \/ HeaderStatus(length, r) = "error" /\ pc' = "exit" /\ back' = back
      \/ HeaderStatus(length, r) = "end_of_tape" /\ pc' = "prompt" /\ back' = "add"
      \/ HeaderStatus(length, r) = "ok" /\ pc' = ok /\ back' = back
  BY <1>1, HeaderStatusType, OnStatusCases DEF IInv, TypeOK
<1>10. ContentAhead' => nb_write' # -1 /\ roff' <= StSize' /\ Owed' <= Room'
  <2> SUFFICES ASSUME ContentAhead' PROVE nb_write' # -1 /\ roff' <= StSize' /\ Owed' <= Room'
    OBVIOUS
  <2>1. pc' # "next"
    BY DEF ContentAhead
  <2>2. ~(HeaderStatus(length, r) = "ok" /\ ~failed /\ AfterAdd = "next")
    BY <1>5, <1>9, <2>1
  <2>3. roff' = 0 /\ nb_read' = 0 /\ nb_write' = 0 /\ i' = i
    BY <1>1, <2>2
  <2>4. StSize' = StSize
    BY <1>2, <2>3 DEF StSize, Entry
  <2> QED BY <1>2, <1>4, <2>3, <2>4 DEF Owed, Room
<1>11. BufferDone'
  <2> SUFFICES ASSUME pc' = "read" PROVE nb_write' = nb_read'
    BY DEF BufferDone
  <2> QED BY <1>1, <1>5, <1>9
<1> QED BY <1>5, <1>7, <1>8, <1>9, <1>10, <1>11 DEF Quiet, VolumeOpen, NotFull, PromptAtEnd

LEMMA NextVolumeQuiet == IInv /\ QuietInv /\ NextVolume => QuietInv'
<1> SUFFICES ASSUME IInv, QuietInv, NextVolume, Undisturbed' PROVE Quiet'
  BY DEF QuietInv
<1>1. /\ pc = "prompt" /\ fd' /\ back' = back /\ faults' = faults
      /\ resizes' = resizes /\ size' = size
      /\ format_position' = format_position /\ format_size' = format_size
      /\ pc' = CASE back = "label" -> "next"
                 [] back = "link" -> "next"
                 [] back = "add" -> AfterAdd
                 [] back \in {"enospc", "split"} -> "restart"
      /\ IF back = "link" \/ (back = "add" /\ AfterAdd = "next")
         THEN Skip ELSE UNCHANGED loopVars
  BY DEF NextVolume, NewVolume, NewWriter, envVars, formatVars
<1>2. Quiet
  BY <1>1 DEF Undisturbed, QuietInv
<1>3. back \in {"label", "link", "add", "split"}
  BY <1>1, <1>2 DEF Quiet, IInv, TypeOK, Control
<1>4. pc' \in {"next", "read", "restart"}
  BY <1>1, <1>3 DEF AfterAdd
<1>5. ContentAhead' => nb_write' # -1 /\ roff' <= StSize' /\ Owed' <= Room'
  <2> SUFFICES ASSUME ContentAhead' PROVE nb_write' # -1 /\ roff' <= StSize' /\ Owed' <= Room'
    OBVIOUS
  <2>1. back = "split" \/ (back = "add" /\ Entry.kind = "reg")
    BY <1>1, <1>3, <1>4 DEF ContentAhead, AfterAdd
  <2>2. UNCHANGED loopVars
    BY <1>1, <2>1 DEF AfterAdd
  <2>3. StSize' = StSize /\ roff' = roff /\ nb_write' = nb_write
    BY <1>1, <2>2 DEF StSize, Entry, loopVars
  <2>4. Owed' = Owed /\ Room' = Room
    BY <1>1, <2>2, <2>3 DEF Owed, Room, loopVars
  <2> QED BY <1>1, <1>2, <2>1, <2>3, <2>4 DEF Quiet, ContentAhead
<1>6. BufferDone'
  <2> SUFFICES ASSUME pc' = "read" PROVE nb_write' = nb_read'
    BY DEF BufferDone
  <2>1. back = "add" /\ AfterAdd = "read"
    BY <1>1, <1>3
  <2>2. nb_read = 0 /\ nb_write = 0
    BY <1>1, <2>1 DEF IInv, Counters
  <2> QED BY <1>1, <2>1, <2>2 DEF loopVars
<1> QED BY <1>1, <1>2, <1>3, <1>4, <1>5, <1>6 DEF Quiet, VolumeOpen, NotFull, PromptAtEnd

LEMMA PromptEndsQuiet == IInv /\ QuietInv /\ PromptEnds => QuietInv'
<1> SUFFICES ASSUME IInv, QuietInv, PromptEnds, Undisturbed' PROVE Quiet'
  BY DEF QuietInv
<1>1. /\ pc = "prompt" /\ fd' = fd /\ faults' = faults /\ resizes' = resizes
      /\ pc' = CASE back \in {"label", "link", "add"} -> "exit"
                 [] back = "enospc" -> "prompt"
                 [] back = "split" -> "eof"
      /\ back' = IF back = "enospc" THEN "split" ELSE back
  BY DEF PromptEnds, fileVars, envVars
<1>2. Quiet
  BY <1>1 DEF Undisturbed, QuietInv
<1>3. back \in {"label", "link", "add", "split"}
  BY <1>1, <1>2 DEF Quiet, IInv, TypeOK, Control
<1>4. /\ pc' \in {"exit", "eof"} /\ back' = back
      /\ pc' = "eof" => back = "split"
  BY <1>1, <1>3
<1> QED BY <1>1, <1>2, <1>3, <1>4 DEF Quiet, VolumeOpen, NotFull, BufferDone, ContentAhead, PromptAtEnd

LEMMA FinishFileQuiet == IInv /\ QuietInv /\ FinishFile => QuietInv'
<1> SUFFICES ASSUME IInv, QuietInv, FinishFile, Undisturbed' PROVE Quiet'
  BY DEF QuietInv
<1>1. PICK r \in EndOfFileResults : EndOfFile(r)
  BY DEF FinishFile
<1>2. /\ pc = "eof" /\ pc' = "next" /\ back' = back /\ fd' = fd
      /\ resizes' = resizes /\ faults' = faults + r.fault
  BY <1>1 DEF FinishFile, EndOfFile, Write, envVars
<1>3. r.fault \in Nat
  <2>1. CASE PadLength = 0
    BY <2>1 DEF EndOfFileResults
  <2>2. CASE PadLength # 0
    BY <2>2, FaultSign, PadLengthNat DEF EndOfFileResults, IInv, TypeOK
  <2> QED BY <2>1, <2>2
<1>4. Undisturbed
  BY <1>2, <1>3, StillUndisturbed
<1>5. fd /\ back # "enospc"
  BY <1>2, <1>4 DEF QuietInv, Quiet, VolumeOpen
<1> QED BY <1>2, <1>5 DEF Quiet, VolumeOpen, NotFull, BufferDone, ContentAhead, PromptAtEnd

(* The sizes of what is at hand. *)
LEMMA ContentSizes ==
  ASSUME IInv, pc \in {"read", "write", "restart", "rest"}
  PROVE  /\ StSize \in Nat /\ roff \in Nat /\ nb_read \in Nat
         /\ nb_write \in Nat \cup {-1} /\ total_nb_write \in Nat
         /\ format_position \in Nat /\ format_size \in Nat
         /\ position \in Nat /\ NextPreferedSize \in Nat
         /\ pc # "read" => roff = total_nb_write + nb_read
         /\ pc \in {"restart", "rest"} => nb_write <= nb_read
<1>1. i \in 1 .. Len(Entries) /\ size \in [Inodes -> Nat]
  <2>1. i \in Nat \ {0} /\ i <= Len(Entries) /\ size \in [Inodes -> Nat]
    BY DEF IInv, TypeOK, Control, InContent, AtVolumeEnd
  <2> QED BY <2>1, LenProperties, CreateAssumption
<1>2. StSize \in Nat
  BY <1>1, EntryInType
<1>3. NextPreferedSize \in Nat /\ position \in Nat
  BY PreferedSizeNat DEF IInv, TypeOK, FormatTypeOK, FileTypeOK
<1>4. /\ pc # "read" => roff = total_nb_write + nb_read
      /\ pc \in {"restart", "rest"} => nb_write <= nb_read
  BY DEF IInv, Counters, Control, AtVolumeEnd
<1> QED BY <1>2, <1>3, <1>4 DEF IInv, TypeOK, FormatTypeOK

(* The buffer is filled with what the volume has room for, and nothing is   *)
(* read when it is full.                                                    *)
LEMMA ReadDataQuiet == IInv /\ QuietInv /\ ReadData => QuietInv'
<1> SUFFICES ASSUME IInv, QuietInv, ReadData, Undisturbed' PROVE Quiet'
  BY DEF QuietInv
<1>1. /\ pc = "read" /\ UNCHANGED fileVars /\ UNCHANGED formatVars
      /\ i' = i /\ size' = size /\ resizes' = resizes /\ nb_write' = 0
      /\ nb_read' = Least(NextPreferedSize, IF roff < StSize THEN StSize - roff ELSE 0)
      /\ roff' = roff + nb_read'
      /\ pc' = IF NextPreferedSize = 0 THEN "prompt"
               ELSE IF nb_read' = 0 THEN "eof" ELSE "write"
      /\ back' = IF NextPreferedSize = 0 THEN "split" ELSE back
  BY DEF ReadData, envVars
<1>2. /\ fd' = fd /\ position' = position /\ faults' = faults
      /\ format_position' = format_position /\ format_size' = format_size
  BY <1>1 DEF fileVars, formatVars
<1>3. Quiet
  BY <1>1, <1>2 DEF Undisturbed, QuietInv
<1>4. fd /\ back # "enospc" /\ roff <= StSize /\ Owed <= Room
  BY <1>1, <1>3 DEF Quiet, VolumeOpen, ContentAhead
<1>5. /\ StSize \in Nat /\ roff \in Nat /\ nb_read \in Nat /\ nb_write \in Nat \cup {-1}
      /\ format_position \in Nat /\ format_size \in Nat
      /\ position \in Nat /\ NextPreferedSize \in Nat
  BY <1>1, ContentSizes
<1>6. nb_read' \in 0 .. StSize - roff
  BY <1>1, <1>4, <1>5 DEF Least
<1>7. StSize' = StSize
  BY <1>1 DEF StSize, Entry
<1>8. roff' <= StSize' /\ Owed' <= Room'
  <2>1. nb_write = nb_read
    BY <1>1, <1>3 DEF Quiet, BufferDone
  <2>2. roff' \in Nat /\ roff' <= StSize
    BY <1>1, <1>5, <1>6
  <2>3. Room' = Room /\ Room >= StSize - roff
    BY <1>2, <1>4, <1>5, <2>1 DEF Owed, Room
  <2>4. Owed' = StSize - roff
    BY <1>1, <1>5, <1>6, <1>7 DEF Owed
  <2> QED BY <1>7, <2>2, <2>3, <2>4
<1>9. NextPreferedSize = 0 <=> VolumeSize > 0 /\ position = VolumeSize
  <2>1. position % IoBlock \in 0 .. IoBlock - 1
    BY <1>5, ModRange, FileAssumption
  <2> QED BY <1>5, <2>1, FileAssumption DEF NextPreferedSize, IInv, VolumeOK
<1>10. VolumeSize > 0 => position <= VolumeSize
  BY DEF IInv, VolumeOK
<1> QED BY <1>1, <1>2, <1>4, <1>5, <1>8, <1>9, <1>10, FileAssumption
        DEF Quiet, VolumeOpen, NotFull, BufferDone, PromptAtEnd

(* The buffer is written as far as the volume takes it. *)
LEMMA WriteDataQuiet == IInv /\ QuietInv /\ WriteData => QuietInv'
<1> SUFFICES ASSUME IInv, QuietInv, WriteData, Undisturbed' PROVE Quiet'
  BY DEF QuietInv
<1>1. PICK r \in FormatResults(nb_read) :
        /\ FormatWrite(Buffer(0, nb_read), r)
        /\ nb_write' = r.n
        /\ pc' = IF r.n = nb_read THEN "read" ELSE "prompt"
        /\ back' = IF r.n = nb_read THEN back
                   ELSE IF r.n < 0 /\ r.err = "ENOSPC" THEN "enospc" ELSE "split"
  BY DEF WriteData
<1>2. /\ pc = "write" /\ i' = i /\ roff' = roff /\ nb_read' = nb_read
      /\ size' = size /\ resizes' = resizes
  BY DEF WriteData, envVars
<1>3. /\ faults' = faults + r.fault /\ fd' = fd /\ format_size' = format_size
      /\ position' = IF r.n > 0 THEN position + r.n ELSE position
      /\ format_position' = IF r.n > 0 THEN format_position + r.n ELSE format_position
  BY <1>1 DEF FormatWrite, Write
<1>4. /\ StSize \in Nat /\ roff \in Nat /\ nb_read \in Nat
      /\ format_position \in Nat /\ format_size \in Nat /\ position \in Nat
  BY <1>2, ContentSizes
<1>5. Undisturbed /\ r.fault = 0
  BY <1>1, <1>2, <1>3, <1>4, FaultSign, StillUndisturbed
<1>6. /\ fd /\ back # "enospc" /\ roff <= StSize /\ Owed <= Room /\ nb_write = 0
      /\ VolumeSize > 0 => position < VolumeSize
  BY <1>2, <1>5 DEF QuietInv, Quiet, VolumeOpen, ContentAhead, NotFull
<1>7. r.n \in 0 .. nb_read /\ (r.n < nb_read => VolumeSize > 0 /\ position + r.n = VolumeSize)
  <2>1. CASE nb_read = 0
    <3>1. r.n = 0
      BY <1>1, <1>4, <2>1 DEF FormatResults, WriteResults, Least
    <3> QED BY <2>1, <3>1
  <2>2. CASE nb_read # 0
    <3>1. nb_read <= Room
      BY <1>4, <1>6 DEF Owed, Room
    <3>2. GoesRight(nb_read, r)
      BY <1>1, <1>4, <1>5, <1>6, <2>2, <3>1, FormatRight DEF IInv, TypeOK
    <3> QED BY <1>4, <1>6, <3>2, FileAssumption DEF GoesRight
  <2> QED BY <2>1, <2>2
<1>8. \/ pc' = "read" /\ r.n = nb_read /\ back' = back
      \/ /\ pc' = "prompt" /\ r.n < nb_read /\ back' = "split"
         /\ VolumeSize > 0 /\ position' = VolumeSize
  <2>1. position' = position + r.n
    BY <1>3, <1>4, <1>7
  <2> QED BY <1>1, <1>4, <1>7, <2>1
<1>9. roff' <= StSize' /\ Owed' <= Room'
  <2>1. StSize' = StSize
    BY <1>2 DEF StSize, Entry
  <2>2. format_position' = format_position + r.n
    BY <1>3, <1>4, <1>7
  <2>3. Owed = nb_read + (StSize - roff) /\ Owed' = nb_read - r.n + (StSize - roff)
    BY <1>1, <1>2, <1>4, <1>6, <2>1 DEF Owed
  <2>4. Room' = Room - r.n
    BY <1>3, <1>4, <1>7, <2>2 DEF Room
  <2>5. Room \in Int /\ r.n \in Int
    BY <1>4, <1>7 DEF Room
  <2> QED BY <1>2, <1>4, <1>6, <2>1, <2>3, <2>4, <2>5
<1> QED BY <1>1, <1>2, <1>3, <1>6, <1>7, <1>8, <1>9
        DEF Quiet, VolumeOpen, NotFull, BufferDone, PromptAtEnd

(* The M header starts the file anew for the writer, or the header that was *)
(* kept does not.  Either way there is room for the rest.                   *)
LEMMA RestartQuiet == IInv /\ QuietInv /\ Restart => QuietInv'
<1> SUFFICES ASSUME IInv, QuietInv, Restart, Undisturbed' PROVE Quiet'
  BY DEF QuietInv
<1>1. PICK r \in WriteResults(Len(RestartUnits(i, RestartAt, StSize))) :
         RestartFile(i, RestartAt, StSize, r)
  BY DEF Restart
<1>2. pc = "restart" /\ AfterRestart
  BY DEF Restart
<1>3. /\ i' = i /\ roff' = roff /\ nb_read' = nb_read /\ nb_write' = nb_write
      /\ back' = back /\ size' = size /\ resizes' = resizes
      /\ pc' = IF back = "enospc" THEN "write"
               ELSE IF nb_read > nb_write THEN "rest" ELSE "read"
  BY <1>2 DEF AfterRestart, envVars
<1>4. /\ faults' = faults + r.fault /\ fd' = fd
      /\ \/ format_position' = format_position /\ format_size' = format_size
         \/ format_position' = 0 /\ format_size' = StSize
  BY <1>1 DEF RestartFile, Write
<1>5. /\ StSize \in Nat /\ roff \in Nat /\ nb_read \in Nat /\ nb_write \in Nat \cup {-1}
      /\ total_nb_write \in Nat /\ format_position \in Nat /\ format_size \in Nat
      /\ roff = total_nb_write + nb_read /\ nb_write <= nb_read
  BY <1>2, ContentSizes
<1>6. Undisturbed
  <2>1. Len(RestartUnits(i, RestartAt, StSize)) \in Nat
    BY <1>2, RestartTypes, LenProperties
  <2> QED BY <1>1, <1>3, <1>4, <2>1, FaultSign, StillUndisturbed
<1>7. fd /\ back # "enospc" /\ roff <= StSize /\ Owed <= Room
  BY <1>2, <1>6 DEF QuietInv, Quiet, VolumeOpen, ContentAhead
<1>8. nb_write \in Nat
  BY <1>2, <1>5, <1>6 DEF QuietInv, Quiet, ContentAhead
<1>9. roff' <= StSize' /\ Owed' <= Room'
  <2>1. StSize' = StSize
    BY <1>3 DEF StSize, Entry
  <2>2. Owed' = Owed
    BY <1>3, <2>1 DEF Owed
  <2>3. Room' = Room \/ Room' = StSize
    BY <1>4, <1>5 DEF Room
  <2>4. Owed <= StSize
    BY <1>5, <1>8 DEF Owed
  <2> QED BY <1>3, <1>7, <2>1, <2>2, <2>3, <2>4
<1>10. pc' \in {"rest", "read"} /\ BufferDone'
  BY <1>3, <1>5, <1>7 DEF BufferDone
<1> QED BY <1>3, <1>4, <1>7, <1>8, <1>9, <1>10 DEF Quiet, VolumeOpen, NotFull, PromptAtEnd

(* The rest of the buffer is written as far as the new volume takes it. *)
LEMMA WriteRestQuiet == IInv /\ QuietInv /\ WriteRest => QuietInv'
<1> SUFFICES ASSUME IInv, QuietInv, WriteRest, Undisturbed' PROVE Quiet'
  BY DEF QuietInv
<1> DEFINE length == nb_read - nb_write
<1>1. PICK r \in FormatResults(length) :
        /\ FormatWrite(Buffer(nb_write, length), r)
        /\ nb_write' = IF r.n > 0 THEN nb_write + r.n ELSE nb_write
        /\ pc' = IF nb_write' < nb_read THEN "prompt" ELSE "read"
  BY DEF WriteRest
<1>2. /\ pc = "rest" /\ i' = i /\ roff' = roff /\ nb_read' = nb_read
      /\ size' = size /\ resizes' = resizes /\ back' = back /\ back = "split"
  BY DEF WriteRest, envVars, IInv, Control
<1>3. /\ faults' = faults + r.fault /\ fd' = fd /\ format_size' = format_size
      /\ position' = IF r.n > 0 THEN position + r.n ELSE position
      /\ format_position' = IF r.n > 0 THEN format_position + r.n ELSE format_position
  BY <1>1 DEF FormatWrite, Write
<1>4. /\ StSize \in Nat /\ roff \in Nat /\ nb_read \in Nat /\ nb_write \in Nat \cup {-1}
      /\ format_position \in Nat /\ format_size \in Nat /\ position \in Nat
      /\ length \in Nat
  BY <1>2, ContentSizes
<1> HIDE DEF length
<1>5. Undisturbed /\ r.fault = 0
  BY <1>1, <1>2, <1>3, <1>4, FaultSign, StillUndisturbed
<1>6. fd /\ nb_write # -1 /\ roff <= StSize /\ Owed <= Room
  BY <1>2, <1>5 DEF QuietInv, Quiet, VolumeOpen, ContentAhead
<1>7. /\ r.n \in -1 .. length
      /\ r.n < length => /\ VolumeSize > 0
                         /\ IF r.n > 0 THEN position + r.n = VolumeSize
                            ELSE position = VolumeSize
  <2>1. CASE length = 0
    <3>1. r.n = 0
      BY <1>1, <1>4, <2>1 DEF FormatResults, WriteResults, Least
    <3> QED BY <2>1, <3>1
  <2>2. CASE length # 0
    <3>1. length <= Room
      BY <1>4, <1>6 DEF Owed, Room, length
    <3>2. GoesRight(length, r)
      BY <1>1, <1>4, <1>5, <1>6, <2>2, <3>1, FormatRight DEF IInv, TypeOK
    <3> QED BY <3>2 DEF GoesRight
  <2> QED BY <2>1, <2>2
<1> DEFINE n == IF r.n > 0 THEN r.n ELSE 0
<1>8. /\ n \in 0 .. length
      /\ n < length => VolumeSize > 0 /\ position + n = VolumeSize
      /\ nb_write' = nb_write + n /\ position' = position + n
      /\ format_position' = format_position + n
  BY <1>1, <1>3, <1>4, <1>7
<1> HIDE DEF n
<1>9. \/ pc' = "read" /\ nb_write' = nb_read
      \/ pc' = "prompt" /\ VolumeSize > 0 /\ position' = VolumeSize
  BY <1>1, <1>4, <1>8 DEF length
<1>10. roff' <= StSize' /\ Owed' <= Room'
  <2>1. StSize' = StSize
    BY <1>2 DEF StSize, Entry
  <2>2. Owed' = Owed - n
    BY <1>2, <1>4, <1>8, <2>1 DEF Owed
  <2>3. Room' = Room - n
    BY <1>3, <1>4, <1>8 DEF Room
  <2>4. Room \in Int /\ Owed \in Int /\ n \in Int
    BY <1>4, <1>8 DEF Room, Owed
  <2> QED BY <1>2, <1>6, <2>1, <2>2, <2>3, <2>4
<1>11. nb_write' # -1
  BY <1>4, <1>6, <1>8
<1> QED BY <1>2, <1>3, <1>6, <1>9, <1>10, <1>11
        DEF Quiet, VolumeOpen, NotFull, BufferDone, PromptAtEnd

LEMMA StutterQuiet == QuietInv /\ UNCHANGED vars => QuietInv'
<1> SUFFICES ASSUME QuietInv, UNCHANGED vars PROVE QuietInv'
  OBVIOUS
<1>1. /\ fd' = fd /\ position' = position /\ faults' = faults /\ resizes' = resizes
      /\ format_position' = format_position /\ format_size' = format_size
      /\ pc' = pc /\ back' = back /\ i' = i /\ roff' = roff /\ nb_read' = nb_read
      /\ nb_write' = nb_write /\ size' = size
  BY DEF vars, fileVars, formatVars, loopVars, envVars
<1>2. Entry' = Entry /\ StSize' = StSize
  BY <1>1 DEF Entry, StSize
<1>3. Owed' = Owed /\ Room' = Room
  BY <1>1, <1>2 DEF Owed, Room
<1>4. ContentAhead' <=> ContentAhead
  BY <1>1, <1>2 DEF ContentAhead
<1> QED BY <1>1, <1>2, <1>3, <1>4
        DEF QuietInv, Undisturbed, Quiet, VolumeOpen, NotFull, BufferDone, PromptAtEnd

LEMMA NextQuiet == IInv /\ QuietInv /\ [Next]_vars => QuietInv'
<1> SUFFICES ASSUME IInv, QuietInv, [Next]_vars PROVE QuietInv'
  OBVIOUS
<1>1. CASE Program
  BY <1>1, StartLabelQuiet, NextEntryQuiet, FailsQuiet, HardLinkQuiet, AddEntryQuiet,
     ReadDataQuiet, WriteDataQuiet, RestartQuiet, WriteRestQuiet, FinishFileQuiet, LeaveQuiet
     DEF Program
<1>2. CASE Operator
  BY <1>2, NextVolumeQuiet, PromptEndsQuiet, LeaveQuiet DEF Operator
<1>3. CASE Resize
  BY <1>3, FailsQuiet
<1>4. CASE Finished \/ UNCHANGED vars
  BY <1>4, StutterQuiet DEF Finished
<1> QED BY <1>1, <1>2, <1>3, <1>4 DEF Next

----------------------------------------------------------------------------
(* The theorem. *)

LEMMA QuietHolds == Spec => []QuietInv
<1>1. Init => IInv /\ QuietInv
  BY InitInv, InitQuiet
<1>2. IInv /\ QuietInv /\ [Next]_vars => (IInv /\ QuietInv)'
  BY NextInv, NextQuiet
<1> QED BY <1>1, <1>2, PTL DEF Spec

(* As long as nothing fails and no file changes, the operator is asked for  *)
(* a volume only when the current one is full to the last unit: none is     *)
(* left half empty, neither in front of a header nor in the middle of the   *)
(* content (create.c:236-301, ustar/writer.c:570-590).                      *)
THEOREM PromptWhenFull == Spec => []UndisturbedPrompt
<1>1. QuietInv => UndisturbedPrompt
  BY DEF QuietInv, Quiet, UndisturbedPrompt
<1> QED BY <1>1, QuietHolds, PTL

----------------------------------------------------------------------------
(* What a write puts behind the log. *)

(* T is the front of units, on the volume that is open. *)
FrontOf(units, T) ==
    /\ Len(T) <= Len(units)
    /\ \A j \in 1 .. Len(T) :
         /\ T[j].v = volume /\ T[j].k = units[j].k /\ T[j].f = units[j].f
         /\ T[j].o = units[j].o /\ T[j].p = units[j].p /\ T[j].s = units[j].s

LEMMA Appended ==
  ASSUME FileTypeOK, VolumeOK, NEW units \in Seq(Units), NEW r,
         GoodResult(Len(units), r), Write(units, r)
  PROVE  \E T \in Seq(Units) : /\ log' = log \o T
                               /\ Len(T) = IF r.n > 0 THEN r.n ELSE 0
                               /\ FrontOf(units, T)
<1>1. Len(units) \in Nat /\ log \in Seq(Units) /\ volume \in Nat /\ r.n \in -1 .. Len(units)
  BY LenProperties DEF FileTypeOK, GoodResult
<1>2. CASE r.n > 0
  <2> DEFINE T == Stamped(units, r.n)
  <2>1. T \in Seq(Units) /\ Len(T) = r.n
    BY <1>1, <1>2, StampedUnits
  <2>2. log' = log \o T
    BY <1>2 DEF Write
  <2>3. \A j \in 1 .. r.n : units[j] \in Units /\ T[j] = [units[j] EXCEPT !.v = volume]
    BY <1>1, <1>2, ElementOfSeq DEF Stamped
  <2>4. \A j \in 1 .. r.n :
          /\ T[j].v = volume /\ T[j].k = units[j].k /\ T[j].f = units[j].f
          /\ T[j].o = units[j].o /\ T[j].p = units[j].p /\ T[j].s = units[j].s
    BY <2>3 DEF Units
  <2> HIDE DEF T
  <2>5. FrontOf(units, T)
    BY <1>1, <2>1, <2>4 DEF FrontOf
  <2> QED BY <1>2, <2>1, <2>2, <2>5
<1>3. CASE ~(r.n > 0)
  <2>1. log' = log
    BY <1>3 DEF Write
  <2>2. log' = log \o <<>>
    BY <1>1, <2>1, ConcatEmptySeq
  <2>3. <<>> \in Seq(Units) /\ Len(<<>>) = 0
    OBVIOUS
  <2>4. FrontOf(units, <<>>)
    BY <1>1, <2>3 DEF FrontOf
  <2>5. (IF r.n > 0 THEN r.n ELSE 0) = 0
    BY <1>3
  <2> QED BY <2>2, <2>3, <2>4, <2>5, Zenon
<1> QED BY <1>2, <1>3

(* The log before and the log after, index by index. *)
Longer(s, T, u) ==
    /\ Len(s) \in Nat /\ Len(T) \in Nat
    /\ DOMAIN s = 1 .. Len(s)
    /\ DOMAIN u = 1 .. Len(s) + Len(T)
    /\ \A j \in 1 .. Len(s) : u[j] = s[j]
    /\ \A j \in 1 .. Len(T) : u[Len(s) + j] = T[j]
    /\ \A j \in Len(s) + 1 .. Len(s) + Len(T) : u[j] = T[j - Len(s)]

LEMMA LongerLog ==
  ASSUME NEW s \in Seq(Units), NEW T \in Seq(Units)
  PROVE  Longer(s, T, s \o T)
  BY ConcatUnits DEF Longer

----------------------------------------------------------------------------
(* The content of a file is counted. *)

DataOf(s, f) == {l \in DOMAIN s : s[l].k = "data" /\ s[l].f = f}

LEMMA CountFinite ==
  ASSUME NEW s \in Seq(Units), NEW f
  PROVE  IsFiniteSet(DataOf(s, f)) /\ Cardinality(DataOf(s, f)) \in Nat
<1>1. DOMAIN s = 1 .. Len(s) /\ Len(s) \in Int
  BY LenProperties
<1>2. IsFiniteSet(1 .. Len(s))
  BY <1>1, FS_Interval
<1>3. DataOf(s, f) \in SUBSET (1 .. Len(s))
  BY <1>1 DEF DataOf
<1>4. IsFiniteSet(DataOf(s, f))
  BY <1>2, <1>3, FS_Subset, Zenon
<1> QED BY <1>4, FS_CardinalityType

(* Other units do not count. *)
LEMMA CountOther ==
  ASSUME NEW s \in Seq(Units), NEW T \in Seq(Units), NoData(T), NEW f
  PROVE  DataOf(s \o T, f) = DataOf(s, f)
<1> DEFINE u == s \o T
<1>1. Longer(s, T, u)
  BY LongerLog
<1>2. DOMAIN T = 1 .. Len(T)
  BY LenProperties
<1> HIDE DEF u
<1>3. \A j \in DOMAIN u : j \in DOMAIN s \/ u[j].k # "data"
  BY <1>1, <1>2 DEF Longer, NoData
<1>4. \A j \in DOMAIN s : j \in DOMAIN u /\ u[j] = s[j]
  BY <1>1 DEF Longer
<1>5. DataOf(u, f) = DataOf(s, f)
  BY <1>3, <1>4 DEF DataOf
<1> QED BY <1>5 DEF u

(* Units of the file all count. *)
LEMMA CountData ==
  ASSUME NEW s \in Seq(Units), NEW T \in Seq(Units), NEW f,
         \A j \in 1 .. Len(T) : T[j].k = "data" /\ T[j].f = f
  PROVE  Cardinality(DataOf(s \o T, f)) = Cardinality(DataOf(s, f)) + Len(T)
<1> DEFINE u == s \o T
           new == Len(s) + 1 .. Len(s) + Len(T)
<1>1. Longer(s, T, u)
  BY LongerLog
<1> HIDE DEF u
<1>2. Len(s) \in Nat /\ Len(T) \in Nat
  BY <1>1 DEF Longer
<1>3. DataOf(u, f) = DataOf(s, f) \cup new
  BY <1>1, <1>2 DEF DataOf, Longer
<1>4. DataOf(s, f) \cap new = {}
  BY <1>1, <1>2 DEF DataOf, Longer
<1>5. IsFiniteSet(new) /\ Cardinality(new) = Len(T)
  <2> DEFINE a == Len(s) + 1
             b == Len(s) + Len(T)
  <2>1. a \in Int /\ b \in Int
    BY <1>2
  <2> HIDE DEF a, b
  <2>2. IsFiniteSet(a .. b) /\ Cardinality(a .. b) = IF a > b THEN 0 ELSE b - a + 1
    BY <2>1, FS_Interval, Zenon
  <2>3. (IF a > b THEN 0 ELSE b - a + 1) = Len(T)
    BY <1>2 DEF a, b
  <2>4. new = a .. b
    BY DEF a, b
  <2> HIDE DEF new
  <2> QED BY <2>2, <2>3, <2>4, Zenon
<1> HIDE DEF new
<1>6. IsFiniteSet(DataOf(s, f)) /\ Cardinality(DataOf(s, f)) \in Nat
  BY CountFinite
<1>7. Cardinality(DataOf(s, f) \cup new) =
        Cardinality(DataOf(s, f)) + Cardinality(new) - Cardinality({})
  <2>1. Cardinality(DataOf(s, f) \cup new) = Cardinality(DataOf(s, f))
          + Cardinality(new) - Cardinality(DataOf(s, f) \cap new)
    BY <1>5, <1>6, FS_Union, Zenon
  <2> QED BY <1>4, <2>1, Zenon
<1>8. Cardinality({}) = 0
  BY FS_EmptySet
<1> QED BY <1>2, <1>3, <1>5, <1>6, <1>7, <1>8 DEF u

(* The units of the file in front of an index. *)
DataBefore(s, j, f) == {l \in 1 .. j - 1 : s[l].k = "data" /\ s[l].f = f}

(* The position field of every 'M' header is the truth. *)
ContRight(s) ==
    \A j \in DOMAIN s : s[j].k = "cont" => s[j].p = Cardinality(DataBefore(s, j, s[j].f))

NoCont(s) == \A j \in DOMAIN s : s[j].k # "cont"

LEMMA ContKept ==
  ASSUME NEW s \in Seq(Units), NEW T \in Seq(Units), ContRight(s), NoCont(T)
  PROVE  ContRight(s \o T)
<1> DEFINE u == s \o T
<1>1. Longer(s, T, u)
  BY LongerLog
<1>2. DOMAIN T = 1 .. Len(T)
  BY LenProperties
<1> HIDE DEF u
<1> SUFFICES ASSUME NEW j \in DOMAIN u, u[j].k = "cont"
             PROVE  u[j].p = Cardinality(DataBefore(u, j, u[j].f))
  BY DEF ContRight, u
<1>3. j \in 1 .. Len(s)
  <2>1. \A l \in Len(s) + 1 .. Len(s) + Len(T) : l - Len(s) \in DOMAIN T
    BY <1>1, <1>2 DEF Longer
  <2>2. \A l \in Len(s) + 1 .. Len(s) + Len(T) : u[l].k # "cont"
    BY <1>1, <2>1 DEF Longer, NoCont
  <2> QED BY <1>1, <2>2 DEF Longer
<1>4. u[j] = s[j] /\ j \in DOMAIN s
  BY <1>1, <1>3 DEF Longer
<1>5. \A l \in 1 .. j - 1 : u[l] = s[l]
  BY <1>1, <1>3 DEF Longer
<1>6. DataBefore(u, j, u[j].f) = DataBefore(s, j, s[j].f)
  BY <1>4, <1>5 DEF DataBefore
<1> QED BY <1>4, <1>6 DEF ContRight

LEMMA ContNew ==
  ASSUME NEW s \in Seq(Units), NEW T \in Seq(Units), ContRight(s), NEW f, NEW p,
         p = Cardinality(DataOf(s, f)),
         \A j \in 1 .. Len(T) : T[j].k = "cont" /\ T[j].f = f /\ T[j].p = p
  PROVE  ContRight(s \o T)
<1> DEFINE u == s \o T
<1>1. Longer(s, T, u)
  BY LongerLog
<1> HIDE DEF u
<1> SUFFICES ASSUME NEW j \in DOMAIN u, u[j].k = "cont"
             PROVE  u[j].p = Cardinality(DataBefore(u, j, u[j].f))
  BY DEF ContRight, u
<1>2. CASE j \in 1 .. Len(s)
  <2>1. u[j] = s[j] /\ j \in DOMAIN s
    BY <1>1, <1>2 DEF Longer
  <2>2. \A l \in 1 .. j - 1 : u[l] = s[l]
    BY <1>1, <1>2 DEF Longer
  <2>3. DataBefore(u, j, u[j].f) = DataBefore(s, j, s[j].f)
    BY <2>1, <2>2 DEF DataBefore
  <2> QED BY <2>1, <2>3 DEF ContRight
<1>3. CASE j \notin 1 .. Len(s)
  <2>1. j \in Len(s) + 1 .. Len(s) + Len(T) /\ Len(s) \in Nat /\ Len(T) \in Nat
    BY <1>1, <1>3 DEF Longer
  <2>2. \A l \in Len(s) + 1 .. Len(s) + Len(T) : u[l].k = "cont" /\ u[l].f = f /\ u[l].p = p
    BY <1>1 DEF Longer
  <2>3. \A l \in 1 .. Len(s) : l \in 1 .. j - 1 /\ u[l] = s[l]
    BY <1>1, <2>1 DEF Longer
  <2>4. \A l \in 1 .. j - 1 : l \in 1 .. Len(s) \/ u[l].k # "data"
    BY <2>1, <2>2
  <2>5. DataBefore(u, j, f) = DataOf(s, f)
    BY <1>1, <2>3, <2>4 DEF DataBefore, DataOf, Longer
  <2> QED BY <2>1, <2>2, <2>5
<1> QED BY <1>2, <1>3

----------------------------------------------------------------------------
(* What each action puts into the archive. *)

(* T is a header, or its front. *)
HeaderLike(T, k, f, p, s) ==
    \A j \in 1 .. Len(T) : /\ T[j].v = volume /\ T[j].k = k /\ T[j].f = f
                           /\ T[j].o = j - 1 /\ T[j].p = p /\ T[j].s = s

LEMMA HeaderFront ==
  ASSUME NEW k, NEW f, NEW blocks \in Nat, NEW p, NEW s, NEW T \in Seq(Units),
         FrontOf(HeaderUnits(k, f, blocks, p, s), T)
  PROVE  HeaderLike(T, k, f, p, s)
<1>1. blocks * Block \in Nat /\ Len(T) \in Nat
  BY ProductNat, FileAssumption, LenProperties
<1> DEFINE units == HeaderUnits(k, f, blocks, p, s)
           length == blocks * Block
<1>2. length \in Nat
  BY <1>1
<1>3. units = [j \in 1 .. length |-> Unit(k, f, j - 1, p, s)]
  BY DEF HeaderUnits
<1> HIDE DEF length
<1>4. Len(units) = length
  <2> DEFINE U == {Unit(k, f, j - 1, p, s) : j \in 1 .. length}
  <2>1. units \in [1 .. length -> U]
    BY <1>3
  <2> HIDE DEF U, units
  <2> QED BY <1>2, <2>1, FunctionIsSeq
<1>5. \A j \in 1 .. length : units[j] = Unit(k, f, j - 1, p, s)
  BY <1>3
<1> HIDE DEF units
<1>6. \A j \in 1 .. length : /\ units[j].k = k /\ units[j].f = f /\ units[j].o = j - 1
                             /\ units[j].p = p /\ units[j].s = s
  <2>1. \A o : /\ Unit(k, f, o, p, s).k = k /\ Unit(k, f, o, p, s).f = f
               /\ Unit(k, f, o, p, s).o = o /\ Unit(k, f, o, p, s).p = p
               /\ Unit(k, f, o, p, s).s = s
    BY DEF Unit
  <2> QED BY <1>5, <2>1
<1>7. Len(T) <= length
  BY <1>4 DEF FrontOf, units
<1>8. \A j \in 1 .. Len(T) : j \in 1 .. length
  BY <1>1, <1>2, <1>7
<1> QED BY <1>6, <1>8 DEF FrontOf, HeaderLike, units

(* add_label, add_link and add_file: all of the header unless the volume    *)
(* ends, and remain_header holds the front of it if it does.                *)
LEMMA HeaderWritten ==
  ASSUME IInv, NEW k \in Kind \ {"data"}, NEW f \in Nat, NEW blocks \in Nat \ {0},
         NEW st \in Int, NEW r \in HeaderResults(blocks * Block),
         WriteHeader(HeaderUnits(k, f, blocks, 0, st), r)
  PROVE  \E T \in Seq(Units) :
           /\ log' = log \o T
           /\ HeaderLike(T, k, f, 0, st)
           /\ Len(T) = IF r.n > 0 THEN r.n ELSE 0
           /\ r.n \in -1 .. blocks * Block
           /\ blocks * Block \in Nat \ {0}
           /\ HeaderStatus(blocks * Block, r) # "end_of_tape" => remain_header' = remain_header
           /\ k # "cont" /\ NoCont(remain_header) => NoCont(remain_header')
<1> DEFINE units == HeaderUnits(k, f, blocks, 0, st)
           length == blocks * Block
<1>1. units \in Seq(Units) /\ Len(units) = length /\ length \in Nat \ {0} /\ NoData(units)
  BY HeaderNotEmpty, HeaderUnitsType
<1>2. \A j \in 1 .. length : units[j].k = k
  BY DEF HeaderUnits, Unit
<1>3. r \in HeaderResults(length) /\ WriteHeader(units, r)
  OBVIOUS
<1>4. \A T \in Seq(Units) : FrontOf(units, T) => HeaderLike(T, k, f, 0, st)
  BY HeaderFront
<1> HIDE DEF units, length
<1>5. FileTypeOK /\ VolumeOK
  BY DEF IInv, TypeOK, FormatTypeOK
<1>6. GoodResult(length, r)
  BY <1>1, <1>3, <1>5, HeaderResult
<1>7. Write(units, r)
  BY <1>3 DEF WriteHeader
<1>8. PICK T \in Seq(Units) : /\ log' = log \o T
                              /\ Len(T) = IF r.n > 0 THEN r.n ELSE 0
                              /\ FrontOf(units, T)
  BY <1>1, <1>5, <1>6, <1>7, Appended
<1>9. r.n \in -1 .. length
  BY <1>6 DEF GoodResult
<1>10. HeaderStatus(length, r) # "end_of_tape" => remain_header' = remain_header
  BY <1>1, <1>3 DEF WriteHeader
<1>11. k # "cont" /\ NoCont(remain_header) => NoCont(remain_header')
  <2> DEFINE left == IF r.n > 0 THEN Len(units) - r.n ELSE Len(units)
             front == SubSeq(units, 1, left)
  <2>1. left \in 0 .. Len(units) /\ DOMAIN units = 1 .. Len(units)
    BY <1>1, <1>9, LenProperties
  <2>2. remain_header' = front \/ remain_header' = remain_header
    BY <1>3 DEF WriteHeader
  <2> HIDE DEF left
  <2>3. \A j \in 1 .. left : units[j] \in Units
    BY <2>1, <1>1, ElementOfSeq
  <2>4. /\ front \in Seq(Units)
        /\ Len(front) = left
        /\ \A j \in 1 .. left : front[j] = units[j]
    BY <2>1, <2>3, <1>1, SubSeqProperties
  <2>5. DOMAIN front = 1 .. left
    BY <2>4, LenProperties
  <2>6. k # "cont" => NoCont(front)
    BY <1>1, <1>2, <2>1, <2>4, <2>5 DEF NoCont
  <2> QED BY <2>2, <2>6
<1>12. HeaderLike(T, k, f, 0, st)
  BY <1>4, <1>8
<1>13. length = blocks * Block
  BY DEF length
<1> QED BY <1>1, <1>8, <1>9, <1>10, <1>11, <1>12, <1>13, Zenon

LEMMA LabelWrites ==
  ASSUME IInv, StartLabel
  PROVE  /\ \E T \in Seq(Units) : log' = log \o T /\ HeaderLike(T, "label", 0, 0, 0)
         /\ NoCont(remain_header) => NoCont(remain_header')
         /\ cuts' = cuts => remain_header' = remain_header
         /\ cuts' \in {cuts, cuts + 1}
<1>1. CASE Label
  <2>1. PICK r \in HeaderResults(Block) :
           AddLabel(r) /\ OnStatus(HeaderStatus(Block, r), "label", "next")
    BY <1>1 DEF StartLabel
  <2>2. 1 * Block = Block
    BY FileAssumption
  <2>3. /\ "label" \in Kind \ {"data"} /\ 0 \in Nat /\ 1 \in Nat \ {0} /\ 0 \in Int
        /\ r \in HeaderResults(1 * Block)
        /\ WriteHeader(HeaderUnits("label", 0, 1, 0, 0), r)
    BY <2>1, <2>2 DEF AddLabel, Kind
  <2>4. PICK T \in Seq(Units) :
           /\ log' = log \o T
           /\ HeaderLike(T, "label", 0, 0, 0)
           /\ HeaderStatus(1 * Block, r) # "end_of_tape" => remain_header' = remain_header
           /\ "label" # "cont" /\ NoCont(remain_header) => NoCont(remain_header')
    BY <2>3, HeaderWritten, Zenon
  <2>5. cuts \in Nat
    BY DEF IInv, TypeOK
  <2>6. cuts' = IF HeaderStatus(Block, r) = "end_of_tape" THEN cuts + 1 ELSE cuts
    BY <2>1 DEF OnStatus
  <2> QED BY <2>2, <2>4, <2>5, <2>6
<1>2. CASE ~Label
  <2>1. log' = log /\ remain_header' = remain_header /\ cuts' = cuts
    BY <1>2 DEF StartLabel, fileVars, formatVars
  <2>2. log \o <<>> = log /\ <<>> \in Seq(Units) /\ HeaderLike(<<>>, "label", 0, 0, 0)
    BY ConcatEmptySeq DEF IInv, TypeOK, FormatTypeOK, FileTypeOK, HeaderLike
  <2> QED BY <2>1, <2>2
<1> QED BY <1>1, <1>2

LEMMA LinkWrites ==
  ASSUME IInv, HardLink
  PROVE  /\ \E T \in Seq(Units) : log' = log \o T /\ HeaderLike(T, "link", i, 0, 0)
         /\ NoCont(remain_header) => NoCont(remain_header')
         /\ cuts' = cuts => remain_header' = remain_header
         /\ cuts' \in {cuts, cuts + 1}
<1>1. PICK r \in HeaderResults(Block) :
        AddLink(i, r) /\ OnStatus(HeaderStatus(Block, r), "link", "next")
  BY DEF HardLink
<1>2. 1 * Block = Block
  BY FileAssumption
<1>3. /\ "link" \in Kind \ {"data"} /\ i \in Nat /\ 1 \in Nat \ {0} /\ 0 \in Int
      /\ r \in HeaderResults(1 * Block)
      /\ WriteHeader(HeaderUnits("link", i, 1, 0, 0), r)
  BY <1>1, <1>2 DEF AddLink, Kind, IInv, TypeOK
<1>4. PICK T \in Seq(Units) :
         /\ log' = log \o T
         /\ HeaderLike(T, "link", i, 0, 0)
         /\ HeaderStatus(1 * Block, r) # "end_of_tape" => remain_header' = remain_header
         /\ "link" # "cont" /\ NoCont(remain_header) => NoCont(remain_header')
  BY <1>3, HeaderWritten, Zenon
<1>5. cuts \in Nat
  BY DEF IInv, TypeOK
<1>6. cuts' = IF HeaderStatus(Block, r) = "end_of_tape" THEN cuts + 1 ELSE cuts
  BY <1>1 DEF OnStatus
<1> QED BY <1>2, <1>4, <1>5, <1>6

(* Without a failure a header is written or meets the end of the volume.    *)
LEMMA NoError ==
  ASSUME IInv, NEW length \in Nat, NEW r \in HeaderResults(length), r.fault = 0
  PROVE  HeaderStatus(length, r) # "error"
<1>1. CASE r \in WriteResults(length)
  BY <1>1, FileAssumption DEF HeaderStatus, WriteResults, Least, IInv, TypeOK, FormatTypeOK,
                              FileTypeOK, VolumeOK
<1>2. CASE r \notin WriteResults(length)
  <2>1. PICK a \in AvailableSpace :
          r \in IF a > 0 THEN WriteResults(length)
                ELSE {[n |-> 0, err |-> last_errno, fault |-> IF VolumeSize > 0 THEN 0 ELSE 1]}
    BY DEF HeaderResults
  <2> QED BY <1>2, <2>1 DEF HeaderStatus
<1> QED BY <1>1, <1>2

LEMMA EntryWrites ==
  ASSUME IInv, AddEntry
  PROVE  /\ \E T \in Seq(Units) : /\ log' = log \o T
                                  /\ HeaderLike(T, "hdr", i, 0, StSize)
                                  /\ faults' = 0 /\ cuts' = cuts =>
                                       Len(T) = Entry.blocks * Block /\ Len(T) > 0
         /\ NoCont(remain_header) => NoCont(remain_header')
         /\ cuts' = cuts => remain_header' = remain_header
         /\ cuts' \in {cuts, cuts + 1}
         /\ cuts' # cuts => pc' = "prompt"
         /\ faults' = 0 => faults = 0
<1> DEFINE length == Entry.blocks * Block
<1>1. PICK r \in HeaderResults(length) :
        /\ AddFile(i, Entry.blocks, StSize, r)
        /\ OnStatus(HeaderStatus(length, r), "add", IF failed THEN "exit" ELSE AfterAdd)
  BY DEF AddEntry
<1>2. i \in Nat /\ Entry.blocks \in Nat \ {0} /\ StSize \in Nat
  <2>1. i \in Nat \ {0} /\ i <= Len(Entries) /\ size \in [Inodes -> Nat]
    BY DEF AddEntry, IInv, TypeOK, Control
  <2>2. i \in 1 .. Len(Entries)
    BY <2>1, LenProperties, CreateAssumption
  <2>3. Entry \in EntryType
    BY <2>2, ElementOfSeq, CreateAssumption DEF Entry
  <2> QED BY <2>1, <2>2, <2>3, EntryInType DEF EntryType
<1>3. /\ "hdr" \in Kind \ {"data"} /\ StSize \in Int
      /\ WriteHeader(HeaderUnits("hdr", i, Entry.blocks, 0, StSize), r)
  BY <1>1, <1>2 DEF AddFile, Kind
<1>4. PICK T \in Seq(Units) :
         /\ log' = log \o T
         /\ HeaderLike(T, "hdr", i, 0, StSize)
         /\ Len(T) = IF r.n > 0 THEN r.n ELSE 0
         /\ r.n \in -1 .. length
         /\ length \in Nat \ {0}
         /\ HeaderStatus(length, r) # "end_of_tape" => remain_header' = remain_header
         /\ "hdr" # "cont" /\ NoCont(remain_header) => NoCont(remain_header')
  BY <1>1, <1>2, <1>3, HeaderWritten, Zenon
<1> HIDE DEF length
<1>5. cuts \in Nat /\ faults \in Nat
  BY FileAssumption DEF IInv, TypeOK, FormatTypeOK, FileTypeOK
<1>6. /\ cuts' = IF HeaderStatus(length, r) = "end_of_tape" THEN cuts + 1 ELSE cuts
      /\ HeaderStatus(length, r) = "end_of_tape" => pc' = "prompt"
  BY <1>1 DEF OnStatus
<1>7. faults' = faults + r.fault /\ r.fault \in Nat
  BY <1>1, <1>4, FaultSign DEF AddFile, WriteHeader, Write
<1>8. faults' = 0 /\ cuts' = cuts => Len(T) = length
  <2> SUFFICES ASSUME faults' = 0, cuts' = cuts PROVE Len(T) = length
    OBVIOUS
  <2>1. r.fault = 0 /\ HeaderStatus(length, r) # "end_of_tape"
    BY <1>5, <1>6, <1>7
  <2>2. r \in HeaderResults(length) /\ length \in Nat
    BY <1>1, <1>4
  <2>3. ~(r.n < length)
    BY <2>1, <2>2, NoError DEF HeaderStatus
  <2>4. r.n \in -1 .. length /\ length \in Nat \ {0} /\ Len(T) = IF r.n > 0 THEN r.n ELSE 0
    BY <1>4
  <2>5. r.n = length /\ r.n > 0
    BY <2>3, <2>4
  <2> QED BY <2>4, <2>5
<1>9. faults' = 0 /\ cuts' = cuts => Len(T) = length /\ Len(T) > 0
  BY <1>4, <1>8
<1>10. length = Entry.blocks * Block
  BY DEF length
<1>11. /\ cuts' = cuts => HeaderStatus(length, r) # "end_of_tape"
       /\ cuts' \in {cuts, cuts + 1}
       /\ cuts' # cuts => pc' = "prompt"
  BY <1>5, <1>6
<1>12. faults' = 0 => faults = 0
  BY <1>5, <1>7
<1>13. "hdr" # "cont"
  OBVIOUS
<1> QED BY <1>4, <1>9, <1>10, <1>11, <1>12, <1>13, Zenon

(* T continues the content of the file at hand from offset a. *)
DataLike(T, f, a) ==
    \A j \in 1 .. Len(T) : /\ T[j].v = volume /\ T[j].k = "data" /\ T[j].f = f
                           /\ T[j].o = a + j - 1 /\ T[j].p = 0 /\ T[j].s = 0

LEMMA BufferFront ==
  ASSUME IInv, NEW from \in Nat, NEW length \in Nat, NEW r \in FormatResults(length),
         FormatWrite(Buffer(from, length), r)
  PROVE  \E T \in Seq(Units) : /\ log' = log \o T
                               /\ Len(T) = IF r.n > 0 THEN r.n ELSE 0
                               /\ DataLike(T, i, roff - nb_read + from)
<1> DEFINE units == Buffer(from, length)
<1>1. i \in Nat /\ roff \in Nat /\ nb_read \in Nat /\ FormatTypeOK /\ FileTypeOK /\ VolumeOK
  BY DEF IInv, TypeOK, FormatTypeOK
<1>2. units \in Seq(Units) /\ Len(units) = length
  BY <1>1, BufferUnits
<1>3. \A j \in 1 .. length :
        units[j] = Unit("data", i, roff - nb_read + from + j - 1, 0, 0)
  BY DEF Buffer
<1>4. \A o : /\ Unit("data", i, o, 0, 0).k = "data" /\ Unit("data", i, o, 0, 0).f = i
            /\ Unit("data", i, o, 0, 0).o = o
            /\ Unit("data", i, o, 0, 0).p = 0 /\ Unit("data", i, o, 0, 0).s = 0
  BY DEF Unit
<1> HIDE DEF units
<1>5. GoodResult(length, r)
  BY <1>1, FormatResult
<1>6. Write(units, r)
  BY DEF FormatWrite, units
<1>7. PICK T \in Seq(Units) : /\ log' = log \o T
                              /\ Len(T) = IF r.n > 0 THEN r.n ELSE 0
                              /\ FrontOf(units, T)
  BY <1>1, <1>2, <1>5, <1>6, Appended
<1>8. \A j \in 1 .. Len(T) : j \in 1 .. length
  BY <1>2, <1>7, LenProperties DEF FrontOf
<1>9. DataLike(T, i, roff - nb_read + from)
  <2> SUFFICES ASSUME NEW j \in 1 .. Len(T)
               PROVE  /\ T[j].v = volume /\ T[j].k = "data" /\ T[j].f = i
                      /\ T[j].o = roff - nb_read + from + j - 1 /\ T[j].p = 0 /\ T[j].s = 0
    BY DEF DataLike
  <2>1. units[j] = Unit("data", i, roff - nb_read + from + j - 1, 0, 0)
    BY <1>3, <1>8
  <2>2. /\ T[j].v = volume /\ T[j].k = units[j].k /\ T[j].f = units[j].f
        /\ T[j].o = units[j].o /\ T[j].p = units[j].p /\ T[j].s = units[j].s
    BY <1>7 DEF FrontOf
  <2> QED BY <1>4, <2>1, <2>2, Zenon
<1> QED BY <1>7, <1>9

LEMMA PadWrites ==
  ASSUME IInv, FinishFile
  PROVE  \E T \in Seq(Units) : log' = log \o T /\ \A j \in 1 .. Len(T) : T[j].k = "pad"
<1> DEFINE pad == [j \in 1 .. PadLength |-> Unit("pad", 0, 0, 0, 0)]
<1>1. PICK r \in EndOfFileResults : EndOfFile(r)
  BY DEF FinishFile
<1>2. FormatTypeOK /\ FileTypeOK /\ VolumeOK
  BY DEF IInv, TypeOK, FormatTypeOK
<1>3. PadLength \in Nat
  BY <1>2, PadLengthNat
<1>4. pad \in [1 .. PadLength -> Units] /\ (\A j \in 1 .. PadLength : pad[j].k = "pad")
  BY DEF Unit, Units, Kind
<1> HIDE DEF pad
<1>5. pad \in Seq(Units) /\ Len(pad) = PadLength
  BY <1>3, <1>4, FunctionIsSeq
<1>6. GoodResult(Len(pad), r) /\ Write(pad, r)
  BY <1>1, <1>2, <1>5, EndOfFileResult DEF EndOfFile, pad
<1>7. PICK T \in Seq(Units) : log' = log \o T /\ FrontOf(pad, T)
  BY <1>2, <1>5, <1>6, Appended
<1>8. \A j \in 1 .. Len(T) : j \in 1 .. PadLength
  BY <1>3, <1>5, <1>7, LenProperties DEF FrontOf
<1> QED BY <1>4, <1>7, <1>8 DEF FrontOf

(* restart_file: an M header, unless a header was kept. *)
LEMMA RestartWrites ==
  ASSUME IInv, Restart
  PROVE  \E T \in Seq(Units) :
           /\ log' = log \o T
           /\ IF remain_header = <<>>
              THEN HeaderLike(T, "cont", i, RestartAt, StSize - RestartAt)
              ELSE /\ Len(T) <= Len(remain_header)
                   /\ \A j \in 1 .. Len(T) : T[j].k = remain_header[j].k
<1> DEFINE units == RestartUnits(i, RestartAt, StSize)
<1>1. PICK r \in WriteResults(Len(units)) : RestartFile(i, RestartAt, StSize, r)
  BY DEF Restart
<1>2. pc = "restart" /\ FormatTypeOK /\ FileTypeOK /\ VolumeOK
  BY DEF Restart, IInv, TypeOK, FormatTypeOK
<1>3. units \in Seq(Units)
  BY <1>2, RestartTypes
<1>4. GoodResult(Len(units), r) /\ Write(units, r)
  BY <1>1, <1>2, <1>3, WriteResult, LenProperties DEF RestartFile
<1>5. PICK T \in Seq(Units) : log' = log \o T /\ FrontOf(units, T)
  BY <1>2, <1>3, <1>4, Appended
<1>6. CASE remain_header = <<>>
  <2>1. units = HeaderUnits("cont", i, 1, RestartAt, StSize - RestartAt) /\ 1 \in Nat
    BY <1>6 DEF RestartUnits
  <2> HIDE DEF units
  <2>2. HeaderLike(T, "cont", i, RestartAt, StSize - RestartAt)
    BY <1>5, <2>1, HeaderFront
  <2> QED BY <1>5, <1>6, <2>2
<1>7. CASE remain_header # <<>>
  <2>1. units = remain_header
    BY <1>7 DEF RestartUnits
  <2> QED BY <1>5, <1>7, <2>1 DEF FrontOf
<1> QED BY <1>6, <1>7

(* All other steps write nothing. *)
LEMMA NothingWritten ==
  ASSUME \/ NextEntry \/ NoMoreEntries \/ StatFails \/ ReadData \/ ReadFails
         \/ RestartIgnored \/ Exit \/ NextVolume \/ PromptEnds \/ PromptQuits
         \/ BadVolume \/ Resize \/ UNCHANGED vars
  PROVE  log' = log /\ remain_header' = remain_header
  BY DEF NextEntry, NoMoreEntries, StatFails, CallFails, ReadData, ReadFails, RestartIgnored,
         RestartFails, Exit, Close, NextVolume, NewVolume, NewWriter, PromptEnds, PromptQuits,
         BadVolume, Resize, vars, fileVars, formatVars

----------------------------------------------------------------------------
(* 'M' headers tell the truth. *)

(* As long as no call fails: the counters of the copy loop are those of the *)
(* archive, and no error comes up in the middle of it.                      *)
Counted ==
    /\ NotFull
    /\ back # "enospc"
    /\ InContent => nb_write # -1 /\ Cardinality(DataOf(log, i)) = Archived
    /\ ContRight(log)
    /\ NoCont(remain_header)

CountInv == faults = 0 => Counted

LEMMA NoFaults ==
  ASSUME IInv, faults' = 0, NEW r, r.fault \in Nat, faults' = faults + r.fault
  PROVE  faults = 0 /\ r.fault = 0
  BY FileAssumption DEF IInv, TypeOK, FormatTypeOK, FileTypeOK

LEMMA NeitherKind ==
  ASSUME NEW T \in Seq(Units), \A j \in 1 .. Len(T) : T[j].k \notin {"data", "cont"}
  PROVE  NoData(T) /\ NoCont(T)
<1>1. DOMAIN T = 1 .. Len(T)
  BY LenProperties
<1> QED BY <1>1 DEF NoData, NoCont

LEMMA OtherCounts ==
  ASSUME IInv, ContRight(log), NEW T \in Seq(Units), log' = log \o T,
         \A j \in 1 .. Len(T) : T[j].k \notin {"data", "cont"}
  PROVE  ContRight(log') /\ \A f : DataOf(log', f) = DataOf(log, f)
<1>1. NoData(T) /\ NoCont(T)
  BY NeitherKind
<1>2. log \in Seq(Units)
  BY DEF IInv, TypeOK, FormatTypeOK, FileTypeOK
<1>3. ContRight(log \o T)
  BY <1>1, <1>2, ContKept
<1>4. \A f : DataOf(log \o T, f) = DataOf(log, f)
  BY <1>1, <1>2, CountOther
<1> QED BY <1>3, <1>4

LEMMA HeaderCounts ==
  ASSUME IInv, ContRight(log), NEW T \in Seq(Units), log' = log \o T,
         NEW k, k \notin {"data", "cont"}, NEW f, NEW p, NEW s, HeaderLike(T, k, f, p, s)
  PROVE  ContRight(log') /\ \A e : DataOf(log', e) = DataOf(log, e)
<1>1. \A j \in 1 .. Len(T) : T[j].k \notin {"data", "cont"}
  BY DEF HeaderLike
<1> QED BY <1>1, OtherCounts

LEMMA NoneYet ==
  ASSUME IInv, Unwritten
  PROVE  DataOf(log, i) = {} /\ Cardinality(DataOf(log, i)) = 0
<1>1. Upto(log, i - 1) /\ i \in Nat
  BY DEF IInv, Contents, TypeOK
<1>2. \A l \in DOMAIN log : ~(log[l].k = "data" /\ log[l].f = i)
  BY <1>1 DEF Upto
<1>3. DataOf(log, i) = {}
  BY <1>2 DEF DataOf
<1> QED BY <1>3, FS_EmptySet

LEMMA InitCount == Init => CountInv
<1> SUFFICES ASSUME Init PROVE Counted
  BY DEF CountInv
<1>1. log = <<>> /\ remain_header = <<>> /\ pc = "label" /\ back = "none"
  BY DEF Init, FileInit, FormatInit
<1> QED BY <1>1 DEF Counted, NotFull, InContent, AtVolumeEnd, ContRight, NoCont

LEMMA LabelCount == IInv /\ CountInv /\ StartLabel => CountInv'
<1> SUFFICES ASSUME IInv, CountInv, StartLabel, faults' = 0 PROVE Counted'
  BY DEF CountInv
<1>1. /\ \/ pc' \in {"exit", "next"} /\ back' = back
         \/ pc' = "prompt" /\ back' = "label"
      /\ faults = 0
  <2>1. CASE Label
    <3>1. PICK r \in HeaderResults(Block) :
             AddLabel(r) /\ OnStatus(HeaderStatus(Block, r), "label", "next")
      BY <2>1 DEF StartLabel
    <3>2. faults' = faults + r.fault /\ r.fault \in Nat
      BY <3>1, FaultSign, FileAssumption DEF AddLabel, WriteHeader, Write
    <3>3. faults = 0
      BY <3>2, NoFaults
    <3>4. \/ pc' = "exit" /\ back' = back
          \/ pc' = "prompt" /\ back' = "label"
          \/ pc' = "next" /\ back' = back
      BY <3>1, HeaderStatusType, OnStatusCases DEF IInv, TypeOK
    <3> QED BY <3>3, <3>4
  <2>2. CASE ~Label
    BY <2>2 DEF StartLabel, fileVars
  <2> QED BY <2>1, <2>2
<1>2. Counted
  BY <1>1 DEF CountInv
<1>3. ContRight(log') /\ NoCont(remain_header')
  <2>1. PICK T \in Seq(Units) : log' = log \o T /\ HeaderLike(T, "label", 0, 0, 0)
    BY LabelWrites
  <2>2. ContRight(log')
    BY <1>2, <2>1, HeaderCounts DEF Counted
  <2> QED BY <1>2, <2>2, LabelWrites DEF Counted
<1> QED BY <1>1, <1>2, <1>3 DEF Counted, NotFull, InContent, AtVolumeEnd

LEMMA LinkCount == IInv /\ CountInv /\ HardLink => CountInv'
<1> SUFFICES ASSUME IInv, CountInv, HardLink, faults' = 0 PROVE Counted'
  BY DEF CountInv
<1>1. /\ \/ pc' \in {"exit", "next"} /\ back' = back
         \/ pc' = "prompt" /\ back' = "link"
      /\ faults = 0
  <2>1. PICK r \in HeaderResults(Block) :
          AddLink(i, r) /\ OnStatus(HeaderStatus(Block, r), "link", "next")
    BY DEF HardLink
  <2>2. faults' = faults + r.fault /\ r.fault \in Nat
    BY <2>1, FaultSign, FileAssumption DEF AddLink, WriteHeader, Write
  <2>3. faults = 0
    BY <2>2, NoFaults
  <2>4. \/ pc' = "exit" /\ back' = back
        \/ pc' = "prompt" /\ back' = "link"
        \/ pc' = "next" /\ back' = back
    BY <2>1, HeaderStatusType, OnStatusCases DEF IInv, TypeOK
  <2> QED BY <2>3, <2>4
<1>2. Counted
  BY <1>1 DEF CountInv
<1>3. ContRight(log') /\ NoCont(remain_header')
  <2>1. PICK T \in Seq(Units) : log' = log \o T /\ HeaderLike(T, "link", i, 0, 0)
    BY LinkWrites
  <2>2. ContRight(log')
    BY <1>2, <2>1, HeaderCounts DEF Counted
  <2> QED BY <1>2, <2>2, LinkWrites DEF Counted
<1> QED BY <1>1, <1>2, <1>3 DEF Counted, NotFull, InContent, AtVolumeEnd

LEMMA EntryCount == IInv /\ CountInv /\ AddEntry => CountInv'
<1> SUFFICES ASSUME IInv, CountInv, AddEntry, faults' = 0 PROVE Counted'
  BY DEF CountInv
<1>1. pc = "add" /\ faults = 0
  BY EntryWrites DEF AddEntry
<1>2. Counted
  BY <1>1 DEF CountInv
<1>3. /\ ContRight(log') /\ NoCont(remain_header')
      /\ \A e : DataOf(log', e) = DataOf(log, e)
  <2>1. PICK T \in Seq(Units) : log' = log \o T /\ HeaderLike(T, "hdr", i, 0, StSize)
    BY EntryWrites
  <2>2. ContRight(log') /\ \A e : DataOf(log', e) = DataOf(log, e)
    BY <1>2, <2>1, HeaderCounts DEF Counted
  <2> QED BY <1>2, <2>2, EntryWrites DEF Counted
<1>4. \/ pc' \in {"exit", "next"} /\ back' = back
      \/ pc' = "prompt" /\ back' = "add"
      \/ /\ pc' = "read" /\ back' = back /\ i' = i
         /\ nb_write' = 0 /\ total_nb_write' = 0
  <2> DEFINE length == Entry.blocks * Block
             ok == IF failed THEN "exit" ELSE AfterAdd
  <2>1. PICK r \in HeaderResults(length) :
          /\ OnStatus(HeaderStatus(length, r), "add", ok)
          /\ IF HeaderStatus(length, r) = "ok" /\ ~failed /\ AfterAdd = "next"
             THEN Skip
             ELSE /\ nb_write' = 0
                  /\ total_nb_write' = 0
                  /\ UNCHANGED <<i, inode>>
    BY DEF AddEntry
  <2>2. ok \in {"exit", "read", "next"} /\ (ok = "next" <=> ~failed /\ AfterAdd = "next")
    BY DEF AfterAdd
  <2> HIDE DEF ok, length
  <2>3. \/ HeaderStatus(length, r) = "error" /\ pc' = "exit" /\ back' = back
        \/ HeaderStatus(length, r) = "end_of_tape" /\ pc' = "prompt" /\ back' = "add"
        \/ HeaderStatus(length, r) = "ok" /\ pc' = ok /\ back' = back
    BY <2>1, HeaderStatusType, OnStatusCases DEF IInv, TypeOK
  <2> QED BY <2>1, <2>2, <2>3
<1>5. InContent' => nb_write' # -1 /\ Cardinality(DataOf(log', i')) = Archived'
  <2> SUFFICES ASSUME InContent'
               PROVE  nb_write' # -1 /\ Cardinality(DataOf(log', i')) = Archived'
    OBVIOUS
  <2>1. pc' = "read" /\ i' = i /\ nb_write' = 0 /\ total_nb_write' = 0
    BY <1>4 DEF InContent, AtVolumeEnd
  <2>2. Archived' = 0
    BY <2>1 DEF Archived
  <2>3. Cardinality(DataOf(log, i)) = 0
    BY <1>1, NoneYet DEF Unwritten
  <2>4. DataOf(log', i') = DataOf(log, i)
    BY <1>3, <2>1
  <2> QED BY <2>1, <2>2, <2>3, <2>4
<1> QED BY <1>2, <1>3, <1>4, <1>5 DEF Counted, NotFull

(* Where no content is being written, there is nothing to count. *)
LEMMA AsideCount ==
  IInv /\ CountInv /\ (NextEntry \/ NoMoreEntries \/ StatFails \/ ReadFails \/ RestartIgnored
                       \/ Exit \/ PromptEnds \/ PromptQuits \/ BadVolume) => CountInv'
<1> SUFFICES ASSUME IInv, CountInv, faults' = 0,
                    NextEntry \/ NoMoreEntries \/ StatFails \/ ReadFails \/ RestartIgnored
                       \/ Exit \/ PromptEnds \/ PromptQuits \/ BadVolume
             PROVE  Counted'
  BY DEF CountInv
<1>1. ~(StatFails \/ ReadFails \/ RestartIgnored)
  <2>1. faults \in Nat
    BY FileAssumption DEF IInv, TypeOK, FormatTypeOK, FileTypeOK
  <2> QED BY <2>1 DEF StatFails, ReadFails, CallFails, RestartIgnored, RestartFails
<1>2. log' = log /\ remain_header' = remain_header
  BY NothingWritten
<1>3. faults' = faults
  BY <1>1 DEF NextEntry, NoMoreEntries, Exit, Close, PromptEnds, PromptQuits, BadVolume, fileVars
<1>4. Counted
  BY <1>3 DEF CountInv
<1>5. /\ back' = back
      /\ pc' \in {"next", "link", "add", "exit", "done", "aborted", "crashed", "eof"}
  <2>1. CASE PromptEnds
    BY <1>4, <2>1 DEF PromptEnds, Counted, IInv, TypeOK, Control
  <2>2. CASE ~PromptEnds
    BY <1>1, <2>2 DEF NextEntry, NoMoreEntries, Exit, PromptQuits, BadVolume
  <2> QED BY <2>1, <2>2
<1> QED BY <1>2, <1>4, <1>5 DEF Counted, NotFull, InContent, AtVolumeEnd

LEMMA NextVolumeCount == IInv /\ CountInv /\ NextVolume => CountInv'
<1> SUFFICES ASSUME IInv, CountInv, NextVolume, faults' = 0 PROVE Counted'
  BY DEF CountInv
<1>1. /\ pc = "prompt" /\ back' = back /\ faults' = faults
      /\ pc' = CASE back = "label" -> "next"
                 [] back = "link" -> "next"
                 [] back = "add" -> AfterAdd
                 [] back \in {"enospc", "split"} -> "restart"
      /\ IF back = "link" \/ (back = "add" /\ AfterAdd = "next")
         THEN Skip ELSE UNCHANGED loopVars
  BY DEF NextVolume, NewVolume, NewWriter
<1>2. log' = log /\ remain_header' = remain_header
  BY NothingWritten
<1>3. Counted
  BY <1>1 DEF CountInv
<1>4. back \in {"label", "link", "add", "split"}
  BY <1>1, <1>3 DEF Counted, IInv, TypeOK, Control
<1>5. \/ pc' = "next"
      \/ pc' = "read" /\ back = "add" /\ UNCHANGED loopVars
      \/ pc' = "restart" /\ back = "split" /\ UNCHANGED loopVars
  BY <1>1, <1>4 DEF AfterAdd
<1>6. InContent' => nb_write' # -1 /\ Cardinality(DataOf(log', i')) = Archived'
  <2>1. CASE pc' = "next"
    BY <2>1 DEF InContent, AtVolumeEnd
  <2>2. CASE pc' = "read" /\ back = "add" /\ UNCHANGED loopVars
    <3>1. Unwritten /\ nb_write = 0 /\ total_nb_write = 0
      BY <1>1, <2>2 DEF Unwritten, IInv, Counters
    <3>2. i' = i /\ nb_write' = 0 /\ total_nb_write' = 0
      BY <2>2, <3>1 DEF loopVars
    <3>3. Archived' = 0
      BY <2>2, <3>2 DEF Archived
    <3> QED BY <1>2, <3>1, <3>2, <3>3, NoneYet
  <2>3. CASE pc' = "restart" /\ back = "split" /\ UNCHANGED loopVars
    <3>1. InContent /\ InContent' /\ Archived' = Archived
      BY <1>1, <2>3 DEF InContent, AtVolumeEnd, Archived, loopVars
    <3>2. i' = i /\ nb_write' = nb_write
      BY <2>3 DEF loopVars
    <3> QED BY <1>2, <1>3, <3>1, <3>2 DEF Counted
  <2> QED BY <1>5, <2>1, <2>2, <2>3
<1>7. NotFull'
  BY <1>5 DEF NotFull
<1> QED BY <1>1, <1>2, <1>3, <1>6, <1>7 DEF Counted

LEMMA ReadCount == IInv /\ CountInv /\ ReadData => CountInv'
<1> SUFFICES ASSUME IInv, CountInv, ReadData, faults' = 0 PROVE Counted'
  BY DEF CountInv
<1>1. /\ pc = "read" /\ position' = position /\ faults' = faults /\ i' = i
      /\ nb_write' = 0 /\ total_nb_write' = total_nb_write
      /\ \/ pc' = "prompt" /\ back' = "split"
         \/ pc' \in {"eof", "write"} /\ NextPreferedSize # 0 /\ back' = back
  BY DEF ReadData, fileVars
<1>2. log' = log /\ remain_header' = remain_header
  BY NothingWritten
<1>3. Counted
  BY <1>1 DEF CountInv
<1>4. InContent' => nb_write' # -1 /\ Cardinality(DataOf(log', i')) = Archived'
  <2>1. InContent /\ Archived = total_nb_write /\ total_nb_write \in Nat
    BY <1>1 DEF InContent, Archived, IInv, TypeOK
  <2>2. InContent' => Archived' = total_nb_write
    BY <1>1, <2>1 DEF InContent, AtVolumeEnd, Archived
  <2> QED BY <1>1, <1>2, <1>3, <2>1, <2>2 DEF Counted
<1>5. NotFull'
  <2>1. position \in Nat /\ (VolumeSize > 0 => position <= VolumeSize)
    BY DEF IInv, TypeOK, FormatTypeOK, FileTypeOK, VolumeOK
  <2>2. NextPreferedSize # 0 => (VolumeSize > 0 => position < VolumeSize)
    BY <2>1, FileAssumption DEF NextPreferedSize
  <2> QED BY <1>1, <2>2 DEF NotFull
<1> QED BY <1>1, <1>2, <1>3, <1>4, <1>5 DEF Counted

(* What is written of the buffer is counted. *)
LEMMA DataCounts ==
  ASSUME IInv, Counted, NEW from \in Nat, NEW length \in Nat, NEW r \in FormatResults(length),
         FormatWrite(Buffer(from, length), r)
  PROVE  /\ ContRight(log') /\ NoCont(remain_header')
         /\ Cardinality(DataOf(log', i)) =
              Cardinality(DataOf(log, i)) + (IF r.n > 0 THEN r.n ELSE 0)
<1>1. PICK T \in Seq(Units) : /\ log' = log \o T
                              /\ Len(T) = IF r.n > 0 THEN r.n ELSE 0
                              /\ DataLike(T, i, roff - nb_read + from)
  BY BufferFront
<1>2. log \in Seq(Units) /\ DOMAIN T = 1 .. Len(T)
  BY LenProperties DEF IInv, TypeOK, FormatTypeOK, FileTypeOK
<1>3. NoCont(T)
  BY <1>1, <1>2 DEF NoCont, DataLike
<1>4. ContRight(log \o T)
  BY <1>2, <1>3, ContKept DEF Counted
<1>5. \A j \in 1 .. Len(T) : T[j].k = "data" /\ T[j].f = i
  BY <1>1 DEF DataLike
<1>6. Cardinality(DataOf(log \o T, i)) = Cardinality(DataOf(log, i)) + Len(T)
  BY <1>2, <1>5, CountData
<1>7. remain_header' = remain_header
  BY DEF FormatWrite
<1> QED BY <1>1, <1>4, <1>6, <1>7 DEF Counted

(* Without a failure the first write of a buffer writes all there is room   *)
(* for.                                                                     *)
LEMMA WriteGood ==
  ASSUME IInv, NotFull, pc = "write", nb_read \in Nat, NEW r \in FormatResults(nb_read),
         r.fault = 0
  PROVE  r.n \in 0 .. nb_read
<1>1. r.n \in -1 .. nb_read
  BY FormatResult DEF IInv, TypeOK, GoodResult
<1>2. ASSUME NEW n \in Int, r \in WriteResults(n) PROVE r.n # -1
  <2>1. position \in Nat /\ VolumeSize \in Nat
    BY FileAssumption DEF IInv, TypeOK, FormatTypeOK, FileTypeOK
  <2>2. VolumeSize > 0 => position < VolumeSize
    BY DEF NotFull
  <2>3. r.n = 0 \/ (n >= 1 /\ r.n = IF VolumeSize > 0 THEN Least(n, VolumeSize - position) ELSE n)
    <3>1. CASE ~fd \/ n < 1
      BY <1>2, <3>1 DEF WriteResults
    <3>2. CASE fd /\ n >= 1
      <4> DEFINE room == IF VolumeSize > 0 THEN Least(n, VolumeSize - position) ELSE n
      <4>1. ~(n < 1) /\ ~(VolumeSize > 0 /\ position = VolumeSize)
        BY <2>1, <2>2, <3>2
      <4>2. r \in {[n |-> room, err |-> "none", fault |-> 0]}
              \cup IF faults < MaxFaults
                   THEN [n : 1 .. room - 1, err : {"none"}, fault : {1}]
                        \cup [n : {-1}, err : {"ENOSPC", "EIO"}, fault : {1}]
                   ELSE {}
        BY <1>2, <3>2, <4>1 DEF WriteResults
      <4> HIDE DEF room
      <4>3. r.n = room
        BY <4>2
      <4> QED BY <3>2, <4>3 DEF room
    <3> QED BY <3>1, <3>2
  <2> QED BY <2>1, <2>2, <2>3 DEF Least
<1>3. r.n = 0 \/ \E n \in Int : r \in WriteResults(n)
  <2>1. Least(nb_read, format_size - format_position) \in Int
    BY DEF Least, IInv, TypeOK, FormatTypeOK
  <2> QED BY <2>1 DEF FormatResults
<1> QED BY <1>1, <1>2, <1>3

LEMMA WriteCount == IInv /\ CountInv /\ WriteData => CountInv'
<1> SUFFICES ASSUME IInv, CountInv, WriteData, faults' = 0 PROVE Counted'
  BY DEF CountInv
<1>1. PICK r \in FormatResults(nb_read) :
        /\ FormatWrite(Buffer(0, nb_read), r)
        /\ nb_write' = r.n
        /\ pc' = IF r.n = nb_read THEN "read" ELSE "prompt"
        /\ back' = IF r.n = nb_read THEN back
                   ELSE IF r.n < 0 /\ r.err = "ENOSPC" THEN "enospc" ELSE "split"
        /\ total_nb_write' = IF r.n = nb_read THEN total_nb_write + r.n
                             ELSE total_nb_write
  BY DEF WriteData
<1>2. pc = "write" /\ i' = i /\ nb_read \in Nat /\ total_nb_write \in Nat
  BY DEF WriteData, IInv, TypeOK
<1>3. faults = 0 /\ r.fault = 0
  <2>1. faults' = faults + r.fault /\ r.fault \in Nat
    BY <1>1, <1>2, FaultSign DEF FormatWrite, Write
  <2> QED BY <2>1, NoFaults
<1>4. Counted /\ InContent /\ Archived = total_nb_write
  BY <1>2, <1>3 DEF CountInv, InContent, Archived
<1>5. r.n \in 0 .. nb_read
  BY <1>1, <1>2, <1>3, <1>4, WriteGood DEF Counted
<1>6. /\ ContRight(log') /\ NoCont(remain_header')
      /\ Cardinality(DataOf(log', i)) =
           Cardinality(DataOf(log, i)) + (IF r.n > 0 THEN r.n ELSE 0)
  BY <1>1, <1>2, <1>4, DataCounts
<1>7. Cardinality(DataOf(log', i')) = total_nb_write + r.n
  BY <1>2, <1>4, <1>5, <1>6 DEF Counted
<1>8. /\ nb_write' # -1 /\ back' # "enospc" /\ pc' \in {"read", "prompt"}
      /\ Archived' = total_nb_write + r.n
  BY <1>1, <1>2, <1>4, <1>5 DEF Counted, Archived
<1> QED BY <1>6, <1>7, <1>8 DEF Counted, NotFull

LEMMA RestCount == IInv /\ CountInv /\ WriteRest => CountInv'
<1> SUFFICES ASSUME IInv, CountInv, WriteRest, faults' = 0 PROVE Counted'
  BY DEF CountInv
<1> DEFINE length == nb_read - nb_write
<1>1. PICK r \in FormatResults(length) :
        /\ FormatWrite(Buffer(nb_write, length), r)
        /\ nb_write' = IF r.n > 0 THEN nb_write + r.n ELSE nb_write
        /\ pc' = IF nb_write' < nb_read THEN "prompt" ELSE "read"
        /\ total_nb_write' = IF nb_write' < nb_read THEN total_nb_write
                             ELSE total_nb_write + nb_write'
  BY DEF WriteRest
<1>2. /\ pc = "rest" /\ i' = i /\ back' = back /\ nb_read' = nb_read
      /\ nb_read \in Nat /\ nb_write \in Nat \cup {-1} /\ total_nb_write \in Nat
      /\ nb_write <= nb_read
  BY DEF WriteRest, IInv, TypeOK, Counters
<1>3. length \in Nat
  BY <1>2
<1>4. faults = 0
  <2>1. faults' = faults + r.fault /\ r.fault \in Nat
    BY <1>1, <1>3, FaultSign DEF FormatWrite, Write
  <2> QED BY <2>1, NoFaults
<1>5. Counted /\ InContent /\ nb_write \in Nat /\ Archived = total_nb_write + nb_write
  BY <1>2, <1>4 DEF CountInv, Counted, InContent, Archived
<1>6. r.n \in -1 .. length
  BY <1>1, <1>3, FormatResult DEF IInv, TypeOK, GoodResult
<1>7. /\ ContRight(log') /\ NoCont(remain_header')
      /\ Cardinality(DataOf(log', i)) =
           Cardinality(DataOf(log, i)) + (IF r.n > 0 THEN r.n ELSE 0)
  BY <1>1, <1>3, <1>5, DataCounts
<1>8. /\ nb_write' \in Nat /\ pc' \in {"read", "prompt"}
      /\ Archived' = Archived + (IF r.n > 0 THEN r.n ELSE 0)
  <2>1. nb_write' \in Nat /\ nb_write' = nb_write + (IF r.n > 0 THEN r.n ELSE 0)
    BY <1>1, <1>3, <1>5, <1>6
  <2>2. pc' \in {"read", "prompt"}
    BY <1>1
  <2>3. Archived' = total_nb_write + nb_write'
    <3>1. CASE nb_write' < nb_read
      <4>1. pc' = "prompt" /\ total_nb_write' = total_nb_write
        BY <1>1, <3>1
      <4> QED BY <2>1, <4>1 DEF Archived
    <3>2. CASE ~(nb_write' < nb_read)
      <4>1. pc' = "read" /\ total_nb_write' = total_nb_write + nb_write'
        BY <1>1, <3>2
      <4> QED BY <4>1 DEF Archived
    <3> QED BY <3>1, <3>2
  <2>4. Archived' = total_nb_write + nb_write + (IF r.n > 0 THEN r.n ELSE 0)
    BY <1>2, <1>5, <1>6, <1>3, <2>1, <2>3
  <2>5. Archived = total_nb_write + nb_write
    BY <1>5
  <2> QED BY <2>1, <2>2, <2>4, <2>5, Zenon
<1> QED BY <1>2, <1>5, <1>7, <1>8 DEF Counted, NotFull

LEMMA RestartCount == IInv /\ CountInv /\ Restart => CountInv'
<1> SUFFICES ASSUME IInv, CountInv, Restart, faults' = 0 PROVE Counted'
  BY DEF CountInv
<1>1. PICK r \in WriteResults(Len(RestartUnits(i, RestartAt, StSize))) :
        RestartFile(i, RestartAt, StSize, r)
  BY DEF Restart
<1>2. /\ pc = "restart" /\ i' = i /\ back' = back /\ nb_write' = nb_write
      /\ pc' = IF back = "enospc" THEN "write"
               ELSE IF nb_read > nb_write THEN "rest" ELSE "read"
      /\ total_nb_write' = IF pc' = "read" THEN total_nb_write + nb_write ELSE total_nb_write
      /\ faults' = faults + r.fault
      /\ remain_header' = <<>>
  BY <1>1 DEF Restart, AfterRestart, RestartFile, Write
<1>3. faults = 0
  <2>1. Len(RestartUnits(i, RestartAt, StSize)) \in Nat
    BY <1>2, RestartTypes, LenProperties
  <2>2. r.fault \in Nat
    BY <2>1, FaultSign
  <2> QED BY <1>2, <2>2, NoFaults
<1>4. Counted /\ AtVolumeEnd /\ InContent /\ back = "split"
  BY <1>2, <1>3 DEF CountInv, InContent, AtVolumeEnd, IInv, Control, Counted
<1>5. /\ nb_write \in Nat /\ nb_read \in Nat /\ total_nb_write \in Nat
      /\ Archived = total_nb_write + nb_write /\ RestartAt = Archived
  <2>1. nb_write \in Nat /\ nb_read \in Nat /\ total_nb_write \in Nat
    BY <1>4 DEF Counted, IInv, TypeOK
  <2>2. Archived = total_nb_write + nb_write
    BY <1>2, <2>1 DEF Archived
  <2>3. RestartAt = total_nb_write + nb_write
    BY <1>4 DEF RestartAt
  <2> QED BY <2>1, <2>2, <2>3
<1>6. PICK T \in Seq(Units) :
         /\ log' = log \o T
         /\ IF remain_header = <<>>
            THEN HeaderLike(T, "cont", i, RestartAt, StSize - RestartAt)
            ELSE /\ Len(T) <= Len(remain_header)
                 /\ \A j \in 1 .. Len(T) : T[j].k = remain_header[j].k
  BY RestartWrites
<1>7. log \in Seq(Units) /\ remain_header \in Seq(Units)
  BY DEF IInv, TypeOK, FormatTypeOK, FileTypeOK
<1>8. NoData(T) /\ ContRight(log \o T)
  <2>1. DOMAIN T = 1 .. Len(T)
    BY LenProperties
  <2>2. CASE remain_header = <<>>
    <3>1. \A j \in 1 .. Len(T) : T[j].k = "cont" /\ T[j].f = i /\ T[j].p = RestartAt
      BY <1>6, <2>2 DEF HeaderLike
    <3>2. NoData(T)
      BY <2>1, <3>1 DEF NoData
    <3>3. ContRight(log) /\ RestartAt = Cardinality(DataOf(log, i))
      BY <1>4, <1>5 DEF Counted
    <3>4. ContRight(log \o T)
      BY <1>7, <3>1, <3>3, ContNew
    <3> QED BY <3>2, <3>4
  <2>3. CASE remain_header # <<>>
    <3>1. \A j \in 1 .. Len(remain_header) : remain_header[j].k \notin {"data", "cont"}
      BY <1>4, <1>7, LenProperties DEF Counted, IInv, Contents, NoData, NoCont
    <3>2. Len(T) \in Nat /\ Len(remain_header) \in Nat
      BY <1>7, LenProperties
    <3>3. \A j \in 1 .. Len(T) : T[j].k \notin {"data", "cont"}
      BY <1>6, <2>3, <3>1, <3>2
    <3>4. NoData(T) /\ NoCont(T)
      BY <3>3, NeitherKind
    <3> QED BY <1>4, <1>7, <3>4, ContKept DEF Counted
  <2> QED BY <2>2, <2>3
<1>9. DataOf(log \o T, i) = DataOf(log, i)
  BY <1>7, <1>8, CountOther
<1>10. Cardinality(DataOf(log', i')) = Archived
  BY <1>2, <1>4, <1>6, <1>9 DEF Counted
<1>11. pc' \in {"rest", "read"} /\ Archived' = Archived
  <2>1. pc' \in {"rest", "read"}
    BY <1>2, <1>4
  <2>2. CASE pc' = "rest"
    <3>1. total_nb_write' = total_nb_write /\ nb_write' # -1
      BY <1>2, <1>5, <2>2
    <3> QED BY <1>2, <1>5, <2>2, <3>1 DEF Archived
  <2>3. CASE pc' = "read"
    <3>1. total_nb_write' = total_nb_write + nb_write
      BY <1>2, <2>3
    <3> QED BY <1>5, <2>3, <3>1 DEF Archived
  <2> QED BY <2>1, <2>2, <2>3
<1>12. NoCont(remain_header')
  BY <1>2 DEF NoCont
<1>13. nb_write' # -1 /\ back' # "enospc"
  BY <1>2, <1>4, <1>5
<1> QED BY <1>6, <1>8, <1>10, <1>11, <1>12, <1>13 DEF Counted, NotFull

LEMMA FinishCount == IInv /\ CountInv /\ FinishFile => CountInv'
<1> SUFFICES ASSUME IInv, CountInv, FinishFile, faults' = 0 PROVE Counted'
  BY DEF CountInv
<1>1. PICK r \in EndOfFileResults : EndOfFile(r)
  BY DEF FinishFile
<1>2. faults = 0
  <2>1. PadLength \in Nat
    BY PadLengthNat DEF IInv, TypeOK, FormatTypeOK
  <2>2. r.fault \in Nat
    <3>1. CASE PadLength = 0
      BY <1>1, <3>1 DEF EndOfFileResults
    <3>2. CASE PadLength # 0
      BY <1>1, <2>1, <3>2, FaultSign DEF EndOfFileResults
    <3> QED BY <3>1, <3>2
  <2>3. faults' = faults + r.fault
    BY <1>1 DEF EndOfFile, Write
  <2> QED BY <2>2, <2>3, NoFaults
<1>3. Counted
  BY <1>2 DEF CountInv
<1>4. pc' = "next" /\ back' = back /\ remain_header' = remain_header
  BY <1>1 DEF FinishFile, EndOfFile, formatVars
<1>5. PICK T \in Seq(Units) : log' = log \o T /\ \A j \in 1 .. Len(T) : T[j].k = "pad"
  BY PadWrites
<1>6. \A j \in 1 .. Len(T) : T[j].k \notin {"data", "cont"}
  BY <1>5
<1>7. ContRight(log')
  BY <1>3, <1>5, <1>6, OtherCounts DEF Counted
<1> QED BY <1>3, <1>4, <1>7 DEF Counted, NotFull, InContent, AtVolumeEnd

LEMMA StillCount == CountInv /\ (Resize \/ UNCHANGED vars) => CountInv'
<1> SUFFICES ASSUME CountInv, faults' = 0, Resize \/ UNCHANGED vars PROVE Counted'
  BY DEF CountInv
<1>1. /\ pc' = pc /\ back' = back /\ faults' = faults /\ position' = position
      /\ i' = i /\ nb_write' = nb_write /\ total_nb_write' = total_nb_write
      /\ log' = log /\ remain_header' = remain_header
  BY DEF Resize, vars, fileVars, formatVars, loopVars
<1>2. Archived' = Archived /\ InContent' = InContent /\ NotFull' = NotFull
  BY <1>1 DEF Archived, InContent, AtVolumeEnd, NotFull
<1> QED BY <1>1, <1>2 DEF Counted, CountInv

LEMMA NextCount == IInv /\ CountInv /\ [Next]_vars => CountInv'
  BY LabelCount, LinkCount, EntryCount, AsideCount, NextVolumeCount, ReadCount, WriteCount,
     RestCount, RestartCount, FinishCount, StillCount
     DEF Next, Program, Operator, Finished

LEMMA CountHolds == Spec => []CountInv
<1>1. Spec => []IInv
  BY Inductive
<1> QED BY <1>1, InitCount, NextCount, PTL DEF Spec

(* An 'M' header tells how much of its file the archive holds before it, on *)
(* every volume and whatever happened to the size of the file: the offset   *)
(* create.c:258-289 gives to restart_file is counted in what was written.   *)
THEOREM PositionsTold == Spec => []ContinuationPosition
<1>1. Spec => []CountInv
  BY CountHolds
<1>2. CountInv => ContinuationPosition
  <2> SUFFICES ASSUME CountInv, faults = 0, NEW j \in Starts, log[j].k = "cont"
               PROVE  log[j].p =
                        Cardinality({l \in 1 .. j - 1 : IsData(l) /\ log[l].f = log[j].f})
    BY DEF ContinuationPosition
  <2>1. ContRight(log) /\ j \in DOMAIN log
    BY DEF CountInv, Counted, Starts
  <2>2. log[j].p = Cardinality(DataBefore(log, j, log[j].f))
    BY <2>1 DEF ContRight
  <2>3. DataBefore(log, j, log[j].f) = {l \in 1 .. j - 1 : IsData(l) /\ log[l].f = log[j].f}
    BY DEF DataBefore, IsData
  <2> QED BY <2>2, <2>3
<1> QED BY <1>1, <1>2, PTL

----------------------------------------------------------------------------
(* The hashtable of the inodes. *)

KeyOf(e) == Key[Entries[e].ino]
HasKey(e) == \E d \in inode : KeyOf(d) = KeyOf(e)

(* The entry at hand is one whose inode had not been met ... *)
AtHand == pc \in {"add", "eof"} \/ InContent \/ (pc = "prompt" /\ back = "add")

(* ... or has not been put into the table; it is a link to one that is. *)
Linking == pc = "link" \/ (pc = "prompt" /\ back = "link")
Unmet == pc \in {"label", "next"} \/ (pc = "prompt" /\ back = "label") \/ Linking

(* The table holds one entry for each key met so far. *)
TableInv ==
    /\ \A d, e \in inode : KeyOf(d) = KeyOf(e) => d = e
    /\ inode \subseteq 1 .. i
    /\ AtHand => i \in inode
    /\ Unmet => i \notin inode
    /\ Linking => HasKey(i)
    /\ \A e \in 1 .. Len(Entries) : e < i /\ Entries[e].kind # "sock" => HasKey(e)

LEMMA InitTable == Init => TableInv
<1> SUFFICES ASSUME Init PROVE TableInv
  OBVIOUS
<1>1. pc = "label" /\ back = "none" /\ i = 1 /\ inode = {}
  BY DEF Init
<1> QED BY <1>1 DEF TableInv, AtHand, InContent, AtVolumeEnd, Unmet, Linking

(* The program stays at its entry. *)
LEMMA TableStill ==
  ASSUME TableInv, i' = i, inode' = inode, AtHand' => AtHand, Unmet' => Unmet,
         Linking' => Linking
  PROVE  TableInv'
<1>1. \A e : HasKey(e)' <=> HasKey(e)
  BY DEF HasKey, KeyOf
<1>2. HasKey(i)' <=> HasKey(i)
  BY DEF HasKey, KeyOf
<1> QED BY <1>1, <1>2 DEF TableInv, KeyOf

(* It goes on to the next one. *)
LEMMA TableSkip ==
  ASSUME IInv, TableInv, i' = i + 1, inode' = inode, pc' = "next",
         Entry.kind = "sock" \/ HasKey(i)
  PROVE  TableInv'
<1>1. \A e : HasKey(e)' <=> HasKey(e)
  BY DEF HasKey, KeyOf
<1>2. i \in Nat \ {0} /\ Len(Entries) \in Nat
  BY LenProperties, CreateAssumption DEF IInv, TypeOK
<1>3. ~AtHand' /\ ~Linking'
  BY DEF AtHand, InContent, AtVolumeEnd, Linking
<1>4. inode' \subseteq 1 .. i' /\ i' \notin inode'
  BY <1>2 DEF TableInv
<1>5. \A e \in 1 .. Len(Entries) : e < i' /\ Entries[e].kind # "sock" => HasKey(e)
  BY <1>2 DEF TableInv, Entry
<1> QED BY <1>1, <1>3, <1>4, <1>5 DEF TableInv, KeyOf

LEMMA NextEntryTable == IInv /\ TableInv /\ NextEntry => TableInv'
<1> SUFFICES ASSUME IInv, TableInv, NextEntry PROVE TableInv'
  OBVIOUS
<1>1. pc = "next" /\ i <= Len(Entries) /\ back' = back /\ i \in Nat \ {0} /\ i \notin inode
  BY DEF NextEntry, IInv, TypeOK, TableInv, Unmet
<1>2. Known = {d \in inode : KeyOf(d) = KeyOf(i)}
  BY DEF Known, KeyOf, Entry
<1>3. CASE /\ Entry.kind = "sock" \/ \E j \in Known : Entries[j].name = Entry.name
           /\ Skip
           /\ pc' = "next"
  <2>1. Entry.kind = "sock" \/ HasKey(i)
    BY <1>2, <1>3 DEF HasKey
  <2> QED BY <1>3, <2>1, TableSkip DEF Skip
<1>4. CASE /\ Entry.kind # "sock"
           /\ \E j \in Known : Entries[j].name # Entry.name
           /\ pc' = "link"
           /\ UNCHANGED loopVars
  <2>1. HasKey(i) /\ i' = i /\ inode' = inode
    BY <1>2, <1>4 DEF HasKey, loopVars
  <2>2. ~AtHand' /\ Unmet' /\ Linking' /\ Unmet
    BY <1>1, <1>4 DEF AtHand, InContent, AtVolumeEnd, Unmet, Linking
  <2>3. \A e : HasKey(e)' <=> HasKey(e)
    BY <2>1 DEF HasKey, KeyOf
  <2>4. HasKey(i)' <=> HasKey(i)
    BY <2>1 DEF HasKey, KeyOf
  <2> QED BY <2>1, <2>2, <2>3, <2>4 DEF TableInv, KeyOf
<1>5. CASE /\ Entry.kind # "sock"
           /\ Known = {}
           /\ inode' = inode \cup {i}
           /\ pc' = "add"
           /\ UNCHANGED <<i, roff, nb_read, nb_write, total_nb_write>>
  <2>1. i' = i /\ inode' = inode \cup {i} /\ pc' = "add"
    BY <1>5
  <2>2. \A d \in inode : KeyOf(d) # KeyOf(i)
    BY <1>2, <1>5
  <2>3. \A d, e \in inode' : KeyOf(d) = KeyOf(e) => d = e
    BY <2>1, <2>2 DEF TableInv
  <2>4. \A e : HasKey(e) => HasKey(e)'
    BY <2>1 DEF HasKey, KeyOf
  <2>5. ~Unmet' /\ ~Linking' /\ i' \in inode' /\ inode' \subseteq 1 .. i'
    BY <1>1, <2>1 DEF Unmet, Linking, TableInv
  <2> QED BY <2>1, <2>3, <2>4, <2>5 DEF TableInv, KeyOf
<1> QED BY <1>3, <1>4, <1>5 DEF NextEntry

LEMMA LinkTable == IInv /\ TableInv /\ HardLink => TableInv'
<1> SUFFICES ASSUME IInv, TableInv, HardLink PROVE TableInv'
  OBVIOUS
<1>1. PICK r \in HeaderResults(Block) :
        /\ OnStatus(HeaderStatus(Block, r), "link", "next")
        /\ IF HeaderStatus(Block, r) = "ok" THEN Skip ELSE UNCHANGED loopVars
  BY DEF HardLink
<1>2. pc = "link" /\ Linking /\ Unmet /\ HasKey(i)
  BY DEF HardLink, Linking, Unmet, TableInv
<1>3. \/ HeaderStatus(Block, r) = "error" /\ pc' = "exit" /\ back' = back
      \/ HeaderStatus(Block, r) = "end_of_tape" /\ pc' = "prompt" /\ back' = "link"
      \/ HeaderStatus(Block, r) = "ok" /\ pc' = "next" /\ back' = back
  BY <1>1, HeaderStatusType, OnStatusCases DEF IInv, TypeOK
<1>4. CASE HeaderStatus(Block, r) = "ok"
  <2>1. i' = i + 1 /\ inode' = inode /\ pc' = "next"
    BY <1>1, <1>3, <1>4 DEF Skip
  <2> QED BY <1>2, <2>1, TableSkip
<1>5. CASE HeaderStatus(Block, r) # "ok"
  <2>1. i' = i /\ inode' = inode
    BY <1>1, <1>5 DEF loopVars
  <2>2. ~AtHand'
    BY <1>3, <1>5 DEF AtHand, InContent, AtVolumeEnd
  <2> QED BY <1>2, <2>1, <2>2, TableStill
<1> QED BY <1>4, <1>5

LEMMA AddTable == IInv /\ TableInv /\ AddEntry => TableInv'
<1> SUFFICES ASSUME IInv, TableInv, AddEntry PROVE TableInv'
  OBVIOUS
<1> DEFINE length == Entry.blocks * Block
           ok == IF failed THEN "exit" ELSE AfterAdd
<1>1. PICK r \in HeaderResults(length) :
        /\ OnStatus(HeaderStatus(length, r), "add", ok)
        /\ IF HeaderStatus(length, r) = "ok" /\ ~failed /\ AfterAdd = "next"
           THEN Skip
           ELSE UNCHANGED <<i, inode>>
  BY DEF AddEntry
<1>2. /\ ok \in {"exit", "read", "next"} /\ (ok = "next" <=> ~failed /\ AfterAdd = "next")
      /\ AtHand /\ i \in inode
  BY DEF AfterAdd, AddEntry, AtHand, TableInv
<1> HIDE DEF ok, length
<1>3. \/ HeaderStatus(length, r) = "error" /\ pc' = "exit" /\ back' = back
      \/ HeaderStatus(length, r) = "end_of_tape" /\ pc' = "prompt" /\ back' = "add"
      \/ HeaderStatus(length, r) = "ok" /\ pc' = ok /\ back' = back
  BY <1>1, HeaderStatusType, OnStatusCases DEF IInv, TypeOK
<1>4. \/ i' = i + 1 /\ inode' = inode /\ pc' = "next"
      \/ i' = i /\ inode' = inode /\ pc' \in {"exit", "read"}
      \/ i' = i /\ inode' = inode /\ pc' = "prompt" /\ back' = "add"
  BY <1>1, <1>2, <1>3 DEF Skip
<1>5. HasKey(i)
  BY <1>2 DEF HasKey
<1>6. CASE i' = i + 1 /\ inode' = inode /\ pc' = "next"
  BY <1>5, <1>6, TableSkip
<1>7. CASE ~(i' = i + 1 /\ inode' = inode /\ pc' = "next")
  <2>1. i' = i /\ inode' = inode /\ ~Unmet' /\ ~Linking'
    BY <1>4, <1>7 DEF Unmet, Linking
  <2> QED BY <1>2, <2>1, TableStill
<1> QED BY <1>6, <1>7

LEMMA NextVolumeTable == IInv /\ TableInv /\ NextVolume => TableInv'
<1> SUFFICES ASSUME IInv, TableInv, NextVolume PROVE TableInv'
  OBVIOUS
<1>1. /\ pc = "prompt" /\ back' = back
      /\ pc' = CASE back = "label" -> "next"
                 [] back = "link" -> "next"
                 [] back = "add" -> AfterAdd
                 [] back \in {"enospc", "split"} -> "restart"
      /\ IF back = "link" \/ (back = "add" /\ AfterAdd = "next")
         THEN Skip ELSE UNCHANGED loopVars
      /\ back \in {"label", "link", "add", "enospc", "split"}
  BY DEF NextVolume, IInv, TypeOK, Control
<1>2. CASE back = "link" \/ (back = "add" /\ AfterAdd = "next")
  <2>1. i' = i + 1 /\ inode' = inode /\ pc' = "next"
    BY <1>1, <1>2 DEF Skip
  <2>2. HasKey(i)
    BY <1>1, <1>2 DEF TableInv, Linking, AtHand, HasKey
  <2> QED BY <2>1, <2>2, TableSkip
<1>3. CASE ~(back = "link" \/ (back = "add" /\ AfterAdd = "next"))
  <2>1. i' = i /\ inode' = inode
    BY <1>1, <1>3 DEF loopVars
  <2>2. \/ back = "label" /\ pc' = "next"
        \/ back = "add" /\ pc' = "read"
        \/ back \in {"enospc", "split"} /\ pc' = "restart"
    BY <1>1, <1>3 DEF AfterAdd
  <2>3. (AtHand' => AtHand) /\ (Unmet' => Unmet) /\ ~Linking'
    BY <1>1, <2>2 DEF AtHand, InContent, AtVolumeEnd, Unmet, Linking
  <2> QED BY <2>1, <2>3, TableStill
<1> QED BY <1>2, <1>3

LEMMA FinishTable == IInv /\ TableInv /\ FinishFile => TableInv'
<1> SUFFICES ASSUME IInv, TableInv, FinishFile PROVE TableInv'
  OBVIOUS
<1>1. i' = i + 1 /\ inode' = inode /\ pc' = "next" /\ HasKey(i)
  BY DEF FinishFile, Skip, TableInv, AtHand, HasKey
<1> QED BY <1>1, TableSkip

LEMMA OtherTable ==
  IInv /\ TableInv /\ (StartLabel \/ NoMoreEntries \/ StatFails \/ ReadData \/ ReadFails
                       \/ WriteData \/ Restart \/ RestartIgnored \/ WriteRest \/ Exit
                       \/ PromptEnds \/ PromptQuits \/ BadVolume \/ Resize \/ UNCHANGED vars)
  => TableInv'
<1> SUFFICES ASSUME IInv, TableInv,
                    StartLabel \/ NoMoreEntries \/ StatFails \/ ReadData \/ ReadFails
                       \/ WriteData \/ Restart \/ RestartIgnored \/ WriteRest \/ Exit
                       \/ PromptEnds \/ PromptQuits \/ BadVolume \/ Resize \/ UNCHANGED vars
             PROVE  TableInv'
  OBVIOUS
<1>1. CASE StartLabel
  <2>1. i' = i /\ inode' = inode /\ pc = "label"
    BY <1>1 DEF StartLabel, loopVars
  <2>2. \/ pc' \in {"exit", "next"}
        \/ pc' = "prompt" /\ back' = "label"
    <3>1. CASE Label
      <4>1. PICK r \in HeaderResults(Block) : OnStatus(HeaderStatus(Block, r), "label", "next")
        BY <1>1, <3>1 DEF StartLabel
      <4> QED BY <4>1, HeaderStatusType, OnStatusCases DEF IInv, TypeOK
    <3>2. CASE ~Label
      BY <1>1, <3>2 DEF StartLabel
    <3> QED BY <3>1, <3>2
  <2>3. ~AtHand' /\ Unmet /\ ~Linking'
    BY <2>1, <2>2 DEF AtHand, InContent, AtVolumeEnd, Unmet, Linking
  <2> QED BY <2>1, <2>3, TableStill
<1>2. CASE NoMoreEntries \/ StatFails \/ Exit \/ PromptQuits \/ BadVolume
  <2>1. i' = i /\ inode' = inode /\ pc' \in {"exit", "done", "aborted", "crashed"}
    BY <1>2 DEF NoMoreEntries, StatFails, Exit, PromptQuits, BadVolume, loopVars
  <2>2. ~AtHand' /\ ~Unmet' /\ ~Linking'
    BY <2>1 DEF AtHand, InContent, AtVolumeEnd, Unmet, Linking
  <2> QED BY <2>1, <2>2, TableStill
<1>3. CASE ReadData \/ ReadFails \/ WriteData \/ Restart \/ RestartIgnored \/ WriteRest
  <2>1. i' = i /\ inode' = inode /\ pc \in {"read", "write", "rest", "restart"}
    BY <1>3 DEF ReadData, ReadFails, WriteData, Restart, RestartIgnored, WriteRest,
                AfterRestart, loopVars
  <2>2. AtHand
    BY <2>1 DEF AtHand, InContent, AtVolumeEnd, IInv, Control
  <2>3. ~Unmet' /\ ~Linking'
    <3>1. CASE ReadData
      BY <3>1 DEF ReadData, Unmet, Linking
    <3>2. CASE ReadFails
      BY <3>2 DEF ReadFails, Unmet, Linking
    <3>3. CASE WriteData
      <4>1. pc' = "read" \/ (pc' = "prompt" /\ back' \in {"enospc", "split"})
        BY <3>3 DEF WriteData
      <4> QED BY <4>1 DEF Unmet, Linking
    <3>4. CASE Restart \/ RestartIgnored
      BY <3>4 DEF Restart, RestartIgnored, AfterRestart, Unmet, Linking
    <3>5. CASE WriteRest
      <4>1. pc' \in {"prompt", "read"} /\ back' = back /\ back = "split"
        BY <3>5 DEF WriteRest, IInv, Control
      <4> QED BY <4>1 DEF Unmet, Linking
    <3> QED BY <1>3, <3>1, <3>2, <3>3, <3>4, <3>5
  <2> QED BY <2>1, <2>2, <2>3, TableStill
<1>4. CASE PromptEnds
  <2>1. i' = i /\ inode' = inode /\ back \in {"label", "link", "add", "enospc", "split"}
    BY <1>4 DEF PromptEnds, loopVars, IInv, TypeOK, Control
  <2>2. \/ pc' = "exit"
        \/ back \in {"enospc", "split"} /\ pc' = "prompt" /\ back' = "split"
        \/ back = "split" /\ pc' = "eof"
    BY <1>4, <2>1 DEF PromptEnds
  <2>3. (AtHand' => AtHand) /\ ~Unmet' /\ ~Linking'
    BY <1>4, <2>2 DEF PromptEnds, AtHand, InContent, AtVolumeEnd, Unmet, Linking
  <2> QED BY <2>1, <2>3, TableStill
<1>5. CASE Resize \/ UNCHANGED vars
  <2>1. i' = i /\ inode' = inode /\ pc' = pc /\ back' = back
    BY <1>5 DEF Resize, vars, loopVars
  <2>2. AtHand' = AtHand /\ Unmet' = Unmet /\ Linking' = Linking
    BY <2>1 DEF AtHand, InContent, AtVolumeEnd, Unmet, Linking
  <2> QED BY <2>1, <2>2, TableStill
<1> QED BY <1>1, <1>2, <1>3, <1>4, <1>5

LEMMA NextTable == IInv /\ TableInv /\ [Next]_vars => TableInv'
  BY NextEntryTable, LinkTable, AddTable, NextVolumeTable, FinishTable, OtherTable
     DEF Next, Program, Operator, Finished

LEMMA TableHolds == Spec => []TableInv
<1>1. Spec => []IInv
  BY Inductive
<1> QED BY <1>1, InitTable, NextTable, PTL DEF Spec

----------------------------------------------------------------------------
(* Hard links and the headers they name. *)

HasHdr(s, e) == \E l \in DOMAIN s : s[l].k = "hdr" /\ s[l].o = 0 /\ s[l].f = e
HdrsOf(s, S) == \A l \in DOMAIN s : s[l].k = "hdr" => s[l].f \in S

(* The first units of the headers in front of an index that are for an inode. *)
HdrsFor(s, j, n) == {l \in 1 .. j - 1 : s[l].k = "hdr" /\ s[l].o = 0 /\ Entries[s[l].f].ino = n}

Resolved(s) ==
    \A j \in DOMAIN s : s[j].o = 0 =>
        /\ s[j].k = "link" => HdrsFor(s, j, Entries[s[j].f].ino) # {}
        /\ s[j].k = "hdr" => HdrsFor(s, j, Entries[s[j].f].ino) = {}

(* The old units keep their place. *)
LEMMA ResolvedFront ==
  ASSUME NEW s \in Seq(Units), NEW T \in Seq(Units), Resolved(s), NEW j \in 1 .. Len(s)
  PROVE  LET u == s \o T
         IN  u[j].o = 0 =>
               /\ u[j].k = "link" => HdrsFor(u, j, Entries[u[j].f].ino) # {}
               /\ u[j].k = "hdr" => HdrsFor(u, j, Entries[u[j].f].ino) = {}
<1> DEFINE u == s \o T
<1>1. Longer(s, T, u)
  BY LongerLog
<1> HIDE DEF u
<1>2. u[j] = s[j] /\ j \in DOMAIN s
  BY <1>1 DEF Longer
<1>3. \A l \in 1 .. j - 1 : u[l] = s[l]
  BY <1>1 DEF Longer
<1>4. HdrsFor(u, j, Entries[u[j].f].ino) = HdrsFor(s, j, Entries[s[j].f].ino)
  BY <1>2, <1>3 DEF HdrsFor
<1>5. u[j].o = 0 =>
        /\ u[j].k = "link" => HdrsFor(u, j, Entries[u[j].f].ino) # {}
        /\ u[j].k = "hdr" => HdrsFor(u, j, Entries[u[j].f].ino) = {}
  BY <1>2, <1>4 DEF Resolved
<1> QED BY <1>5 DEF u

LEMMA HdrsLonger ==
  ASSUME NEW s \in Seq(Units), NEW T \in Seq(Units)
  PROVE  /\ \A e : HasHdr(s, e) => HasHdr(s \o T, e)
         /\ \A S : HdrsOf(s, S) /\ (\A l \in 1 .. Len(T) : T[l].k = "hdr" => T[l].f \in S)
                     => HdrsOf(s \o T, S)
<1> DEFINE u == s \o T
<1>1. Longer(s, T, u)
  BY LongerLog
<1> HIDE DEF u
<1>2. \A e : HasHdr(s, e) => HasHdr(u, e)
  BY <1>1 DEF HasHdr, Longer
<1>3. ASSUME NEW S, HdrsOf(s, S), \A l \in 1 .. Len(T) : T[l].k = "hdr" => T[l].f \in S
      PROVE  HdrsOf(u, S)
  <2>1. ASSUME NEW l \in DOMAIN u, u[l].k = "hdr" PROVE u[l].f \in S
    <3>1. CASE l \in 1 .. Len(s)
      BY <1>1, <1>3, <2>1, <3>1 DEF Longer, HdrsOf
    <3>2. CASE l \notin 1 .. Len(s)
      <4>1. l \in Len(s) + 1 .. Len(s) + Len(T) /\ l - Len(s) \in 1 .. Len(T)
        BY <1>1, <2>1, <3>2 DEF Longer
      <4>2. u[l] = T[l - Len(s)]
        BY <1>1, <4>1 DEF Longer
      <4> QED BY <1>3, <2>1, <4>1, <4>2
    <3> QED BY <3>1, <3>2
  <2> QED BY <2>1 DEF HdrsOf
<1> QED BY <1>2, <1>3 DEF u

(* Units of other kinds resolve nothing and need nothing. *)
LEMMA ResolvedOther ==
  ASSUME NEW s \in Seq(Units), NEW T \in Seq(Units), Resolved(s),
         \A j \in 1 .. Len(T) : T[j].k \notin {"hdr", "link"}
  PROVE  Resolved(s \o T)
<1> DEFINE u == s \o T
<1>1. Longer(s, T, u)
  BY LongerLog
<1>2. \A j \in 1 .. Len(s) : u[j].o = 0 =>
        /\ u[j].k = "link" => HdrsFor(u, j, Entries[u[j].f].ino) # {}
        /\ u[j].k = "hdr" => HdrsFor(u, j, Entries[u[j].f].ino) = {}
  BY ResolvedFront
<1> HIDE DEF u
<1>3. \A j \in DOMAIN u : j \in 1 .. Len(s) \/ u[j].k \notin {"hdr", "link"}
  <2> SUFFICES ASSUME NEW j \in DOMAIN u, j \notin 1 .. Len(s)
               PROVE  u[j].k \notin {"hdr", "link"}
    OBVIOUS
  <2>1. j \in Len(s) + 1 .. Len(s) + Len(T) /\ j - Len(s) \in 1 .. Len(T)
    BY <1>1 DEF Longer
  <2>2. u[j] = T[j - Len(s)]
    BY <1>1, <2>1 DEF Longer
  <2> QED BY <2>1, <2>2
<1>4. Resolved(u)
  BY <1>2, <1>3 DEF Resolved
<1> QED BY <1>4 DEF u

(* A link is resolved by a header of its inode. *)
LEMMA ResolvedLink ==
  ASSUME NEW s \in Seq(Units), NEW T \in Seq(Units), Resolved(s), NEW f, NEW d,
         HasHdr(s, d), Entries[d].ino = Entries[f].ino,
         \A j \in 1 .. Len(T) : T[j].k = "link" /\ T[j].f = f
  PROVE  Resolved(s \o T)
<1> DEFINE u == s \o T
<1>1. Longer(s, T, u)
  BY LongerLog
<1>2. \A j \in 1 .. Len(s) : u[j].o = 0 =>
        /\ u[j].k = "link" => HdrsFor(u, j, Entries[u[j].f].ino) # {}
        /\ u[j].k = "hdr" => HdrsFor(u, j, Entries[u[j].f].ino) = {}
  BY ResolvedFront
<1> HIDE DEF u
<1>3. ASSUME NEW j \in DOMAIN u, j \notin 1 .. Len(s)
      PROVE  u[j].k = "link" /\ HdrsFor(u, j, Entries[u[j].f].ino) # {}
  <2>1. j \in Len(s) + 1 .. Len(s) + Len(T) /\ j - Len(s) \in 1 .. Len(T)
    BY <1>1, <1>3 DEF Longer
  <2>2. u[j].k = "link" /\ u[j].f = f
    BY <1>1, <2>1 DEF Longer
  <2>3. PICK l \in DOMAIN s : s[l].k = "hdr" /\ s[l].o = 0 /\ s[l].f = d
    BY DEF HasHdr
  <2>4. l \in 1 .. j - 1 /\ u[l] = s[l]
    BY <1>1, <2>1 DEF Longer
  <2>5. l \in HdrsFor(u, j, Entries[f].ino)
    BY <2>3, <2>4 DEF HdrsFor
  <2> QED BY <2>2, <2>5
<1>4. Resolved(u)
  BY <1>2, <1>3 DEF Resolved
<1> QED BY <1>4 DEF u

(* A header is the first of its inode. *)
LEMMA ResolvedHdr ==
  ASSUME NEW s \in Seq(Units), NEW T \in Seq(Units), Resolved(s), NEW f,
         \A l \in DOMAIN s : s[l].k = "hdr" => Entries[s[l].f].ino # Entries[f].ino,
         \A j \in 1 .. Len(T) : T[j].k = "hdr" /\ T[j].f = f /\ T[j].o = j - 1
  PROVE  Resolved(s \o T)
<1> DEFINE u == s \o T
<1>1. Longer(s, T, u)
  BY LongerLog
<1>2. \A j \in 1 .. Len(s) : u[j].o = 0 =>
        /\ u[j].k = "link" => HdrsFor(u, j, Entries[u[j].f].ino) # {}
        /\ u[j].k = "hdr" => HdrsFor(u, j, Entries[u[j].f].ino) = {}
  BY ResolvedFront
<1> HIDE DEF u
<1>3. ASSUME NEW j \in DOMAIN u, j \notin 1 .. Len(s), u[j].o = 0
      PROVE  u[j].k = "hdr" /\ HdrsFor(u, j, Entries[u[j].f].ino) = {}
  <2>1. /\ j \in Len(s) + 1 .. Len(s) + Len(T) /\ j - Len(s) \in 1 .. Len(T)
        /\ Len(s) \in Nat
    BY <1>1, <1>3 DEF Longer
  <2>2. u[j] = T[j - Len(s)]
    BY <1>1, <2>1 DEF Longer
  <2>3. u[j].k = "hdr" /\ u[j].f = f /\ j - Len(s) - 1 = 0
    BY <1>3, <2>1, <2>2
  <2>4. j = Len(s) + 1
    BY <2>1, <2>3
  <2>5. \A l \in 1 .. j - 1 : l \in DOMAIN s /\ u[l] = s[l]
    BY <1>1, <2>1, <2>4 DEF Longer
  <2>6. HdrsFor(u, j, Entries[f].ino) = {}
    BY <2>5 DEF HdrsFor
  <2> QED BY <2>3, <2>6
<1>4. Resolved(u)
  BY <1>2, <1>3 DEF Resolved
<1> QED BY <1>4 DEF u

(* Two inodes have two keys: the numbers that identify them fit into the 15 *)
(* characters create.c:179 keeps of "dev_ino".                              *)
KeysTell ==
    \A d, e \in 1 .. Len(Entries) : KeyOf(d) = KeyOf(e) => Entries[d].ino = Entries[e].ino

(* The entries whose header is written; a link finds the one of its inode   *)
(* when keys tell inodes apart.                                             *)
Settled == IF pc = "add" THEN inode \ {i} ELSE inode

LinksRight ==
    /\ remain_header = <<>>
    /\ HdrsOf(log, Settled)
    /\ \A e \in Settled : HasHdr(log, e)
    /\ KeysTell => Resolved(log)

LinkInv == faults = 0 /\ cuts = 0 => LinksRight

LEMMA InitLinks == Init => LinkInv
<1> SUFFICES ASSUME Init PROVE LinksRight
  BY DEF LinkInv
<1>1. log = <<>> /\ remain_header = <<>> /\ pc = "label" /\ inode = {}
  BY DEF Init, FileInit, FormatInit
<1> QED BY <1>1 DEF LinksRight, Settled, HdrsOf, Resolved

LEMMA LinksStill ==
  ASSUME LinksRight, log' = log, remain_header' = remain_header, Settled' = Settled
  PROVE  LinksRight'
  BY DEF LinksRight

(* What is written is neither a header nor a link. *)
LEMMA LinksMore ==
  ASSUME IInv, LinksRight, NEW T \in Seq(Units), log' = log \o T,
         \A j \in 1 .. Len(T) : T[j].k \notin {"hdr", "link"},
         remain_header' = <<>>, Settled' = Settled
  PROVE  LinksRight'
<1>1. log \in Seq(Units)
  BY DEF IInv, TypeOK, FormatTypeOK, FileTypeOK
<1>2. KeysTell => Resolved(log \o T)
  BY <1>1, ResolvedOther DEF LinksRight
<1>3. HdrsOf(log \o T, Settled) /\ \A e \in Settled : HasHdr(log \o T, e)
  BY <1>1, HdrsLonger DEF LinksRight
<1> QED BY <1>2, <1>3 DEF LinksRight

(* Between two headers the table does not change. *)
LEMMA SettledStill ==
  ASSUME pc # "add", pc' # "add", inode' = inode
  PROVE  Settled' = Settled
  BY DEF Settled

LEMMA CutsBack ==
  ASSUME IInv, cuts' = 0, cuts' \in {cuts, cuts + 1}
  PROVE  cuts = 0 /\ cuts' = cuts
  BY DEF IInv, TypeOK

LEMMA LabelLinks == IInv /\ LinkInv /\ StartLabel => LinkInv'
<1> SUFFICES ASSUME IInv, LinkInv, StartLabel, faults' = 0, cuts' = 0 PROVE LinksRight'
  BY DEF LinkInv
<1>1. pc = "label" /\ inode' = inode /\ pc' # "add" /\ faults = 0
  <2>1. CASE Label
    <3>1. PICK r \in HeaderResults(Block) :
             AddLabel(r) /\ OnStatus(HeaderStatus(Block, r), "label", "next")
      BY <2>1 DEF StartLabel
    <3>2. faults' = faults + r.fault /\ r.fault \in Nat
      BY <3>1, FaultSign, FileAssumption DEF AddLabel, WriteHeader, Write
    <3>3. faults = 0
      BY <3>2, NoFaults
    <3>4. pc' # "add"
      BY <3>1, HeaderStatusType, OnStatusCases DEF IInv, TypeOK
    <3> QED BY <3>3, <3>4 DEF StartLabel, loopVars
  <2>2. CASE ~Label
    BY <2>2 DEF StartLabel, fileVars, loopVars
  <2> QED BY <2>1, <2>2
<1>2. cuts = 0 /\ remain_header' = remain_header
  BY LabelWrites, CutsBack
<1>3. LinksRight
  BY <1>1, <1>2 DEF LinkInv
<1>4. PICK T \in Seq(Units) : log' = log \o T /\ HeaderLike(T, "label", 0, 0, 0)
  BY LabelWrites
<1>5. \A j \in 1 .. Len(T) : T[j].k \notin {"hdr", "link"}
  BY <1>4 DEF HeaderLike
<1>6. Settled' = Settled
  BY <1>1, SettledStill
<1>7. remain_header' = <<>>
  BY <1>2, <1>3 DEF LinksRight
<1> QED BY <1>3, <1>4, <1>5, <1>6, <1>7, LinksMore

LEMMA LinkLinks == IInv /\ TableInv /\ LinkInv /\ HardLink => LinkInv'
<1> SUFFICES ASSUME IInv, TableInv, LinkInv, HardLink, faults' = 0, cuts' = 0
             PROVE  LinksRight'
  BY DEF LinkInv
<1>1. pc = "link" /\ inode' = inode /\ pc' # "add" /\ faults = 0
  <2>1. PICK r \in HeaderResults(Block) :
          /\ AddLink(i, r)
          /\ OnStatus(HeaderStatus(Block, r), "link", "next")
          /\ IF HeaderStatus(Block, r) = "ok" THEN Skip ELSE UNCHANGED loopVars
    BY DEF HardLink
  <2>2. faults' = faults + r.fault /\ r.fault \in Nat
    BY <2>1, FaultSign, FileAssumption DEF AddLink, WriteHeader, Write
  <2>3. faults = 0
    BY <2>2, NoFaults
  <2>4. pc' # "add"
    BY <2>1, HeaderStatusType, OnStatusCases DEF IInv, TypeOK
  <2>5. inode' = inode
    BY <2>1 DEF Skip, loopVars
  <2> QED BY <2>3, <2>4, <2>5 DEF HardLink
<1>2. cuts = 0 /\ remain_header' = remain_header
  BY LinkWrites, CutsBack
<1>3. LinksRight
  BY <1>1, <1>2 DEF LinkInv
<1>4. PICK T \in Seq(Units) : log' = log \o T /\ HeaderLike(T, "link", i, 0, 0)
  BY LinkWrites
<1>5. Settled' = Settled /\ Settled = inode
  BY <1>1, SettledStill DEF Settled
<1>6. log \in Seq(Units) /\ i \in 1 .. Len(Entries) /\ inode \subseteq 1 .. Len(Entries)
  BY <1>1, LenProperties, CreateAssumption
     DEF IInv, TypeOK, FormatTypeOK, FileTypeOK, Control
<1>7. PICK d \in inode : KeyOf(d) = KeyOf(i)
  BY <1>1 DEF TableInv, Linking, HasKey
<1>8. (KeysTell => Entries[d].ino = Entries[i].ino) /\ HasHdr(log, d)
  BY <1>3, <1>5, <1>6, <1>7 DEF KeysTell, LinksRight
<1>9. \A j \in 1 .. Len(T) : T[j].k = "link" /\ T[j].f = i
  BY <1>4 DEF HeaderLike
<1>10. KeysTell => Resolved(log \o T)
  BY <1>3, <1>6, <1>8, <1>9, ResolvedLink DEF LinksRight
<1>11. HdrsOf(log \o T, Settled) /\ \A e \in Settled : HasHdr(log \o T, e)
  <2>1. \A l \in 1 .. Len(T) : T[l].k # "hdr"
    BY <1>9
  <2> QED BY <1>3, <1>6, <2>1, HdrsLonger DEF LinksRight
<1> QED BY <1>2, <1>3, <1>4, <1>5, <1>10, <1>11 DEF LinksRight

LEMMA AddLinks == IInv /\ TableInv /\ LinkInv /\ AddEntry => LinkInv'
<1> SUFFICES ASSUME IInv, TableInv, LinkInv, AddEntry, faults' = 0, cuts' = 0
             PROVE  LinksRight'
  BY DEF LinkInv
<1>1. faults = 0 /\ cuts = 0 /\ cuts' = cuts /\ remain_header' = remain_header
  BY EntryWrites, CutsBack
<1>2. LinksRight
  BY <1>1 DEF LinkInv
<1>3. PICK T \in Seq(Units) : /\ log' = log \o T
                              /\ HeaderLike(T, "hdr", i, 0, StSize)
                              /\ Len(T) > 0
  BY <1>1, EntryWrites
<1>4. pc = "add" /\ inode' = inode /\ pc' # "add" /\ i \in inode
  <2> DEFINE length == Entry.blocks * Block
             ok == IF failed THEN "exit" ELSE AfterAdd
  <2>1. PICK r \in HeaderResults(length) :
          /\ OnStatus(HeaderStatus(length, r), "add", ok)
          /\ IF HeaderStatus(length, r) = "ok" /\ ~failed /\ AfterAdd = "next"
             THEN Skip
             ELSE UNCHANGED <<i, inode>>
    BY DEF AddEntry
  <2>2. ok # "add"
    BY DEF AfterAdd
  <2> HIDE DEF ok, length
  <2>3. pc' # "add"
    BY <2>1, <2>2, HeaderStatusType, OnStatusCases DEF IInv, TypeOK
  <2>4. inode' = inode
    BY <2>1 DEF Skip
  <2>5. pc = "add" /\ i \in inode
    BY DEF AddEntry, TableInv, AtHand
  <2> QED BY <2>3, <2>4, <2>5
<1>5. Settled = inode \ {i} /\ Settled' = inode
  BY <1>4 DEF Settled
<1>6. log \in Seq(Units)
  BY DEF IInv, TypeOK, FormatTypeOK, FileTypeOK
<1>7. \A j \in 1 .. Len(T) : T[j].k = "hdr" /\ T[j].f = i /\ T[j].o = j - 1
  BY <1>3 DEF HeaderLike
<1>8. \A l \in DOMAIN log : log[l].k = "hdr" => Entries[log[l].f].ino # Entries[i].ino
  <2> SUFFICES ASSUME NEW l \in DOMAIN log, log[l].k = "hdr"
               PROVE  Entries[log[l].f].ino # Entries[i].ino
    OBVIOUS
  <2>1. log[l].f \in inode /\ log[l].f # i
    BY <1>2, <1>5 DEF LinksRight, HdrsOf
  <2> QED BY <1>4, <2>1 DEF TableInv, KeyOf
<1>9. KeysTell => Resolved(log \o T)
  BY <1>2, <1>6, <1>7, <1>8, ResolvedHdr DEF LinksRight
<1>10. HdrsOf(log \o T, inode)
  <2>1. HdrsOf(log, inode)
    BY <1>2, <1>5 DEF LinksRight, HdrsOf
  <2>2. \A l \in 1 .. Len(T) : T[l].k = "hdr" => T[l].f \in inode
    BY <1>4, <1>7
  <2> QED BY <1>6, <2>1, <2>2, HdrsLonger
<1>11. \A e \in inode : HasHdr(log \o T, e)
  <2> SUFFICES ASSUME NEW e \in inode PROVE HasHdr(log \o T, e)
    OBVIOUS
  <2>1. CASE e # i
    BY <1>2, <1>5, <1>6, <2>1, HdrsLonger DEF LinksRight
  <2>2. CASE e = i
    <3> DEFINE u == log \o T
    <3>1. Longer(log, T, u)
      BY <1>6, LongerLog
    <3>2. Len(T) \in Nat /\ 1 \in 1 .. Len(T) /\ T[1].k = "hdr" /\ T[1].f = i /\ T[1].o = 0
      BY <1>3, <1>7, LenProperties
    <3> HIDE DEF u
    <3>3. Len(log) + 1 \in DOMAIN u /\ u[Len(log) + 1] = T[1]
      BY <3>1, <3>2 DEF Longer
    <3>4. HasHdr(u, e)
      BY <2>2, <3>2, <3>3 DEF HasHdr
    <3> QED BY <3>4 DEF u
  <2> QED BY <2>1, <2>2
<1> QED BY <1>1, <1>2, <1>3, <1>5, <1>9, <1>10, <1>11 DEF LinksRight

LEMMA NextEntryLinks == IInv /\ TableInv /\ LinkInv /\ NextEntry => LinkInv'
<1> SUFFICES ASSUME IInv, TableInv, LinkInv, NextEntry, faults' = 0, cuts' = 0
             PROVE  LinksRight'
  BY DEF LinkInv
<1>1. LinksRight /\ pc = "next"
  BY DEF LinkInv, NextEntry, fileVars
<1>2. log' = log /\ remain_header' = remain_header
  BY NothingWritten
<1>3. \/ inode' = inode /\ pc' # "add"
      \/ inode' = inode \cup {i} /\ i' = i /\ pc' = "add"
  BY DEF NextEntry, Skip, loopVars
<1>4. Settled' = Settled
  BY <1>1, <1>3 DEF Settled, TableInv, Unmet
<1> QED BY <1>1, <1>2, <1>4, LinksStill

(* The content is no header. *)
LEMMA ContentLinks ==
  IInv /\ CountInv /\ LinkInv /\ (WriteData \/ WriteRest \/ FinishFile) => LinkInv'
<1> SUFFICES ASSUME IInv, CountInv, LinkInv, WriteData \/ WriteRest \/ FinishFile,
                    faults' = 0, cuts' = 0
             PROVE  LinksRight'
  BY DEF LinkInv
<1>1. CASE WriteData
  <2>1. PICK r \in FormatResults(nb_read) : FormatWrite(Buffer(0, nb_read), r)
    BY <1>1 DEF WriteData
  <2>2. nb_read \in Nat /\ 0 \in Nat
    BY DEF IInv, TypeOK
  <2>3. faults' = faults + r.fault /\ r.fault \in Nat /\ remain_header' = remain_header
    BY <2>1, <2>2, FaultSign DEF FormatWrite, Write
  <2>4. LinksRight
    BY <1>1, <2>3, NoFaults DEF LinkInv, WriteData
  <2>5. PICK T \in Seq(Units) : log' = log \o T /\ DataLike(T, i, roff - nb_read + 0)
    BY <2>1, <2>2, BufferFront
  <2>6. \A j \in 1 .. Len(T) : T[j].k \notin {"hdr", "link"}
    BY <2>5 DEF DataLike
  <2>7. Settled' = Settled /\ remain_header' = <<>>
    BY <1>1, <2>3, <2>4 DEF Settled, WriteData, LinksRight
  <2> QED BY <2>4, <2>5, <2>6, <2>7, LinksMore
<1>2. CASE WriteRest
  <2>1. PICK r \in FormatResults(nb_read - nb_write) :
          FormatWrite(Buffer(nb_write, nb_read - nb_write), r)
    BY <1>2 DEF WriteRest
  <2>2. nb_read \in Nat /\ nb_write \in Nat \cup {-1} /\ nb_write <= nb_read
    BY <1>2 DEF WriteRest, IInv, TypeOK, Counters
  <2>3. nb_read - nb_write \in Nat
    BY <2>2
  <2>4. faults' = faults + r.fault /\ r.fault \in Nat /\ remain_header' = remain_header
    BY <2>1, <2>3, FaultSign DEF FormatWrite, Write
  <2>5. LinksRight
    BY <1>2, <2>4, NoFaults DEF LinkInv, WriteRest
  <2>6. PICK T \in Seq(Units) :
           log' = log \o T /\ DataLike(T, i, roff - nb_read + nb_write)
    <3>1. nb_write \in Nat
      <4>1. faults = 0 /\ InContent
        BY <1>2, <2>4, NoFaults DEF WriteRest, InContent
      <4> QED BY <2>2, <4>1 DEF CountInv, Counted
    <3> QED BY <2>1, <2>3, <3>1, BufferFront
  <2>8. \A j \in 1 .. Len(T) : T[j].k \notin {"hdr", "link"}
    BY <2>6 DEF DataLike
  <2>7. Settled' = Settled /\ remain_header' = <<>>
    BY <1>2, <2>4, <2>5 DEF Settled, WriteRest, LinksRight
  <2> QED BY <2>5, <2>6, <2>7, <2>8, LinksMore
<1>3. CASE FinishFile
  <2>1. PICK r \in EndOfFileResults : EndOfFile(r)
    BY <1>3 DEF FinishFile
  <2>2. r.fault \in Nat
    <3>1. PadLength \in Nat
      BY PadLengthNat DEF IInv, TypeOK, FormatTypeOK
    <3>2. CASE PadLength = 0
      BY <2>1, <3>2 DEF EndOfFileResults
    <3>3. CASE PadLength # 0
      BY <2>1, <3>1, <3>3, FaultSign DEF EndOfFileResults
    <3> QED BY <3>2, <3>3
  <2>3. faults' = faults + r.fault /\ remain_header' = remain_header
    BY <2>1 DEF EndOfFile, Write, formatVars
  <2>4. LinksRight
    BY <1>3, <2>2, <2>3, NoFaults DEF LinkInv, FinishFile
  <2>5. PICK T \in Seq(Units) : log' = log \o T /\ \A j \in 1 .. Len(T) : T[j].k = "pad"
    BY <1>3, PadWrites
  <2>6. \A j \in 1 .. Len(T) : T[j].k \notin {"hdr", "link"}
    BY <2>5
  <2>7. Settled' = Settled /\ remain_header' = <<>>
    BY <1>3, <2>3, <2>4 DEF Settled, FinishFile, Skip, LinksRight
  <2> QED BY <2>4, <2>5, <2>6, <2>7, LinksMore
<1> QED BY <1>1, <1>2, <1>3

LEMMA RestartLinks == IInv /\ LinkInv /\ Restart => LinkInv'
<1> SUFFICES ASSUME IInv, LinkInv, Restart, faults' = 0, cuts' = 0 PROVE LinksRight'
  BY DEF LinkInv
<1>1. PICK r \in WriteResults(Len(RestartUnits(i, RestartAt, StSize))) :
        RestartFile(i, RestartAt, StSize, r)
  BY DEF Restart
<1>2. faults' = faults + r.fault /\ r.fault \in Nat /\ remain_header' = <<>>
  <2>1. Len(RestartUnits(i, RestartAt, StSize)) \in Nat
    BY RestartTypes, LenProperties DEF Restart
  <2>2. r.fault \in Nat
    BY <2>1, FaultSign
  <2> QED BY <1>1, <2>2 DEF RestartFile, Write
<1>3. LinksRight
  BY <1>2, NoFaults DEF LinkInv, Restart, AfterRestart
<1>4. PICK T \in Seq(Units) :
         log' = log \o T /\ HeaderLike(T, "cont", i, RestartAt, StSize - RestartAt)
  BY <1>3, RestartWrites DEF LinksRight
<1>5. \A j \in 1 .. Len(T) : T[j].k \notin {"hdr", "link"}
  BY <1>4 DEF HeaderLike
<1>6. Settled' = Settled
  BY DEF Settled, Restart, AfterRestart
<1> QED BY <1>2, <1>3, <1>4, <1>5, <1>6, LinksMore

LEMMA AsideLinks ==
  IInv /\ LinkInv /\ (NoMoreEntries \/ StatFails \/ ReadData \/ ReadFails \/ RestartIgnored
                      \/ Exit \/ NextVolume \/ PromptEnds \/ PromptQuits \/ BadVolume
                      \/ Resize \/ UNCHANGED vars) => LinkInv'
<1> SUFFICES ASSUME IInv, LinkInv, faults' = 0, cuts' = 0,
                    NoMoreEntries \/ StatFails \/ ReadData \/ ReadFails \/ RestartIgnored
                      \/ Exit \/ NextVolume \/ PromptEnds \/ PromptQuits \/ BadVolume
                      \/ Resize \/ UNCHANGED vars
             PROVE  LinksRight'
  BY DEF LinkInv
<1>1. ~(StatFails \/ ReadFails \/ RestartIgnored)
  <2>1. faults \in Nat
    BY FileAssumption DEF IInv, TypeOK, FormatTypeOK, FileTypeOK
  <2> QED BY <2>1 DEF StatFails, ReadFails, CallFails, RestartIgnored, RestartFails
<1>2. log' = log /\ remain_header' = remain_header
  BY NothingWritten
<1>3. faults' = faults /\ cuts' = cuts /\ inode' = inode
  BY <1>1 DEF NoMoreEntries, ReadData, Exit, Close, NextVolume, NewVolume, NewWriter, PromptEnds,
              PromptQuits, BadVolume, Resize, vars, fileVars, loopVars, Skip
<1>4. LinksRight
  BY <1>3 DEF LinkInv
<1>5. Settled' = Settled
  <2>1. CASE Resize \/ UNCHANGED vars
    BY <2>1 DEF Settled, Resize, vars, loopVars
  <2>2. CASE NextVolume
    <3>1. pc = "prompt" /\ back \in {"label", "link", "add", "enospc", "split"}
      BY <2>2 DEF NextVolume, IInv, TypeOK, Control
    <3>2. pc' # "add"
      BY <2>2, <3>1 DEF NextVolume, AfterAdd
    <3> QED BY <1>3, <3>1, <3>2, SettledStill
  <2>3. CASE PromptEnds
    <3>1. pc = "prompt" /\ back \in {"label", "link", "add", "enospc", "split"}
      BY <2>3 DEF PromptEnds, IInv, TypeOK, Control
    <3>2. pc' # "add"
      BY <2>3, <3>1 DEF PromptEnds
    <3> QED BY <1>3, <3>1, <3>2, SettledStill
  <2>4. CASE NoMoreEntries \/ ReadData \/ Exit \/ PromptQuits \/ BadVolume
    <3>1. pc # "add" /\ pc' # "add"
      BY <2>4 DEF NoMoreEntries, ReadData, Exit, PromptQuits, BadVolume
    <3> QED BY <1>3, <3>1, SettledStill
  <2> QED BY <1>1, <2>1, <2>2, <2>3, <2>4
<1> QED BY <1>2, <1>4, <1>5, LinksStill

LEMMA NextLinks ==
  IInv /\ TableInv /\ CountInv /\ LinkInv /\ [Next]_vars => LinkInv'
  BY LabelLinks, LinkLinks, AddLinks, NextEntryLinks, ContentLinks, RestartLinks, AsideLinks
     DEF Next, Program, Operator, Finished

(* A hard link is to an entry whose header is in front of it, and an inode  *)
(* has one header: the table of create.c:172-199 is filled before the       *)
(* header is written and read before a link is.                             *)
THEOREM LinksFound == ASSUME KeysTell PROVE Spec => []LinksResolve
<1>1. Spec => []IInv
  BY Inductive
<1>2. Spec => []TableInv
  BY TableHolds
<1>3. Spec => []CountInv
  BY CountHolds
<1>4. Spec => []LinkInv
  BY <1>1, <1>2, <1>3, InitLinks, NextLinks, PTL DEF Spec
<1>5. IInv /\ LinkInv => LinksResolve
  <2> SUFFICES ASSUME IInv, LinkInv, cuts = 0, faults = 0, NEW j \in Starts
               PROVE  LET before == {l \in Starts : l < j /\ log[l].k = "hdr" /\
                                       Entries[log[l].f].ino = Entries[log[j].f].ino}
                      IN  /\ log[j].k = "link" => before # {}
                          /\ log[j].k = "hdr" => before = {}
    BY DEF LinksResolve
  <2>1. Resolved(log) /\ j \in DOMAIN log /\ log[j].o = 0
    BY DEF LinkInv, LinksRight, Starts
  <2>2. DOMAIN log = 1 .. Len(log) /\ Len(log) \in Nat
    BY LenProperties DEF IInv, TypeOK, FormatTypeOK, FileTypeOK
  <2>3. HdrsFor(log, j, Entries[log[j].f].ino) =
          {l \in Starts : l < j /\ log[l].k = "hdr" /\
                            Entries[log[l].f].ino = Entries[log[j].f].ino}
    BY <2>1, <2>2 DEF HdrsFor, Starts
  <2> QED BY <2>1, <2>3 DEF Resolved
<1> QED BY <1>1, <1>4, <1>5, PTL

----------------------------------------------------------------------------
(* A run that ends well has written every file. *)

(* The first n units of the content of f are in s. *)
Holds(s, f, n) ==
    \A o \in 0 .. n - 1 : \E l \in DOMAIN s : s[l].k = "data" /\ s[l].f = f /\ s[l].o = o

(* The content of entry e is on the volumes, or goes there no more. *)
Passed(e) == e < i \/ (e = i /\ pc = "eof")

Complete ==
    /\ ~failed
    /\ pc \in {"exit", "done"} => i > Len(Entries)
    /\ InContent => Holds(log, i, Archived)
    /\ \A e \in inode : Entries[e].kind = "reg" /\ Passed(e) => Holds(log, e, size[Entries[e].ino])

CompleteInv == Undisturbed => Complete

(* An inode is of one kind, and nobody leaves the operator without a        *)
(* terminal: a failed change of volume is forgotten at the next one         *)
(* (create.c:223), so that the status of such a run says nothing.           *)
OneKind ==
    \A d, e \in 1 .. Len(Entries) :
        Entries[d].ino = Entries[e].ino => Entries[d].kind = Entries[e].kind

Attended == "eof" \notin Answers

LEMMA HoldsMore ==
  ASSUME NEW s \in Seq(Units), NEW T \in Seq(Units)
  PROVE  /\ \A f, n : Holds(s, f, n) => Holds(s \o T, f, n)
         /\ \A f : \A a \in Nat :
              Holds(s, f, a)
              /\ (\A j \in 1 .. Len(T) : T[j].k = "data" /\ T[j].f = f /\ T[j].o = a + j - 1)
              => Holds(s \o T, f, a + Len(T))
<1> DEFINE u == s \o T
<1>1. Longer(s, T, u)
  BY LongerLog
<1> HIDE DEF u
<1>2. \A f, n : Holds(s, f, n) => Holds(u, f, n)
  BY <1>1 DEF Holds, Longer
<1>3. ASSUME NEW f, NEW a \in Nat, Holds(s, f, a),
             \A j \in 1 .. Len(T) : T[j].k = "data" /\ T[j].f = f /\ T[j].o = a + j - 1
      PROVE  Holds(u, f, a + Len(T))
  <2>1. Len(T) \in Nat
    BY <1>1 DEF Longer
  <2>2. ASSUME NEW o \in 0 .. a + Len(T) - 1
        PROVE  \E l \in DOMAIN u : u[l].k = "data" /\ u[l].f = f /\ u[l].o = o
    <3>1. CASE o < a
      <4>1. o \in 0 .. a - 1
        BY <2>1, <3>1
      <4>2. PICK l \in DOMAIN s : s[l].k = "data" /\ s[l].f = f /\ s[l].o = o
        BY <1>3, <4>1 DEF Holds
      <4>3. l \in DOMAIN u /\ u[l] = s[l]
        BY <1>1 DEF Longer
      <4> QED BY <4>2, <4>3
    <3>2. CASE o >= a
      <4> DEFINE j == o - a + 1
      <4>1. j \in 1 .. Len(T) /\ a + j - 1 = o
        BY <2>1, <3>2
      <4> HIDE DEF j
      <4>2. T[j].k = "data" /\ T[j].f = f /\ T[j].o = o
        BY <1>3, <4>1
      <4>3. Len(s) + j \in DOMAIN u /\ u[Len(s) + j] = T[j]
        BY <1>1, <4>1 DEF Longer
      <4> QED BY <4>2, <4>3
    <3> QED BY <3>1, <3>2, <2>1
  <2> QED BY <2>2 DEF Holds
<1> QED BY <1>2, <1>3 DEF u

(* The program stays at its entry, ... *)
LEMMA CompleteStay ==
  ASSUME Complete, ~failed', size' = size, i' = i, inode' = inode,
         \A f, n : Holds(log, f, n) => Holds(log', f, n),
         pc' \notin {"exit", "done", "eof"}, InContent' => Holds(log', i', Archived')
  PROVE  Complete'
  BY DEF Complete, Passed

(* ... or goes on to the next one. *)
LEMMA CompleteSkip ==
  ASSUME IInv, Complete, ~failed', size' = size, i' = i + 1, inode' = inode, pc' = "next",
         \A f, n : Holds(log, f, n) => Holds(log', f, n),
         i \in inode /\ Entries[i].kind = "reg" => Holds(log', i, size[Entries[i].ino])
  PROVE  Complete'
<1>1. i \in Nat /\ inode \subseteq Nat
  BY LenProperties, CreateAssumption DEF IInv, TypeOK
<1>2. \A e \in inode : e < i' => e < i \/ e = i
  BY <1>1
<1>3. \A e \in inode : Passed(e)' => e < i \/ e = i
  BY <1>2 DEF Passed
<1>4. \A e \in inode : Entries[e].kind = "reg" /\ Passed(e)' => Holds(log', e, size[Entries[e].ino])
  BY <1>3 DEF Complete, Passed
<1>5. ~InContent' /\ pc' \notin {"exit", "done"}
  BY DEF InContent, AtVolumeEnd
<1> QED BY <1>4, <1>5 DEF Complete

(* The content of the file at hand goes on where it ended. *)
LEMMA CompleteContent ==
  ASSUME IInv, Counted, Counted', InContent, InContent', i' = i, Complete,
         NEW T \in Seq(Units), log' = log \o T, NoData(T) \/ DataLike(T, i, Archived)
  PROVE  Holds(log', i', Archived')
<1>1. log \in Seq(Units) /\ Holds(log, i, Archived)
  BY DEF IInv, TypeOK, FormatTypeOK, FileTypeOK, Complete
<1>2. /\ Cardinality(DataOf(log, i)) = Archived
      /\ Cardinality(DataOf(log \o T, i)) = Archived'
  BY DEF Counted
<1>3. CASE NoData(T)
  <2>1. DataOf(log \o T, i) = DataOf(log, i)
    BY <1>1, <1>3, CountOther
  <2>2. Archived' = Archived
    BY <1>2, <2>1
  <2> QED BY <1>1, <2>2, HoldsMore
<1>4. CASE DataLike(T, i, Archived)
  <2>1. \A j \in 1 .. Len(T) : T[j].k = "data" /\ T[j].f = i /\ T[j].o = Archived + j - 1
    BY <1>4 DEF DataLike
  <2>2. Cardinality(DataOf(log \o T, i)) = Cardinality(DataOf(log, i)) + Len(T)
    BY <1>1, <2>1, CountData
  <2>3. Archived' = Archived + Len(T)
    BY <1>2, <2>2
  <2>4. Archived \in Nat
    BY <1>1, <1>2, CountFinite
  <2>5. Holds(log \o T, i, Archived + Len(T))
    <3> DEFINE a == Archived
    <3>1. /\ a \in Nat /\ Holds(log, i, a)
          /\ \A j \in 1 .. Len(T) : T[j].k = "data" /\ T[j].f = i /\ T[j].o = a + j - 1
      BY <1>1, <2>1, <2>4
    <3> HIDE DEF a
    <3>2. Holds(log \o T, i, a + Len(T))
      BY <1>1, <3>1, HoldsMore
    <3> QED BY <3>2 DEF a
  <2> QED BY <2>3, <2>5
<1> QED BY <1>3, <1>4

LEMMA InitComplete == Init => CompleteInv
<1> SUFFICES ASSUME Init PROVE Complete
  BY DEF CompleteInv
<1>1. pc = "label" /\ inode = {} /\ ~failed
  BY DEF Init
<1> QED BY <1>1 DEF Complete, InContent, AtVolumeEnd

(* The log only grows. *)
LEMMA HoldsStill ==
  ASSUME IInv, NEW T \in Seq(Units), log' = log \o T
  PROVE  \A f, n : Holds(log, f, n) => Holds(log', f, n)
<1>1. log \in Seq(Units)
  BY DEF IInv, TypeOK, FormatTypeOK, FileTypeOK
<1> QED BY <1>1, HoldsMore

LEMMA LabelComplete == IInv /\ TableInv /\ CompleteInv /\ StartLabel => CompleteInv'
<1> SUFFICES ASSUME IInv, TableInv, CompleteInv, StartLabel, Undisturbed' PROVE Complete'
  BY DEF CompleteInv
<1>1. /\ i' = i /\ inode' = inode /\ size' = size /\ Undisturbed
      /\ pc' \in {"next", "prompt"} /\ (pc' = "prompt" => back' = "label")
      /\ failed' = failed
  <2>1. i' = i /\ inode' = inode /\ size' = size /\ resizes' = resizes
    BY DEF StartLabel, loopVars, envVars
  <2>2. CASE Label
    <3>1. PICK r \in HeaderResults(Block) :
             AddLabel(r) /\ OnStatus(HeaderStatus(Block, r), "label", "next")
      BY <2>2 DEF StartLabel
    <3>2. faults' = faults + r.fault /\ r.fault \in Nat
      BY <3>1, FaultSign, FileAssumption DEF AddLabel, WriteHeader, Write
    <3>3. Undisturbed /\ r.fault = 0
      BY <2>1, <3>2, StillUndisturbed
    <3>4. HeaderStatus(Block, r) # "error"
      BY <3>3, NoError, FileAssumption
    <3>5. \/ HeaderStatus(Block, r) = "end_of_tape" /\ pc' = "prompt" /\ back' = "label"
          \/ HeaderStatus(Block, r) = "ok" /\ pc' = "next" /\ back' = back
      BY <3>1, <3>4, HeaderStatusType, OnStatusCases DEF IInv, TypeOK
    <3>6. failed' = failed
      BY <3>1, <3>4 DEF OnStatus, IInv, TypeOK
    <3> QED BY <2>1, <3>3, <3>5, <3>6
  <2>3. CASE ~Label
    BY <2>1, <2>3 DEF StartLabel, fileVars, Undisturbed
  <2> QED BY <2>2, <2>3
<1>2. Complete
  BY <1>1 DEF CompleteInv
<1>3. \A f, n : Holds(log, f, n) => Holds(log', f, n)
  BY LabelWrites, HoldsStill
<1>4. ~InContent'
  BY <1>1 DEF InContent, AtVolumeEnd
<1>5. ~failed'
  BY <1>1, <1>2 DEF Complete
<1> QED BY <1>1, <1>2, <1>3, <1>4, <1>5, CompleteStay

LEMMA LinkComplete == IInv /\ TableInv /\ CompleteInv /\ HardLink => CompleteInv'
<1> SUFFICES ASSUME IInv, TableInv, CompleteInv, HardLink, Undisturbed' PROVE Complete'
  BY DEF CompleteInv
<1>1. PICK r \in HeaderResults(Block) :
        /\ AddLink(i, r)
        /\ OnStatus(HeaderStatus(Block, r), "link", "next")
        /\ IF HeaderStatus(Block, r) = "ok" THEN Skip ELSE UNCHANGED loopVars
  BY DEF HardLink
<1>2. pc = "link" /\ size' = size /\ resizes' = resizes
  BY DEF HardLink, envVars
<1>3. faults' = faults + r.fault /\ r.fault \in Nat
  BY <1>1, FaultSign, FileAssumption DEF AddLink, WriteHeader, Write
<1>4. Undisturbed /\ r.fault = 0
  BY <1>2, <1>3, StillUndisturbed
<1>5. Complete
  BY <1>4 DEF CompleteInv
<1>6. HeaderStatus(Block, r) # "error"
  BY <1>4, NoError, FileAssumption
<1>7. ~failed'
  BY <1>1, <1>5, <1>6 DEF OnStatus, Complete
<1>8. \A f, n : Holds(log, f, n) => Holds(log', f, n)
  BY LinkWrites, HoldsStill
<1>9. \/ HeaderStatus(Block, r) = "end_of_tape" /\ pc' = "prompt" /\ back' = "link"
      \/ HeaderStatus(Block, r) = "ok" /\ pc' = "next" /\ back' = back
  BY <1>1, <1>6, HeaderStatusType, OnStatusCases DEF IInv, TypeOK
<1>10. CASE HeaderStatus(Block, r) = "ok"
  <2>1. i' = i + 1 /\ inode' = inode /\ pc' = "next"
    BY <1>1, <1>9, <1>10 DEF Skip
  <2>2. i \notin inode
    BY <1>2 DEF TableInv, Unmet, Linking
  <2> QED BY <1>2, <1>5, <1>7, <1>8, <2>1, <2>2, CompleteSkip
<1>11. CASE HeaderStatus(Block, r) # "ok"
  <2>1. i' = i /\ inode' = inode /\ pc' = "prompt" /\ back' = "link"
    BY <1>1, <1>9, <1>11 DEF loopVars
  <2>2. ~InContent'
    BY <2>1 DEF InContent, AtVolumeEnd
  <2> QED BY <1>2, <1>5, <1>7, <1>8, <2>1, <2>2, CompleteStay
<1> QED BY <1>10, <1>11

LEMMA AddComplete == IInv /\ CompleteInv /\ AddEntry => CompleteInv'
<1> SUFFICES ASSUME IInv, CompleteInv, AddEntry, Undisturbed' PROVE Complete'
  BY DEF CompleteInv
<1> DEFINE length == Entry.blocks * Block
           ok == IF failed THEN "exit" ELSE AfterAdd
<1>1. PICK r \in HeaderResults(length) :
        /\ AddFile(i, Entry.blocks, StSize, r)
        /\ OnStatus(HeaderStatus(length, r), "add", ok)
        /\ IF HeaderStatus(length, r) = "ok" /\ ~failed /\ AfterAdd = "next"
           THEN Skip
           ELSE /\ nb_write' = 0
                /\ total_nb_write' = 0
                /\ UNCHANGED <<i, inode>>
  BY DEF AddEntry
<1>2. length \in Nat /\ size' = size /\ resizes' = resizes
  <2>1. i \in Nat \ {0} /\ i <= Len(Entries)
    BY DEF AddEntry, IInv, TypeOK, Control
  <2>2. i \in 1 .. Len(Entries)
    BY <2>1, LenProperties, CreateAssumption
  <2>3. Entry \in EntryType
    BY <2>2, ElementOfSeq, CreateAssumption DEF Entry
  <2>4. Entry.blocks \in Nat
    BY <2>3 DEF EntryType
  <2> QED BY <2>4, ProductNat, FileAssumption DEF AddEntry, envVars
<1>3. faults' = faults + r.fault /\ r.fault \in Nat
  BY <1>1, <1>2, FaultSign DEF AddFile, WriteHeader, Write
<1>4. Undisturbed /\ r.fault = 0
  BY <1>2, <1>3, StillUndisturbed
<1>5. Complete /\ ~failed
  BY <1>4 DEF CompleteInv, Complete
<1>6. HeaderStatus(length, r) # "error"
  BY <1>2, <1>4, NoError
<1>7. ok = AfterAdd /\ AfterAdd \in {"read", "next"} /\ (AfterAdd = "next" => Entry.kind # "reg")
  BY <1>5 DEF AfterAdd
<1> HIDE DEF ok, length
<1>8. ~failed'
  BY <1>1, <1>5, <1>6 DEF OnStatus
<1>9. \A f, n : Holds(log, f, n) => Holds(log', f, n)
  BY EntryWrites, HoldsStill
<1>10. \/ HeaderStatus(length, r) = "end_of_tape" /\ pc' = "prompt" /\ back' = "add"
       \/ HeaderStatus(length, r) = "ok" /\ pc' = ok /\ back' = back
  BY <1>1, <1>6, HeaderStatusType, OnStatusCases DEF IInv, TypeOK
<1>11. CASE HeaderStatus(length, r) = "ok" /\ AfterAdd = "next"
  <2>1. i' = i + 1 /\ inode' = inode /\ pc' = "next"
    BY <1>1, <1>5, <1>7, <1>10, <1>11 DEF Skip
  <2>2. Entries[i].kind # "reg"
    BY <1>7, <1>11 DEF Entry
  <2> QED BY <1>2, <1>5, <1>8, <1>9, <2>1, <2>2, CompleteSkip
<1>12. CASE ~(HeaderStatus(length, r) = "ok" /\ AfterAdd = "next")
  <2>1. /\ i' = i /\ inode' = inode /\ nb_write' = 0 /\ total_nb_write' = 0
        /\ pc' = "read" \/ (pc' = "prompt" /\ back' = "add")
    BY <1>1, <1>7, <1>10, <1>12
  <2>2. InContent' => Holds(log', i', Archived')
    <3> SUFFICES ASSUME InContent' PROVE Holds(log', i', Archived')
      OBVIOUS
    <3>1. pc' = "read"
      BY <2>1 DEF InContent, AtVolumeEnd
    <3>2. Archived' = 0
      BY <2>1, <3>1 DEF Archived
    <3> QED BY <3>2 DEF Holds
  <2> QED BY <1>2, <1>5, <1>8, <1>9, <2>1, <2>2, CompleteStay
<1> QED BY <1>11, <1>12

LEMMA NextEntryComplete == IInv /\ TableInv /\ CompleteInv /\ NextEntry => CompleteInv'
<1> SUFFICES ASSUME IInv, TableInv, CompleteInv, NextEntry, Undisturbed' PROVE Complete'
  BY DEF CompleteInv
<1>1. /\ pc = "next" /\ size' = size /\ failed' = failed /\ Undisturbed
  BY DEF NextEntry, envVars, fileVars, Undisturbed
<1>2. Complete /\ ~failed'
  BY <1>1 DEF CompleteInv, Complete
<1>3. log' = log
  BY NothingWritten
<1>4. i \notin inode /\ i \in Nat
  BY <1>1 DEF TableInv, Unmet, IInv, TypeOK
<1>5. CASE Skip /\ pc' = "next"
  <2>1. i' = i + 1 /\ inode' = inode
    BY <1>5 DEF Skip
  <2> QED BY <1>1, <1>2, <1>3, <1>4, <1>5, <2>1, CompleteSkip
<1>6. CASE pc' = "link" /\ UNCHANGED loopVars
  <2>1. i' = i /\ inode' = inode
    BY <1>6 DEF loopVars
  <2>2. ~InContent'
    BY <1>6 DEF InContent, AtVolumeEnd
  <2> QED BY <1>1, <1>2, <1>3, <1>6, <2>1, <2>2, CompleteStay
<1>7. CASE inode' = inode \cup {i} /\ pc' = "add" /\ i' = i
  <2>1. ~InContent'
    BY <1>7 DEF InContent, AtVolumeEnd
  <2>2. \A e \in inode' : Passed(e)' => e \in inode /\ Passed(e)
    BY <1>4, <1>7 DEF Passed
  <2> QED BY <1>1, <1>2, <1>3, <1>7, <2>1, <2>2 DEF Complete
<1> QED BY <1>5, <1>6, <1>7 DEF NextEntry

LEMMA NextVolumeComplete ==
  IInv /\ TableInv /\ CountInv /\ CountInv' /\ CompleteInv /\ NextVolume => CompleteInv'
<1> SUFFICES ASSUME IInv, TableInv, CountInv, CountInv', CompleteInv, NextVolume, Undisturbed'
             PROVE  Complete'
  BY DEF CompleteInv
<1>1. /\ pc = "prompt" /\ back' = back /\ size' = size /\ ~failed' /\ Undisturbed
      /\ pc' = CASE back = "label" -> "next"
                 [] back = "link" -> "next"
                 [] back = "add" -> AfterAdd
                 [] back \in {"enospc", "split"} -> "restart"
      /\ IF back = "link" \/ (back = "add" /\ AfterAdd = "next")
         THEN Skip ELSE UNCHANGED loopVars
      /\ back \in {"label", "link", "add", "enospc", "split"}
  BY DEF NextVolume, NewVolume, NewWriter, envVars, Undisturbed, IInv, TypeOK, Control
<1>2. Complete /\ Counted /\ Counted'
  BY <1>1 DEF CompleteInv, CountInv, Undisturbed
<1>3. log' = log
  BY NothingWritten
<1>4. CASE back = "link" \/ (back = "add" /\ AfterAdd = "next")
  <2>1. i' = i + 1 /\ inode' = inode /\ pc' = "next"
    BY <1>1, <1>4 DEF Skip
  <2>2. ~(i \in inode /\ Entries[i].kind = "reg")
    BY <1>1, <1>4 DEF TableInv, Unmet, Linking, AfterAdd, Entry
  <2> QED BY <1>1, <1>2, <1>3, <2>1, <2>2, CompleteSkip
<1>5. CASE ~(back = "link" \/ (back = "add" /\ AfterAdd = "next"))
  <2>1. i' = i /\ inode' = inode /\ nb_write' = nb_write /\ total_nb_write' = total_nb_write
    BY <1>1, <1>5 DEF loopVars
  <2>2. \/ back = "label" /\ pc' = "next"
        \/ back = "add" /\ pc' = "read"
        \/ back \in {"enospc", "split"} /\ pc' = "restart"
    BY <1>1, <1>5 DEF AfterAdd
  <2>3. InContent' => Holds(log', i', Archived')
    <3>1. CASE back = "label" /\ pc' = "next"
      BY <3>1 DEF InContent, AtVolumeEnd
    <3>2. CASE back = "add" /\ pc' = "read"
      <4>1. Archived' = 0
        BY <1>1, <2>1, <3>2 DEF Archived, IInv, Counters
      <4> QED BY <4>1 DEF Holds
    <3>3. CASE back \in {"enospc", "split"} /\ pc' = "restart"
      <4>1. Archived' = Archived /\ InContent
        BY <1>1, <2>1, <3>3 DEF Archived, InContent, AtVolumeEnd
      <4> QED BY <1>2, <1>3, <2>1, <4>1 DEF Complete
    <3> QED BY <2>2, <3>1, <3>2, <3>3
  <2> QED BY <1>1, <1>2, <1>3, <2>1, <2>2, <2>3, CompleteStay
<1> QED BY <1>4, <1>5

LEMMA ReadComplete ==
  IInv /\ CountInv /\ CountInv' /\ CompleteInv /\ ReadData => CompleteInv'
<1> SUFFICES ASSUME IInv, CountInv, CountInv', CompleteInv, ReadData, Undisturbed'
             PROVE  Complete'
  BY DEF CompleteInv
<1> DEFINE left == IF roff < StSize THEN StSize - roff ELSE 0
<1>1. /\ pc = "read" /\ i' = i /\ inode' = inode /\ size' = size /\ failed' = failed
      /\ Undisturbed
      /\ nb_read' = Least(NextPreferedSize, left)
      /\ pc' = IF NextPreferedSize = 0 THEN "prompt"
               ELSE IF nb_read' = 0 THEN "eof" ELSE "write"
  BY DEF ReadData, fileVars, envVars, Undisturbed
<1>2. Complete /\ Counted /\ Counted' /\ ~failed'
  BY <1>1 DEF CompleteInv, CountInv, Undisturbed, Complete
<1>3. log' = log
  BY NothingWritten
<1>4. InContent /\ Holds(log, i, Archived) /\ Archived = total_nb_write /\ roff = total_nb_write
  BY <1>1, <1>2 DEF InContent, Archived, Complete, IInv, Counters
<1>5. CASE pc' # "eof"
  <2>1. pc' \in {"prompt", "write"}
    BY <1>1, <1>5
  <2>2. InContent' => Holds(log', i', Archived')
    <3> SUFFICES ASSUME InContent' PROVE Holds(log', i', Archived')
      OBVIOUS
    <3>1. log \in Seq(Units)
      BY DEF IInv, TypeOK, FormatTypeOK, FileTypeOK
    <3>2. <<>> \in Seq(Units) /\ log' = log \o <<>> /\ NoData(<<>>)
      BY <1>3, <3>1, ConcatEmptySeq DEF NoData
    <3> QED BY <1>1, <1>2, <1>4, <3>2, CompleteContent
  <2> QED BY <1>1, <1>2, <1>3, <2>1, <2>2, CompleteStay
<1>6. CASE pc' = "eof"
  <2>1. NextPreferedSize # 0 /\ Least(NextPreferedSize, left) = 0
    BY <1>1, <1>6
  <2>2. left = 0
    BY <2>1 DEF Least
  <2>3. StSize \in Nat /\ roff \in Nat
    <3>1. i \in 1 .. Len(Entries)
      BY <1>4, LenProperties, CreateAssumption DEF IInv, TypeOK, Control
    <3>2. size \in [Inodes -> Nat] /\ roff \in Nat
      BY DEF IInv, TypeOK
    <3> QED BY <3>1, <3>2, EntryInType
  <2>4. ~(roff < StSize)
    BY <2>2, <2>3
  <2>5. Holds(log, i, StSize)
    <3>1. Holds(log, i, roff) /\ StSize <= roff
      BY <1>4, <2>3, <2>4
    <3>2. \A o \in 0 .. StSize - 1 : o \in 0 .. roff - 1
      BY <2>3, <3>1
    <3> QED BY <3>1, <3>2 DEF Holds
  <2>6. \A e \in inode' : Passed(e)' => Passed(e) \/ e = i
    BY <1>1 DEF Passed
  <2>7. \A e \in inode' : Entries[e].kind = "reg" /\ Passed(e)'
                            => Holds(log', e, size'[Entries[e].ino])
    BY <1>1, <1>2, <1>3, <2>5, <2>6 DEF Complete, StSize, Entry
  <2>8. ~InContent' /\ pc' \notin {"exit", "done"}
    BY <1>6 DEF InContent, AtVolumeEnd
  <2> QED BY <1>2, <2>7, <2>8 DEF Complete
<1> QED BY <1>5, <1>6

LEMMA WriteComplete ==
  IInv /\ CountInv /\ CountInv' /\ CompleteInv /\ WriteData => CompleteInv'
<1> SUFFICES ASSUME IInv, CountInv, CountInv', CompleteInv, WriteData, Undisturbed'
             PROVE  Complete'
  BY DEF CompleteInv
<1>1. PICK r \in FormatResults(nb_read) :
        /\ FormatWrite(Buffer(0, nb_read), r)
        /\ nb_write' = r.n
        /\ failed' = (r.n < 0 /\ r.err # "ENOSPC")
        /\ pc' = IF r.n = nb_read THEN "read" ELSE "prompt"
  BY DEF WriteData
<1>2. /\ pc = "write" /\ i' = i /\ inode' = inode /\ size' = size /\ resizes' = resizes
      /\ nb_read \in Nat /\ total_nb_write \in Nat /\ 0 \in Nat
  BY DEF WriteData, envVars, IInv, TypeOK
<1>3. faults' = faults + r.fault /\ r.fault \in Nat
  BY <1>1, <1>2, FaultSign DEF FormatWrite, Write
<1>4. Undisturbed /\ r.fault = 0
  BY <1>2, <1>3, StillUndisturbed
<1>5. Complete /\ Counted /\ Counted' /\ InContent /\ Archived = total_nb_write
  BY <1>2, <1>4 DEF CompleteInv, CountInv, Undisturbed, InContent, Archived
<1>6. r.n \in 0 .. nb_read
  BY <1>1, <1>2, <1>4, <1>5, WriteGood DEF Counted
<1>7. ~failed'
  <2>1. ~(r.n < 0)
    BY <1>2, <1>6
  <2> QED BY <1>1, <2>1, Zenon
<1>8. PICK T \in Seq(Units) : log' = log \o T /\ DataLike(T, i, roff - nb_read + 0)
  BY <1>1, <1>2, BufferFront
<1>9. roff - nb_read + 0 = Archived
  BY <1>2, <1>5 DEF IInv, Counters
<1>10. InContent' => Holds(log', i', Archived')
  BY <1>2, <1>5, <1>8, <1>9, CompleteContent
<1>11. pc' \notin {"exit", "done", "eof"}
  BY <1>1
<1> QED BY <1>2, <1>5, <1>7, <1>8, <1>10, <1>11, HoldsStill, CompleteStay

LEMMA RestComplete ==
  IInv /\ CountInv /\ CountInv' /\ CompleteInv /\ WriteRest => CompleteInv'
<1> SUFFICES ASSUME IInv, CountInv, CountInv', CompleteInv, WriteRest, Undisturbed'
             PROVE  Complete'
  BY DEF CompleteInv
<1> DEFINE length == nb_read - nb_write
<1>1. PICK r \in FormatResults(length) :
        /\ FormatWrite(Buffer(nb_write, length), r)
        /\ pc' = IF nb_write' < nb_read THEN "prompt" ELSE "read"
  BY DEF WriteRest
<1>2. /\ pc = "rest" /\ i' = i /\ inode' = inode /\ size' = size /\ resizes' = resizes
      /\ failed' = failed /\ nb_read \in Nat /\ nb_write \in Nat \cup {-1}
      /\ total_nb_write \in Nat /\ nb_write <= nb_read
      /\ roff = total_nb_write + nb_read
  BY DEF WriteRest, envVars, IInv, TypeOK, Counters
<1>3. length \in Nat
  BY <1>2
<1>4. faults' = faults + r.fault /\ r.fault \in Nat
  BY <1>1, <1>3, FaultSign DEF FormatWrite, Write
<1>5. Undisturbed /\ r.fault = 0
  BY <1>2, <1>4, StillUndisturbed
<1>6. Complete /\ Counted /\ Counted' /\ InContent
  BY <1>2, <1>5 DEF CompleteInv, CountInv, Undisturbed, InContent
<1>7. nb_write \in Nat
  BY <1>2, <1>6 DEF Counted
<1>8. Archived = total_nb_write + nb_write
  BY <1>2, <1>7 DEF Archived
<1>9. PICK T \in Seq(Units) : log' = log \o T /\ DataLike(T, i, roff - nb_read + nb_write)
  BY <1>1, <1>3, <1>7, BufferFront
<1>10. roff - nb_read + nb_write = Archived
  BY <1>2, <1>7, <1>8
<1>11. InContent' => Holds(log', i', Archived')
  BY <1>2, <1>6, <1>9, <1>10, CompleteContent
<1>12. pc' \notin {"exit", "done", "eof"} /\ ~failed'
  BY <1>1, <1>2, <1>6 DEF Complete
<1> QED BY <1>2, <1>6, <1>9, <1>11, <1>12, HoldsStill, CompleteStay

LEMMA RestartComplete ==
  IInv /\ CountInv /\ CountInv' /\ CompleteInv /\ Restart => CompleteInv'
<1> SUFFICES ASSUME IInv, CountInv, CountInv', CompleteInv, Restart, Undisturbed'
             PROVE  Complete'
  BY DEF CompleteInv
<1>1. PICK r \in WriteResults(Len(RestartUnits(i, RestartAt, StSize))) :
        RestartFile(i, RestartAt, StSize, r)
  BY DEF Restart
<1>2. /\ pc = "restart" /\ i' = i /\ inode' = inode /\ size' = size /\ resizes' = resizes
      /\ failed' = failed /\ pc' \in {"write", "rest", "read"}
  BY DEF Restart, AfterRestart, envVars
<1>3. faults' = faults + r.fault /\ r.fault \in Nat
  <2>1. Len(RestartUnits(i, RestartAt, StSize)) \in Nat
    BY <1>2, RestartTypes, LenProperties
  <2>2. r.fault \in Nat
    BY <2>1, FaultSign
  <2> QED BY <1>1, <2>2 DEF RestartFile, Write
<1>4. Undisturbed
  BY <1>2, <1>3, StillUndisturbed
<1>5. Complete /\ Counted /\ Counted' /\ InContent /\ ~failed'
  BY <1>2, <1>4 DEF CompleteInv, CountInv, Undisturbed, InContent, AtVolumeEnd, IInv, Control,
                    Complete
<1>6. PICK T \in Seq(Units) :
         /\ log' = log \o T
         /\ IF remain_header = <<>>
            THEN HeaderLike(T, "cont", i, RestartAt, StSize - RestartAt)
            ELSE /\ Len(T) <= Len(remain_header)
                 /\ \A j \in 1 .. Len(T) : T[j].k = remain_header[j].k
  BY RestartWrites
<1>7. NoData(T)
  <2>1. DOMAIN T = 1 .. Len(T) /\ Len(T) \in Nat
    BY LenProperties
  <2>2. CASE remain_header = <<>>
    BY <1>6, <2>1, <2>2 DEF HeaderLike, NoData
  <2>3. CASE remain_header # <<>>
    <3>1. /\ DOMAIN remain_header = 1 .. Len(remain_header) /\ Len(remain_header) \in Nat
          /\ NoData(remain_header)
      BY LenProperties DEF IInv, TypeOK, FormatTypeOK, Contents
    <3> QED BY <1>6, <2>1, <2>3, <3>1 DEF NoData
  <2> QED BY <2>2, <2>3
<1>8. InContent' => Holds(log', i', Archived')
  BY <1>2, <1>5, <1>6, <1>7, CompleteContent
<1>9. pc' \notin {"exit", "done", "eof"}
  BY <1>2
<1> QED BY <1>2, <1>5, <1>6, <1>8, <1>9, HoldsStill, CompleteStay

LEMMA FinishComplete == IInv /\ CompleteInv /\ FinishFile => CompleteInv'
<1> SUFFICES ASSUME IInv, CompleteInv, FinishFile, Undisturbed' PROVE Complete'
  BY DEF CompleteInv
<1>1. PICK r \in EndOfFileResults : EndOfFile(r)
  BY DEF FinishFile
<1>2. /\ pc = "eof" /\ i' = i + 1 /\ inode' = inode /\ size' = size /\ resizes' = resizes
      /\ failed' = failed /\ pc' = "next"
  BY DEF FinishFile, Skip, envVars
<1>3. faults' = faults + r.fault /\ r.fault \in Nat
  <2>1. PadLength \in Nat
    BY PadLengthNat DEF IInv, TypeOK, FormatTypeOK
  <2>2. CASE PadLength = 0
    BY <1>1, <2>2 DEF EndOfFileResults, EndOfFile, Write
  <2>3. CASE PadLength # 0
    BY <1>1, <2>1, <2>3, FaultSign DEF EndOfFileResults, EndOfFile, Write
  <2> QED BY <2>2, <2>3
<1>4. Undisturbed
  BY <1>2, <1>3, StillUndisturbed
<1>5. Complete /\ ~failed'
  BY <1>2, <1>4 DEF CompleteInv, Complete
<1>6. \A f, n : Holds(log, f, n) => Holds(log', f, n)
  BY PadWrites, HoldsStill
<1>7. i \in inode /\ Entries[i].kind = "reg" => Holds(log', i, size[Entries[i].ino])
  BY <1>2, <1>5, <1>6 DEF Complete, Passed
<1> QED BY <1>2, <1>5, <1>6, <1>7, CompleteSkip

LEMMA AsideComplete ==
  ASSUME Attended
  PROVE  IInv /\ CompleteInv /\ (NoMoreEntries \/ StatFails \/ ReadFails \/ RestartIgnored
                                 \/ Exit \/ PromptEnds \/ PromptQuits \/ BadVolume
                                 \/ Resize \/ UNCHANGED vars) => CompleteInv'
<1> SUFFICES ASSUME IInv, CompleteInv, Undisturbed',
                    NoMoreEntries \/ StatFails \/ ReadFails \/ RestartIgnored
                      \/ Exit \/ PromptEnds \/ PromptQuits \/ BadVolume
                      \/ Resize \/ UNCHANGED vars
             PROVE  Complete'
  BY DEF CompleteInv
<1>1. ~(StatFails \/ ReadFails \/ RestartIgnored \/ Resize \/ PromptEnds)
  <2>1. faults \in Nat /\ resizes \in Nat
    BY FileAssumption, CreateAssumption DEF IInv, TypeOK, FormatTypeOK, FileTypeOK
  <2> QED BY <2>1 DEF StatFails, ReadFails, CallFails, RestartIgnored, RestartFails, Resize,
                      PromptEnds, Attended, Undisturbed
<1>2. log' = log
  BY NothingWritten
<1>3. /\ i' = i /\ inode' = inode /\ size' = size /\ failed' = failed
      /\ faults' = faults /\ resizes' = resizes
  BY <1>1 DEF NoMoreEntries, Exit, Close, PromptQuits, BadVolume, vars, fileVars, loopVars,
              envVars
<1>4. Complete
  BY <1>3 DEF CompleteInv, Undisturbed
<1>5. CASE NoMoreEntries
  <2>1. pc' = "exit" /\ i' > Len(Entries) /\ ~InContent'
    BY <1>5, <1>3 DEF NoMoreEntries, InContent, AtVolumeEnd
  <2> QED BY <1>2, <1>3, <1>4, <2>1 DEF Complete, Passed
<1>6. CASE Exit
  <2>1. pc = "exit" /\ pc' \in {"done", "crashed"} /\ ~InContent'
    BY <1>6 DEF Exit, InContent, AtVolumeEnd
  <2> QED BY <1>2, <1>3, <1>4, <2>1 DEF Complete, Passed
<1>7. CASE PromptQuits \/ BadVolume
  <2>1. pc' \in {"aborted", "crashed"}
    BY <1>7 DEF PromptQuits, BadVolume
  <2>2. ~InContent'
    BY <2>1 DEF InContent, AtVolumeEnd
  <2> QED BY <1>2, <1>3, <1>4, <2>1, <2>2 DEF Complete, Passed
<1>8. CASE UNCHANGED vars
  <2>1. /\ pc' = pc /\ back' = back /\ nb_write' = nb_write
        /\ total_nb_write' = total_nb_write
    BY <1>8 DEF vars, loopVars
  <2>2. InContent' = InContent /\ Archived' = Archived
    BY <2>1 DEF InContent, AtVolumeEnd, Archived
  <2> QED BY <1>2, <1>3, <1>4, <2>1, <2>2 DEF Complete, Passed
<1> QED BY <1>1, <1>5, <1>6, <1>7, <1>8

LEMMA NextComplete ==
  ASSUME Attended
  PROVE  IInv /\ TableInv /\ CountInv /\ CountInv' /\ CompleteInv /\ [Next]_vars => CompleteInv'
  BY LabelComplete, LinkComplete, AddComplete, NextEntryComplete, NextVolumeComplete,
     ReadComplete, WriteComplete, RestComplete, RestartComplete, FinishComplete, AsideComplete
     DEF Next, Program, Operator, Finished

(* A run that ends with status 0 has put the whole content of every regular *)
(* file on the volumes, however often the volume ended in the middle of one *)
(* (create.c:236-301): as long as no call fails, no file changes and the    *)
(* operator stays at the terminal.                                          *)
THEOREM ExitWhole ==
  ASSUME KeysTell, OneKind, Attended PROVE Spec => []ExitComplete
<1>1. Spec => []IInv
  BY Inductive
<1>2. Spec => []TableInv
  BY TableHolds
<1>3. Spec => []CountInv
  BY CountHolds
<1>4. Spec => []CompleteInv
  BY <1>1, <1>2, <1>3, InitComplete, NextComplete, PTL DEF Spec
<1>5. IInv /\ TableInv /\ CompleteInv => ExitComplete
  <2> SUFFICES ASSUME IInv, TableInv, CompleteInv, pc = "done", ~failed, Undisturbed,
                      NEW e \in 1 .. Len(Entries), Entries[e].kind = "reg",
                      NEW o \in 0 .. size[Entries[e].ino] - 1
               PROVE  \E j \in DOMAIN log : /\ IsData(j)
                                            /\ log[j].o = o
                                            /\ Entries[log[j].f].ino = Entries[e].ino
    BY DEF ExitComplete
  <2>1. Complete /\ i > Len(Entries) /\ i \in Nat /\ Len(Entries) \in Nat
    BY LenProperties, CreateAssumption DEF CompleteInv, Complete, IInv, TypeOK
  <2>2. HasKey(e)
    BY <2>1 DEF TableInv
  <2>3. PICK d \in inode : KeyOf(d) = KeyOf(e)
    BY <2>2 DEF HasKey
  <2>4. d \in 1 .. Len(Entries) /\ d < i
    BY <2>1 DEF IInv, TypeOK
  <2>5. Entries[d].ino = Entries[e].ino /\ Entries[d].kind = "reg"
    BY <2>3, <2>4 DEF KeysTell, OneKind
  <2>6. Holds(log, d, size[Entries[d].ino])
    BY <2>1, <2>4, <2>5 DEF Complete, Passed
  <2>7. PICK j \in DOMAIN log : log[j].k = "data" /\ log[j].f = d /\ log[j].o = o
    BY <2>5, <2>6 DEF Holds
  <2> QED BY <2>5, <2>7 DEF IsData
<1> QED BY <1>1, <1>2, <1>4, <1>5, PTL

----------------------------------------------------------------------------
(* The chain of the headers. *)

IsHead(u) == u.k \in {"hdr", "cont", "link", "label"} /\ u.o = 0
HeadLength(u) == IF u.k = "hdr" THEN Entries[u.f].blocks * Block ELSE Block
Ending(s, j) == j + HeadLength(s[j]) + RoundUp(s[j].s)

(* A volume begins with a header; the next one is where this one's size     *)
(* says; and the data between them is what this one announces.              *)
Chained(s) ==
    /\ \A j \in DOMAIN s : j = 1 \/ s[j].v # s[j - 1].v => IsHead(s[j])
    /\ \A j \in DOMAIN s : IsHead(s[j]) =>
         /\ s[j].s \in Nat /\ HeadLength(s[j]) \in Nat \ {0}
         /\ \A l \in DOMAIN s : l > j /\ s[l].v = s[j].v =>
              /\ l < Ending(s, j) => ~IsHead(s[l])
              /\ l = Ending(s, j) => IsHead(s[l])
              /\ l < Ending(s, j) /\ s[l].k = "data" =>
                   s[l].f = s[j].f /\ s[l].o = s[j].p + l - j - HeadLength(s[j])

(* Padding fills the last block. *)
LEMMA RoundPad ==
  ASSUME NEW s \in Nat
  PROVE  /\ RoundUp(s) = s + ((Block - (s % Block)) % Block)
         /\ RoundUp(s) \in Nat /\ s <= RoundUp(s)
<1> DEFINE B == Block
           m == s % B
           q == s \div B
<1>1. B \in Nat \ {0}
  BY FileAssumption
<1>2. RoundUp(s) = ((s + B - 1) \div B) * B
  BY DEF RoundUp
<1> HIDE DEF B
<1>3. m \in 0 .. B - 1 /\ q \in Nat /\ s = q * B + m
  BY <1>1
<1> HIDE DEF m, q
<1>4. CASE m = 0
  <2>1. (s + B - 1) \div B = q
    <3>1. s + B - 1 = q * B + (B - 1)
      BY <1>1, <1>3, <1>4
    <3> QED BY <1>1, <1>3, <3>1
  <2>2. (B - m) % B = 0
    BY <1>1, <1>4
  <2> QED BY <1>1, <1>2, <1>3, <1>4, <2>1, <2>2 DEF m, B
<1>5. CASE m > 0
  <2>1. (s + B - 1) \div B = q + 1
    <3>1. s + B - 1 = (q + 1) * B + (m - 1)
      BY <1>1, <1>3
    <3> QED BY <1>1, <1>3, <1>5, <3>1
  <2>2. (B - m) % B = B - m
    BY <1>1, <1>3, <1>5
  <2> QED BY <1>1, <1>2, <1>3, <1>5, <2>1, <2>2 DEF m, B
<1> QED BY <1>3, <1>4, <1>5

LEMMA EndingBehind ==
  ASSUME NEW s, NEW j \in Nat, s[j].s \in Nat, HeadLength(s[j]) \in Nat \ {0}
  PROVE  Ending(s, j) \in Nat /\ Ending(s, j) >= j + HeadLength(s[j]) + s[j].s
  BY RoundPad DEF Ending

(* Units behind the log do not move what is in it. *)
LEMMA ChainedFront ==
  ASSUME NEW s \in Seq(Units), NEW T \in Seq(Units), Chained(s)
  PROVE  LET u == s \o T
         IN  /\ \A j \in 1 .. Len(s) : u[j] = s[j] /\ Ending(u, j) = Ending(s, j)
             /\ \A j \in 1 .. Len(s) : j = 1 \/ u[j].v # u[j - 1].v => IsHead(u[j])
             /\ \A j \in 1 .. Len(s) : IsHead(u[j]) =>
                  /\ u[j].s \in Nat /\ HeadLength(u[j]) \in Nat \ {0}
                  /\ \A l \in 1 .. Len(s) : l > j /\ u[l].v = u[j].v =>
                       /\ l < Ending(u, j) => ~IsHead(u[l])
                       /\ l = Ending(u, j) => IsHead(u[l])
                       /\ l < Ending(u, j) /\ u[l].k = "data" =>
                            u[l].f = u[j].f /\ u[l].o = u[j].p + l - j - HeadLength(u[j])
<1> DEFINE u == s \o T
<1>1. Longer(s, T, u)
  BY LongerLog
<1> HIDE DEF u
<1>2. \A j \in 1 .. Len(s) : u[j] = s[j] /\ Ending(u, j) = Ending(s, j)
  BY <1>1 DEF Longer, Ending
<1>3. \A j \in 1 .. Len(s) : j = 1 \/ u[j].v # u[j - 1].v => IsHead(u[j])
  <2> SUFFICES ASSUME NEW j \in 1 .. Len(s), j = 1 \/ u[j].v # u[j - 1].v PROVE IsHead(u[j])
    OBVIOUS
  <2>1. j \in DOMAIN s /\ u[j] = s[j] /\ (j = 1 \/ u[j - 1] = s[j - 1])
    BY <1>1, <1>2 DEF Longer
  <2> QED BY <2>1 DEF Chained
<1>4. \A j \in 1 .. Len(s) : IsHead(u[j]) =>
        /\ u[j].s \in Nat /\ HeadLength(u[j]) \in Nat \ {0}
        /\ \A l \in 1 .. Len(s) : l > j /\ u[l].v = u[j].v =>
             /\ l < Ending(u, j) => ~IsHead(u[l])
             /\ l = Ending(u, j) => IsHead(u[l])
             /\ l < Ending(u, j) /\ u[l].k = "data" =>
                  u[l].f = u[j].f /\ u[l].o = u[j].p + l - j - HeadLength(u[j])
  <2>1. DOMAIN s = 1 .. Len(s)
    BY <1>1 DEF Longer
  <2> QED BY <1>2, <2>1 DEF Chained
<1> QED BY <1>2, <1>3, <1>4 DEF u

(* A whole header on volume v, where the one in front of it ends. *)
LEMMA ChainedHeader ==
  ASSUME NEW s \in Seq(Units), NEW T \in Seq(Units), NEW v, Chained(s), Len(T) > 0,
         \A j \in 1 .. Len(T) : /\ T[j].v = v /\ T[j].k # "data"
                                /\ (IsHead(T[j]) <=> j = 1),
         T[1].s \in Nat, HeadLength(T[1]) = Len(T),
         \A j \in DOMAIN s : IsHead(s[j]) /\ s[j].v = v => Ending(s, j) <= Len(s) + 1
  PROVE  Chained(s \o T)
<1> DEFINE u == s \o T
<1>1. Longer(s, T, u)
  BY LongerLog
<1>2. /\ \A j \in 1 .. Len(s) : u[j] = s[j] /\ Ending(u, j) = Ending(s, j)
      /\ \A j \in 1 .. Len(s) : j = 1 \/ u[j].v # u[j - 1].v => IsHead(u[j])
      /\ \A j \in 1 .. Len(s) : IsHead(u[j]) =>
           /\ u[j].s \in Nat /\ HeadLength(u[j]) \in Nat \ {0}
           /\ \A l \in 1 .. Len(s) : l > j /\ u[l].v = u[j].v =>
                /\ l < Ending(u, j) => ~IsHead(u[l])
                /\ l = Ending(u, j) => IsHead(u[l])
                /\ l < Ending(u, j) /\ u[l].k = "data" =>
                     u[l].f = u[j].f /\ u[l].o = u[j].p + l - j - HeadLength(u[j])
  BY ChainedFront
<1> HIDE DEF u
<1>3. /\ Len(s) \in Nat /\ Len(T) \in Nat \ {0} /\ DOMAIN s = 1 .. Len(s)
      /\ DOMAIN u = 1 .. Len(s) + Len(T)
  BY <1>1 DEF Longer
<1>4. \A j \in DOMAIN u : j \in 1 .. Len(s) \/ j \in Len(s) + 1 .. Len(s) + Len(T)
  BY <1>3
<1>5. \A l \in Len(s) + 1 .. Len(s) + Len(T) :
        /\ u[l].v = v /\ u[l].k # "data" /\ (IsHead(u[l]) <=> l = Len(s) + 1)
  <2> SUFFICES ASSUME NEW l \in Len(s) + 1 .. Len(s) + Len(T)
               PROVE  u[l].v = v /\ u[l].k # "data" /\ (IsHead(u[l]) <=> l = Len(s) + 1)
    OBVIOUS
  <2>1. l - Len(s) \in 1 .. Len(T) /\ (l - Len(s) = 1 <=> l = Len(s) + 1)
    BY <1>3
  <2>2. u[l] = T[l - Len(s)]
    BY <1>1 DEF Longer
  <2> QED BY <2>1, <2>2
<1>6. \A j \in DOMAIN u : j = 1 \/ u[j].v # u[j - 1].v => IsHead(u[j])
  <2> SUFFICES ASSUME NEW j \in DOMAIN u, j = 1 \/ u[j].v # u[j - 1].v,
                      j \in Len(s) + 1 .. Len(s) + Len(T)
               PROVE  IsHead(u[j])
    BY <1>2, <1>4
  <2>1. CASE j = Len(s) + 1
    BY <1>5, <2>1
  <2>2. CASE j # Len(s) + 1
    <3>1. j - 1 \in Len(s) + 1 .. Len(s) + Len(T) /\ j # 1
      BY <1>3, <2>2
    <3>2. u[j].v = u[j - 1].v
      BY <1>5, <3>1
    <3> QED BY <3>1, <3>2
  <2> QED BY <2>1, <2>2
<1>7. ASSUME NEW j \in DOMAIN u, IsHead(u[j])
      PROVE  /\ u[j].s \in Nat /\ HeadLength(u[j]) \in Nat \ {0}
             /\ \A l \in DOMAIN u : l > j /\ u[l].v = u[j].v =>
                  /\ l < Ending(u, j) => ~IsHead(u[l])
                  /\ l = Ending(u, j) => IsHead(u[l])
                  /\ l < Ending(u, j) /\ u[l].k = "data" =>
                       u[l].f = u[j].f /\ u[l].o = u[j].p + l - j - HeadLength(u[j])
  <2>1. CASE j \in 1 .. Len(s)
    <3> SUFFICES ASSUME NEW l \in Len(s) + 1 .. Len(s) + Len(T), l > j, u[l].v = u[j].v
                 PROVE  /\ l < Ending(u, j) => ~IsHead(u[l])
                        /\ l = Ending(u, j) => IsHead(u[l])
                        /\ l < Ending(u, j) /\ u[l].k = "data" =>
                             u[l].f = u[j].f /\ u[l].o = u[j].p + l - j - HeadLength(u[j])
      BY <1>2, <1>4, <1>7, <2>1
    <3>1. u[j].v = v
      BY <1>5
    <3>2. Ending(u, j) <= Len(s) + 1
      BY <1>2, <1>3, <1>7, <2>1, <3>1
    <3>3. u[j].s \in Nat /\ HeadLength(u[j]) \in Nat \ {0} /\ j \in Nat
      BY <1>2, <1>7, <2>1
    <3>4. Ending(u, j) \in Nat
      BY <3>3, EndingBehind
    <3>5. ~(l < Ending(u, j)) /\ (l = Ending(u, j) => l = Len(s) + 1)
      BY <1>3, <3>2, <3>4
    <3> QED BY <1>5, <3>5
  <2>2. CASE j \in Len(s) + 1 .. Len(s) + Len(T)
    <3>1. j = Len(s) + 1
      BY <1>5, <1>7, <2>2
    <3>2. 1 \in 1 .. Len(T)
      BY <1>3
    <3>3. u[Len(s) + 1] = T[1]
      BY <1>1, <3>2 DEF Longer
    <3>4. u[j].s \in Nat /\ HeadLength(u[j]) = Len(T)
      BY <3>1, <3>3
    <3>5. Ending(u, j) \in Nat /\ Ending(u, j) >= j + Len(T) + u[j].s
      <4>1. HeadLength(u[j]) \in Nat \ {0} /\ j \in Nat
        BY <1>3, <3>1, <3>4
      <4>2. Ending(u, j) \in Nat /\ Ending(u, j) >= j + HeadLength(u[j]) + u[j].s
        BY <3>4, <4>1, EndingBehind
      <4> QED BY <3>4, <4>2
    <3>6. \A l \in DOMAIN u : l > j => l < Ending(u, j) /\ l \in Len(s) + 1 .. Len(s) + Len(T)
                                         /\ l # Len(s) + 1
      BY <1>3, <3>1, <3>4, <3>5
    <3>7. \A l \in DOMAIN u : l > j => l # Ending(u, j) /\ ~IsHead(u[l]) /\ u[l].k # "data"
      BY <1>3, <1>5, <3>5, <3>6
    <3> QED BY <1>3, <3>4, <3>7
  <2> QED BY <1>4, <2>1, <2>2
<1>8. Chained(u)
  BY <1>6, <1>7 DEF Chained
<1> QED BY <1>8 DEF u

(* Content or padding on volume v, behind the header at h and not past what *)
(* it announces.                                                            *)
LEMMA ChainedBody ==
  ASSUME NEW s \in Seq(Units), NEW T \in Seq(Units), NEW v, NEW h \in DOMAIN s, Chained(s),
         IsHead(s[h]), Len(T) > 0 => s[Len(s)].v = v,
         \A j \in DOMAIN s : IsHead(s[j]) /\ s[j].v = v /\ j # h => Ending(s, j) <= Len(s),
         Len(s) + Len(T) < Ending(s, h),
         \A j \in 1 .. Len(T) :
            /\ T[j].v = v /\ ~IsHead(T[j])
            /\ T[j].k = "data" => /\ T[j].f = s[h].f
                                  /\ T[j].o = s[h].p + (Len(s) + j) - h - HeadLength(s[h])
  PROVE  Chained(s \o T)
<1> DEFINE u == s \o T
<1>1. Longer(s, T, u)
  BY LongerLog
<1>2. /\ \A j \in 1 .. Len(s) : u[j] = s[j] /\ Ending(u, j) = Ending(s, j)
      /\ \A j \in 1 .. Len(s) : j = 1 \/ u[j].v # u[j - 1].v => IsHead(u[j])
      /\ \A j \in 1 .. Len(s) : IsHead(u[j]) =>
           /\ u[j].s \in Nat /\ HeadLength(u[j]) \in Nat \ {0}
           /\ \A l \in 1 .. Len(s) : l > j /\ u[l].v = u[j].v =>
                /\ l < Ending(u, j) => ~IsHead(u[l])
                /\ l = Ending(u, j) => IsHead(u[l])
                /\ l < Ending(u, j) /\ u[l].k = "data" =>
                     u[l].f = u[j].f /\ u[l].o = u[j].p + l - j - HeadLength(u[j])
  BY ChainedFront
<1> HIDE DEF u
<1>3. /\ Len(s) \in Nat /\ Len(T) \in Nat /\ DOMAIN s = 1 .. Len(s)
      /\ DOMAIN u = 1 .. Len(s) + Len(T)
  BY <1>1 DEF Longer
<1>4. \A j \in DOMAIN u : j \in 1 .. Len(s) \/ j \in Len(s) + 1 .. Len(s) + Len(T)
  BY <1>3
<1>5. \A l \in Len(s) + 1 .. Len(s) + Len(T) :
        /\ u[l].v = v /\ ~IsHead(u[l])
        /\ u[l].k = "data" => /\ u[l].f = s[h].f
                              /\ u[l].o = s[h].p + l - h - HeadLength(s[h])
  <2> SUFFICES ASSUME NEW l \in Len(s) + 1 .. Len(s) + Len(T)
               PROVE  /\ u[l].v = v /\ ~IsHead(u[l])
                      /\ u[l].k = "data" => /\ u[l].f = s[h].f
                                            /\ u[l].o = s[h].p + l - h - HeadLength(s[h])
    OBVIOUS
  <2> DEFINE j == l - Len(s)
  <2>1. j \in 1 .. Len(T) /\ Len(s) + j = l
    BY <1>3
  <2>2. u[l] = T[j]
    BY <1>1 DEF Longer
  <2> HIDE DEF j
  <2>3. /\ T[j].v = v /\ ~IsHead(T[j])
        /\ T[j].k = "data" => /\ T[j].f = s[h].f
                              /\ T[j].o = s[h].p + (Len(s) + j) - h - HeadLength(s[h])
    BY <2>1
  <2>4. T[j].k = "data" => T[j].f = s[h].f /\ T[j].o = s[h].p + l - h - HeadLength(s[h])
    BY <2>1, <2>3, Zenon
  <2> QED BY <2>2, <2>3, <2>4, Zenon
<1>6. \A j \in DOMAIN u : j = 1 \/ u[j].v # u[j - 1].v => IsHead(u[j])
  <2> SUFFICES ASSUME NEW j \in Len(s) + 1 .. Len(s) + Len(T)
               PROVE  j # 1 /\ u[j].v = u[j - 1].v
    BY <1>2, <1>4
  <2>1. j # 1 /\ Len(T) > 0 /\ (j - 1 = Len(s) \/ j - 1 \in Len(s) + 1 .. Len(s) + Len(T))
        /\ Len(s) \in 1 .. Len(s)
    BY <1>3
  <2>2. u[j - 1].v = v
    BY <1>2, <1>5, <2>1
  <2> QED BY <1>5, <2>1, <2>2
<1>7. ASSUME NEW j \in DOMAIN u, IsHead(u[j])
      PROVE  /\ u[j].s \in Nat /\ HeadLength(u[j]) \in Nat \ {0}
             /\ \A l \in DOMAIN u : l > j /\ u[l].v = u[j].v =>
                  /\ l < Ending(u, j) => ~IsHead(u[l])
                  /\ l = Ending(u, j) => IsHead(u[l])
                  /\ l < Ending(u, j) /\ u[l].k = "data" =>
                       u[l].f = u[j].f /\ u[l].o = u[j].p + l - j - HeadLength(u[j])
  <2>1. j \in 1 .. Len(s)
    BY <1>4, <1>5, <1>7
  <2> SUFFICES ASSUME NEW l \in Len(s) + 1 .. Len(s) + Len(T), l > j, u[l].v = u[j].v
               PROVE  /\ l < Ending(u, j) => ~IsHead(u[l])
                      /\ l = Ending(u, j) => IsHead(u[l])
                      /\ l < Ending(u, j) /\ u[l].k = "data" =>
                           u[l].f = u[j].f /\ u[l].o = u[j].p + l - j - HeadLength(u[j])
    BY <1>2, <1>4, <1>7, <2>1
  <2>2. u[j].v = v /\ u[j] = s[j] /\ Ending(u, j) = Ending(s, j)
    BY <1>2, <1>5, <2>1
  <2>3. u[j].s \in Nat /\ HeadLength(u[j]) \in Nat \ {0} /\ j \in Nat
    BY <1>2, <1>7, <2>1
  <2>4. Ending(u, j) \in Nat
    BY <2>3, EndingBehind
  <2>5. CASE j = h
    <3>1. l < Ending(u, j) /\ l # Ending(u, j)
      BY <1>3, <2>2, <2>4, <2>5
    <3> QED BY <1>5, <2>2, <2>5, <3>1
  <2>6. CASE j # h
    <3>1. Ending(u, j) <= Len(s)
      BY <1>3, <1>7, <2>1, <2>2, <2>6
    <3>2. ~(l < Ending(u, j)) /\ l # Ending(u, j)
      BY <1>3, <2>4, <3>1
    <3> QED BY <3>2
  <2> QED BY <2>5, <2>6
<1>8. Chained(u)
  BY <1>6, <1>7 DEF Chained
<1> QED BY <1>8 DEF u

----------------------------------------------------------------------------
(* Where the writer is in the chain. *)

Full == VolumeSize > 0 /\ position = VolumeSize

(* The end of the log is the volume that is open, `position' units of it. *)
OnVolume ==
    /\ position <= Len(log)
    /\ \A l \in DOMAIN log : /\ l > Len(log) - position => log[l].v = volume
                             /\ l <= Len(log) - position => log[l].v < volume

(* The headers on this volume, but for the one at h, announce nothing that  *)
(* lies behind e.                                                           *)
EndBy(s, v, h, e) ==
    \A j \in DOMAIN s : IsHead(s[j]) /\ s[j].v = v /\ j # h => Ending(s, j) <= e

(* The header at h is that of the file at hand: what is archived of the     *)
(* file and what the format writer has counted are behind it.               *)
Opened(h) ==
    /\ IsHead(log[h]) /\ log[h].v = volume /\ log[h].f = i
    /\ h + HeadLength(log[h]) + format_position = Len(log) + 1
    /\ log[h].p + format_position = Archived
    /\ log[h].p + log[h].s = StSize
    /\ EndBy(log, volume, h, Len(log))

Closed == EndBy(log, volume, 0, Len(log) + 1)

Aligned(n) == \E q \in Nat : n = q * Block

Between == pc \in {"label", "next", "link", "add"}

(* As long as no header has been cut: the archive so far is a chain and     *)
(* what comes next continues it, unless the operator gave no volume for     *)
(* what was announced.                                                      *)
Arranged ==
    /\ remain_header = <<>>
    /\ Chained(log)
    /\ OnVolume
    /\ pc = "prompt" => back = "split"
    /\ pc = "restart" => position = 0
    /\ pc \in {"read", "write", "rest", "prompt"} => \E h \in DOMAIN log : Opened(h)
    /\ pc = "eof" =>
         (failed /\ Full) \/ \E h \in DOMAIN log : Opened(h) /\ format_position = log[h].s
    /\ Between => ((failed /\ Full) \/ Closed) /\ Aligned(position)
    /\ pc \in {"exit", "done"} => failed \/ Closed
    /\ pc \in {"read", "write", "rest", "prompt", "eof"} => Aligned(position - format_position)

ArrangedInv == Undisturbed /\ cuts = 0 => Arranged

LEMMA InitArranged == Init => ArrangedInv
<1> SUFFICES ASSUME Init PROVE Arranged
  BY DEF ArrangedInv
<1>1. pc = "label" /\ log = <<>> /\ DOMAIN log = {} /\ Len(log) = 0 /\ position = 0
      /\ remain_header = <<>>
  BY DEF Init, FileInit, FormatInit
<1>2. Chained(log) /\ OnVolume /\ Closed
  BY <1>1 DEF Chained, OnVolume, Closed, EndBy
<1>3. Aligned(position)
  <2>1. 0 = 0 * Block
    BY FileAssumption
  <2> QED BY <1>1, <2>1 DEF Aligned
<1> QED BY <1>1, <1>2, <1>3 DEF Arranged, Between

(* A volume is a whole number of blocks, and holds one at least. *)
LEMMA VolumeBlocks ==
  ASSUME VolumeSize > 0
  PROVE  Aligned(VolumeSize) /\ VolumeSize > Block
<1> DEFINE B == Block
           V == VolumeSize
           q == V \div (2 * B)
<1>1. B \in Nat \ {0} /\ V \in Nat \ {0} /\ V % (2 * B) = 0
  BY FileAssumption
<1> HIDE DEF B, V
<1>2. q \in Nat /\ V = q * (2 * B)
  BY <1>1
<1> HIDE DEF q
<1>3. q # 0
  BY <1>1, <1>2
<1>4. V = (2 * q) * B /\ 2 * q \in Nat
  BY <1>1, <1>2
<1>5. V > B
  BY <1>1, <1>2, <1>3
<1>6. \E p \in Nat : V = p * B
  BY <1>4, Zenon
<1> QED BY <1>5, <1>6 DEF Aligned, V, B

LEMMA AlignedMore ==
  ASSUME NEW n \in Int, NEW q \in Nat, Aligned(n)
  PROVE  Aligned(n + q * Block)
<1>1. PICK p \in Nat : n = p * Block
  BY DEF Aligned
<1>2. n + q * Block = (p + q) * Block /\ p + q \in Nat
  BY <1>1, FileAssumption
<1> QED BY <1>2, Zenon DEF Aligned

LEMMA OnVolumeMore ==
  ASSUME IInv, OnVolume, NEW T \in Seq(Units), log' = log \o T, volume' = volume,
         position' = position + Len(T), \A j \in 1 .. Len(T) : T[j].v = volume
  PROVE  OnVolume'
<1>1. Longer(log, T, log \o T) /\ position \in Nat
  BY LongerLog DEF IInv, TypeOK, FormatTypeOK, FileTypeOK
<1>2. /\ Len(log) \in Nat /\ Len(T) \in Nat /\ DOMAIN log = 1 .. Len(log)
      /\ DOMAIN log' = 1 .. Len(log) + Len(T)
  BY <1>1 DEF Longer
<1>3. Len(log') = Len(log) + Len(T)
  BY <1>2, LenProperties, ConcatProperties DEF IInv, TypeOK, FormatTypeOK, FileTypeOK
<1>4. \A l \in 1 .. Len(log) : log'[l] = log[l]
  BY <1>1 DEF Longer
<1>5. \A l \in Len(log) + 1 .. Len(log) + Len(T) : log'[l].v = volume
  <2> SUFFICES ASSUME NEW l \in Len(log) + 1 .. Len(log) + Len(T) PROVE log'[l].v = volume
    OBVIOUS
  <2>1. l - Len(log) \in 1 .. Len(T)
    BY <1>2
  <2>2. log'[l] = T[l - Len(log)]
    BY <1>1 DEF Longer
  <2> QED BY <2>1, <2>2
<1>6. position <= Len(log) /\ Len(log') - position' = Len(log) - position
      /\ position' <= Len(log')
  BY <1>1, <1>2, <1>3 DEF OnVolume
<1>7. ASSUME NEW l \in DOMAIN log'
      PROVE  /\ l > Len(log) - position => log'[l].v = volume
             /\ l <= Len(log) - position => log'[l].v < volume
  <2>1. CASE l \in 1 .. Len(log)
    BY <1>2, <1>4, <2>1 DEF OnVolume
  <2>2. CASE l \in Len(log) + 1 .. Len(log) + Len(T)
    <3>1. ~(l <= Len(log) - position)
      BY <1>1, <1>2, <2>2
    <3> QED BY <1>5, <2>2, <3>1
  <2> QED BY <1>2, <2>1, <2>2
<1> QED BY <1>6, <1>7 DEF OnVolume

(* A whole header goes where the chain asks for one. *)
LEMMA HeaderChain ==
  ASSUME IInv, Chained(log), OnVolume, Closed, NEW T \in Seq(Units), log' = log \o T,
         volume' = volume, position' = position + Len(T), Len(T) > 0,
         NEW k \in {"hdr", "cont", "link", "label"}, NEW f, NEW p, NEW st \in Nat,
         HeaderLike(T, k, f, p, st),
         Len(T) = IF k = "hdr" THEN Entries[f].blocks * Block ELSE Block
  PROVE  LET h == Len(log) + 1
         IN  /\ Chained(log') /\ OnVolume'
             /\ h \in DOMAIN log' /\ IsHead(log'[h]) /\ log'[h].v = volume
             /\ log'[h].f = f /\ log'[h].p = p /\ log'[h].s = st
             /\ HeadLength(log'[h]) = Len(T) /\ h + Len(T) = Len(log') + 1
             /\ EndBy(log', volume, h, Len(log) + 1)
             /\ Len(log) + 1 <= Len(log')
<1> DEFINE h == Len(log) + 1
           u == log'
<1>1. log \in Seq(Units)
  BY DEF IInv, TypeOK, FormatTypeOK, FileTypeOK
<1>2. Longer(log, T, log')
  BY <1>1, LongerLog
<1>3. /\ Len(log) \in Nat /\ Len(T) \in Nat \ {0} /\ DOMAIN log = 1 .. Len(log)
      /\ DOMAIN log' = 1 .. Len(log) + Len(T) /\ 1 \in 1 .. Len(T)
  BY <1>2 DEF Longer
<1>4. Len(log') = Len(log) + Len(T)
  BY <1>1, <1>3, LenProperties, ConcatProperties
<1>5. OnVolume'
  BY OnVolumeMore DEF HeaderLike
<1>6. \A j \in 1 .. Len(T) : T[j].v = volume /\ T[j].k # "data" /\ (IsHead(T[j]) <=> j = 1)
  BY DEF HeaderLike, IsHead
<1>7. T[1].k = k /\ T[1].f = f /\ T[1].p = p /\ T[1].s = st /\ T[1].v = volume
  BY <1>3 DEF HeaderLike
<1>8. HeadLength(T[1]) = Len(T) /\ T[1].s \in Nat
  BY <1>7 DEF HeadLength
<1>9. \A j \in DOMAIN log : IsHead(log[j]) /\ log[j].v = volume => Ending(log, j) <= Len(log) + 1
  <2> SUFFICES ASSUME NEW j \in DOMAIN log, IsHead(log[j]), log[j].v = volume
               PROVE  Ending(log, j) <= Len(log) + 1
    OBVIOUS
  <2>1. j # 0
    BY <1>3
  <2> QED BY <2>1 DEF Closed, EndBy
<1>10. Chained(log')
  <2>1. Chained(log \o T)
    BY <1>1, <1>6, <1>8, <1>9, ChainedHeader
  <2> QED BY <2>1
<1>11. h \in DOMAIN u /\ u[h] = T[1] /\ h + Len(T) = Len(u) + 1 /\ h <= Len(u)
  BY <1>2, <1>3, <1>4 DEF Longer
<1>12. IsHead(u[h])
  BY <1>3, <1>6, <1>11
<1>13. EndBy(u, volume, h, Len(log) + 1)
  <2> SUFFICES ASSUME NEW j \in DOMAIN u, IsHead(u[j]), u[j].v = volume, j # h
               PROVE  Ending(u, j) <= Len(log) + 1
    BY DEF EndBy
  <2>1. CASE j \in 1 .. Len(log)
    <3>1. u[j] = log[j] /\ Ending(u, j) = Ending(log, j)
      BY <1>2, <2>1 DEF Longer, Ending
    <3> QED BY <1>3, <1>9, <2>1, <3>1
  <2>2. CASE j \in Len(log) + 1 .. Len(log) + Len(T)
    <3>1. j - Len(log) \in 1 .. Len(T) /\ j - Len(log) # 1
      BY <1>3, <2>2
    <3>2. u[j] = T[j - Len(log)]
      BY <1>2, <2>2 DEF Longer
    <3> QED BY <1>6, <3>1, <3>2
  <2> QED BY <1>3, <2>1, <2>2
<1> QED BY <1>5, <1>7, <1>8, <1>10, <1>11, <1>12, <1>13

(* Content and padding go behind the header they belong to. *)
LEMMA BodyChain ==
  ASSUME IInv, Chained(log), OnVolume, NEW h \in DOMAIN log, IsHead(log[h]),
         log[h].v = volume, EndBy(log, volume, h, Len(log)),
         NEW T \in Seq(Units), log' = log \o T,
         volume' = volume, position' = position + Len(T),
         Len(log) + Len(T) < Ending(log, h),
         \A j \in 1 .. Len(T) : /\ T[j].v = volume /\ T[j].k \in {"data", "pad"}
                                /\ T[j].k = "data" =>
                                     /\ T[j].f = log[h].f
                                     /\ T[j].o = log[h].p + (Len(log) + j) - h - HeadLength(log[h])
  PROVE  /\ Chained(log') /\ OnVolume'
         /\ h \in DOMAIN log' /\ log'[h] = log[h] /\ Ending(log', h) = Ending(log, h)
         /\ Len(log') = Len(log) + Len(T) /\ Len(log) \in Nat /\ Len(T) \in Nat
         /\ EndBy(log', volume, h, Len(log))
<1>1. log \in Seq(Units)
  BY DEF IInv, TypeOK, FormatTypeOK, FileTypeOK
<1>2. Longer(log, T, log')
  BY <1>1, LongerLog
<1>3. /\ Len(log) \in Nat /\ Len(T) \in Nat /\ DOMAIN log = 1 .. Len(log)
      /\ DOMAIN log' = 1 .. Len(log) + Len(T)
  BY <1>2 DEF Longer
<1>4. Len(log') = Len(log) + Len(T)
  BY <1>1, <1>3, LenProperties, ConcatProperties
<1>5. OnVolume'
  BY OnVolumeMore
<1>6. log[Len(log)].v = volume
  <2>1. position \in Nat /\ volume \in Nat
    BY DEF IInv, TypeOK, FormatTypeOK, FileTypeOK
  <2>2. h > Len(log) - position
    <3>1. SUFFICES ASSUME h <= Len(log) - position PROVE FALSE
      BY <1>3, <2>1
    <3>2. log[h].v < volume
      BY <3>1 DEF OnVolume
    <3> QED BY <2>1, <3>2
  <2>3. Len(log) > Len(log) - position /\ Len(log) \in DOMAIN log
    BY <1>3, <2>1, <2>2 DEF OnVolume
  <2> QED BY <2>3 DEF OnVolume
<1>7. \A j \in 1 .. Len(T) :
        /\ T[j].v = volume /\ ~IsHead(T[j])
        /\ T[j].k = "data" => /\ T[j].f = log[h].f
                              /\ T[j].o = log[h].p + (Len(log) + j) - h - HeadLength(log[h])
  BY DEF IsHead
<1>8. \A j \in DOMAIN log : IsHead(log[j]) /\ log[j].v = volume /\ j # h => Ending(log, j) <= Len(log)
  BY DEF EndBy
<1>9. Chained(log')
  <2>1. Chained(log \o T)
    BY <1>1, <1>6, <1>7, <1>8, ChainedBody
  <2> QED BY <2>1
<1>10. h \in DOMAIN log' /\ log'[h] = log[h] /\ Ending(log', h) = Ending(log, h)
  BY <1>2, <1>3 DEF Longer, Ending
<1>11. EndBy(log', volume, h, Len(log))
  <2> SUFFICES ASSUME NEW j \in DOMAIN log', IsHead(log'[j]), log'[j].v = volume, j # h
               PROVE  Ending(log', j) <= Len(log)
    BY DEF EndBy
  <2>1. CASE j \in 1 .. Len(log)
    <3>1. log'[j] = log[j] /\ Ending(log', j) = Ending(log, j)
      BY <1>2, <2>1 DEF Longer, Ending
    <3> QED BY <1>3, <1>8, <2>1, <3>1
  <2>2. CASE j \in Len(log) + 1 .. Len(log) + Len(T)
    <3>1. j - Len(log) \in 1 .. Len(T)
      BY <1>3, <2>2
    <3>2. log'[j] = T[j - Len(log)]
      BY <1>2, <2>2 DEF Longer
    <3> QED BY <1>7, <3>1, <3>2
  <2> QED BY <1>3, <2>1, <2>2
<1> QED BY <1>3, <1>4, <1>5, <1>9, <1>10, <1>11

(* A write moves the position by what it puts into the log. *)
LEMMA WriteMoves ==
  ASSUME IInv, NEW units \in Seq(Units), NEW r, GoodResult(Len(units), r), Write(units, r),
         NEW T \in Seq(Units), Len(T) = IF r.n > 0 THEN r.n ELSE 0
  PROVE  position' = position + Len(T) /\ volume' = volume /\ faults' = faults + r.fault
<1>1. position \in Nat
  BY DEF IInv, TypeOK, FormatTypeOK, FileTypeOK
<1> QED BY <1>1 DEF Write

(* A header that does not end a volume is whole. *)
LEMMA WholeHeader ==
  ASSUME IInv, NEW k \in Kind \ {"data"}, NEW f \in Nat, NEW blocks \in Nat \ {0},
         NEW st \in Int, NEW r \in HeaderResults(blocks * Block), r.fault = 0,
         WriteHeader(HeaderUnits(k, f, blocks, 0, st), r),
         HeaderStatus(blocks * Block, r) # "end_of_tape"
  PROVE  /\ ~Full
         /\ \E T \in Seq(Units) :
              /\ log' = log \o T /\ HeaderLike(T, k, f, 0, st)
              /\ Len(T) = blocks * Block /\ Len(T) > 0
              /\ position' = position + Len(T) /\ volume' = volume
<1> DEFINE units == HeaderUnits(k, f, blocks, 0, st)
           length == blocks * Block
<1>1. units \in Seq(Units) /\ Len(units) = length /\ length \in Nat \ {0}
  BY HeaderNotEmpty
<1>2. Write(units, r)
  BY DEF WriteHeader
<1>3. PICK T \in Seq(Units) :
        /\ log' = log \o T
        /\ HeaderLike(T, k, f, 0, st)
        /\ Len(T) = IF r.n > 0 THEN r.n ELSE 0
        /\ r.n \in -1 .. length
  BY HeaderWritten
<1>4. HeaderStatus(length, r) # "error"
  BY <1>1, NoError
<1> HIDE DEF units, length
<1>5. GoodResult(length, r)
  BY <1>1, HeaderResult DEF length, IInv, TypeOK, FormatTypeOK
<1>6. ~(r.n < length)
  BY <1>4 DEF HeaderStatus, length
<1>7. r.n = length
  BY <1>1, <1>3, <1>6
<1>8. Len(T) = length /\ Len(T) > 0
  BY <1>1, <1>3, <1>7
<1>9. position' = position + Len(T) /\ volume' = volume
  BY <1>1, <1>2, <1>3, <1>5, WriteMoves
<1>10. ~Full
  <2>1. position \in Nat /\ r.n > 0
    BY <1>1, <1>7 DEF IInv, TypeOK, FormatTypeOK, FileTypeOK
  <2> QED BY <1>5, <2>1, FileAssumption DEF Full, GoodResult
<1> QED BY <1>3, <1>8, <1>9, <1>10 DEF length

LEMMA EndByMore ==
  ASSUME NEW s \in Seq(Units), Chained(s), NEW v, NEW h, NEW e \in Nat, NEW g \in Nat, e <= g,
         EndBy(s, v, h, e)
  PROVE  /\ EndBy(s, v, h, g)
         /\ Ending(s, h) <= g => EndBy(s, v, 0, g)
<1>1. \A j \in DOMAIN s : IsHead(s[j]) => Ending(s, j) \in Nat
  <2> SUFFICES ASSUME NEW j \in DOMAIN s, IsHead(s[j]) PROVE Ending(s, j) \in Nat
    OBVIOUS
  <2>1. j \in Nat
    BY LenProperties
  <2>2. s[j].s \in Nat /\ HeadLength(s[j]) \in Nat \ {0}
    BY DEF Chained
  <2> QED BY <2>1, <2>2, EndingBehind
<1>2. \A j \in DOMAIN s : IsHead(s[j]) /\ s[j].v = v /\ j # h => Ending(s, j) <= g
  <2> SUFFICES ASSUME NEW j \in DOMAIN s, IsHead(s[j]), s[j].v = v, j # h
               PROVE  Ending(s, j) <= g
    OBVIOUS
  <2>1. Ending(s, j) <= e /\ Ending(s, j) \in Nat
    BY <1>1 DEF EndBy
  <2> QED BY <2>1
<1> QED BY <1>2 DEF EndBy

LEMMA RoundZero == RoundUp(0) = 0
<1>1. (Block - (0 % Block)) % Block = 0
  BY FileAssumption
<1> QED BY <1>1, RoundPad

(* Where nothing follows a header the next one does. *)
LEMMA HeaderBetween ==
  ASSUME IInv, Arranged, Between, ~Full, NEW T \in Seq(Units), log' = log \o T,
         volume' = volume, position' = position + Len(T), Len(T) > 0,
         NEW k \in {"hdr", "link", "label"}, NEW f, HeaderLike(T, k, f, 0, 0),
         NEW blocks \in Nat, Len(T) = blocks * Block,
         Len(T) = IF k = "hdr" THEN Entries[f].blocks * Block ELSE Block,
         remain_header' = remain_header, pc' \in {"next", "exit"}
  PROVE  Arranged'
<1> DEFINE h == Len(log) + 1
<1>1. Chained(log) /\ OnVolume /\ Closed /\ Aligned(position) /\ remain_header = <<>>
  BY DEF Arranged
<1>2. /\ Chained(log') /\ OnVolume'
      /\ h \in DOMAIN log' /\ log'[h].s = 0
      /\ HeadLength(log'[h]) = Len(T) /\ h + Len(T) = Len(log') + 1
      /\ EndBy(log', volume, h, Len(log) + 1)
      /\ Len(log) + 1 <= Len(log')
  BY <1>1, HeaderChain
<1>3. /\ log' \in Seq(Units) /\ Len(log) \in Nat /\ Len(log') \in Nat
      /\ position \in Nat /\ h \in Nat
  <2>1. log \in Seq(Units) /\ position \in Nat
    BY DEF IInv, TypeOK, FormatTypeOK, FileTypeOK
  <2> QED BY <2>1, ConcatUnits, LenProperties
<1>4. Ending(log', h) = Len(log') + 1
  BY <1>2, <1>3, RoundZero DEF Ending
<1> HIDE DEF h
<1>5. Closed'
  <2>1. EndBy(log', volume, 0, Len(log') + 1)
    <3> DEFINE s == log'
               e == Len(log) + 1
               g == Len(log') + 1
    <3>1. e \in Nat /\ g \in Nat /\ e <= g /\ Ending(s, h) <= g
      <4> DEFINE m == Len(log)
                 n == Len(log')
                 d == Ending(log', h)
      <4>1. m \in Nat /\ n \in Nat /\ m + 1 <= n /\ d = n + 1
        BY <1>2, <1>3, <1>4
      <4> HIDE DEF m, n, d
      <4>2. m + 1 \in Nat /\ n + 1 \in Nat /\ m + 1 <= n + 1 /\ d <= n + 1
        BY <4>1
      <4> QED BY <4>2 DEF m, n, d
    <3>2. s \in Seq(Units) /\ Chained(s) /\ EndBy(s, volume, h, e)
      BY <1>2, <1>3
    <3> HIDE DEF s, e, g
    <3>3. EndBy(s, volume, 0, g)
      BY <3>1, <3>2, EndByMore
    <3> QED BY <3>3 DEF s, g
  <2> QED BY <2>1 DEF Closed
<1>6. Aligned(position')
  BY <1>1, <1>3, AlignedMore
<1> QED BY <1>1, <1>2, <1>5, <1>6 DEF Arranged

LEMMA Calm ==
  ASSUME IInv, ArrangedInv, Undisturbed', cuts' = 0, cuts' \in {cuts, cuts + 1},
         resizes' = resizes, NEW r, r.fault \in Nat, faults' = faults + r.fault
  PROVE  Undisturbed /\ r.fault = 0 /\ Arranged /\ cuts = 0 /\ cuts' = cuts
<1>1. Undisturbed /\ r.fault = 0
  BY StillUndisturbed
<1>2. cuts = 0 /\ cuts' = cuts
  BY CutsBack
<1> QED BY <1>1, <1>2 DEF ArrangedInv

LEMMA StatusCuts ==
  ASSUME IInv, NEW st, NEW from, NEW ok, OnStatus(st, from, ok)
  PROVE  cuts' \in {cuts, cuts + 1} /\ (cuts' = cuts => st # "end_of_tape")
BY DEF OnStatus, IInv, TypeOK

LEMMA LabelArranged == IInv /\ ArrangedInv /\ StartLabel => ArrangedInv'
<1> SUFFICES ASSUME IInv, ArrangedInv, StartLabel, Undisturbed', cuts' = 0 PROVE Arranged'
  BY DEF ArrangedInv
<1>1. pc = "label" /\ resizes' = resizes /\ Between
  BY DEF StartLabel, envVars, Between
<1>2. CASE Label
  <2>1. PICK r \in HeaderResults(Block) :
          AddLabel(r) /\ OnStatus(HeaderStatus(Block, r), "label", "next")
    BY <1>2 DEF StartLabel
  <2>2. faults' = faults + r.fault /\ r.fault \in Nat
    BY <2>1, FaultSign, FileAssumption DEF AddLabel, WriteHeader, Write
  <2>3. cuts' \in {cuts, cuts + 1} /\ (cuts' = cuts => HeaderStatus(Block, r) # "end_of_tape")
    BY <2>1, StatusCuts
  <2>4. r.fault = 0 /\ Arranged /\ cuts' = cuts
    BY <1>1, <2>2, <2>3, Calm
  <2>5. 1 * Block = Block /\ Block \in Nat /\ 1 \in Nat \ {0} /\ 0 \in Nat /\ 0 \in Int
        /\ "label" \in Kind \ {"data"}
    BY FileAssumption DEF Kind
  <2>6. r \in HeaderResults(1 * Block) /\ WriteHeader(HeaderUnits("label", 0, 1, 0, 0), r)
        /\ HeaderStatus(1 * Block, r) # "end_of_tape"
    BY <2>1, <2>3, <2>4, <2>5 DEF AddLabel
  <2>7. /\ ~Full
        /\ \E T \in Seq(Units) :
             /\ log' = log \o T /\ HeaderLike(T, "label", 0, 0, 0)
             /\ Len(T) = 1 * Block /\ Len(T) > 0
             /\ position' = position + Len(T) /\ volume' = volume
    BY <2>4, <2>5, <2>6, WholeHeader
  <2>8. PICK T \in Seq(Units) :
             /\ log' = log \o T /\ HeaderLike(T, "label", 0, 0, 0)
             /\ Len(T) = 1 * Block /\ Len(T) > 0
             /\ position' = position + Len(T) /\ volume' = volume
    BY <2>7
  <2>9. remain_header' = remain_header
    BY <2>4, LabelWrites
  <2>10. pc' \in {"next", "exit"}
    BY <2>1, <2>3, <2>4 DEF OnStatus, HeaderStatus
  <2>11. "label" \in {"hdr", "link", "label"} /\ "label" # "hdr"
    OBVIOUS
  <2> QED BY <1>1, <2>4, <2>5, <2>7, <2>8, <2>9, <2>10, <2>11, HeaderBetween
<1>3. CASE ~Label
  <2>1. pc' = "next" /\ UNCHANGED fileVars /\ UNCHANGED formatVars /\ cuts' = cuts
        /\ failed' = failed
    BY <1>3 DEF StartLabel
  <2>2. Arranged
    BY <1>1, <2>1 DEF ArrangedInv, Undisturbed, fileVars
  <2>3. Closed' = Closed /\ Full' = Full /\ OnVolume' = OnVolume /\ log' = log
        /\ position' = position /\ remain_header' = remain_header
    BY <2>1 DEF fileVars, formatVars, Closed, Full, OnVolume
  <2> QED BY <1>1, <2>1, <2>2, <2>3 DEF Arranged, Between
<1> QED BY <1>2, <1>3

LEMMA LinkArranged == IInv /\ ArrangedInv /\ HardLink => ArrangedInv'
<1> SUFFICES ASSUME IInv, ArrangedInv, HardLink, Undisturbed', cuts' = 0 PROVE Arranged'
  BY DEF ArrangedInv
<1>1. pc = "link" /\ resizes' = resizes /\ Between /\ i \in Nat
  BY DEF HardLink, envVars, Between, IInv, TypeOK
<1>2. PICK r \in HeaderResults(Block) :
        AddLink(i, r) /\ OnStatus(HeaderStatus(Block, r), "link", "next")
  BY DEF HardLink
<1>3. faults' = faults + r.fault /\ r.fault \in Nat
  BY <1>2, FaultSign, FileAssumption DEF AddLink, WriteHeader, Write
<1>4. cuts' \in {cuts, cuts + 1} /\ (cuts' = cuts => HeaderStatus(Block, r) # "end_of_tape")
  BY <1>2, StatusCuts
<1>5. r.fault = 0 /\ Arranged /\ cuts' = cuts
  BY <1>1, <1>3, <1>4, Calm
<1>6. 1 * Block = Block /\ Block \in Nat /\ 1 \in Nat \ {0} /\ 0 \in Nat /\ 0 \in Int
      /\ "link" \in Kind \ {"data"}
  BY FileAssumption DEF Kind
<1>7. r \in HeaderResults(1 * Block) /\ WriteHeader(HeaderUnits("link", i, 1, 0, 0), r)
      /\ HeaderStatus(1 * Block, r) # "end_of_tape"
  BY <1>2, <1>4, <1>5, <1>6 DEF AddLink
<1>8. /\ ~Full
      /\ \E T \in Seq(Units) :
           /\ log' = log \o T /\ HeaderLike(T, "link", i, 0, 0)
           /\ Len(T) = 1 * Block /\ Len(T) > 0
           /\ position' = position + Len(T) /\ volume' = volume
  BY <1>1, <1>5, <1>6, <1>7, WholeHeader
<1>9. PICK T \in Seq(Units) :
           /\ log' = log \o T /\ HeaderLike(T, "link", i, 0, 0)
           /\ Len(T) = 1 * Block /\ Len(T) > 0
           /\ position' = position + Len(T) /\ volume' = volume
  BY <1>8
<1>10. remain_header' = remain_header
  BY <1>5, LinkWrites
<1>11. pc' \in {"next", "exit"}
  BY <1>2, <1>4, <1>5 DEF OnStatus, HeaderStatus
<1>12. "link" \in {"hdr", "link", "label"} /\ "link" # "hdr"
  OBVIOUS
<1> QED BY <1>1, <1>5, <1>6, <1>8, <1>9, <1>10, <1>11, <1>12, HeaderBetween

(* ... and so does the header of a file whose content is to follow.         *)
LEMMA HeaderOpens ==
  ASSUME IInv, Chained(log), OnVolume, Closed, NEW T \in Seq(Units), log' = log \o T,
         volume' = volume, position' = position + Len(T), Len(T) > 0,
         NEW k \in {"hdr", "cont"}, NEW p \in Int, NEW st \in Nat,
         HeaderLike(T, k, i, p, st),
         Len(T) = IF k = "hdr" THEN Entries[i].blocks * Block ELSE Block,
         Aligned(position), NEW b \in Nat, Len(T) = b * Block,
         i' = i, format_position' = 0, Archived' = p, StSize' = p + st
  PROVE  /\ Chained(log') /\ OnVolume'
         /\ \E j \in DOMAIN log' : Opened(j)'
         /\ Aligned(position' - format_position')
<1>0. PICK h : h = Len(log) + 1
  OBVIOUS
<1>1. /\ Chained(log') /\ OnVolume'
      /\ h \in DOMAIN log' /\ IsHead(log'[h]) /\ log'[h].v = volume
      /\ log'[h].f = i /\ log'[h].p = p /\ log'[h].s = st
      /\ HeadLength(log'[h]) = Len(T) /\ h + Len(T) = Len(log') + 1
      /\ EndBy(log', volume, h, Len(log) + 1)
      /\ Len(log) + 1 <= Len(log')
  BY <1>0, HeaderChain
<1>2. /\ log' \in Seq(Units) /\ Len(log) \in Nat /\ Len(log') \in Nat
      /\ position \in Nat /\ Len(T) \in Nat
  <2>1. log \in Seq(Units) /\ position \in Nat
    BY DEF IInv, TypeOK, FormatTypeOK, FileTypeOK
  <2> QED BY <2>1, ConcatUnits, LenProperties
<1>3. EndBy(log', volume, h, Len(log'))
  <2> DEFINE s == log'
             e == Len(log) + 1
             g == Len(log')
  <2>1. e <= g
    BY <1>1
  <2>2. e \in Nat /\ g \in Nat
    BY <1>2
  <2>3. s \in Seq(Units) /\ Chained(s) /\ EndBy(s, volume, h, e)
    BY <1>1, <1>2
  <2> HIDE DEF s, e, g
  <2>4. EndBy(s, volume, h, g)
    BY <2>1, <2>2, <2>3, EndByMore
  <2> QED BY <2>4 DEF s, g
<1>4. h + HeadLength(log'[h]) + format_position' = Len(log') + 1
  <2> DEFINE n == h + HeadLength(log'[h])
             m == Len(log')
  <2>1. n = m + 1
    BY <1>1, Zenon
  <2>2. m \in Nat
    BY <1>2
  <2> HIDE DEF n, m
  <2>3. n + 0 = m + 1
    BY <2>1, <2>2
  <2> QED BY <2>3 DEF n, m
<1>5. log'[h].p + format_position' = Archived' /\ log'[h].p + log'[h].s = StSize'
  BY <1>1
<1>6. IsHead(log'[h]) /\ log'[h].v = volume' /\ log'[h].f = i' /\ EndBy(log', volume', h, Len(log'))
  BY <1>1, <1>3, Zenon
<1>7. Opened(h)'
  BY <1>4, <1>5, <1>6, Zenon DEF Opened
<1>8. Aligned(position' - format_position')
  <2>1. Aligned(position + b * Block)
    BY <1>2, AlignedMore
  <2>2. position' - format_position' = position'
    <3> DEFINE n == position'
    <3>1. n \in Int
      BY <1>2
    <3> HIDE DEF n
    <3>2. n - 0 = n
      BY <3>1
    <3> QED BY <3>2 DEF n
  <2>3. position' = position + b * Block
    OBVIOUS
  <2> QED BY <2>1, <2>2, <2>3, Zenon DEF Aligned
<1> QED BY <1>1, <1>7, <1>8, Zenon

LEMMA AddArranged == IInv /\ ArrangedInv /\ AddEntry => ArrangedInv'
<1> SUFFICES ASSUME IInv, ArrangedInv, AddEntry, Undisturbed', cuts' = 0 PROVE Arranged'
  BY DEF ArrangedInv
<1> DEFINE length == Entry.blocks * Block
           ok == IF failed THEN "exit" ELSE AfterAdd
<1>1. PICK r \in HeaderResults(length) :
        /\ AddFile(i, Entry.blocks, StSize, r)
        /\ OnStatus(HeaderStatus(length, r), "add", ok)
        /\ IF HeaderStatus(length, r) = "ok" /\ ~failed /\ AfterAdd = "next"
           THEN Skip
           ELSE total_nb_write' = 0 /\ i' = i
  BY DEF AddEntry
<1>2. /\ pc = "add" /\ Between /\ size' = size /\ resizes' = resizes
      /\ i \in Nat /\ Entry.blocks \in Nat \ {0} /\ StSize \in Nat
  <2>1. i \in Nat \ {0} /\ i <= Len(Entries) /\ size \in [Inodes -> Nat]
    BY DEF AddEntry, IInv, TypeOK, Control
  <2>2. i \in 1 .. Len(Entries)
    BY <2>1, LenProperties, CreateAssumption
  <2>3. Entry \in EntryType
    BY <2>2, ElementOfSeq, CreateAssumption DEF Entry
  <2> QED BY <2>1, <2>2, <2>3, EntryInType DEF EntryType, AddEntry, Between, envVars
<1>3. length \in Nat /\ Block \in Nat
  BY <1>2, ProductNat, FileAssumption
<1>4. faults' = faults + r.fault /\ r.fault \in Nat
  BY <1>1, <1>3, FaultSign DEF AddFile, WriteHeader, Write
<1>5. cuts' \in {cuts, cuts + 1} /\ (cuts' = cuts => HeaderStatus(length, r) # "end_of_tape")
  BY <1>1, StatusCuts
<1>6. r.fault = 0 /\ Arranged /\ cuts' = cuts
  BY <1>2, <1>4, <1>5, Calm
<1>7. r \in HeaderResults(Entry.blocks * Block)
      /\ WriteHeader(HeaderUnits("hdr", i, Entry.blocks, 0, StSize), r)
      /\ HeaderStatus(Entry.blocks * Block, r) # "end_of_tape"
      /\ "hdr" \in Kind \ {"data"} /\ StSize \in Int
  BY <1>1, <1>2, <1>5, <1>6 DEF AddFile, Kind
<1> HIDE DEF length
<1>8. /\ ~Full
      /\ \E T \in Seq(Units) :
           /\ log' = log \o T /\ HeaderLike(T, "hdr", i, 0, StSize)
           /\ Len(T) = Entry.blocks * Block /\ Len(T) > 0
           /\ position' = position + Len(T) /\ volume' = volume
  BY <1>2, <1>6, <1>7, WholeHeader
<1>9. PICK T \in Seq(Units) :
        /\ log' = log \o T /\ HeaderLike(T, "hdr", i, 0, StSize)
        /\ Len(T) = Entry.blocks * Block /\ Len(T) > 0
        /\ position' = position + Len(T) /\ volume' = volume
  BY <1>8
<1>10. remain_header' = remain_header
  BY <1>6, EntryWrites
<1>11. pc' = ok
  <2>1. HeaderStatus(length, r) = "ok"
    BY <1>3, <1>5, <1>6, NoError DEF HeaderStatus
  <2> QED BY <1>1, <2>1 DEF OnStatus
<1>12. Len(T) = Entries[i].blocks * Block
  BY <1>9 DEF Entry
<1>13. CASE pc' = "next"
  <2>1. AfterAdd = "next" /\ StSize = 0
    BY <1>11, <1>13 DEF AfterAdd, StSize
  <2> QED BY <1>2, <1>6, <1>8, <1>9, <1>10, <1>12, <1>13, <2>1, HeaderBetween
<1>14. Chained(log) /\ OnVolume /\ Closed /\ Aligned(position) /\ remain_header' = <<>>
  BY <1>2, <1>6, <1>8, <1>10 DEF Arranged
<1>15. CASE pc' = "exit"
  <2>1. Chained(log') /\ OnVolume'
    BY <1>2, <1>9, <1>12, <1>14, HeaderChain
  <2>2. failed'
    BY <1>1, <1>11, <1>15 DEF OnStatus, AfterAdd
  <2> QED BY <1>14, <1>15, <2>1, <2>2 DEF Arranged, Between
<1>16. CASE pc' = "read"
  <2>1. i' = i /\ total_nb_write' = 0 /\ format_position' = 0
    BY <1>1, <1>11, <1>16 DEF AddFile, Skip
  <2>2. Archived' = 0 /\ StSize' = 0 + StSize
    BY <1>2, <1>16, <2>1 DEF Archived, StSize, Entry
  <2>3. /\ Chained(log') /\ OnVolume'
        /\ \E j \in DOMAIN log' : Opened(j)'
        /\ Aligned(position' - format_position')
    BY <1>2, <1>9, <1>12, <1>14, <2>1, <2>2, HeaderOpens
  <2>4. ~Between' /\ pc' \notin {"prompt", "restart", "eof", "exit", "done"}
    BY <1>16 DEF Between
  <2> QED BY <1>14, <2>3, <2>4, Zenon DEF Arranged
<1> QED BY <1>11, <1>13, <1>15, <1>16 DEF AfterAdd

LEMMA NextEntryArranged == IInv /\ ArrangedInv /\ NextEntry => ArrangedInv'
<1> SUFFICES ASSUME IInv, ArrangedInv, NextEntry, Undisturbed', cuts' = 0 PROVE Arranged'
  BY DEF ArrangedInv
<1>1. /\ pc = "next" /\ pc' \in {"next", "link", "add"} /\ cuts' = cuts /\ failed' = failed
      /\ UNCHANGED fileVars /\ UNCHANGED formatVars /\ UNCHANGED envVars
  BY DEF NextEntry
<1>2. Arranged
  BY <1>1 DEF ArrangedInv, Undisturbed, fileVars, envVars
<1>3. Closed' = Closed /\ Full' = Full /\ OnVolume' = OnVolume /\ log' = log
      /\ position' = position /\ remain_header' = remain_header
  BY <1>1 DEF fileVars, formatVars, Closed, Full, OnVolume
<1> QED BY <1>1, <1>2, <1>3 DEF Arranged, Between

LEMMA NextVolumeArranged == IInv /\ ArrangedInv /\ NextVolume => ArrangedInv'
<1> SUFFICES ASSUME IInv, ArrangedInv, NextVolume, Undisturbed', cuts' = 0 PROVE Arranged'
  BY DEF ArrangedInv
<1>1. /\ pc = "prompt" /\ cuts' = cuts /\ faults' = faults /\ resizes' = resizes /\ log' = log
      /\ volume' = volume + 1 /\ position' = 0 /\ remain_header' = remain_header
      /\ back = "split" => pc' = "restart"
  BY DEF NextVolume, NewVolume, NewWriter, formatVars, envVars
<1>2. Arranged
  BY <1>1 DEF ArrangedInv, Undisturbed
<1>3. pc' = "restart"
  BY <1>1, <1>2 DEF Arranged
<1>4. OnVolume'
  <2>1. Len(log) \in Nat /\ DOMAIN log = 1 .. Len(log) /\ volume \in Nat /\ position \in Nat
    BY LenProperties DEF IInv, TypeOK, FormatTypeOK, FileTypeOK
  <2>2. \A l \in DOMAIN log : log[l].v = volume \/ log[l].v < volume
    BY <1>2, <2>1 DEF Arranged, OnVolume
  <2>3. \A l \in DOMAIN log : log[l].v \in Nat
    <3>1. log \in Seq(Units)
      BY DEF IInv, TypeOK, FormatTypeOK, FileTypeOK
    <3>2. \A l \in DOMAIN log : log[l] \in Units
      BY <2>1, <3>1, ElementOfSeq
    <3> QED BY <3>2 DEF Units
  <2>4. \A l \in DOMAIN log : log[l].v < volume + 1 /\ ~(l > Len(log) - 0)
    BY <2>1, <2>2, <2>3
  <2> QED BY <1>1, <2>1, <2>4 DEF OnVolume
<1> QED BY <1>1, <1>2, <1>3, <1>4 DEF Arranged, Between

LEMMA PromptEndsArranged ==
  IInv /\ QuietInv /\ ArrangedInv /\ PromptEnds => ArrangedInv'
<1> SUFFICES ASSUME IInv, QuietInv, ArrangedInv, PromptEnds, Undisturbed', cuts' = 0
             PROVE  Arranged'
  BY DEF ArrangedInv
<1>1. /\ pc = "prompt" /\ cuts' = cuts /\ back = "split" => pc' = "eof"
      /\ UNCHANGED fileVars /\ UNCHANGED formatVars /\ UNCHANGED envVars
  BY DEF PromptEnds
<1>2. Arranged /\ Quiet
  BY <1>1 DEF ArrangedInv, QuietInv, Undisturbed, fileVars, envVars, PromptEnds
<1>3. pc' = "eof" /\ Full /\ failed'
  BY <1>1, <1>2 DEF Arranged, Quiet, PromptAtEnd, Full, PromptEnds
<1>4. Full' = Full /\ OnVolume' = OnVolume /\ log' = log /\ position' = position
      /\ remain_header' = remain_header /\ format_position' = format_position
  BY <1>1 DEF fileVars, formatVars, Full, OnVolume, PromptEnds
<1>5. Aligned(position - format_position)
  BY <1>2 DEF Arranged, PromptEnds
<1> QED BY <1>2, <1>3, <1>4, <1>5 DEF Arranged, Between

LEMMA ReadArranged == IInv /\ QuietInv /\ ArrangedInv /\ ReadData => ArrangedInv'
<1> SUFFICES ASSUME IInv, QuietInv, ArrangedInv, ReadData, Undisturbed', cuts' = 0
             PROVE  Arranged'
  BY DEF ArrangedInv
<1> DEFINE left == IF roff < StSize THEN StSize - roff ELSE 0
<1>1. /\ pc = "read" /\ i' = i /\ total_nb_write' = total_nb_write /\ nb_write' = 0
      /\ UNCHANGED fileVars /\ UNCHANGED formatVars /\ UNCHANGED envVars /\ cuts' = cuts
      /\ nb_read' = Least(NextPreferedSize, left)
      /\ pc' = IF NextPreferedSize = 0 THEN "prompt"
               ELSE IF nb_read' = 0 THEN "eof" ELSE "write"
      /\ back' = IF NextPreferedSize = 0 THEN "split" ELSE back
  BY DEF ReadData
<1>2. Arranged /\ Quiet /\ roff = total_nb_write
  BY <1>1 DEF ArrangedInv, QuietInv, Undisturbed, fileVars, envVars, IInv, Counters
<1>3. PICK h \in DOMAIN log : Opened(h)
  BY <1>1, <1>2 DEF Arranged
<1>4. /\ log' = log /\ volume' = volume /\ position' = position /\ OnVolume' = OnVolume
      /\ format_position' = format_position /\ remain_header' = remain_header
      /\ StSize' = StSize
  BY <1>1 DEF fileVars, formatVars, envVars, OnVolume, StSize, Entry
<1>5. pc' \in {"prompt", "write", "eof"} /\ (pc' = "prompt" => back' = "split")
  BY <1>1
<1>6. /\ StSize \in Nat /\ roff \in Nat /\ roff <= StSize /\ total_nb_write \in Nat
      /\ format_position \in Nat
  BY <1>1, <1>2, ContentSizes DEF Quiet, ContentAhead
<1>7. Archived' = Archived /\ Archived = roff
  BY <1>1, <1>2, <1>5, <1>6 DEF Archived
<1>8. Opened(h)'
  BY <1>1, <1>3, <1>4, <1>7 DEF Opened
<1>9. pc' = "eof" => format_position' = log'[h].s
  <2> SUFFICES ASSUME pc' = "eof" PROVE format_position = log[h].s
    BY <1>4
  <2>1. NextPreferedSize # 0 /\ Least(NextPreferedSize, left) = 0
    BY <1>1
  <2>2. left = 0
    BY <2>1 DEF Least
  <2>3. roff = StSize
    BY <1>6, <2>2
  <2> DEFINE p == log[h].p
             s == log[h].s
  <2>4. p + format_position = p + s
    BY <1>3, <1>7, <2>3 DEF Opened
  <2>5. p \in Int /\ s \in Int
    <3>1. log \in Seq(Units)
      BY DEF IInv, TypeOK, FormatTypeOK, FileTypeOK
    <3>2. log[h] \in Units
      BY <3>1, ElementOfSeq, LenProperties
    <3> QED BY <3>2 DEF Units
  <2> HIDE DEF p, s
  <2>6. format_position = s
    BY <1>6, <2>4, <2>5
  <2> QED BY <2>6 DEF s
<1>10. Aligned(position' - format_position')
  BY <1>1, <1>2, <1>4 DEF Arranged
<1>11. ~Between' /\ pc' \notin {"restart", "read", "rest"}
  BY <1>5 DEF Between
<1>12. \E j \in DOMAIN log' : Opened(j)' /\ (pc' = "eof" => format_position' = log'[j].s)
  BY <1>4, <1>8, <1>9
<1>13. remain_header' = <<>> /\ Chained(log') /\ OnVolume'
  BY <1>2, <1>4 DEF Arranged
<1> QED BY <1>5, <1>10, <1>11, <1>12, <1>13 DEF Arranged

LEMMA SameHead ==
  ASSUME NEW fp \in Int, NEW h \in Int, NEW w \in Int, NEW m \in Int, NEW n \in Int,
         h + w + fp = m + 1
  PROVE  h + w + (fp + n) = (m + n) + 1
  OBVIOUS

(* A part of the buffer is written behind what is already there. *)
LEMMA DataArranged ==
  ASSUME IInv, Arranged, pc \in {"write", "rest"}, NEW T \in Seq(Units), log' = log \o T,
         DataLike(T, i, Archived), volume' = volume, position' = position + Len(T),
         format_position' = format_position + Len(T), Archived \in Nat,
         Archived' = Archived + Len(T), Archived' <= StSize, StSize \in Nat,
         StSize' = StSize, i' = i, remain_header' = remain_header,
         pc' \in {"read", "prompt"}, pc' = "prompt" => back' = "split"
  PROVE  Arranged'
<1>1. PICK h \in DOMAIN log : Opened(h)
  BY DEF Arranged
<1> DEFINE w == HeadLength(log[h])
           p == log[h].p
           s == log[h].s
           m == Len(log)
           n == Len(T)
           e == RoundUp(s)
           fp == format_position
           a == Archived
<1>2. /\ log \in Seq(Units) /\ format_position \in Nat /\ position \in Nat
      /\ Chained(log) /\ OnVolume
  BY DEF IInv, TypeOK, FormatTypeOK, FileTypeOK, Arranged
<1>3. p \in Int /\ s \in Nat /\ w \in Nat \ {0} /\ h \in Nat
  <2>1. log[h] \in Units /\ h \in Nat
    BY <1>2, ElementOfSeq, LenProperties
  <2>2. s \in Nat /\ w \in Nat \ {0}
    BY <1>1, <1>2 DEF Chained, Opened
  <2> QED BY <2>1, <2>2 DEF Units
<1>4. e \in Nat /\ s <= e
  BY <1>3, RoundPad
<1>5. m \in Nat /\ n \in Nat
  BY <1>2, LenProperties
<1>6. /\ h + w + fp = m + 1 /\ p + fp = a /\ p + s = StSize /\ a + n <= StSize
      /\ a \in Nat /\ StSize \in Nat /\ fp \in Nat
  BY <1>1, <1>2 DEF Opened
<1>7. Ending(log, h) = h + w + e
  BY DEF Ending
<1> HIDE DEF w, p, s, m, n, e, fp, a
<1>8. m + n < h + w + e
  <2>1. fp + n <= s
    BY <1>3, <1>5, <1>6
  <2> QED BY <1>3, <1>4, <1>5, <1>6, <2>1
<1>9. \A j \in 1 .. n : a + j - 1 = p + (m + j) - h - w
  <2>1. a \in Int /\ p \in Int /\ fp \in Int /\ h \in Int /\ w \in Int /\ m \in Int
        /\ h + w + fp = m + 1 /\ p + fp = a
    BY <1>3, <1>5, <1>6
  <2> SUFFICES ASSUME NEW j \in 1 .. n PROVE a + j - 1 = p + (m + j) - h - w
    OBVIOUS
  <2>2. j \in Int
    OBVIOUS
  <2>3. m - h - w = fp - 1
    <3>1. m = h + w + fp - 1
      BY <2>1
    <3>2. m - h = w + fp - 1
      BY <2>1, <3>1
    <3>3. (m - h) - w = fp - 1
      BY <2>1, <3>2
    <3> QED BY <3>3
  <2>4. p + (m + j) - h - w = p + j + (m - h - w)
    BY <2>1, <2>2
  <2>5. p + j + (m - h - w) = p + j + (fp - 1)
    BY <2>3
  <2>6. p + j + (fp - 1) = a + j - 1
    BY <2>1, <2>2
  <2> QED BY <2>4, <2>5, <2>6
<1>10. Len(log) + Len(T) < Ending(log, h)
  BY <1>7, <1>8 DEF m, n
<1>11. \A j \in 1 .. Len(T) :
         /\ T[j].v = volume /\ T[j].k \in {"data", "pad"}
         /\ T[j].k = "data" =>
              /\ T[j].f = log[h].f
              /\ T[j].o = log[h].p + (Len(log) + j) - h - HeadLength(log[h])
  <2> SUFFICES ASSUME NEW j \in 1 .. Len(T)
               PROVE  /\ T[j].v = volume /\ T[j].k = "data" /\ T[j].f = log[h].f
                      /\ T[j].o = log[h].p + (Len(log) + j) - h - HeadLength(log[h])
    OBVIOUS
  <2>1. T[j].v = volume /\ T[j].k = "data" /\ T[j].f = i /\ T[j].o = Archived + j - 1
    BY DEF DataLike
  <2>2. a + j - 1 = p + (m + j) - h - w
    BY <1>9 DEF n
  <2>3. log[h].f = i
    BY <1>1 DEF Opened
  <2>4. T[j].o = log[h].p + (Len(log) + j) - h - HeadLength(log[h])
    BY <2>1, <2>2, Zenon DEF a, p, m, w
  <2> QED BY <2>1, <2>3, <2>4
<1>12. /\ IsHead(log[h]) /\ log[h].v = volume /\ log[h].f = i
       /\ EndBy(log, volume, h, Len(log))
  BY <1>1 DEF Opened
<1>13. /\ Chained(log') /\ OnVolume'
       /\ h \in DOMAIN log' /\ log'[h] = log[h]
       /\ Len(log') = Len(log) + Len(T)
       /\ EndBy(log', volume, h, Len(log))
  BY <1>2, <1>10, <1>11, <1>12, BodyChain
<1>14. EndBy(log', volume, h, Len(log'))
  <2> DEFINE u == log'
             g == Len(log')
  <2>1. u \in Seq(Units) /\ Chained(u) /\ EndBy(u, volume, h, m)
    BY <1>2, <1>13, ConcatUnits DEF m
  <2>2. g = m + n
    BY <1>13 DEF m, n
  <2> HIDE DEF u, g
  <2>3. g \in Nat /\ m <= g
    BY <1>5, <2>2
  <2>4. EndBy(u, volume, h, g)
    BY <1>5, <2>1, <2>3, EndByMore
  <2> QED BY <2>4 DEF u, g
<1>15. h + HeadLength(log'[h]) + format_position' = Len(log') + 1
  <2>1. fp \in Int /\ h \in Int /\ w \in Int /\ m \in Int /\ n \in Int /\ h + w + fp = m + 1
    BY <1>3, <1>5, <1>6
  <2>2. h + w + (fp + n) = (m + n) + 1
    BY <2>1, SameHead
  <2> QED BY <1>13, <2>2, Zenon DEF w, fp, n, m
<1>16. log'[h].p + format_position' = Archived'
  <2>1. p + (fp + n) = a + n
    BY <1>3, <1>5, <1>6
  <2> QED BY <1>13, <2>1, Zenon DEF p, fp, n, a
<1>17. log'[h].p + log'[h].s = StSize'
  BY <1>6, <1>13, Zenon DEF p, s
<1>18. Opened(h)'
  <2>1. IsHead(log'[h]) /\ log'[h].v = volume' /\ log'[h].f = i' /\ EndBy(log', volume', h, Len(log'))
    BY <1>12, <1>13, <1>14, Zenon
  <2> QED BY <1>15, <1>16, <1>17, <2>1, Zenon DEF Opened
<1>19. Aligned(position' - format_position')
  <2>1. Aligned(position - format_position)
    BY DEF Arranged
  <2> DEFINE q == position
  <2>2. q \in Nat /\ q - fp = (q + n) - (fp + n)
    BY <1>2, <1>5, <1>6
  <2>3. position' - format_position' = position - format_position
    BY <2>2, Zenon DEF q, fp, n
  <2> QED BY <2>1, <2>3, Zenon
<1>20. remain_header' = <<>>
  BY DEF Arranged
<1>21. ~Between' /\ pc' \notin {"restart", "eof"}
  BY DEF Between
<1>22. \E j \in DOMAIN log' : Opened(j)'
  BY <1>13, <1>18, Zenon
<1> QED BY <1>13, <1>19, <1>20, <1>21, <1>22, Zenon DEF Arranged

LEMMA WriteArranged ==
  IInv /\ QuietInv /\ CountInv /\ ArrangedInv /\ WriteData => ArrangedInv'
<1> SUFFICES ASSUME IInv, QuietInv, CountInv, ArrangedInv, WriteData, Undisturbed', cuts' = 0
             PROVE  Arranged'
  BY DEF ArrangedInv
<1>1. PICK r \in FormatResults(nb_read) :
        /\ FormatWrite(Buffer(0, nb_read), r)
        /\ nb_write' = r.n
        /\ pc' = IF r.n = nb_read THEN "read" ELSE "prompt"
        /\ back' = IF r.n = nb_read THEN back
                   ELSE IF r.n < 0 /\ r.err = "ENOSPC" THEN "enospc" ELSE "split"
        /\ total_nb_write' = IF r.n = nb_read THEN total_nb_write + r.n
                             ELSE total_nb_write
  BY DEF WriteData
<1>2. /\ pc = "write" /\ i' = i /\ size' = size /\ resizes' = resizes /\ cuts' = cuts
      /\ nb_read \in Nat /\ total_nb_write \in Nat /\ roff \in Nat /\ StSize \in Nat
      /\ format_position \in Nat /\ position \in Nat /\ 0 \in Nat /\ cuts \in Nat
  BY ContentSizes DEF WriteData, envVars, IInv, TypeOK
<1>3. /\ faults' = faults + r.fault /\ r.fault \in Nat /\ remain_header' = remain_header
      /\ volume' = volume
      /\ position' = IF r.n > 0 THEN position + r.n ELSE position
      /\ format_position' = IF r.n > 0 THEN format_position + r.n ELSE format_position
  BY <1>1, <1>2, FaultSign DEF FormatWrite, Write
<1>4. Undisturbed /\ r.fault = 0 /\ Arranged
  BY <1>2, <1>3, Calm
<1>5. Counted /\ roff <= StSize /\ Archived = total_nb_write /\ roff = total_nb_write + nb_read
  BY <1>2, <1>4 DEF CountInv, Undisturbed, QuietInv, Quiet, ContentAhead, Archived, IInv, Counters
<1>6. r.n \in 0 .. nb_read
  BY <1>1, <1>2, <1>4, <1>5, WriteGood DEF Counted
<1>7. PICK T \in Seq(Units) : /\ log' = log \o T
                              /\ Len(T) = IF r.n > 0 THEN r.n ELSE 0
                              /\ DataLike(T, i, roff - nb_read + 0)
  BY <1>1, <1>2, BufferFront
<1>8. Len(T) = r.n
  BY <1>2, <1>6, <1>7
<1>9. position' = position + Len(T) /\ format_position' = format_position + Len(T)
  BY <1>2, <1>3, <1>6, <1>8
<1>10. pc' \in {"read", "prompt"} /\ (pc' = "prompt" => back' = "split")
  <2>1. ~(r.n < 0)
    BY <1>2, <1>6
  <2> QED BY <1>1, <2>1, Zenon
<1>11. Archived' = total_nb_write + r.n
  <2>1. CASE r.n = nb_read
    BY <1>1, <2>1 DEF Archived
  <2>2. CASE r.n # nb_read
    <3>1. nb_write' = r.n /\ r.n # -1 /\ pc' = "prompt" /\ total_nb_write' = total_nb_write
      BY <1>1, <1>2, <1>6, <2>2
    <3> QED BY <3>1 DEF Archived
  <2> QED BY <2>1, <2>2
<1>12. Archived' = Archived + Len(T)
  BY <1>5, <1>8, <1>11
<1>13. Archived' <= StSize
  <2> DEFINE n == r.n
             z == StSize
  <2>1. n \in 0 .. nb_read /\ z \in Nat /\ total_nb_write + nb_read <= z
    BY <1>2, <1>5, <1>6
  <2> HIDE DEF n, z
  <2>2. total_nb_write + n <= z
    BY <1>2, <2>1
  <2> QED BY <1>11, <2>2 DEF n, z
<1>14. StSize' = StSize /\ Archived \in Nat
  BY <1>2, <1>5 DEF StSize, Entry
<1>15. DataLike(T, i, Archived)
  <2>1. roff - nb_read + 0 = Archived
    BY <1>2, <1>5
  <2> QED BY <1>7, <2>1
<1> QED BY <1>2, <1>3, <1>4, <1>7, <1>9, <1>10, <1>12, <1>13, <1>14, <1>15, DataArranged

LEMMA RestArranged ==
  IInv /\ QuietInv /\ CountInv /\ ArrangedInv /\ WriteRest => ArrangedInv'
<1> SUFFICES ASSUME IInv, QuietInv, CountInv, ArrangedInv, WriteRest, Undisturbed', cuts' = 0
             PROVE  Arranged'
  BY DEF ArrangedInv
<1> DEFINE length == nb_read - nb_write
<1>1. PICK r \in FormatResults(length) :
        /\ FormatWrite(Buffer(nb_write, length), r)
        /\ nb_write' = IF r.n > 0 THEN nb_write + r.n ELSE nb_write
        /\ pc' = IF nb_write' < nb_read THEN "prompt" ELSE "read"
        /\ total_nb_write' = IF nb_write' < nb_read THEN total_nb_write
                             ELSE total_nb_write + nb_write'
  BY DEF WriteRest
<1>2. /\ pc = "rest" /\ i' = i /\ size' = size /\ resizes' = resizes /\ cuts' = cuts
      /\ back' = back /\ nb_read \in Nat /\ nb_write \in Nat \cup {-1}
      /\ nb_write <= nb_read /\ roff = total_nb_write + nb_read
      /\ total_nb_write \in Nat /\ roff \in Nat /\ StSize \in Nat
      /\ format_position \in Nat /\ position \in Nat /\ cuts \in Nat
  BY ContentSizes DEF WriteRest, envVars, IInv, TypeOK
<1>3. length \in Nat
  BY <1>2
<1>4. /\ faults' = faults + r.fault /\ r.fault \in Nat /\ remain_header' = remain_header
      /\ volume' = volume
      /\ position' = IF r.n > 0 THEN position + r.n ELSE position
      /\ format_position' = IF r.n > 0 THEN format_position + r.n ELSE format_position
  BY <1>1, <1>3, FaultSign DEF FormatWrite, Write
<1>5. Undisturbed /\ Arranged
  BY <1>2, <1>4, Calm
<1>6. /\ roff <= StSize /\ nb_write \in Nat /\ back = "split"
      /\ Archived = total_nb_write + nb_write
  BY <1>2, <1>5 DEF QuietInv, Quiet, ContentAhead, Archived, IInv, Control
<1>7. r.n \in -1 .. length
  BY <1>1, <1>3, FormatResult DEF GoodResult, IInv, TypeOK
<1>8. PICK T \in Seq(Units) : /\ log' = log \o T
                              /\ Len(T) = IF r.n > 0 THEN r.n ELSE 0
                              /\ DataLike(T, i, roff - nb_read + nb_write)
  BY <1>1, <1>3, <1>6, BufferFront
<1>9. Len(T) \in 0 .. length
  BY <1>3, <1>7, <1>8
<1>10. /\ position' = position + Len(T) /\ format_position' = format_position + Len(T)
       /\ nb_write' = nb_write + Len(T)
  BY <1>1, <1>2, <1>4, <1>6, <1>7, <1>8
<1>11. pc' \in {"read", "prompt"} /\ (pc' = "prompt" => back' = "split")
  BY <1>1, <1>2, <1>6
<1>12. nb_write' # -1 /\ nb_write' \in Nat /\ nb_write' <= nb_read
  <2> DEFINE n == Len(T)
  <2>1. n \in 0 .. nb_read - nb_write
    BY <1>9
  <2> HIDE DEF n
  <2>2. nb_write + n \in Nat /\ nb_write + n <= nb_read /\ nb_write + n # -1
    BY <1>2, <1>6, <2>1
  <2> QED BY <1>10, <2>2 DEF n
<1>13. Archived' = total_nb_write + nb_write'
  <2>1. CASE nb_write' < nb_read
    BY <1>1, <1>12, <2>1 DEF Archived
  <2>2. CASE ~(nb_write' < nb_read)
    BY <1>1, <2>2 DEF Archived
  <2> QED BY <2>1, <2>2
<1>14. Archived' = Archived + Len(T)
  <2> DEFINE n == Len(T)
  <2>1. n \in Nat
    BY <1>3, <1>9
  <2> HIDE DEF n
  <2>2. total_nb_write + (nb_write + n) = (total_nb_write + nb_write) + n
    BY <1>2, <1>6, <2>1
  <2> QED BY <1>6, <1>10, <1>13, <2>2, Zenon DEF n
<1>15. Archived' <= StSize
  <2> DEFINE n == nb_write'
             z == StSize
  <2>1. n \in Nat /\ n <= nb_read /\ z \in Nat /\ total_nb_write + nb_read <= z
    BY <1>2, <1>6, <1>12
  <2> HIDE DEF n, z
  <2>2. total_nb_write + n <= z
    BY <1>2, <2>1
  <2> QED BY <1>13, <2>2 DEF n, z
<1>16. StSize' = StSize /\ Archived \in Nat
  BY <1>2, <1>6 DEF StSize, Entry
<1>17. DataLike(T, i, Archived)
  <2>1. roff - nb_read + nb_write = total_nb_write + nb_write
    BY <1>2, <1>6
  <2> QED BY <1>6, <1>8, <2>1
<1> QED BY <1>2, <1>4, <1>5, <1>8, <1>10, <1>11, <1>14, <1>15, <1>16, <1>17, DataArranged

LEMMA RestartArranged ==
  IInv /\ QuietInv /\ ArrangedInv /\ Restart => ArrangedInv'
<1> SUFFICES ASSUME IInv, QuietInv, ArrangedInv, Restart, Undisturbed', cuts' = 0
             PROVE  Arranged'
  BY DEF ArrangedInv
<1> DEFINE units == RestartUnits(i, RestartAt, StSize)
           at == RestartAt
<1>1. PICK r \in WriteResults(Len(units)) : RestartFile(i, RestartAt, StSize, r)
  BY DEF Restart
<1>2. /\ pc = "restart" /\ i' = i /\ size' = size /\ resizes' = resizes /\ cuts' = cuts
      /\ nb_write' = nb_write /\ AfterRestart
      /\ i \in Nat /\ cuts \in Nat /\ StSize \in Nat /\ nb_read \in Nat /\ total_nb_write \in Nat
      /\ nb_write \in Nat \cup {-1} /\ nb_write <= nb_read /\ roff = total_nb_write + nb_read
      /\ position \in Nat
  BY ContentSizes DEF Restart, AfterRestart, envVars, IInv, TypeOK
<1>3. units \in Seq(Units) /\ Len(units) \in Nat
  BY <1>2, RestartTypes, LenProperties
<1>4. faults' = faults + r.fault /\ r.fault \in Nat
  BY <1>1, <1>3, FaultSign DEF RestartFile, Write
<1>5. Undisturbed /\ r.fault = 0 /\ Arranged
  BY <1>2, <1>4, Calm
<1>6. /\ position = 0 /\ remain_header = <<>> /\ Chained(log) /\ OnVolume
      /\ back = "split" /\ nb_write \in Nat /\ roff <= StSize /\ fd
  <2>1. Quiet
    BY <1>5 DEF QuietInv
  <2> QED BY <1>2, <1>5, <2>1 DEF Quiet, VolumeOpen, ContentAhead, Arranged, IInv, Control
<1>7. at = total_nb_write + nb_write /\ at \in Nat /\ StSize - at \in Nat
  <2> DEFINE z == StSize
  <2>1. z \in Nat /\ total_nb_write + nb_read <= z
    BY <1>2, <1>6
  <2> HIDE DEF z
  <2>2. total_nb_write + nb_write \in Nat /\ z - (total_nb_write + nb_write) \in Nat
    BY <1>2, <1>6, <2>1
  <2>3. at = total_nb_write + nb_write
    BY <1>6 DEF RestartAt
  <2> QED BY <2>2, <2>3 DEF z
<1> HIDE DEF at
<1>8. units = HeaderUnits("cont", i, 1, at, StSize - at) /\ Len(units) = Block
  <2>1. units = HeaderUnits("cont", i, 1, at, StSize - at)
    BY <1>6 DEF RestartUnits, at
  <2>2. /\ 1 * Block = Block /\ at \in Int /\ StSize - at \in Int /\ 1 \in Nat \ {0}
        /\ "cont" \in Kind \ {"data"}
    BY <1>2, <1>7, FileAssumption DEF Kind
  <2>3. Len(HeaderUnits("cont", i, 1, at, StSize - at)) = 1 * Block
    BY <1>2, <2>2, HeaderNotEmpty
  <2> QED BY <2>1, <2>2, <2>3
<1> HIDE DEF units
<1>9. Write(units, r) /\ format_position' = 0 /\ remain_header' = <<>>
  BY <1>1, <1>6 DEF RestartFile, units
<1>10. Block \in Nat \ {0}
  BY FileAssumption
<1>11. FileTypeOK /\ VolumeOK
  BY DEF IInv, TypeOK, FormatTypeOK
<1>12. GoodResult(Len(units), r)
  BY <1>1, <1>3, <1>11, WriteResult
<1>13. r.n = Block
  <2>1. GoesRight(Block, r)
    BY <1>1, <1>5, <1>6, <1>8, <1>10, <1>11, WriteRight
  <2>2. CASE VolumeSize > 0
    <3>1. VolumeSize > Block /\ VolumeSize \in Nat
      BY <2>2, VolumeBlocks, FileAssumption
    <3> QED BY <1>6, <1>10, <2>1, <3>1 DEF GoesRight
  <2>3. CASE ~(VolumeSize > 0)
    BY <1>10, <2>1, <2>3 DEF GoesRight
  <2> QED BY <2>2, <2>3
<1>14. PICK T \in Seq(Units) : /\ log' = log \o T
                               /\ Len(T) = IF r.n > 0 THEN r.n ELSE 0
                               /\ FrontOf(units, T)
  BY <1>3, <1>9, <1>11, <1>12, Appended
<1>15. Len(T) = Block /\ Len(T) = 1 * Block /\ Len(T) > 0
  BY <1>10, <1>13, <1>14
<1>16. HeaderLike(T, "cont", i, at, StSize - at)
  <2>1. FrontOf(HeaderUnits("cont", i, 1, at, StSize - at), T) /\ 1 \in Nat
    BY <1>8, <1>14
  <2> QED BY <2>1, HeaderFront
<1>17. position' = position + Len(T) /\ volume' = volume
  BY <1>3, <1>9, <1>12, <1>14, WriteMoves
<1>18. Closed
  <2>1. Len(log) \in Nat /\ DOMAIN log = 1 .. Len(log) /\ volume \in Nat
    BY LenProperties DEF IInv, TypeOK, FormatTypeOK, FileTypeOK
  <2>2. \A l \in DOMAIN log : log[l].v < volume
    BY <1>6, <2>1 DEF OnVolume
  <2>3. \A l \in DOMAIN log : log[l].v # volume
    BY <2>1, <2>2
  <2> QED BY <2>3 DEF Closed, EndBy
<1>19. pc' \in {"read", "rest"} /\ Archived' = at
  <2>1. pc' = IF nb_read > nb_write THEN "rest" ELSE "read"
    BY <1>2, <1>6 DEF AfterRestart
  <2>2. total_nb_write' = IF pc' = "read" THEN total_nb_write + nb_write ELSE total_nb_write
    BY <1>2 DEF AfterRestart
  <2>3. nb_write # -1
    BY <1>6
  <2> QED BY <1>2, <1>7, <2>1, <2>2, <2>3 DEF Archived
<1>20. StSize' = at + (StSize - at)
  <2>1. StSize' = StSize
    BY <1>2 DEF StSize, Entry
  <2> QED BY <1>2, <1>7, <2>1
<1>21. Aligned(position)
  <2>1. 0 = 0 * Block
    BY <1>10
  <2> QED BY <1>6, <2>1 DEF Aligned
<1>22. /\ Chained(log') /\ OnVolume'
       /\ \E j \in DOMAIN log' : Opened(j)'
       /\ Aligned(position' - format_position')
  <2>1. "cont" \in {"hdr", "cont"} /\ "cont" # "hdr" /\ at \in Int /\ 1 \in Nat
    BY <1>7
  <2> QED BY <1>2, <1>6, <1>7, <1>9, <1>14, <1>15, <1>16, <1>17, <1>18, <1>19, <1>20, <1>21,
             <2>1, HeaderOpens
<1>23. ~Between' /\ pc' \notin {"prompt", "restart", "eof", "exit", "done"}
  BY <1>19 DEF Between
<1> QED BY <1>9, <1>22, <1>23, Zenon DEF Arranged

(* The padding ends the last block, unless the volume ends first.           *)
LEMMA FinishArranged ==
  IInv /\ QuietInv /\ ArrangedInv /\ FinishFile => ArrangedInv'
<1> SUFFICES ASSUME IInv, QuietInv, ArrangedInv, FinishFile, Undisturbed', cuts' = 0
             PROVE  Arranged'
  BY DEF ArrangedInv
<1> DEFINE pads == [j \in 1 .. PadLength |-> Unit("pad", 0, 0, 0, 0)]
           n == PadLength
<1>1. PICK r \in EndOfFileResults : EndOfFile(r)
  BY DEF FinishFile
<1>2. /\ pc = "eof" /\ pc' = "next" /\ resizes' = resizes /\ cuts' = cuts /\ cuts \in Nat
      /\ remain_header' = remain_header /\ Write(pads, r)
      /\ position \in Nat /\ log \in Seq(Units) /\ format_position \in Nat
  BY <1>1 DEF FinishFile, envVars, EndOfFile, formatVars, IInv, TypeOK, FormatTypeOK, FileTypeOK
<1>3. n \in Nat
  BY PadLengthNat DEF IInv, TypeOK, FormatTypeOK
<1>4. /\ pads \in Seq(Units) /\ Len(pads) = n
      /\ \A j \in 1 .. n : pads[j].k = "pad"
  <2>1. Unit("pad", 0, 0, 0, 0) \in Units /\ Unit("pad", 0, 0, 0, 0).k = "pad"
    BY DEF Unit, Units, Kind
  <2>2. pads \in [1 .. n -> Units]
    BY <2>1
  <2> QED BY <1>3, <2>1, <2>2, FunctionIsSeq
<1>5. faults' = faults + r.fault /\ r.fault \in Nat
  <2>1. CASE n = 0
    BY <1>1, <1>2, <2>1 DEF EndOfFileResults, Write
  <2>2. CASE n # 0
    BY <1>1, <1>2, <1>3, <2>2, FaultSign DEF EndOfFileResults, Write
  <2> QED BY <2>1, <2>2
<1>6. Undisturbed /\ r.fault = 0 /\ Arranged
  BY <1>2, <1>5, Calm
<1>7. fd
  BY <1>2, <1>6 DEF QuietInv, Quiet, VolumeOpen
<1>8. FileTypeOK /\ VolumeOK
  BY DEF IInv, TypeOK, FormatTypeOK
<1>9. GoodResult(n, r)
  BY <1>1, <1>8, EndOfFileResult DEF IInv, TypeOK
<1>10. n > 0 => GoesRight(n, r)
  <2> SUFFICES ASSUME n > 0 PROVE GoesRight(n, r)
    OBVIOUS
  <2>1. n \in Nat \ {0} /\ r \in WriteResults(n)
    BY <1>1, <1>3 DEF EndOfFileResults
  <2> QED BY <1>6, <1>7, <1>8, <2>1, WriteRight
<1> HIDE DEF pads, n
<1>11. PICK T \in Seq(Units) : /\ log' = log \o T
                               /\ Len(T) = IF r.n > 0 THEN r.n ELSE 0
                               /\ FrontOf(pads, T)
  BY <1>2, <1>4, <1>8, <1>9, Appended
<1>12. position' = position + Len(T) /\ volume' = volume
  BY <1>2, <1>4, <1>9, <1>11, WriteMoves
<1>13. r.n \in -1 .. n /\ Len(T) \in 0 .. n
  BY <1>3, <1>9, <1>11 DEF GoodResult
<1>14. CASE failed /\ Full
  <2>1. r.n <= 0
    BY <1>2, <1>9, <1>13, <1>14, FileAssumption DEF Full, GoodResult
  <2>2. log' = log /\ position' = position
    BY <1>2, <1>13, <2>1 DEF Write
  <2>3. OnVolume' /\ Full' /\ failed' /\ Aligned(position')
    BY <1>6, <1>12, <1>14, <2>2, VolumeBlocks DEF Arranged, OnVolume, Full, FinishFile
  <2> QED BY <1>2, <1>6, <2>2, <2>3 DEF Arranged, Between
<1>15. CASE ~(failed /\ Full)
  <2>1. PICK h \in DOMAIN log : Opened(h) /\ format_position = log[h].s
    BY <1>2, <1>6, <1>15 DEF Arranged
  <2> DEFINE w == HeadLength(log[h])
             s == log[h].s
             m == Len(log)
             t == Len(T)
             e == RoundUp(s)
  <2>2. Chained(log) /\ OnVolume /\ Aligned(position - format_position) /\ remain_header = <<>>
    BY <1>2, <1>6 DEF Arranged
  <2>3. s \in Nat /\ w \in Nat \ {0} /\ h \in Nat /\ m \in Nat /\ t \in 0 .. n
    <3>1. s \in Nat /\ w \in Nat \ {0}
      BY <2>1, <2>2 DEF Chained, Opened
    <3> QED BY <1>2, <1>13, <3>1, LenProperties
  <2>4. e = s + n /\ e \in Nat
    BY <2>1, <2>3, RoundPad DEF PadLength, n
  <2>5. h + w + s = m + 1
    BY <2>1 DEF Opened
  <2>6. Ending(log, h) = h + w + e
    BY DEF Ending
  <2> HIDE DEF w, s, m, t, e
  <2>7. m + t < h + w + e
    BY <1>3, <2>3, <2>4, <2>5
  <2>8. Len(log) + Len(T) < Ending(log, h)
    BY <2>6, <2>7 DEF m, t
  <2>9. \A j \in 1 .. Len(T) : T[j].v = volume /\ T[j].k = "pad"
    <3>1. \A j \in 1 .. Len(T) : T[j].v = volume /\ T[j].k = pads[j].k
      BY <1>11 DEF FrontOf
    <3>2. \A j \in 1 .. Len(T) : j \in 1 .. n
      BY <1>3, <1>13
    <3> QED BY <1>4, <3>1, <3>2
  <2>10. IsHead(log[h]) /\ log[h].v = volume /\ EndBy(log, volume, h, Len(log))
    BY <2>1 DEF Opened
  <2>11. /\ Chained(log') /\ OnVolume'
         /\ h \in DOMAIN log' /\ Ending(log', h) = Ending(log, h)
         /\ Len(log') = Len(log) + Len(T)
         /\ EndBy(log', volume, h, Len(log))
    <3>1. \A j \in 1 .. Len(T) :
            /\ T[j].v = volume /\ T[j].k \in {"data", "pad"}
            /\ T[j].k = "data" =>
                 /\ T[j].f = log[h].f
                 /\ T[j].o = log[h].p + (Len(log) + j) - h - HeadLength(log[h])
      BY <2>9
    <3> QED BY <1>11, <1>12, <2>2, <2>8, <2>10, <3>1, BodyChain
  <2>12. Aligned(position + n)
    <3> DEFINE a == position - format_position
               k == (s + Block - 1) \div Block
    <3>1. k \in Nat /\ a \in Int /\ Aligned(a)
      BY <1>2, <2>2, <2>3, FileAssumption
    <3>2. Aligned(a + k * Block)
      BY <3>1, AlignedMore
    <3>3. e = k * Block
      BY DEF e, RoundUp
    <3> DEFINE b == k * Block
    <3>4. b = s + n
      BY <2>4, <3>3
    <3> HIDE DEF b, k
    <3>5. format_position = s
      BY <2>1 DEF s
    <3>6. position + n = (position - format_position) + b
      BY <1>2, <1>3, <2>3, <3>4, <3>5
    <3>7. position + n = a + b
      BY <3>6
    <3> HIDE DEF a
    <3> QED BY <3>2, <3>7, Zenon DEF b
  <2>13. t = n
    <3> SUFFICES ASSUME t # n PROVE FALSE
      OBVIOUS
    <3>1. n > 0 /\ r.n < n
      BY <1>3, <1>11, <1>13, <2>3 DEF t
    <3>2. GoesRight(n, r)
      BY <1>10, <3>1
    <3>3. VolumeSize > 0 /\ position + t = VolumeSize
      BY <1>2, <1>11, <1>13, <3>1, <3>2 DEF GoesRight, t
    <3>4. Aligned(position + t)
      BY <3>3, VolumeBlocks
    <3>5. PICK x, y \in Nat : position + t = x * Block /\ position + n = y * Block
      BY <2>12, <3>4 DEF Aligned
    <3> DEFINE B == Block
    <3>6. B \in Nat \ {0} /\ n < B
      BY FileAssumption, <1>2 DEF n, PadLength
    <3>7. y * B - x * B = n - t
      <4> DEFINE xb == x * B
                 yb == y * B
      <4>1. xb \in Nat /\ yb \in Nat
        BY <3>6, ProductNat
      <4>2. position + t = xb /\ position + n = yb
        BY <3>5
      <4> HIDE DEF xb, yb
      <4>3. yb - xb = n - t
        BY <1>2, <1>3, <2>3, <4>1, <4>2
      <4> QED BY <4>3 DEF xb, yb
    <3>8. n - t \in 1 .. B - 1
      BY <1>3, <2>3, <3>6
    <3> HIDE DEF B
    <3>9. (y - x) * B = n - t
      BY <3>5, <3>6, <3>7
    <3> QED BY <3>5, <3>6, <3>8, <3>9
  <2>14. Closed'
    <3> DEFINE u == log'
               g == Len(log') + 1
    <3>1. u \in Seq(Units) /\ Chained(u) /\ EndBy(u, volume, h, m)
      BY <1>2, <1>11, <2>11, ConcatUnits DEF m
    <3>2. g = (m + t) + 1 /\ Ending(u, h) = h + w + e
      BY <2>6, <2>11 DEF m, t
    <3> HIDE DEF u, g
    <3>3. g \in Nat /\ m <= g
      BY <1>3, <2>3, <3>2
    <3>4. h + w + e = (m + t) + 1
      BY <1>3, <2>3, <2>4, <2>5, <2>13
    <3>5. Ending(u, h) = g
      BY <3>2, <3>4
    <3>6. EndBy(u, volume, 0, g)
      <4>1. Ending(u, h) <= g
        BY <3>3, <3>5
      <4> QED BY <2>3, <3>1, <3>3, <4>1, EndByMore
    <3> QED BY <1>12, <3>6 DEF Closed, u, g
  <2>15. Aligned(position')
    BY <1>12, <2>12, <2>13 DEF t
  <2> QED BY <1>2, <2>2, <2>11, <2>14, <2>15 DEF Arranged, Between
<1> QED BY <1>14, <1>15

LEMMA AsideArranged ==
  IInv /\ ArrangedInv /\ (NoMoreEntries \/ StatFails \/ ReadFails \/ RestartIgnored \/ Exit
                          \/ PromptQuits \/ BadVolume \/ Resize \/ UNCHANGED vars)
  => ArrangedInv'
<1> SUFFICES ASSUME IInv, ArrangedInv, Undisturbed', cuts' = 0,
                    NoMoreEntries \/ StatFails \/ ReadFails \/ RestartIgnored
                      \/ Exit \/ PromptQuits \/ BadVolume \/ Resize \/ UNCHANGED vars
             PROVE  Arranged'
  BY DEF ArrangedInv
<1>1. ~(StatFails \/ ReadFails \/ RestartIgnored \/ Resize)
  <2>1. faults \in Nat /\ resizes \in Nat
    BY FileAssumption, CreateAssumption DEF IInv, TypeOK, FormatTypeOK, FileTypeOK
  <2> QED BY <2>1 DEF StatFails, ReadFails, CallFails, RestartIgnored, RestartFails, Resize,
                      Undisturbed
<1>2. log' = log /\ remain_header' = remain_header
  BY NothingWritten
<1>3. /\ faults' = faults /\ resizes' = resizes /\ cuts' = cuts /\ failed' = failed
      /\ position' = position /\ volume' = volume
  BY <1>1 DEF NoMoreEntries, Exit, Close, PromptQuits, BadVolume, vars, fileVars, envVars
<1>4. Arranged /\ OnVolume'
  BY <1>2, <1>3 DEF ArrangedInv, Undisturbed, Arranged, OnVolume
<1>5. CASE NoMoreEntries \/ Exit \/ PromptQuits \/ BadVolume
  <2>1. pc' \in {"exit", "done", "aborted", "crashed"}
    BY <1>5 DEF NoMoreEntries, Exit, PromptQuits, BadVolume
  <2>2. Closed' = Closed
    BY <1>2, <1>3 DEF Closed
  <2>3. pc' \in {"exit", "done"} => failed' \/ Closed'
    BY <1>3, <1>4, <1>5, <2>2
       DEF NoMoreEntries, Exit, PromptQuits, BadVolume, Arranged, Between
  <2> QED BY <1>2, <1>4, <2>1, <2>3 DEF Arranged, Between
<1>6. CASE UNCHANGED vars
  <2>1. /\ pc' = pc /\ back' = back /\ nb_write' = nb_write /\ i' = i /\ size' = size
        /\ total_nb_write' = total_nb_write /\ format_position' = format_position
    BY <1>6 DEF vars, loopVars, formatVars, envVars
  <2>2. Archived' = Archived /\ StSize' = StSize /\ Between' = Between /\ Full' = Full
        /\ Closed' = Closed
    BY <1>2, <1>3, <2>1 DEF Archived, StSize, Entry, Between, Full, Closed
  <2>3. \A h : Opened(h)' = Opened(h)
    BY <1>2, <1>3, <2>1, <2>2 DEF Opened
  <2> QED BY <1>2, <1>3, <1>4, <2>1, <2>2, <2>3 DEF Arranged
<1> QED BY <1>1, <1>5, <1>6

LEMMA NextArranged ==
  IInv /\ QuietInv /\ CountInv /\ ArrangedInv /\ [Next]_vars => ArrangedInv'
  BY LabelArranged, LinkArranged, AddArranged, NextEntryArranged, NextVolumeArranged,
     PromptEndsArranged, ReadArranged, WriteArranged, RestArranged, RestartArranged,
     FinishArranged, AsideArranged
     DEF Next, Program, Operator, Finished

LEMMA ArrangedHolds == Spec => []ArrangedInv
<1>1. Init => ArrangedInv
  BY InitArranged
<1>2. IInv /\ QuietInv /\ CountInv /\ ArrangedInv /\ [Next]_vars => ArrangedInv'
  BY NextArranged
<1>3. Spec => []IInv /\ []QuietInv /\ []CountInv
  BY Inductive, QuietHolds, CountHolds, PTL
<1> QED BY <1>1, <1>2, <1>3, PTL DEF Spec

LEMMA SameLengths ==
  /\ \A j : HeaderLength(j) = HeadLength(log[j]) /\ Following(j) = Ending(log, j)
  /\ Starts = {j \in DOMAIN log : IsHead(log[j])}
  BY DEF HeaderLength, HeadLength, Following, Ending, Starts, IsHead

(* A reader that goes by the size fields finds header after header, from    *)
(* the first unit of each volume to its end: create.c and writer.c write    *)
(* exactly what a header announces, or leave a volume that is full          *)
(* (create.c:250-301, writer.c:166-182).                                    *)
THEOREM HeadersFramed == Spec => []Framed
<1>1. IInv /\ ArrangedInv => Framed
  <2> SUFFICES ASSUME IInv, ArrangedInv, Undisturbed, cuts = 0
               PROVE  /\ \A j \in DOMAIN log : j = 1 \/ log[j].v # log[j - 1].v => j \in Starts
                      /\ \A j \in Starts :
                           /\ \A l \in j + 1 .. Len(log) :
                                log[l].v = log[j].v /\ l < Following(j) => l \notin Starts
                           /\ Following(j) \in DOMAIN log /\ log[Following(j)].v = log[j].v
                                => Following(j) \in Starts
    BY DEF Framed
  <2>1. Chained(log)
    BY DEF ArrangedInv, Arranged
  <2>2. DOMAIN log = 1 .. Len(log) /\ Len(log) \in Nat
    BY LenProperties DEF IInv, TypeOK, FormatTypeOK, FileTypeOK
  <2>3. \A j \in DOMAIN log : j = 1 \/ log[j].v # log[j - 1].v => j \in Starts
    BY <2>1, SameLengths DEF Chained
  <2>4. ASSUME NEW j \in Starts
        PROVE  /\ \A l \in j + 1 .. Len(log) :
                    log[l].v = log[j].v /\ l < Following(j) => l \notin Starts
               /\ Following(j) \in DOMAIN log /\ log[Following(j)].v = log[j].v
                    => Following(j) \in Starts
    <3>1. j \in DOMAIN log /\ IsHead(log[j]) /\ Following(j) = Ending(log, j) /\ j \in Nat
      BY <2>2, <2>4, SameLengths
    <3>2. /\ log[j].s \in Nat /\ HeadLength(log[j]) \in Nat \ {0}
          /\ \A l \in DOMAIN log : l > j /\ log[l].v = log[j].v =>
               /\ l < Ending(log, j) => ~IsHead(log[l])
               /\ l = Ending(log, j) => IsHead(log[l])
      BY <2>1, <3>1 DEF Chained
    <3>3. Ending(log, j) > j
      <4>1. Ending(log, j) \in Nat /\ Ending(log, j) >= j + HeadLength(log[j]) + log[j].s
        BY <3>1, <3>2, EndingBehind
      <4> QED BY <3>1, <3>2, <4>1
    <3>4. \A l \in j + 1 .. Len(log) : l \in DOMAIN log /\ l > j
      BY <2>2, <3>1
    <3> QED BY <3>1, <3>2, <3>3, <3>4, SameLengths
  <2> QED BY <2>3, <2>4
<1>2. Spec => []IInv /\ []ArrangedInv
  BY Inductive, ArrangedHolds, PTL
<1> QED BY <1>1, <1>2, PTL

(* And every unit of data is where the header in front of it says: of the   *)
(* file it names, at the offset that follows from its position field.       *)
THEOREM DataAddressed == Spec => []Addressed
<1>1. IInv /\ ArrangedInv => Addressed
  <2> SUFFICES ASSUME IInv, ArrangedInv, Undisturbed, cuts = 0,
                      NEW j \in Starts, NEW l \in DOMAIN log,
                      j < l, l < Following(j), log[l].v = log[j].v, IsData(l)
               PROVE  /\ log[l].f = log[j].f
                      /\ log[l].o = log[j].p + l - j - HeaderLength(j)
    BY DEF Addressed
  <2>1. Chained(log)
    BY DEF ArrangedInv, Arranged
  <2>2. DOMAIN log = 1 .. Len(log) /\ Len(log) \in Nat
    BY LenProperties DEF IInv, TypeOK, FormatTypeOK, FileTypeOK
  <2>3. /\ j \in DOMAIN log /\ IsHead(log[j]) /\ l < Ending(log, j) /\ log[l].k = "data"
        /\ HeaderLength(j) = HeadLength(log[j]) /\ l > j
    BY <2>2, SameLengths DEF IsData
  <2>4. log[l].f = log[j].f /\ log[l].o = log[j].p + l - j - HeadLength(log[j])
    BY <2>1, <2>3 DEF Chained
  <2> QED BY <2>3, <2>4
<1>2. Spec => []IInv /\ []ArrangedInv
  BY Inductive, ArrangedHolds, PTL
<1> QED BY <1>1, <1>2, PTL

=============================================================================
