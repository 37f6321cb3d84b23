--------------------------- MODULE FiltersProofs ----------------------------
(***************************************************************************)
(* The compression filters, for every size of unit, buffer, reserve, volume *)
(* and request, for data that shrinks or grows, and any number of failing   *)
(* calls: reading through a filter is reading what was written through one, *)
(* and forward turns for ever on damage only.                               *)
(***************************************************************************)
EXTENDS Filters, SequenceTheorems, WellFoundedInduction, TLAPS

----------------------------------------------------------------------------
(* The inductive invariant. *)

(* The units a .. b of s are bytes in a row, from m on. *)
EndOf(s, a, b, m) == IF b < a THEN m ELSE s[b].o + s[b].s
RunFrom(s, a, b, m) ==
    \A j \in a .. b :
        /\ s[j].k = "data" /\ s[j].s \in Nat
        /\ s[j].o = EndOf(s, a, j - 1, m)

FilterUnits ==
    [v : Nat, k : {"head", "data", "end", "crc", "size", "nul", "char"},
     f : Nat, o : Int, p : Int, s : Int]

WriterTypeOK ==
    /\ kind \in Filters
    /\ reserve \in Nat
    /\ op \in {"none", "null", "write", "flush", "finish", "numbers", "failed", "finished", "freed"}
    /\ avail_in \in Nat /\ total_in \in Nat
    /\ held \in Nat /\ held <= Hold /\ held <= total_in
    /\ fd = (op # "freed")
    /\ position \in Nat /\ (VolumeSize > 0 => position <= VolumeSize)
    /\ volume \in Nat /\ faults \in Nat
    /\ log \in Seq(FilterUnits)
    /\ kept \in BOOLEAN /\ padded \in BOOLEAN

(* What is on the volume: behind the header the bytes that were taken, but  *)
(* for those that are held, and when the stream is finished its end.        *)
First == IF kind = "gzip" THEN 2 ELSE 1

Going == op \in {"none", "write", "flush", "finish"}

Unfinished ==
    /\ First <= Len(log) + 1
    /\ RunFrom(log, First, Len(log), 0)
    /\ EndOf(log, First, Len(log), 0) = total_in - held

EndAt(e) ==
    /\ RunFrom(log, First, e - 1, 0)
    /\ EndOf(log, First, e - 1, 0) = total_in
    /\ log[e].k = "end"
    /\ kind # "gzip" => e = Len(log)

Written ==
    kept => /\ Going => Unfinished
            /\ op \in {"numbers", "finished"} => \E e \in First .. Len(log) : EndAt(e)

----------------------------------------------------------------------------
(* Units for n bytes. *)

LEMMA RatioNat == Ratio \in Nat \ {0}
  BY FilterAssumption DEF FilterAssumption

LEMMA RoundedUp ==
  ASSUME NEW n \in Nat, NEW R \in Nat \ {0}
  PROVE  /\ (n + R - 1) \div R \in Nat
         /\ n <= ((n + R - 1) \div R) * R
         /\ ((n + R - 1) \div R) * R < n + R
<1> DEFINE q == (n + R - 1) \div R
<1>1. q \in Nat /\ q * R <= n + R - 1 /\ n + R - 1 < q * R + R
  OBVIOUS
<1>2. q * R \in Nat
  BY <1>1
<1> HIDE DEF q
<1> QED BY <1>1, <1>2 DEF q

LEMMA CarriesFacts ==
  ASSUME NEW n \in Nat, NEW stored \in BOOLEAN
  PROVE  /\ Carries(n, stored) \in Nat /\ Carries(0, stored) = 0
         /\ n # 0 => Carries(n - 1, stored) <= Carries(n, stored)
         /\ UnitsFor(n, stored) \in Nat
         /\ n <= Carries(UnitsFor(n, stored), stored)
<1>1. CASE stored
  BY <1>1 DEF Carries, UnitsFor
<1>2. CASE ~stored
  <2>1. \A c \in Nat, R \in Nat : c * R \in Nat /\ 0 * R = 0 /\ (c # 0 => (c - 1) * R = c * R - R)
    OBVIOUS
  <2>2. \A c : Carries(c, stored) = c * Ratio
    BY <1>2 DEF Carries
  <2>3. Ratio \in Nat \ {0}
    BY RatioNat
  <2>4. Carries(n, stored) \in Nat /\ Carries(0, stored) = 0
    BY <2>1, <2>2, <2>3
  <2>5. n # 0 => Carries(n - 1, stored) <= Carries(n, stored)
    <3>1. n # 0 => Carries(n - 1, stored) = Carries(n, stored) - Ratio
      BY <2>1, <2>2, <2>3
    <3> QED BY <2>3, <2>4, <3>1
  <2>6. UnitsFor(n, stored) \in Nat /\ n <= Carries(UnitsFor(n, stored), stored)
    <3>1. CASE n = 0
      BY <2>1, <2>2, <2>3, <3>1 DEF UnitsFor
    <3>2. CASE n # 0
      <4>1. UnitsFor(n, stored) = (n + Ratio - 1) \div Ratio
        BY <1>2, <3>2 DEF UnitsFor
      <4> QED BY <2>2, <2>3, <4>1, RoundedUp
    <3> QED BY <3>1, <3>2
  <2> QED BY <2>4, <2>5, <2>6
<1> QED BY <1>1, <1>2

LEMMA NoUnits == \A stored : UnitsFor(0, stored) = 0
  BY DEF UnitsFor

----------------------------------------------------------------------------
(* What is put out. *)

(* The units of t, stamped, were put behind s, which became u. *)
Behind(s, t, u) ==
    /\ u \in Seq(FilterUnits)
    /\ Len(u) = Len(s) + Len(t)
    /\ \A j \in 1 .. Len(s) : u[j] = s[j]
    /\ \A j \in 1 .. Len(t) : u[Len(s) + j] = [t[j] EXCEPT !.v = volume]

LEMMA StampedUnit ==
  ASSUME NEW x \in FilterUnits, NEW w \in Nat
  PROVE  /\ [x EXCEPT !.v = w] \in FilterUnits
         /\ [x EXCEPT !.v = w].k = x.k /\ [x EXCEPT !.v = w].o = x.o
         /\ [x EXCEPT !.v = w].s = x.s
  BY DEF FilterUnits

LEMMA StampedSeq ==
  ASSUME NEW t \in Seq(FilterUnits), NEW n \in 0 .. Len(t), volume \in Nat
  PROVE  /\ Stamped(t, n) \in Seq(FilterUnits) /\ Len(Stamped(t, n)) = n
         /\ \A j \in 1 .. n : Stamped(t, n)[j] = [t[j] EXCEPT !.v = volume]
<1>1. Len(t) \in Nat /\ \A j \in 1 .. n : t[j] \in FilterUnits
  BY LenProperties, ElementOfSeq
<1>2. \A j \in 1 .. n : [t[j] EXCEPT !.v = volume] \in FilterUnits
  BY <1>1, StampedUnit
<1>3. n \in Nat
  BY <1>1
<1> DEFINE u == [j \in 1 .. n |-> [t[j] EXCEPT !.v = volume]]
<1>4. u \in [1 .. n -> FilterUnits]
  BY <1>2
<1>5. \A j \in 1 .. n : u[j] = [t[j] EXCEPT !.v = volume]
  OBVIOUS
<1>6. u = Stamped(t, n)
  BY DEF Stamped
<1> HIDE DEF u
<1>7. u \in Seq(FilterUnits) /\ Len(u) = n
  BY <1>3, <1>4
<1> QED BY <1>5, <1>6, <1>7

(* Two sequences behind each other, index by index. *)
LEMMA Joined ==
  ASSUME NEW S, NEW s \in Seq(S), NEW t \in Seq(S)
  PROVE  /\ s \o t \in Seq(S)
         /\ Len(s) \in Nat /\ Len(t) \in Nat /\ Len(s \o t) = Len(s) + Len(t)
         /\ \A j \in 1 .. Len(s) : (s \o t)[j] = s[j]
         /\ \A j \in 1 .. Len(t) : (s \o t)[Len(s) + j] = t[j]
<1>1. /\ s \o t \in Seq(S)
      /\ Len(s \o t) = Len(s) + Len(t)
      /\ \A j \in 1 .. Len(s) + Len(t) :
           (s \o t)[j] = IF j <= Len(s) THEN s[j] ELSE t[j - Len(s)]
  BY ConcatProperties
<1>2. Len(s) \in Nat /\ Len(t) \in Nat
  BY LenProperties
<1> QED BY <1>1, <1>2

LEMMA JoinedUnits ==
  ASSUME NEW s \in Seq(FilterUnits), NEW t, NEW n \in Nat, NEW T \in Seq(FilterUnits),
         Len(t) = n, Len(T) = n, \A j \in 1 .. n : T[j] = [t[j] EXCEPT !.v = volume]
  PROVE  Behind(s, t, s \o T)
<1>1. /\ s \o T \in Seq(FilterUnits)
      /\ Len(s \o T) = Len(s) + Len(T)
      /\ \A j \in 1 .. Len(s) : (s \o T)[j] = s[j]
      /\ \A j \in 1 .. Len(T) : (s \o T)[Len(s) + j] = T[j]
  BY Joined
<1> DEFINE u == s \o T
<1> HIDE DEF u
<1>2. u \in Seq(FilterUnits) /\ Len(u) = Len(s) + Len(t) /\ \A j \in 1 .. Len(s) : u[j] = s[j]
  BY <1>1 DEF u
<1>3. ASSUME NEW j \in 1 .. Len(t) PROVE u[Len(s) + j] = [t[j] EXCEPT !.v = volume]
  <2>1. j \in 1 .. n /\ j \in 1 .. Len(T)
    OBVIOUS
  <2>2. u[Len(s) + j] = T[j]
    BY <1>1, <2>1, Zenon DEF u
  <2> QED BY <2>1, <2>2, Zenon
<1>4. Behind(s, t, u)
  BY <1>2, <1>3, Zenon DEF Behind
<1> QED BY <1>4 DEF u

LEMMA PutBehind ==
  ASSUME WriterTypeOK, NEW t \in Seq(FilterUnits), NEW n \in 0 .. Len(t)
  PROVE  /\ log \o Stamped(t, n) \in Seq(FilterUnits)
         /\ n = Len(t) => Behind(log, t, log \o Stamped(t, n))
<1>1. log \in Seq(FilterUnits) /\ volume \in Nat
  BY DEF WriterTypeOK
<1>2. /\ Stamped(t, n) \in Seq(FilterUnits) /\ Len(Stamped(t, n)) = n
      /\ \A j \in 1 .. n : Stamped(t, n)[j] = [t[j] EXCEPT !.v = volume]
  BY <1>1, StampedSeq
<1>3. n \in Nat
  BY LenProperties
<1>4. log \o Stamped(t, n) \in Seq(FilterUnits)
  BY <1>1, <1>2, Joined
<1>5. ASSUME n = Len(t) PROVE Behind(log, t, log \o Stamped(t, n))
  BY <1>1, <1>2, <1>3, <1>5, JoinedUnits, Zenon
<1> QED BY <1>4, <1>5

(* The outcomes of the writes of a filter. *)
LEMMA EmitsFacts ==
  ASSUME WriterTypeOK, NEW t \in Seq(FilterUnits), NEW r \in Emits(t)
  PROVE  /\ r.n \in Int /\ r.n <= Len(t) /\ r.fault \in Nat
         /\ VolumeSize > 0 /\ r.n > 0 => position + r.n <= VolumeSize
         /\ r.fault = 0 /\ op # "freed" /\ (VolumeSize > 0 => Len(t) <= VolumeSize - position)
              => r.n = Len(t)
<1>1. Len(t) \in Nat /\ (t # <<>> => Len(t) > 0) /\ position \in Nat /\ VolumeSize \in Nat
  BY EmptySeq, FileAssumption DEF WriterTypeOK, FileAssumption
<1>2. CASE t = <<>>
  BY <1>1, <1>2, EmptySeq DEF Emits
<1>3. CASE t # <<>>
  <2>1. r \in WriteResults(Len(t)) /\ Len(t) >= 1
    BY <1>1, <1>3 DEF Emits
  <2>2. VolumeSize > 0 => position <= VolumeSize
    BY DEF WriterTypeOK
  <2>3. ~fd => op = "freed"
    BY Zenon DEF WriterTypeOK
  <2> DEFINE n == Len(t)
             room == IF VolumeSize > 0 THEN Least(n, VolumeSize - position) ELSE n
             most == IF n < VolumeSize - position THEN n ELSE VolumeSize - position
  <2>4. most \in Int /\ most <= n /\ most <= VolumeSize - position
        /\ (n <= VolumeSize - position => most = n)
    BY <1>1
  <2>5. room \in Int /\ room <= n /\ (VolumeSize > 0 => room <= VolumeSize - position)
        /\ ((VolumeSize > 0 => n <= VolumeSize - position) => room = n)
    BY <1>1, <2>4 DEF Least
  <2>6. CASE ~fd
    <3>1. r = [n |-> 0, err |-> last_errno, fault |-> 0]
      BY <2>1, <2>6 DEF WriteResults
    <3>2. r.n = 0 /\ r.fault = 0
      BY <3>1
    <3> QED BY <1>1, <2>3, <2>6, <3>2
  <2>7. CASE fd /\ VolumeSize > 0 /\ position = VolumeSize
    <3>1. r = [n |-> -1, err |-> "ENOSPC", fault |-> 0]
      BY <1>1, <2>1, <2>7 DEF WriteResults
    <3>2. r.n = -1 /\ r.fault = 0
      BY <3>1
    <3>3. ~(Len(t) <= VolumeSize - position)
      BY <1>1, <2>1, <2>7
    <3> QED BY <1>1, <2>7, <3>2, <3>3
  <2>8. CASE fd /\ ~(VolumeSize > 0 /\ position = VolumeSize)
    <3> HIDE DEF room, most
    <3>1. r \in {[n |-> room, err |-> "none", fault |-> 0]}
                 \cup [n : 1 .. room - 1, err : {"none"}, fault : {1}]
                 \cup [n : {-1}, err : {"ENOSPC", "EIO"}, fault : {1}]
      <4>1. ~(Len(t) < 1)
        BY <1>1, <2>1
      <4> QED BY <2>1, <2>8, <4>1 DEF WriteResults, room
    <3>2. \/ r.n = room /\ r.fault = 0
          \/ r.n \in 1 .. room - 1 /\ r.fault = 1
          \/ r.n = -1 /\ r.fault = 1
      BY <3>1
    <3>3. r.n \in Int /\ r.n <= Len(t) /\ r.fault \in Nat
      BY <1>1, <2>5, <3>2
    <3>4. ASSUME VolumeSize > 0, r.n > 0 PROVE position + r.n <= VolumeSize
      BY <1>1, <2>5, <3>2, <3>4
    <3>5. r.fault = 0 => r.n = room
      BY <3>2
    <3> QED BY <2>5, <3>3, <3>4, <3>5
  <2> QED BY <2>6, <2>7, <2>8
<1> QED BY <1>2, <1>3

LEMMA EmitStep ==
  ASSUME WriterTypeOK, NEW t \in Seq(FilterUnits), NEW r \in Emits(t), Emit(t, r)
  PROVE  /\ log' \in Seq(FilterUnits) /\ position' \in Nat
         /\ VolumeSize > 0 => position' <= VolumeSize
         /\ faults' \in Nat /\ faults' = faults + r.fault
         /\ volume' = volume /\ fd' = fd /\ kept' \in BOOLEAN
         /\ kept' <=> kept /\ r.n = Len(t)
         /\ r.n = Len(t) => Behind(log, t, log') /\ position' = position + Len(t)
<1>1. /\ r.n \in Int /\ r.n <= Len(t) /\ r.fault \in Nat
      /\ VolumeSize > 0 /\ r.n > 0 => position + r.n <= VolumeSize
  BY EmitsFacts
<1>2. /\ Len(t) \in Nat /\ position \in Nat /\ faults \in Nat /\ log \in Seq(FilterUnits)
      /\ VolumeSize > 0 => position <= VolumeSize
      /\ Len(log) \in Nat /\ volume \in Nat
  BY LenProperties DEF WriterTypeOK
<1>3. /\ log' = (IF r.n > 0 THEN log \o Stamped(t, r.n) ELSE log)
      /\ position' = (IF r.n > 0 THEN position + r.n ELSE position)
      /\ faults' = faults + r.fault /\ volume' = volume /\ fd' = fd
      /\ kept' = (kept /\ r.n = Len(t))
  BY DEF Emit, Write
<1>4. faults' \in Nat
  BY <1>1, <1>2, <1>3
<1>5. kept' \in BOOLEAN /\ (kept' <=> kept /\ r.n = Len(t))
  BY <1>3 DEF WriterTypeOK
<1>6. CASE r.n > 0
  <2>1. r.n \in 0 .. Len(t)
    BY <1>1, <1>2, <1>6
  <2>2. log' = log \o Stamped(t, r.n) /\ position' = position + r.n
    BY <1>3, <1>6
  <2>3. log' \in Seq(FilterUnits) /\ (r.n = Len(t) => Behind(log, t, log'))
    BY <2>1, <2>2, PutBehind
  <2>4. position' \in Nat /\ (VolumeSize > 0 => position' <= VolumeSize)
    BY <1>1, <1>2, <1>6, <2>2
  <2> QED BY <1>3, <1>4, <1>5, <2>2, <2>3, <2>4
<1>7. CASE ~(r.n > 0)
  <2>1. log' = log /\ position' = position
    BY <1>3, <1>7
  <2>2. ASSUME r.n = Len(t) PROVE Behind(log, t, log') /\ position' = position + Len(t)
    <3>1. Len(t) = 0
      BY <1>2, <1>7, <2>2
    <3> QED BY <1>2, <2>1, <3>1 DEF Behind
  <2> QED BY <1>2, <1>3, <1>4, <1>5, <2>1, <2>2
<1> QED BY <1>6, <1>7

----------------------------------------------------------------------------
(* Bytes in a row. *)

LEMMA UnitFields ==
  ASSUME NEW s \in Seq(FilterUnits), NEW j \in 1 .. Len(s)
  PROVE  s[j] \in FilterUnits /\ s[j].o \in Int /\ s[j].s \in Int
<1>1. s[j] \in FilterUnits
  BY ElementOfSeq
<1> QED BY <1>1 DEF FilterUnits

LEMMA BehindUnit ==
  ASSUME NEW s, NEW t \in Seq(FilterUnits), NEW u, Behind(s, t, u), volume \in Nat,
         NEW j \in 1 .. Len(t)
  PROVE  /\ u[Len(s) + j].k = t[j].k /\ u[Len(s) + j].o = t[j].o
         /\ u[Len(s) + j].s = t[j].s
<1>1. u[Len(s) + j] = [t[j] EXCEPT !.v = volume] /\ t[j] \in FilterUnits
  BY ElementOfSeq DEF Behind
<1> QED BY <1>1, StampedUnit

(* What is put behind a run and goes on with it makes a longer run. *)
LEMMA RunJoined ==
  ASSUME NEW s \in Seq(FilterUnits), NEW t \in Seq(FilterUnits), NEW u, Behind(s, t, u),
         volume \in Nat, NEW a \in Nat \ {0}, a <= Len(s) + 1, RunFrom(s, a, Len(s), 0),
         NEW n \in 0 .. Len(t), NEW m, m = EndOf(s, a, Len(s), 0), RunFrom(t, 1, n, m)
  PROVE  /\ RunFrom(u, a, Len(s) + n, 0)
         /\ EndOf(u, a, Len(s) + n, 0) = EndOf(t, 1, n, m)
<1>1. Len(s) \in Nat /\ Len(t) \in Nat /\ n \in Nat
  BY LenProperties
<1> DEFINE l == Len(s)
<1>2. l \in Nat /\ \A j \in 1 .. l : u[j] = s[j]
  BY <1>1 DEF Behind
<1>3. \A j \in 1 .. n : u[l + j].k = t[j].k /\ u[l + j].o = t[j].o /\ u[l + j].s = t[j].s
  BY <1>1, BehindUnit
<1>4. \A j \in a .. l : s[j].k = "data" /\ s[j].s \in Nat /\ s[j].o = EndOf(s, a, j - 1, 0)
  BY DEF RunFrom
<1>5. \A j \in 1 .. n : t[j].k = "data" /\ t[j].s \in Nat /\ t[j].o = EndOf(t, 1, j - 1, m)
  BY DEF RunFrom
<1> HIDE DEF l
<1>6. \A j \in a - 1 .. l : EndOf(u, a, j, 0) = EndOf(s, a, j, 0)
  <2> TAKE j \in a - 1 .. l
  <2>1. CASE j < a
    BY <2>1 DEF EndOf
  <2>2. CASE ~(j < a)
    <3>1. u[j] = s[j]
      BY <1>2, <2>2
    <3> QED BY <3>1 DEF EndOf
  <2> QED BY <2>1, <2>2
<1>7. \A j \in 0 .. n : EndOf(u, a, l + j, 0) = EndOf(t, 1, j, m)
  <2> TAKE j \in 0 .. n
  <2>1. CASE j = 0
    <3>1. l \in a - 1 .. l /\ l + j = l
      BY <1>2, <2>1 DEF l
    <3>2. EndOf(u, a, l, 0) = m
      BY <1>6, <3>1, Zenon DEF l
    <3> QED BY <2>1, <3>1, <3>2 DEF EndOf
  <2>2. CASE j # 0
    <3>1. j \in 1 .. n /\ ~(l + j < a) /\ ~(j < 1)
      BY <1>1, <1>2, <2>2 DEF l
    <3>2. u[l + j].o = t[j].o /\ u[l + j].s = t[j].s
      BY <1>3, <3>1
    <3> QED BY <3>1, <3>2, Zenon DEF EndOf
  <2> QED BY <2>1, <2>2
<1>8. ASSUME NEW j \in a .. l + n
      PROVE  u[j].k = "data" /\ u[j].s \in Nat /\ u[j].o = EndOf(u, a, j - 1, 0)
  <2>1. CASE j <= l
    <3>1. j \in a .. l /\ j \in 1 .. l /\ j - 1 \in a - 1 .. l
      BY <1>2, <2>1
    <3>2. u[j] = s[j] /\ EndOf(u, a, j - 1, 0) = EndOf(s, a, j - 1, 0)
      BY <1>2, <1>6, <3>1, Zenon
    <3> QED BY <1>4, <3>1, <3>2, Zenon
  <2>2. CASE ~(j <= l)
    <3> DEFINE i == j - l
    <3>1. i \in 1 .. n /\ j = l + i /\ i - 1 \in 0 .. n /\ l + (i - 1) = j - 1
      BY <1>1, <1>2, <2>2
    <3> HIDE DEF i
    <3>2. u[j].k = t[i].k /\ u[j].o = t[i].o /\ u[j].s = t[i].s
      BY <1>3, <3>1, Zenon
    <3>3. EndOf(u, a, j - 1, 0) = EndOf(t, 1, i - 1, m)
      BY <1>7, <3>1, Zenon
    <3> QED BY <1>5, <3>1, <3>2, <3>3, Zenon
  <2> QED BY <2>1, <2>2
<1>9. RunFrom(u, a, l + n, 0)
  BY <1>8, Zenon DEF RunFrom
<1>10. n \in 0 .. n
  BY <1>1
<1> QED BY <1>7, <1>9, <1>10 DEF l

(* What a library puts out goes on where it has put out before. *)
LEMMA DataRun ==
  ASSUME WriterTypeOK, NEW all \in Nat, NEW n \in Nat, NEW stored \in BOOLEAN
  PROVE  /\ DataUnits(n, stored, all) \in Seq(FilterUnits) /\ Len(DataUnits(n, stored, all)) = n
         /\ RunFrom(DataUnits(n, stored, all), 1, n, total_in - held)
         /\ \A j \in 0 .. n : EndOf(DataUnits(n, stored, all), 1, j, total_in - held)
                                 = (total_in - held) + Least(Carries(j, stored), all)
<1> DEFINE b == total_in - held
           T == DataUnits(n, stored, all)
           c(j) == Least(Carries(j, stored), all)
           u(j) == Unit("data", 0, b + c(j - 1), 0, c(j) - c(j - 1))
<1>1. b \in Nat
  BY DEF WriterTypeOK
<1>2. c(0) = 0 /\ \A j \in 1 .. n : c(j - 1) \in Nat /\ c(j) \in Nat /\ c(j - 1) <= c(j)
  <2>1. Carries(0, stored) = 0
    BY CarriesFacts
  <2>2. ASSUME NEW j \in 1 .. n PROVE c(j - 1) \in Nat /\ c(j) \in Nat /\ c(j - 1) <= c(j)
    <3>1. j \in Nat /\ j - 1 \in Nat /\ j # 0
      OBVIOUS
    <3>2. Carries(j, stored) \in Nat /\ Carries(j - 1, stored) \in Nat
          /\ Carries(j - 1, stored) <= Carries(j, stored)
      BY <3>1, CarriesFacts
    <3> QED BY <3>2 DEF Least
  <2> QED BY <2>1, <2>2 DEF Least
<1>3. T = [j \in 1 .. n |-> u(j)]
  BY DEF DataUnits
<1> HIDE DEF b, T, c
<1>4. ASSUME NEW j \in 1 .. n
      PROVE  /\ u(j) \in FilterUnits /\ u(j).k = "data"
             /\ u(j).o = b + c(j - 1) /\ u(j).s = c(j) - c(j - 1) /\ u(j).s \in Nat
  <2>1. c(j - 1) \in Nat /\ c(j) - c(j - 1) \in Nat /\ b + c(j - 1) \in Int
    BY <1>1, <1>2
  <2>2. u(j) = [v |-> 0, k |-> "data", f |-> 0, o |-> b + c(j - 1), p |-> 0, s |-> c(j) - c(j - 1)]
    BY DEF Unit
  <2> HIDE DEF u
  <2>3. u(j) \in FilterUnits
    BY <2>1, <2>2 DEF FilterUnits
  <2> QED BY <2>1, <2>2, <2>3
<1>5. T \in [1 .. n -> FilterUnits] /\ \A j \in 1 .. n : T[j] = u(j)
  BY <1>3, <1>4
<1> HIDE DEF u
<1>6. T \in Seq(FilterUnits) /\ Len(T) = n
  BY <1>5
<1>7. ASSUME NEW j \in 1 .. n PROVE T[j].o + T[j].s = b + c(j)
  <2>1. T[j].o = b + c(j - 1) /\ T[j].s = c(j) - c(j - 1)
    BY <1>4, <1>5
  <2>2. c(j - 1) \in Nat /\ c(j) \in Nat
    BY <1>2
  <2> QED BY <1>1, <2>1, <2>2
<1>8. \A j \in 0 .. n : EndOf(T, 1, j, b) = b + c(j)
  <2> TAKE j \in 0 .. n
  <2>1. CASE j = 0
    BY <1>1, <1>2, <2>1 DEF EndOf
  <2>2. CASE j # 0
    <3>1. j \in 1 .. n /\ ~(j < 1)
      BY <2>2
    <3> QED BY <1>7, <3>1 DEF EndOf
  <2> QED BY <2>1, <2>2
<1>9. ASSUME NEW j \in 1 .. n PROVE T[j].o = EndOf(T, 1, j - 1, b)
  <2>1. j - 1 \in 0 .. n
    OBVIOUS
  <2> QED BY <1>4, <1>5, <1>8, <2>1
<1>10. RunFrom(T, 1, n, b)
  BY <1>4, <1>5, <1>9 DEF RunFrom
<1> QED BY <1>6, <1>8, <1>10 DEF b, T, c

----------------------------------------------------------------------------
(* The steps of the writers. *)

LEMMA PreferedSize ==
  ASSUME WriterTypeOK
  PROVE  /\ NextPreferedSize \in Nat
         /\ VolumeSize > 0 => NextPreferedSize <= VolumeSize - position
         /\ NextPreferedSize = 0 => VolumeSize > 0 /\ position = VolumeSize
<1>1. position \in Nat /\ VolumeSize \in Nat /\ IoBlock \in Nat \ {0}
      /\ (VolumeSize > 0 => position <= VolumeSize)
  BY FileAssumption DEF WriterTypeOK, FileAssumption
<1>2. position % IoBlock \in 0 .. IoBlock - 1
  BY <1>1
<1> DEFINE q == position % IoBlock
<1>3. q \in 0 .. IoBlock - 1
  BY <1>2
<1> HIDE DEF q
<1>4. NextPreferedSize = IF VolumeSize > 0 /\ position + IoBlock > VolumeSize THEN VolumeSize - position
                         ELSE IF q = 0 THEN IoBlock ELSE q
  BY DEF NextPreferedSize, q
<1> QED BY <1>1, <1>3, <1>4

LEMMA Regrouped ==
  ASSUME NEW a \in Int, NEW b \in Int, NEW c \in Int
  PROVE  a + b - c = (a + b) - c
  OBVIOUS

(* What a call of a library may do. *)
Move(m, a) ==
    /\ m.in \in 0 .. avail_in /\ m.out \in 0 .. a /\ m.stored \in BOOLEAN
    /\ Carries(m.out, m.stored) <= held + m.in
    /\ held + m.in - Carries(m.out, m.stored) <= Hold

LEMMA MoveFacts ==
  ASSUME WriterTypeOK, NEW a \in Nat,
         NEW m \in Deflate(a) \cup BzCompress(a) \cup LzmaCode(a)
  PROVE  Move(m, a)
<1>1. held \in Nat /\ held <= Hold /\ avail_in \in Nat
  BY DEF WriterTypeOK
<1>2. m = NoMove \/ m \in Moves(a)
  BY DEF Deflate, BzCompress, LzmaCode
<1>3. CASE m = NoMove
  <2>1. m.in = 0 /\ m.out = 0 /\ m.stored = FALSE
    BY <1>3 DEF NoMove
  <2>2. Carries(0, FALSE) = 0
    BY CarriesFacts
  <2>3. PICK w : w = Carries(m.out, m.stored)
    OBVIOUS
  <2>4. w = 0
    BY <2>1, <2>2, <2>3
  <2>5. m.in \in 0 .. avail_in /\ m.out \in 0 .. a
    BY <1>1, <2>1
  <2>7. m.stored \in BOOLEAN
    BY <2>1, Zenon
  <2>6. w <= held + m.in /\ held + m.in - w <= Hold
    <3>1. Hold \in Nat
      BY FilterAssumption DEF FilterAssumption
    <3> QED BY <1>1, <2>1, <2>4, <3>1
  <2> QED BY <2>3, <2>5, <2>6, <2>7 DEF Move
<1>4. CASE m \in Moves(a)
  BY <1>4 DEF Moves, Move
<1> QED BY <1>2, <1>3, <1>4

LEMMA MoveSizes ==
  ASSUME WriterTypeOK, NEW a \in Nat, NEW m, Move(m, a)
  PROVE  /\ m.in \in Nat /\ m.out \in Nat /\ Carries(m.out, m.stored) \in Nat
         /\ held + m.in \in Nat
         /\ Least(Carries(m.out, m.stored), held + m.in) = Carries(m.out, m.stored)
<1>1. m.in \in Nat /\ m.out \in Nat /\ held \in Nat /\ Carries(m.out, m.stored) <= held + m.in
  BY DEF Move, WriterTypeOK
<1>2. Carries(m.out, m.stored) \in Nat
  BY <1>1, CarriesFacts DEF Move
<1> QED BY <1>1, <1>2 DEF Least

(* Units of data behind an unfinished stream. *)
LEMMA Continued ==
  ASSUME WriterTypeOK, Written, kept, Going,
         NEW t \in Seq(FilterUnits), Behind(log, t, log'), NEW n \in 0 .. Len(t),
         RunFrom(t, 1, n, total_in - held), kind' = kind
  PROVE  /\ RunFrom(log', First', Len(log) + n, 0)
         /\ EndOf(log', First', Len(log) + n, 0) = EndOf(t, 1, n, total_in - held)
         /\ First' = First /\ First \in Nat \ {0} /\ First <= Len(log) + 1
<1>1. First' = First /\ First \in Nat \ {0}
  BY DEF First
<1>2. /\ First <= Len(log) + 1 /\ RunFrom(log, First, Len(log), 0)
      /\ EndOf(log, First, Len(log), 0) = total_in - held
  BY DEF Written, Unfinished
<1>3. log \in Seq(FilterUnits) /\ volume \in Nat
  BY DEF WriterTypeOK
<1> DEFINE m == total_in - held
           u == log'
           a == First
<1>4. m = EndOf(log, a, Len(log), 0) /\ RunFrom(t, 1, n, m) /\ Behind(log, t, u)
      /\ RunFrom(log, a, Len(log), 0) /\ a <= Len(log) + 1 /\ a \in Nat \ {0}
  BY <1>1, <1>2
<1> HIDE DEF m, u, a
<1>5. /\ RunFrom(u, a, Len(log) + n, 0)
      /\ EndOf(u, a, Len(log) + n, 0) = EndOf(t, 1, n, m)
  BY <1>3, <1>4, RunJoined
<1> QED BY <1>1, <1>2, <1>5 DEF m, u, a

LEMMA WriteLoopStep ==
  ASSUME WriterTypeOK, Written, NEW moves, \A m \in moves : Move(m, NextPreferedSize),
         WriteLoop(moves)
  PROVE  WriterTypeOK' /\ Written'
<1>1. PICK m \in moves :
        /\ \E r \in Emits(DataUnits(m.out, m.stored, held + m.in)) :
             /\ Emit(DataUnits(m.out, m.stored, held + m.in), r)
             /\ op' = IF r.n < 0 THEN "failed" ELSE op
        /\ avail_in' = avail_in - m.in
        /\ total_in' = total_in + m.in
        /\ held' = held + m.in - Carries(m.out, m.stored)
  BY DEF WriteLoop
<1>2. op = "write" /\ kind' = kind /\ reserve' = reserve /\ padded' = padded
  BY DEF WriteLoop
<1> DEFINE all == held + m.in
           t == DataUnits(m.out, m.stored, all)
           n == m.out
           w == Carries(m.out, m.stored)
<1>3. PICK r \in Emits(t) : Emit(t, r) /\ op' = IF r.n < 0 THEN "failed" ELSE op
  BY <1>1
<1>4. Move(m, NextPreferedSize) /\ NextPreferedSize \in Nat
  BY PreferedSize
<1>5. /\ m.in \in Nat /\ n \in Nat /\ w \in Nat /\ all \in Nat
      /\ Least(w, all) = w /\ m.stored \in BOOLEAN
  BY <1>4, MoveSizes DEF Move
<1>6. /\ t \in Seq(FilterUnits) /\ Len(t) = n /\ RunFrom(t, 1, n, total_in - held)
      /\ EndOf(t, 1, n, total_in - held) = (total_in - held) + w
  <2>1. /\ t \in Seq(FilterUnits) /\ Len(t) = n /\ RunFrom(t, 1, n, total_in - held)
        /\ \A j \in 0 .. n : EndOf(t, 1, j, total_in - held)
                                = (total_in - held) + Least(Carries(j, m.stored), all)
    BY <1>5, DataRun
  <2>2. n \in 0 .. n
    BY <1>5
  <2> HIDE DEF t, all
  <2> QED BY <1>5, <2>1, <2>2, Zenon
<1>8. avail_in \in Nat /\ held \in Nat /\ total_in \in Nat /\ held <= total_in
  BY DEF WriterTypeOK
<1>7. m.in <= avail_in /\ w <= all /\ all - w <= Hold /\ held + m.in - w = all - w
  <2>1. held + m.in - w = all - w
    BY <1>5, <1>8, Regrouped
  <2>2. m.in \in 0 .. avail_in /\ Carries(m.out, m.stored) <= held + m.in
        /\ held + m.in - Carries(m.out, m.stored) <= Hold
    BY <1>4 DEF Move
  <2>3. m.in <= avail_in
    BY <1>8, <2>2
  <2> HIDE DEF all
  <2>4. all - w <= Hold
    BY <2>1, <2>2
  <2> QED BY <2>1, <2>2, <2>3, <2>4 DEF all
<1>9. avail_in' \in Nat /\ total_in' \in Nat /\ held' \in Nat /\ held' <= Hold /\ held' <= total_in'
      /\ total_in' - held' = (total_in - held) + w
  <2>1. avail_in' = avail_in - m.in /\ total_in' = total_in + m.in /\ held' = all - w
    BY <1>1, <1>7
  <2>2. all = held + m.in
    OBVIOUS
  <2> HIDE DEF all, w
  <2> QED BY <1>5, <1>7, <1>8, <2>1, <2>2
<1> HIDE DEF t, n, w, all
<1>10. /\ log' \in Seq(FilterUnits) /\ position' \in Nat
       /\ VolumeSize > 0 => position' <= VolumeSize
       /\ faults' \in Nat /\ volume' = volume /\ fd' = fd /\ kept' \in BOOLEAN
       /\ kept' <=> kept /\ r.n = Len(t)
       /\ r.n = Len(t) => Behind(log, t, log')
  BY <1>3, <1>6, EmitStep
<1>11. op' \in {"failed", "write"}
  BY <1>2, <1>3
<1>12. fd' = (op' # "freed")
  <2>1. fd = TRUE /\ op # "freed" /\ op' # "freed"
    BY <1>2, <1>11, Zenon DEF WriterTypeOK
  <2> QED BY <1>10, <2>1
<1>13. WriterTypeOK'
  BY <1>2, <1>9, <1>10, <1>11, <1>12 DEF WriterTypeOK
<1>14. ASSUME kept' PROVE (Going => Unfinished)' /\ op' \notin {"numbers", "finished"}
  <2>1. kept /\ Behind(log, t, log') /\ Going
    BY <1>2, <1>10, <1>14 DEF Going
  <2>2. n \in 0 .. Len(t)
    BY <1>5, <1>6
  <2>3. /\ RunFrom(log', First', Len(log) + n, 0)
        /\ EndOf(log', First', Len(log) + n, 0) = EndOf(t, 1, n, total_in - held)
        /\ First' = First /\ First \in Nat \ {0} /\ First <= Len(log) + 1
    BY <1>2, <1>6, <2>1, <2>2, Continued
  <2>4. Len(log') = Len(log) + n /\ Len(log) \in Nat
    BY <1>6, <2>1, LenProperties DEF Behind, WriterTypeOK
  <2>5. First' <= Len(log') + 1
    BY <1>5, <2>3, <2>4
  <2>6. EndOf(log', First', Len(log'), 0) = total_in' - held'
    BY <1>6, <1>9, <2>3, <2>4
  <2>7. RunFrom(log', First', Len(log'), 0)
    BY <2>3, <2>4
  <2> QED BY <1>11, <2>5, <2>6, <2>7 DEF Unfinished
<1> QED BY <1>13, <1>14 DEF Written

(* A run of which only the first units are taken. *)
LEMMA RunTaken ==
  ASSUME NEW s, NEW t, NEW m, NEW l \in Nat, NEW n \in 0 .. l, RunFrom(s, 1, l, m),
         \A j \in 1 .. n : t[j] = s[j]
  PROVE  /\ RunFrom(t, 1, n, m)
         /\ \A j \in 0 .. n : EndOf(t, 1, j, m) = EndOf(s, 1, j, m)
<1>1. \A j \in 0 .. n : EndOf(t, 1, j, m) = EndOf(s, 1, j, m)
  <2> TAKE j \in 0 .. n
  <2>1. CASE j = 0
    BY <2>1 DEF EndOf
  <2>2. CASE j # 0
    <3>1. j \in 1 .. n /\ ~(j < 1)
      BY <2>2
    <3>2. t[j] = s[j]
      BY <3>1
    <3> QED BY <3>1, <3>2, Zenon DEF EndOf
  <2> QED BY <2>1, <2>2
<1>2. ASSUME NEW j \in 1 .. n
      PROVE  t[j].k = "data" /\ t[j].s \in Nat /\ t[j].o = EndOf(t, 1, j - 1, m)
  <2>1. j \in 1 .. l /\ j - 1 \in 0 .. n
    OBVIOUS
  <2>2. s[j].k = "data" /\ s[j].s \in Nat /\ s[j].o = EndOf(s, 1, j - 1, m)
    BY <2>1, Zenon DEF RunFrom
  <2> QED BY <1>1, <2>1, <2>2, Zenon
<1> QED BY <1>1, <1>2, Zenon DEF RunFrom

(* Where a run ends depends on its units only. *)
LEMMA SameEnd ==
  ASSUME NEW s, NEW t, NEW m, NEW j \in Nat, \A i \in 1 .. j : t[i] = s[i]
  PROVE  EndOf(t, 1, j, m) = EndOf(s, 1, j, m)
<1>1. CASE j = 0
  BY <1>1 DEF EndOf
<1>2. CASE j # 0
  <2>1. t[j] = s[j] /\ ~(j < 1)
    BY <1>2
  <2> QED BY <2>1, Zenon DEF EndOf
<1> QED BY <1>1, <1>2

(* A run of which all is taken. *)
LEMMA WholeRunTaken ==
  ASSUME NEW s, NEW t, NEW m, NEW l \in Nat, RunFrom(s, 1, l, m), \A j \in 1 .. l : t[j] = s[j]
  PROVE  RunFrom(t, 1, l, m)
<1>1. PICK n : n = l
  OBVIOUS
<1>2. n \in 0 .. l /\ \A j \in 1 .. n : t[j] = s[j]
  BY <1>1
<1>3. RunFrom(t, 1, n, m)
  BY <1>2, RunTaken
<1> QED BY <1>1, <1>3

LEMMA EndUnit == End \in FilterUnits /\ End.k = "end"
  BY DEF End, Unit, FilterUnits

(* All that is held, and the mark. *)
LEMMA RemainingFacts ==
  ASSUME WriterTypeOK, NEW mark \in {<<>>, <<End>>}, NEW stored \in BOOLEAN
  PROVE  LET l == UnitsFor(held, stored)
             all == Remaining(stored, mark)
         IN  /\ all \in Seq(FilterUnits)
             /\ Len(all) = l + Len(mark)
             /\ RunFrom(all, 1, l, total_in - held)
             /\ \A j \in 0 .. l : EndOf(all, 1, j, total_in - held)
                                     = (total_in - held) + Least(Carries(j, stored), held)
             /\ mark = <<End>> => all[l + 1].k = "end"
<1> DEFINE l == UnitsFor(held, stored)
           m == total_in - held
           body == DataUnits(l, stored, held)
           all == Remaining(stored, mark)
<1>1. held \in Nat /\ l \in Nat
  BY CarriesFacts DEF WriterTypeOK
<1>2. body \in Seq(FilterUnits) /\ Len(body) = l /\ RunFrom(body, 1, l, m)
      /\ \A j \in 0 .. l : EndOf(body, 1, j, m) = m + Least(Carries(j, stored), held)
  BY <1>1, DataRun
<1>3. all = body \o mark
  BY DEF Remaining
<1>4. mark \in Seq(FilterUnits) /\ Len(mark) \in Nat /\ (mark = <<End>> => Len(mark) = 1 /\ mark[1] = End)
  <2>1. CASE mark = <<>>
    BY <2>1
  <2>2. CASE mark = <<End>>
    <3>1. Len(mark) = 1 /\ mark[1] = End
      BY <2>2
    <3> QED BY <2>2, <3>1, EndUnit
  <2> QED BY <2>1, <2>2
<1> HIDE DEF body, all, l, m
<1>5. /\ all \in Seq(FilterUnits) /\ Len(all) = Len(body) + Len(mark)
      /\ \A j \in 1 .. Len(body) : all[j] = body[j]
      /\ \A j \in 1 .. Len(mark) : all[Len(body) + j] = mark[j]
  BY <1>2, <1>3, <1>4, Joined
<1>6. \A j \in 1 .. l : all[j] = body[j]
  BY <1>2, <1>5
<1>8. RunFrom(all, 1, l, m) /\ \A j \in 0 .. l : EndOf(all, 1, j, m) = EndOf(body, 1, j, m)
  <2>1. l \in Nat /\ RunFrom(body, 1, l, m)
    BY <1>1, <1>2
  <2>2. RunFrom(all, 1, l, m)
    BY <1>6, <2>1, WholeRunTaken
  <2>3. ASSUME NEW j \in 0 .. l PROVE EndOf(all, 1, j, m) = EndOf(body, 1, j, m)
    <3>1. j \in Nat /\ \A i \in 1 .. j : all[i] = body[i]
      BY <1>6, <2>1
    <3> QED BY <3>1, SameEnd
  <2> QED BY <2>2, <2>3
<1>9. ASSUME mark = <<End>> PROVE all[l + 1].k = "end"
  <2>1. 1 \in 1 .. Len(mark) /\ mark[1] = End
    BY <1>4, <1>9
  <2>2. all[l + 1] = End
    BY <1>2, <1>5, <2>1
  <2> QED BY <2>2, EndUnit
<1>10. \A j \in 0 .. l : EndOf(all, 1, j, m) = m + Least(Carries(j, stored), held)
  BY <1>2, <1>8
<1> QED BY <1>2, <1>5, <1>8, <1>9, <1>10 DEF all, l, m

LEMMA HeldAfter ==
  ASSUME WriterTypeOK, NEW n \in Nat, NEW stored \in BOOLEAN
  PROVE  LET left == held - Least(Carries(n, stored), held)
         IN  /\ left \in Nat /\ left <= held
             /\ total_in - left = (total_in - held) + Least(Carries(n, stored), held)
<1>1. held \in Nat /\ total_in \in Nat /\ held <= total_in
  BY DEF WriterTypeOK
<1>2. Carries(n, stored) \in Nat
  BY CarriesFacts
<1> QED BY <1>1, <1>2 DEF Least

(* A pass of the loop of flush or finish. *)
LEMMA PassStep ==
  ASSUME WriterTypeOK, Written, NEW mark, Pass(mark),
         \/ op = "flush" /\ mark = <<>>
         \/ op = "finish" /\ mark = <<End>>
  PROVE  WriterTypeOK' /\ Written'
<1>0. PICK stored \in BOOLEAN :
        LET all == Remaining(stored, mark)
            n == Least(NextPreferedSize, Len(all))
            result == IF n = Len(all) THEN "end" ELSE IF n = 0 THEN "error" ELSE "ok"
            t == SubSeq(all, 1, n)
        IN  \E r \in Emits(t) :
              /\ Emit(t, r)
              /\ held' = held - Least(Carries(n, stored), held)
              /\ Then(result, r)
  BY Zenon DEF Pass
<1> DEFINE all == Remaining(stored, mark)
           n == Least(NextPreferedSize, Len(all))
           result == IF n = Len(all) THEN "end" ELSE IF n = 0 THEN "error" ELSE "ok"
           t == SubSeq(all, 1, n)
           l == UnitsFor(held, stored)
           m == total_in - held
<1>1. PICK r \in Emits(t) :
        /\ Emit(t, r)
        /\ held' = held - Least(Carries(n, stored), held)
        /\ Then(result, r)
  BY <1>0
<1>2. /\ mark \in {<<>>, <<End>>} /\ (mark = <<>> => Len(mark) = 0) /\ (mark = <<End>> => Len(mark) = 1)
      /\ mark = <<>> => op = "flush"
      /\ mark = <<End>> => op = "finish"
  <2>1. <<>> # <<End>>
    OBVIOUS
  <2> QED BY <2>1
<1>3. /\ all \in Seq(FilterUnits) /\ Len(all) = l + Len(mark) /\ RunFrom(all, 1, l, m)
      /\ \A j \in 0 .. l : EndOf(all, 1, j, m) = m + Least(Carries(j, stored), held)
      /\ mark = <<End>> => all[l + 1].k = "end"
  BY <1>2, RemainingFacts
<1>4. l \in Nat /\ m \in Nat /\ NextPreferedSize \in Nat
  BY CarriesFacts, PreferedSize DEF WriterTypeOK
<1>5. /\ kind' = kind /\ reserve' = reserve /\ padded' = padded /\ avail_in' = avail_in
      /\ total_in' = total_in
      /\ op' \in {"none", "flush", "failed", "finish", "finished", "numbers"}
      /\ op = "flush" => op' \in {"none", "flush"}
      /\ op = "finish" => op' \in {"finish", "finished", "numbers", "failed"}
      /\ op = "finish" /\ op' \in {"finished", "numbers"} => result = "end"
      /\ op = "finish" /\ op' = "finish" => result # "end"
  BY <1>1, Zenon DEF Then, FlushThen, FinishThen, GzipThen
<1> HIDE DEF result
<1>6. n \in Nat /\ n <= Len(all) /\ Len(all) \in Nat
  <2>1. Len(all) \in Nat
    BY <1>3, LenProperties
  <2> HIDE DEF all
  <2> QED BY <1>4, <2>1 DEF Least
<1>7. result = "end" <=> n = Len(all)
  BY DEF result
<1> HIDE DEF all, n
<1>8. t \in Seq(FilterUnits) /\ Len(t) = n /\ \A j \in 1 .. n : t[j] = all[j]
  <2>1. \A j \in 1 .. n : all[j] \in FilterUnits
    BY <1>3, <1>6, ElementOfSeq
  <2>2. /\ t \in Seq(FilterUnits) /\ Len(t) = IF 1 <= n THEN (n - 1) + 1 ELSE 0
        /\ \A j \in 1 .. (n - 1) + 1 : t[j] = all[(1 + j) - 1]
    <3>1. 1 \in Int /\ n \in Int
      BY <1>6
    <3> QED BY <1>6, <2>1, <3>1, SubSeqProperties
  <2> HIDE DEF t
  <2> QED BY <1>6, <2>2
<1> HIDE DEF t, l, m
<1>9. held' \in Nat /\ held' <= held /\ total_in' - held' = m + Least(Carries(n, stored), held)
  BY <1>1, <1>5, <1>6, HeldAfter DEF m
<1>10. /\ log' \in Seq(FilterUnits) /\ position' \in Nat
       /\ VolumeSize > 0 => position' <= VolumeSize
       /\ faults' \in Nat /\ volume' = volume /\ fd' = fd /\ kept' \in BOOLEAN
       /\ kept' <=> kept /\ r.n = Len(t)
       /\ r.n = Len(t) => Behind(log, t, log')
  BY <1>1, <1>8, EmitStep
<1>11. fd' = (op' # "freed")
  <2>1. fd = TRUE /\ op' # "freed"
    BY <1>5, Zenon DEF WriterTypeOK
  <2> QED BY <1>10, <2>1
<1>12. WriterTypeOK'
  <2>1. held' <= Hold /\ held' <= total_in'
    <3>1. held \in Nat /\ held <= Hold /\ Hold \in Nat /\ held <= total_in /\ total_in \in Nat
      BY FilterAssumption DEF FilterAssumption, WriterTypeOK
    <3> QED BY <1>5, <1>9, <3>1
  <2>2. volume' \in Nat
    BY <1>10 DEF WriterTypeOK
  <2> QED BY <1>5, <1>9, <1>10, <1>11, <2>1, <2>2 DEF WriterTypeOK
<1>13. ASSUME kept'
       PROVE  /\ Going' => Unfinished'
              /\ op' \in {"numbers", "finished"} => (\E e \in First .. Len(log) : EndAt(e))'
  <2>1. kept /\ Behind(log, t, log') /\ Going
    BY <1>10, <1>13 DEF Going
  <2>2. Len(log') = Len(log) + n /\ Len(log) \in Nat
    BY <1>8, <2>1, LenProperties DEF Behind, WriterTypeOK
  <2>3. CASE n <= l
    <3>1. n \in 0 .. l /\ n \in 0 .. Len(t) /\ n \in 0 .. n
      BY <1>6, <1>8, <2>3
    <3>2. RunFrom(t, 1, n, m) /\ \A j \in 0 .. n : EndOf(t, 1, j, m) = EndOf(all, 1, j, m)
      BY <1>3, <1>4, <1>8, <3>1, RunTaken
    <3>3. EndOf(t, 1, n, m) = m + Least(Carries(n, stored), held)
      BY <1>3, <3>1, <3>2, Zenon
    <3>4. /\ RunFrom(log', First', Len(log) + n, 0)
          /\ EndOf(log', First', Len(log) + n, 0) = EndOf(t, 1, n, m)
          /\ First' = First /\ First \in Nat \ {0} /\ First <= Len(log) + 1
      BY <1>5, <1>8, <2>1, <3>1, <3>2, Continued DEF m
    <3>5. First' <= Len(log') + 1
      BY <1>6, <2>2, <3>4
    <3>6. EndOf(log', First', Len(log'), 0) = total_in' - held'
      BY <1>9, <2>2, <3>3, <3>4
    <3>7. RunFrom(log', First', Len(log'), 0)
      BY <2>2, <3>4
    <3>8. Unfinished'
      BY <3>5, <3>6, <3>7 DEF Unfinished
    <3>9. op' \notin {"numbers", "finished"}
      <4>1. CASE mark = <<>>
        BY <1>2, <1>5, <4>1
      <4>2. CASE mark = <<End>>
        <5>1. n # Len(all)
          BY <1>2, <1>3, <1>4, <1>6, <2>3, <4>2
        <5> QED BY <1>2, <1>5, <1>7, <4>2, <5>1
      <4> QED BY <1>2, <4>1, <4>2
    <3> QED BY <3>8, <3>9
  <2>4. CASE ~(n <= l)
    <3>1. mark = <<End>> /\ n = l + 1 /\ n = Len(all) /\ op = "finish"
      <4>1. mark = <<End>>
        <5>1. ASSUME mark = <<>> PROVE FALSE
          <6>1. Len(all) = l + 0
            BY <1>2, <1>3, <5>1
          <6> QED BY <1>4, <1>6, <2>4, <6>1
        <5> QED BY <1>2, <5>1
      <4>2. Len(all) = l + 1
        BY <1>2, <1>3, <4>1
      <4>3. n = l + 1
        BY <1>4, <1>6, <2>4, <4>2
      <4> QED BY <1>2, <4>1, <4>2, <4>3, Zenon
    <3>2. result = "end" /\ op' \in {"finished", "numbers", "failed"}
      BY <1>5, <1>7, <3>1
    <3>3. l \in 0 .. Len(t) /\ l \in 0 .. l /\ \A j \in 1 .. l : t[j] = all[j]
      BY <1>4, <1>8, <3>1
    <3>4. RunFrom(t, 1, l, m) /\ \A j \in 0 .. l : EndOf(t, 1, j, m) = EndOf(all, 1, j, m)
      <4>1. l \in Nat /\ RunFrom(all, 1, l, m)
        BY <1>3, <1>4
      <4>2. RunFrom(t, 1, l, m)
        BY <3>3, <4>1, WholeRunTaken
      <4>3. ASSUME NEW j \in 0 .. l PROVE EndOf(t, 1, j, m) = EndOf(all, 1, j, m)
        <5>1. j \in Nat /\ \A i \in 1 .. j : t[i] = all[i]
          BY <3>3, <4>1
        <5> QED BY <5>1, SameEnd
      <4> QED BY <4>2, <4>3
    <3>5. EndOf(t, 1, l, m) = total_in
      <4>1. EndOf(t, 1, l, m) = m + Least(Carries(l, stored), held)
        BY <1>3, <3>3, <3>4, Zenon
      <4>2. held <= Carries(l, stored) /\ held \in Nat /\ Carries(l, stored) \in Nat /\ total_in \in Nat
        BY CarriesFacts DEF WriterTypeOK, l
      <4>3. Least(Carries(l, stored), held) = held
        BY <4>2 DEF Least
      <4>4. m + held = total_in
        BY <4>2 DEF m
      <4> QED BY <4>1, <4>3, <4>4
    <3>6. /\ RunFrom(log', First', Len(log) + l, 0)
          /\ EndOf(log', First', Len(log) + l, 0) = EndOf(t, 1, l, m)
          /\ First' = First /\ First \in Nat \ {0} /\ First <= Len(log) + 1
      BY <1>5, <1>8, <2>1, <3>3, <3>4, Continued DEF m
    <3>10. PICK e : e = Len(log) + n
      OBVIOUS
    <3>7. e = Len(log') /\ e \in First' .. Len(log') /\ e - 1 = Len(log) + l
      BY <1>4, <2>2, <3>1, <3>6, <3>10
    <3>8. log'[e].k = "end"
      <4>1. n \in 1 .. Len(t) /\ t[n] = all[l + 1]
        BY <1>4, <1>8, <3>1
      <4>2. log'[Len(log) + n].k = t[n].k
        BY <1>8, <2>1, <4>1, BehindUnit DEF WriterTypeOK
      <4> QED BY <1>3, <3>1, <3>10, <4>1, <4>2
    <3>9. EndAt(e)'
      <4>1. RunFrom(log', First', e - 1, 0) /\ EndOf(log', First', e - 1, 0) = total_in'
        BY <1>5, <3>5, <3>6, <3>7
      <4> QED BY <3>7, <3>8, <4>1 DEF EndAt
    <3>11. ~Going'
      BY <3>2 DEF Going
    <3> QED BY <3>7, <3>9, <3>11, Zenon
  <2> QED BY <1>4, <1>6, <2>3, <2>4
<1> QED BY <1>12, <1>13 DEF Written

(* A step that leaves the stream as it is. *)
LEMMA StreamKept ==
  ASSUME WriterTypeOK, Written,
         UNCHANGED <<fileVars, kind, reserve, total_in, held, kept>>,
         Going, op' \in {"none", "write", "flush", "finish", "failed"},
         avail_in' \in Nat, padded' \in BOOLEAN
  PROVE  WriterTypeOK' /\ Written'
<1>1. /\ fd' = fd /\ position' = position /\ volume' = volume /\ log' = log /\ faults' = faults
      /\ kind' = kind /\ reserve' = reserve /\ total_in' = total_in /\ held' = held /\ kept' = kept
  BY DEF fileVars
<1>2. fd' = (op' # "freed")
  <2>1. fd = TRUE /\ op' # "freed"
    BY Zenon DEF WriterTypeOK, Going
  <2> QED BY <1>1, <2>1
<1>3. WriterTypeOK'
  BY <1>1, <1>2 DEF WriterTypeOK
<1>4. ASSUME kept', Going' PROVE Unfinished'
  <2>2. kept
    BY <1>1, <1>4
  <2>1. Unfinished
    BY <2>2 DEF Written
  <2> QED BY <1>1, <2>1, Zenon DEF Unfinished, First, RunFrom, EndOf
<1>5. op' \notin {"numbers", "finished"}
  OBVIOUS
<1> QED BY <1>3, <1>4, <1>5, Zenon DEF Written

LEMMA NumbersStep ==
  ASSUME WriterTypeOK, Written, GzipNumbers, kind = "gzip"
  PROVE  WriterTypeOK' /\ Written'
<1> DEFINE t == <<Unit("crc", 0, 0, 0, 0), Unit("crc", 0, 1, 0, 0)>>
<1>1. PICK r \in Emits(t) : Emit(t, r)
  BY DEF GzipNumbers
<1>2. op = "numbers" /\ op' = "finished" /\ kind' = kind /\ reserve' = reserve /\ avail_in' = avail_in
      /\ total_in' = total_in /\ held' = held /\ padded' = padded
  BY DEF GzipNumbers
<1>3. t \in Seq(FilterUnits) /\ Len(t) = 2
  BY DEF Unit, FilterUnits
<1> HIDE DEF t
<1>4. /\ log' \in Seq(FilterUnits) /\ position' \in Nat
      /\ VolumeSize > 0 => position' <= VolumeSize
      /\ faults' \in Nat /\ volume' = volume /\ fd' = fd /\ kept' \in BOOLEAN
      /\ kept' <=> kept /\ r.n = Len(t)
      /\ r.n = Len(t) => Behind(log, t, log')
  BY <1>1, <1>3, EmitStep
<1>5. fd' = (op' # "freed")
  <2>1. fd = TRUE /\ op' # "freed"
    BY <1>2, Zenon DEF WriterTypeOK
  <2> QED BY <1>4, <2>1
<1>6. WriterTypeOK'
  BY <1>2, <1>4, <1>5 DEF WriterTypeOK
<1>7. ASSUME kept' PROVE (\E e \in First .. Len(log) : EndAt(e))'
  <2>1. kept /\ Behind(log, t, log')
    BY <1>4, <1>7
  <2>2. PICK e \in First .. Len(log) : EndAt(e)
    BY <1>2, <2>1 DEF Written
  <2>3. Len(log') = Len(log) + 2 /\ Len(log) \in Nat /\ \A j \in 1 .. Len(log) : log'[j] = log[j]
    BY <1>3, <2>1, LenProperties DEF Behind, WriterTypeOK
  <2>4. First = 2 /\ First' = 2
    BY <1>2 DEF First
  <2>5. e \in First' .. Len(log') /\ e \in 2 .. Len(log)
    BY <2>2, <2>3, <2>4
  <2>6. log[e].k = "end" /\ RunFrom(log, 2, e - 1, 0) /\ EndOf(log, 2, e - 1, 0) = total_in
    BY <2>2, <2>4 DEF EndAt
  <2>7. \A j \in 1 .. e - 1 : EndOf(log', 2, j, 0) = EndOf(log, 2, j, 0)
    <3> TAKE j \in 1 .. e - 1
    <3>1. log'[j] = log[j]
      BY <2>3, <2>5
    <3> QED BY <3>1, Zenon DEF EndOf
  <2>8. RunFrom(log', 2, e - 1, 0)
    <3>1. ASSUME NEW j \in 2 .. e - 1
          PROVE  log'[j].k = "data" /\ log'[j].s \in Nat /\ log'[j].o = EndOf(log', 2, j - 1, 0)
      <4>1. log'[j] = log[j] /\ EndOf(log', 2, j - 1, 0) = EndOf(log, 2, j - 1, 0)
        <5>1. j \in 1 .. Len(log) /\ j - 1 \in 1 .. e - 1
          BY <2>3, <2>5
        <5> QED BY <2>3, <2>7, <5>1, Zenon
      <4> QED BY <2>6, <4>1, Zenon DEF RunFrom
    <3> QED BY <3>1, Zenon DEF RunFrom
  <2>9. EndOf(log', 2, e - 1, 0) = total_in' /\ log'[e].k = "end"
    <3>1. e - 1 \in 1 .. e - 1 /\ e \in 1 .. Len(log)
      BY <2>3, <2>5
    <3> QED BY <1>2, <2>3, <2>6, <2>7, <3>1, Zenon
  <2>10. EndAt(e)'
    BY <1>2, <2>4, <2>8, <2>9 DEF EndAt
  <2> QED BY <2>5, <2>10, Zenon
<1>8. ~Going'
  BY <1>2 DEF Going
<1> QED BY <1>6, <1>7, <1>8, Zenon DEF Written

LEMMA WriterStep ==
  ASSUME WriterTypeOK, Written, FilterWrite
  PROVE  WriterTypeOK' /\ Written'
<1>1. ASSUME NEW moves, moves \in {Deflate(NextPreferedSize), BzCompress(NextPreferedSize), LzmaCode(NextPreferedSize)},
             WriteLoop(moves)
      PROVE  WriterTypeOK' /\ Written'
  <2>1. NextPreferedSize \in Nat
    BY PreferedSize
  <2>2. \A m \in moves : Move(m, NextPreferedSize)
    BY <1>1, <2>1, MoveFacts
  <2> QED BY <1>1, <2>2, WriteLoopStep
<1>2. ASSUME NEW next, WriteReturns(next), next \in {{"none"}, Near} PROVE WriterTypeOK' /\ Written'
  <2>1. op = "write" /\ op' \in {"none", "flush"}
    BY <1>2 DEF WriteReturns, Near
  <2>2. UNCHANGED <<fileVars, kind, reserve, total_in, held, kept>> /\ avail_in' = avail_in /\ padded' = padded
    BY <1>2 DEF WriteReturns
  <2> QED BY <2>1, <2>2, StreamKept DEF Going, WriterTypeOK
<1>3. ASSUME Broken, op \in {"flush", "finish"}, op' \in {"none", "failed"},
             UNCHANGED <<fileVars, kind, level, reserve, avail_in, total_in, held, ended, closed, padded, kept>>
      PROVE  WriterTypeOK' /\ Written'
  <2>2. UNCHANGED <<fileVars, kind, reserve, total_in, held, kept>> /\ avail_in' = avail_in /\ padded' = padded
    BY <1>3
  <2> QED BY <1>3, <2>2, StreamKept DEF Going, WriterTypeOK
<1>4. ASSUME op = "flush", Pass(<<>>) PROVE WriterTypeOK' /\ Written'
  BY <1>4, PassStep
<1>5. ASSUME op = "finish", Pass(<<End>>) PROVE WriterTypeOK' /\ Written'
  BY <1>5, PassStep
<1>6. CASE GzipWrite
  BY <1>1, <1>2, <1>6 DEF GzipWrite
<1>7. CASE Bzip2Write
  BY <1>1, <1>2, <1>7 DEF Bzip2Write
<1>8. CASE XzWrite
  BY <1>1, <1>2, <1>8 DEF XzWrite
<1>9. CASE Bzip2Flush
  BY <1>3, <1>4, <1>9 DEF Bzip2Flush
<1>10. CASE XzFlush
  BY <1>4, <1>10 DEF XzFlush
<1>11. CASE GzipFinish
  BY <1>5, <1>11, NumbersStep DEF GzipFinish
<1>12. CASE Bzip2Finish
  BY <1>3, <1>5, <1>12 DEF Bzip2Finish
<1>13. CASE XzFinish
  BY <1>5, <1>13 DEF XzFinish
<1> QED BY <1>6, <1>7, <1>8, <1>9, <1>10, <1>11, <1>12, <1>13 DEF FilterWrite

LEMMA ClientStep ==
  ASSUME WriterTypeOK, Written, FilterClient
  PROVE  WriterTypeOK' /\ Written'
<1>1. ASSUME NEW length \in Nat, StartWrite(length), padded' \in BOOLEAN
      PROVE  WriterTypeOK' /\ Written'
  <2>1. /\ UNCHANGED <<fileVars, kind, reserve, total_in, held, kept>>
        /\ op = "none" /\ op' = "write" /\ avail_in' = length
    BY <1>1 DEF StartWrite
  <2> QED BY <1>1, <2>1, StreamKept DEF Going
<1>2. reserve \in Nat /\ MaxHeader \in Nat /\ MaxPad \in Nat
  BY FilterAssumption DEF WriterTypeOK, FilterAssumption
<1>3. CASE WriteContent
  <2>1. PICK length \in 1 .. reserve : StartWrite(length) /\ padded' = FALSE
    BY <1>3 DEF WriteContent
  <2>2. length \in Nat
    BY <1>2, <2>1
  <2> QED BY <1>1, <2>1, <2>2
<1>4. CASE WriteHeader
  <2>1. PICK length \in 1 .. MaxHeader : StartWrite(length) /\ padded' = FALSE
    BY <1>4 DEF WriteHeader
  <2>2. length \in Nat
    BY <1>2, <2>1
  <2> QED BY <1>1, <2>1, <2>2
<1>5. CASE WritePadding
  BY <1>1, <1>2, <1>5 DEF WritePadding
<1>6. CASE StartFinish
  <2>1. /\ UNCHANGED <<fileVars, kind, reserve, total_in, held, kept>>
        /\ op = "none" /\ op' = "finish" /\ avail_in' = avail_in /\ padded' = padded
    BY <1>6 DEF StartFinish
  <2> QED BY <2>1, StreamKept DEF Going, WriterTypeOK
<1> QED BY <1>3, <1>4, <1>5, <1>6 DEF FilterClient

LEMMA WriterInit ==
  ASSUME Init
  PROVE  WriterTypeOK /\ Written
<1>1. FilterInit
  BY DEF Init
<1>2. PICK option \in Levels, parameter \in Parameters :
        GzipNewWriter(option, parameter) \/ Bzip2NewWriter(option, parameter)
          \/ XzNewWriter(option, parameter)
  BY <1>1 DEF FilterInit
<1>3. option \in Nat /\ parameter \in Int /\ GzipReserve \in Nat /\ LevelReserve \in Nat /\ Hold \in Nat
      /\ VolumeSize \in Nat
  BY FilterAssumption, FileAssumption DEF FilterAssumption, FileAssumption
<1>4. Level(option, parameter) \in Nat
  BY <1>3 DEF Level
<1>5. \A a \in Nat, b \in Nat : a * b \in Nat
  OBVIOUS
<1>6. /\ kind \in Filters /\ reserve \in Nat /\ op \in {"none", "null"}
      /\ \/ log = <<>> /\ (kind = "gzip" => op = "null")
         \/ kind = "gzip" /\ log = <<[Header EXCEPT !.v = 1]>>
  <2>1. CASE GzipNewWriter(option, parameter)
    BY <1>3, <2>1 DEF GzipNewWriter, Filters
  <2>2. CASE Bzip2NewWriter(option, parameter)
    <3>1. reserve \in Nat
      BY <1>3, <1>4, <1>5, <2>2 DEF Bzip2NewWriter
    <3> QED BY <2>2, <3>1, Zenon DEF Bzip2NewWriter, Filters
  <2>3. CASE XzNewWriter(option, parameter)
    <3>1. reserve \in Nat
      BY <1>3, <1>5, <2>3 DEF XzNewWriter
    <3> QED BY <2>3, <3>1, Zenon DEF XzNewWriter, Filters
  <2> QED BY <1>2, <2>1, <2>2, <2>3
<1>7. log \in Seq(FilterUnits) /\ Len(log) \in 0 .. 1 /\ (log = <<>> => Len(log) = 0)
      /\ (log = <<[Header EXCEPT !.v = 1]>> => Len(log) = 1)
  <2> DEFINE h == [Header EXCEPT !.v = 1]
  <2>1. h \in FilterUnits
    <3>1. Header \in FilterUnits
      BY DEF Header, Unit, FilterUnits
    <3> QED BY <3>1, StampedUnit
  <2>2. log = <<>> \/ log = <<h>>
    BY <1>6
  <2> HIDE DEF h
  <2>3. <<h>> \in Seq(FilterUnits) /\ Len(<<h>>) = 1 /\ <<>> # <<h>>
    BY <2>1
  <2>4. log \in Seq(FilterUnits) /\ Len(log) \in 0 .. 1 /\ (log = <<>> => Len(log) = 0)
        /\ (log = <<h>> => Len(log) = 1)
    <3>1. CASE log = <<>>
      <4>1. Len(log) = 0 /\ log # <<h>>
        BY <2>3, <3>1
      <4> QED BY <3>1, <4>1, EmptySeq
    <3>2. CASE log = <<h>>
      <4>1. Len(log) = 1 /\ log # <<>> /\ log \in Seq(FilterUnits)
        BY <2>3, <3>2, Zenon
      <4> QED BY <4>1
    <3> QED BY <2>2, <3>1, <3>2
  <2> QED BY <2>4, Zenon DEF h
<1>8. /\ fd = TRUE /\ volume = 1 /\ faults = 0 /\ position = Len(log) /\ avail_in = 0 /\ total_in = 0
      /\ held = 0 /\ padded = FALSE /\ kept = TRUE
  BY <1>1 DEF FilterInit
<1>9. VolumeSize > 0 => position <= VolumeSize
  BY <1>3, <1>7, <1>8
<1>10. fd = (op # "freed")
  BY <1>6, <1>8
<1>11. WriterTypeOK
  <2>1. /\ avail_in \in Nat /\ total_in \in Nat /\ held \in Nat /\ held <= Hold /\ held <= total_in
        /\ volume \in Nat /\ faults \in Nat
    BY <1>3, <1>8
  <2>5. kept \in BOOLEAN /\ padded \in BOOLEAN
    BY <1>8, Zenon
  <2>6. position \in Nat
    BY <1>7, <1>8
  <2>2. op \in {"none", "null", "write", "flush", "finish", "numbers", "failed", "finished", "freed"}
    BY <1>6
  <2>3. kind \in Filters /\ reserve \in Nat
    BY <1>6
  <2>4. log \in Seq(FilterUnits)
    BY <1>7
  <2> QED BY <1>9, <1>10, <2>1, <2>2, <2>3, <2>4, <2>5, <2>6 DEF WriterTypeOK
<1>12. ASSUME Going PROVE Unfinished
  <2>1. op = "none" /\ Len(log) + 1 = First /\ First \in 1 .. 2
    <3>1. op = "none"
      BY <1>6, <1>12 DEF Going
    <3>2. CASE log = <<>>
      BY <1>6, <1>7, <3>1, <3>2 DEF First
    <3>3. CASE kind = "gzip" /\ log = <<[Header EXCEPT !.v = 1]>>
      <4>1. Len(log) = 1
        BY <1>7, <3>3, Zenon
      <4> QED BY <3>1, <3>3, <4>1 DEF First
    <3> QED BY <1>6, <3>2, <3>3
  <2>2. Len(log) < First /\ First <= Len(log) + 1
    BY <1>7, <2>1
  <2>3. RunFrom(log, First, Len(log), 0)
    BY <1>7, <2>2, <2>1 DEF RunFrom
  <2> QED BY <1>8, <2>2, <2>3 DEF Unfinished, EndOf
<1>13. op \notin {"numbers", "finished"}
  BY <1>6
<1> QED BY <1>11, <1>12, <1>13 DEF Written

----------------------------------------------------------------------------
(* The bytes of a run. *)

LEMMA LeastNumber ==
  ASSUME NEW T, T \subseteq Nat, T # {}
  PROVE  \E x \in T : \A y \in T : x <= y
<1> DEFINE R == OpToRel(<, Nat)
<1>1. IsWellFoundedOn(R, Nat)
  BY NatLessThanWellFounded, Zenon
<1>2. \A x, y \in Nat : y < x => <<y, x>> \in R
  BY DEF OpToRel
<1> HIDE DEF R
<1>3. PICK x \in T : \A y \in T : ~(<<y, x>> \in R)
  BY <1>1, WFMin
<1>4. ASSUME NEW y \in T PROVE x <= y
  <2>1. x \in Nat /\ y \in Nat
    OBVIOUS
  <2>2. ~(y < x)
    BY <1>2, <1>3, <2>1, Zenon
  <2> QED BY <2>1, <2>2
<1> QED BY <1>4

(* n bytes in a row. *)
RunOf(from, n) == [j \in 1 .. n |-> from + j - 1]

LEMMA RunOfFacts ==
  ASSUME NEW from \in Int, NEW n \in Nat
  PROVE  /\ RunOf(from, n) \in Seq(Int) /\ Len(RunOf(from, n)) = n
         /\ \A j \in 1 .. n : RunOf(from, n)[j] = from + (j - 1)
<1> DEFINE r == RunOf(from, n)
<1>1. r \in [1 .. n -> Int] /\ \A j \in 1 .. n : r[j] = from + (j - 1)
  BY DEF RunOf
<1> HIDE DEF r
<1>2. r \in Seq(Int) /\ Len(r) = n
  BY <1>1
<1> QED BY <1>1, <1>2 DEF r

LEMMA RunOfEqual ==
  ASSUME NEW from \in Int, NEW n \in Nat, NEW s \in Seq(Int), Len(s) = n,
         \A j \in 1 .. n : s[j] = from + (j - 1)
  PROVE  s = RunOf(from, n)
<1> DEFINE r == RunOf(from, n)
<1>1. r \in Seq(Int) /\ Len(r) = n /\ \A j \in 1 .. n : r[j] = from + (j - 1)
  BY RunOfFacts
<1> HIDE DEF r
<1>2. \A j \in 1 .. Len(s) : s[j] = r[j]
  BY <1>1
<1>3. s = r
  BY <1>1, <1>2, SeqEqual
<1> QED BY <1>3 DEF r

LEMMA RunOfJoined ==
  ASSUME NEW from \in Int, NEW n \in Nat, NEW k \in Nat
  PROVE  RunOf(from, n) \o RunOf(from + n, k) = RunOf(from, n + k)
<1> DEFINE a == RunOf(from, n)
           b == RunOf(from + n, k)
<1>1. a \in Seq(Int) /\ Len(a) = n /\ \A j \in 1 .. n : a[j] = from + (j - 1)
  BY RunOfFacts
<1>2. b \in Seq(Int) /\ Len(b) = k /\ \A j \in 1 .. k : b[j] = (from + n) + (j - 1)
  BY RunOfFacts
<1> HIDE DEF a, b
<1>3. /\ a \o b \in Seq(Int) /\ Len(a \o b) = Len(a) + Len(b)
      /\ \A j \in 1 .. Len(a) : (a \o b)[j] = a[j]
      /\ \A j \in 1 .. Len(b) : (a \o b)[Len(a) + j] = b[j]
  <2>1. PICK S : S = Int
    OBVIOUS
  <2>2. a \in Seq(S) /\ b \in Seq(S)
    BY <1>1, <1>2, <2>1
  <2>3. /\ a \o b \in Seq(S) /\ Len(a \o b) = Len(a) + Len(b)
        /\ \A j \in 1 .. Len(a) : (a \o b)[j] = a[j]
        /\ \A j \in 1 .. Len(b) : (a \o b)[Len(a) + j] = b[j]
    BY <2>2, Joined
  <2>4. a \o b \in Seq(Int)
    BY <2>1, <2>3
  <2> QED BY <2>3, <2>4
<1> DEFINE c == a \o b
<1> HIDE DEF c
<1>4. c \in Seq(Int) /\ Len(c) = n + k /\ (\A j \in 1 .. n : c[j] = a[j]) /\ (\A j \in 1 .. k : c[n + j] = b[j])
  BY <1>1, <1>2, <1>3 DEF c
<1>5. ASSUME NEW j \in 1 .. n + k PROVE c[j] = from + (j - 1)
  <2>1. CASE j <= n
    BY <1>1, <1>4, <2>1
  <2>2. CASE ~(j <= n)
    <3>1. j - n \in 1 .. k /\ n + (j - n) = j
      BY <2>2
    <3>2. c[j] = b[j - n]
      BY <1>4, <3>1, Zenon
    <3>3. b[j - n] = (from + n) + ((j - n) - 1)
      BY <1>2, <3>1
    <3> QED BY <3>2, <3>3
  <2> QED BY <2>1, <2>2
<1>6. c = RunOf(from, n + k)
  <2>1. n + k \in Nat
    OBVIOUS
  <2> QED BY <1>4, <1>5, <2>1, RunOfEqual
<1> QED BY <1>6 DEF a, b, c

LEMMA RunOfCut ==
  ASSUME NEW from \in Int, NEW l \in Nat, NEW n \in 0 .. l
  PROVE  /\ SubSeq(RunOf(from, l), 1, n) = RunOf(from, n)
         /\ SubSeq(RunOf(from, l), n + 1, l) = RunOf(from + n, l - n)
<1> DEFINE r == RunOf(from, l)
<1>1. r \in Seq(Int) /\ Len(r) = l /\ \A j \in 1 .. l : r[j] = from + (j - 1)
  BY RunOfFacts
<1>2. n \in Nat /\ l - n \in Nat /\ from + n \in Int
  OBVIOUS
<1> HIDE DEF r
<1>3. \A a, b \in Nat : (\A j \in a .. b : r[j] \in Int) => 
        /\ SubSeq(r, a, b) \in Seq(Int)
        /\ Len(SubSeq(r, a, b)) = (IF a <= b THEN (b - a) + 1 ELSE 0)
        /\ \A j \in 1 .. (b - a) + 1 : SubSeq(r, a, b)[j] = r[(a + j) - 1]
  <2> TAKE a, b \in Nat
  <2> HAVE \A j \in a .. b : r[j] \in Int
  <2>1. a \in Int /\ b \in Int
    OBVIOUS
  <2> QED BY <2>1, SubSeqProperties
<1>4. SubSeq(r, 1, n) = RunOf(from, n)
  <2> DEFINE c == SubSeq(r, 1, n)
  <2>1. \A j \in 1 .. n : r[j] \in Int
    BY <1>1
  <2>2. /\ c \in Seq(Int) /\ Len(c) = (IF 1 <= n THEN (n - 1) + 1 ELSE 0)
        /\ \A j \in 1 .. (n - 1) + 1 : c[j] = r[(1 + j) - 1]
    BY <1>2, <1>3, <2>1
  <2> HIDE DEF c
  <2>3. Len(c) = n /\ \A j \in 1 .. n : c[j] = from + (j - 1)
    BY <1>1, <1>2, <2>2
  <2>4. c = RunOf(from, n)
    BY <1>2, <2>2, <2>3, RunOfEqual
  <2> QED BY <2>4 DEF c
<1>5. SubSeq(r, n + 1, l) = RunOf(from + n, l - n)
  <2> DEFINE c == SubSeq(r, n + 1, l)
  <2>1. \A j \in n + 1 .. l : r[j] \in Int
    BY <1>1, <1>2
  <2>2. n + 1 \in Nat
    BY <1>2
  <2>3. /\ c \in Seq(Int) /\ Len(c) = (IF n + 1 <= l THEN (l - (n + 1)) + 1 ELSE 0)
        /\ \A j \in 1 .. (l - (n + 1)) + 1 : c[j] = r[((n + 1) + j) - 1]
    BY <1>3, <2>1, <2>2
  <2> HIDE DEF c
  <2>4. Len(c) = l - n
    BY <1>2, <2>3
  <2>5. ASSUME NEW j \in 1 .. l - n PROVE c[j] = (from + n) + (j - 1)
    <3>1. j \in 1 .. (l - (n + 1)) + 1 /\ n + j \in 1 .. l /\ ((n + 1) + j) - 1 = n + j
      BY <1>2
    <3>2. c[j] = r[n + j]
      BY <2>3, <3>1
    <3>3. r[n + j] = from + ((n + j) - 1)
      BY <1>1, <3>1
    <3> QED BY <1>2, <3>2, <3>3
  <2>6. c = RunOf(from + n, l - n)
    BY <1>2, <2>3, <2>4, <2>5, RunOfEqual
  <2> QED BY <2>6 DEF c
<1> QED BY <1>4, <1>5 DEF r

(* A run does not go back. *)
LEMMA RunGrows ==
  ASSUME NEW s \in Seq(FilterUnits), NEW a \in Nat \ {0}, NEW b \in 0 .. Len(s), NEW m \in Int,
         RunFrom(s, a, b, m)
  PROVE  \A j \in a - 1 .. b : EndOf(s, a, j, m) \in Int /\ EndOf(s, a, j, m) >= m
<1>1. Len(s) \in Nat
  BY LenProperties
<1>2. \A j \in a .. b : s[j].s \in Nat /\ s[j].o = EndOf(s, a, j - 1, m) /\ s[j].o \in Int
  BY <1>1, UnitFields DEF RunFrom
<1>3. EndOf(s, a, a - 1, m) = m
  BY DEF EndOf
<1>4. \A j \in a .. b : EndOf(s, a, j, m) = s[j].o + s[j].s
  BY DEF EndOf
<1> DEFINE E(j) == EndOf(s, a, j, m)
           T == {j \in a - 1 .. b : ~(E(j) \in Int /\ E(j) >= m)}
<1>5. ASSUME T # {} PROVE FALSE
  <2>1. T \subseteq Nat
    BY <1>1
  <2>2. PICK j \in T : \A y \in T : j <= y
    BY <1>5, <2>1, LeastNumber
  <2>3. j # a - 1
    BY <1>3, <2>2
  <2>4. j \in a .. b /\ j - 1 \in a - 1 .. b
    BY <1>1, <2>3
  <2>5. j - 1 \notin T
    BY <2>2, <2>4
  <2>6. E(j - 1) \in Int /\ E(j - 1) >= m
    BY <2>4, <2>5
  <2>7. E(j) = E(j - 1) + s[j].s /\ s[j].s \in Nat
    BY <1>2, <1>4, <2>4
  <2>8. E(j) \in Int /\ E(j) >= m
    BY <2>6, <2>7
  <2> QED BY <2>8
<1> QED BY <1>5

Pieces(s) == [j \in DOMAIN s |-> [l \in 1 .. s[j].s |-> s[j].o + l - 1]]

Flattened(t) == CHOOSE f : f = [i \in 1 .. Len(t) |-> IF i = 1 THEN t[i] ELSE f[i - 1] \o t[i]]

LEMMA FlattenedLast ==
  ASSUME NEW t, Len(t) # 0
  PROVE  FlattenSeq(t) = Flattened(t)[Len(t)]
  BY DEF FlattenSeq, Flattened

LEMMA FlattenedEach ==
  ASSUME NEW t, Len(t) \in Nat,
         NEW w, w = [i \in 1 .. Len(t) |-> IF i = 1 THEN t[i] ELSE w[i - 1] \o t[i]]
  PROVE  \A i \in 1 .. Len(t) : Flattened(t)[i] = w[i]
<1> DEFINE f == Flattened(t)
<1>1. f = [i \in 1 .. Len(t) |-> IF i = 1 THEN t[i] ELSE f[i - 1] \o t[i]]
  BY Zenon DEF Flattened
<1> HIDE DEF f
<1>2. \A i \in 1 .. Len(t) : f[i] = IF i = 1 THEN t[i] ELSE f[i - 1] \o t[i]
  BY <1>1, Zenon
<1>3. \A i \in 1 .. Len(t) : w[i] = IF i = 1 THEN t[i] ELSE w[i - 1] \o t[i]
  BY Zenon
<1> DEFINE T == {i \in 1 .. Len(t) : f[i] # w[i]}
<1>4. ASSUME T # {} PROVE FALSE
  <2>1. T \subseteq Nat
    OBVIOUS
  <2>2. PICK i \in T : \A y \in T : i <= y
    BY <1>4, <2>1, LeastNumber
  <2>3. CASE i = 1
    BY <1>2, <1>3, <2>2, <2>3
  <2>4. CASE i # 1
    <3>1. i - 1 \in 1 .. Len(t) /\ i - 1 \notin T
      BY <2>2, <2>4
    <3>2. f[i - 1] = w[i - 1]
      BY <3>1
    <3>3. f[i] = f[i - 1] \o t[i] /\ w[i] = w[i - 1] \o t[i]
      BY <1>2, <1>3, <2>2, <2>4, Zenon
    <3>4. f[i] = w[i]
      BY <3>2, <3>3, Zenon
    <3> QED BY <2>2, <3>4
  <2> QED BY <2>3, <2>4
<1> QED BY <1>4 DEF f

(* What the units of a run hold are bytes in a row. *)
LEMMA BytesOfRun ==
  ASSUME NEW s \in Seq(FilterUnits), NEW m \in Int, RunFrom(s, 1, Len(s), m)
  PROVE  /\ EndOf(s, 1, Len(s), m) - m \in Nat
         /\ BytesOf(s) = RunOf(m, EndOf(s, 1, Len(s), m) - m)
<1> DEFINE n == Len(s)
           t == Pieces(s)
           E(j) == EndOf(s, 1, j, m)
           w == [i \in 1 .. n |-> RunOf(m, E(i) - m)]
<1>1. n \in Nat /\ DOMAIN s = 1 .. n
  BY LenProperties
<1>2. \A j \in 0 .. n : E(j) - m \in Nat
  <2>1. \A j \in 1 - 1 .. n : E(j) \in Int /\ E(j) >= m
    BY <1>1, RunGrows
  <2> HIDE DEF E
  <2> QED BY <2>1
<1>3. BytesOf(s) = FlattenSeq(t)
  BY DEF BytesOf, Pieces
<1>4. Len(t) = n /\ \A j \in 1 .. n : t[j] = RunOf(s[j].o, s[j].s)
  <2>1. t = [j \in 1 .. n |-> RunOf(s[j].o, s[j].s)]
    BY <1>1 DEF Pieces, RunOf
  <2> QED BY <1>1, <2>1
<1>5. \A j \in 1 .. n : s[j].s \in Nat /\ s[j].o = E(j - 1) /\ E(j) = s[j].o + s[j].s
  <2> TAKE j \in 1 .. n
  <2>1. ~(j < 1)
    OBVIOUS
  <2> QED BY <2>1 DEF RunFrom, EndOf
<1>6. E(0) = m
  BY DEF EndOf
<1> HIDE DEF t, E
<1>7. \A i \in 1 .. n : w[i] = RunOf(m, E(i) - m)
  OBVIOUS
<1>8. w = [i \in 1 .. n |-> IF i = 1 THEN t[i] ELSE w[i - 1] \o t[i]]
  <2>1. ASSUME NEW i \in 1 .. n
        PROVE  RunOf(m, E(i) - m) = IF i = 1 THEN t[i] ELSE w[i - 1] \o t[i]
    <3>1. CASE i = 1
      <4>1. s[i].o = m /\ s[i].s = E(i) - m
        <5>1. i - 1 = 0
          BY <3>1
        <5>2. s[i].s \in Nat /\ s[i].o = E(0) /\ E(i) = s[i].o + s[i].s
          BY <1>5, <5>1, Zenon
        <5> QED BY <1>6, <5>2
      <4> QED BY <1>4, <3>1, <4>1, Zenon
    <3>2. CASE i # 1
      <4>1. i - 1 \in 1 .. n /\ i - 1 \in 0 .. n
        BY <3>2
      <4> DEFINE k == E(i - 1) - m
      <4>2. k \in Nat /\ E(i) - m \in Nat
        BY <1>2, <4>1
      <4>3. s[i].s \in Nat /\ s[i].o = E(i - 1) /\ E(i) = s[i].o + s[i].s
        BY <1>5, Zenon
      <4>4. s[i].o = m + k /\ E(i) - m = k + s[i].s
        <5>1. s[i].o \in Int
          BY UnitFields
        <5> QED BY <4>3, <5>1
      <4>5. w[i - 1] = RunOf(m, k) /\ t[i] = RunOf(s[i].o, s[i].s)
        BY <1>4, <1>7, <4>1, Zenon
      <4> HIDE DEF k, w
      <4>6. RunOf(m, k) \o RunOf(m + k, s[i].s) = RunOf(m, k + s[i].s)
        BY <4>2, <4>3, RunOfJoined
      <4> QED BY <3>2, <4>4, <4>5, <4>6, Zenon
    <3> QED BY <3>1, <3>2
  <2> QED BY <2>1, Zenon
<1>9. CASE n = 0
  <2>1. FlattenSeq(t) = t
    BY <1>4, <1>9 DEF FlattenSeq
  <2>2. t = RunOf(m, 0)
    BY <1>1, <1>9 DEF t, Pieces, RunOf
  <2>3. E(n) - m = 0
    BY <1>6, <1>9
  <2> QED BY <1>3, <2>1, <2>2, <2>3 DEF E
<1>10. CASE n # 0
  <2> HIDE DEF w
  <2>6. Len(t) \in Nat /\ w = [i \in 1 .. Len(t) |-> IF i = 1 THEN t[i] ELSE w[i - 1] \o t[i]]
    BY <1>1, <1>4, <1>8, Zenon
  <2>1. \A i \in 1 .. Len(t) : Flattened(t)[i] = w[i]
    BY <2>6, FlattenedEach, Zenon
  <2>2. FlattenSeq(t) = Flattened(t)[n]
    BY <1>4, <1>10, FlattenedLast
  <2>3. n \in 1 .. n
    BY <1>1, <1>10
  <2>4. FlattenSeq(t) = RunOf(m, E(n) - m)
    BY <1>4, <1>7, <2>1, <2>2, <2>3, Zenon
  <2>5. E(n) - m \in Nat
    BY <1>1, <1>2
  <2> QED BY <1>3, <2>4, <2>5 DEF E
<1> QED BY <1>9, <1>10

----------------------------------------------------------------------------
(* A call of a library that decodes. *)

LEMMA LeastChosen ==
  ASSUME NEW T, T \subseteq Nat, T # {}, NEW c, c = CHOOSE j \in T : \A l \in T : j <= l
  PROVE  c \in T /\ \A l \in T : c <= l
<1>1. \E j \in T : \A l \in T : j <= l
  BY LeastNumber
<1> QED BY <1>1, Zenon

(* A run goes on from any place in it. *)
LEMMA RunSplit ==
  ASSUME NEW s, NEW a \in Nat \ {0}, NEW b \in Int, NEW c \in a - 1 .. b, NEW m, RunFrom(s, a, b, m)
  PROVE  /\ RunFrom(s, a, c, m)
         /\ RunFrom(s, c + 1, b, EndOf(s, a, c, m))
         /\ \A j \in c .. b : EndOf(s, c + 1, j, EndOf(s, a, c, m)) = EndOf(s, a, j, m)
<1> DEFINE x == EndOf(s, a, c, m)
<1>1. \A j \in c .. b : EndOf(s, c + 1, j, x) = EndOf(s, a, j, m)
  <2> TAKE j \in c .. b
  <2>1. CASE j = c
    BY <2>1 DEF EndOf
  <2>2. CASE j # c
    <3>1. ~(j < c + 1) /\ ~(j < a)
      BY <2>2
    <3> QED BY <3>1 DEF EndOf
  <2> QED BY <2>1, <2>2
<1> HIDE DEF x
<1>2. \A j \in a .. b : s[j].k = "data" /\ s[j].s \in Nat /\ s[j].o = EndOf(s, a, j - 1, m)
  BY DEF RunFrom
<1>3. ASSUME NEW j \in c + 1 .. b
      PROVE  s[j].k = "data" /\ s[j].s \in Nat /\ s[j].o = EndOf(s, c + 1, j - 1, x)
  <2>1. j \in a .. b /\ j - 1 \in c .. b
    OBVIOUS
  <2> QED BY <1>1, <1>2, <2>1, Zenon
<1>4. RunFrom(s, c + 1, b, x)
  BY <1>3, Zenon DEF RunFrom
<1>5. ASSUME NEW j \in a .. c
      PROVE  s[j].k = "data" /\ s[j].s \in Nat /\ s[j].o = EndOf(s, a, j - 1, m)
  <2>1. j \in a .. b
    OBVIOUS
  <2> QED BY <1>2, <2>1, Zenon
<1>6. RunFrom(s, a, c, m)
  BY <1>5, Zenon DEF RunFrom
<1> QED BY <1>1, <1>4, <1>6 DEF x

(* t holds, behind d, the k units of s behind c. *)
Moved(s, t, c, d, k) == \A j \in 1 .. k : t[d + j] = s[c + j]

LEMMA RunMoved ==
  ASSUME NEW s, NEW t, NEW c \in Nat, NEW d \in Nat, NEW k \in Nat, NEW m, Moved(s, t, c, d, k),
         RunFrom(s, c + 1, c + k, m)
  PROVE  /\ RunFrom(t, d + 1, d + k, m)
         /\ EndOf(t, d + 1, d + k, m) = EndOf(s, c + 1, c + k, m)
<1>1. \A j \in 0 .. k : EndOf(t, d + 1, d + j, m) = EndOf(s, c + 1, c + j, m)
  <2> TAKE j \in 0 .. k
  <2>1. CASE j = 0
    BY <2>1 DEF EndOf
  <2>2. CASE j # 0
    <3>1. j \in 1 .. k /\ ~(d + j < d + 1) /\ ~(c + j < c + 1)
      BY <2>2
    <3>2. t[d + j] = s[c + j]
      BY <3>1 DEF Moved
    <3> QED BY <3>1, <3>2, Zenon DEF EndOf
  <2> QED BY <2>1, <2>2
<1>2. ASSUME NEW i \in d + 1 .. d + k
      PROVE  t[i].k = "data" /\ t[i].s \in Nat /\ t[i].o = EndOf(t, d + 1, i - 1, m)
  <2>1. PICK j \in 1 .. k : i = d + j /\ i - 1 = d + (j - 1)
    <3>1. i - d \in 1 .. k /\ i = d + (i - d) /\ i - 1 = d + ((i - d) - 1)
      OBVIOUS
    <3> QED BY <3>1
  <2>2. c + j \in c + 1 .. c + k /\ j - 1 \in 0 .. k /\ (c + j) - 1 = c + (j - 1)
    OBVIOUS
  <2>3. /\ s[c + j].k = "data" /\ s[c + j].s \in Nat
        /\ s[c + j].o = EndOf(s, c + 1, (c + j) - 1, m)
    BY <2>2, Zenon DEF RunFrom
  <2>4. EndOf(t, d + 1, i - 1, m) = EndOf(s, c + 1, (c + j) - 1, m)
    BY <1>1, <2>1, <2>2, Zenon
  <2>5. t[i] = s[c + j]
    BY <2>1, Zenon DEF Moved
  <2> QED BY <2>3, <2>4, <2>5, Zenon
<1>3. RunFrom(t, d + 1, d + k, m)
  BY <1>2, Zenon DEF RunFrom
<1>4. k \in 0 .. k
  OBVIOUS
<1> QED BY <1>1, <1>3, <1>4

(* t holds the k units of s behind c. *)
Shifted(s, t, c, k) == \A j \in 1 .. k : t[j] = s[c + j]

LEMMA RunShifted ==
  ASSUME NEW s, NEW t, NEW c \in Nat, NEW k \in Nat, NEW m, Shifted(s, t, c, k),
         RunFrom(s, c + 1, c + k, m)
  PROVE  /\ RunFrom(t, 1, k, m)
         /\ EndOf(t, 1, k, m) = EndOf(s, c + 1, c + k, m)
<1>1. 0 \in Nat /\ 0 + 1 = 1 /\ 0 + k = k
  OBVIOUS
<1>2. Moved(s, t, c, 0, k)
  BY DEF Shifted, Moved
<1>3. /\ RunFrom(t, 0 + 1, 0 + k, m)
      /\ EndOf(t, 0 + 1, 0 + k, m) = EndOf(s, c + 1, c + k, m)
  BY <1>1, <1>2, RunMoved
<1> QED BY <1>1, <1>3

(* The first k units of buf, which holds s from c + 1 on: their bytes go on *)
(* where what is pending ends.                                              *)
LEMMA TakenBytes ==
  ASSUME NEW s \in Seq(FilterUnits), NEW at \in Nat, NEW buf \in Seq(FilterUnits),
         at + Len(buf) <= Len(s), Shifted(s, buf, at, Len(buf)),
         NEW many \in 0 .. Len(buf), NEW from \in Int, NEW l \in Nat, RunFrom(s, at + 1, at + many, from + l)
  PROVE  /\ EndOf(s, at + 1, at + many, from + l) - from \in Nat
         /\ RunOf(from, l) \o BytesOf(SubSeq(buf, 1, many))
               = RunOf(from, EndOf(s, at + 1, at + many, from + l) - from)
<1> DEFINE part == SubSeq(buf, 1, many)
           base == from + l
           x == EndOf(s, at + 1, at + many, base)
<1>1. Len(buf) \in Nat /\ many \in Nat /\ many <= Len(buf) /\ base \in Int
  BY LenProperties
<1>2. part \in Seq(FilterUnits) /\ Len(part) = many /\ \A j \in 1 .. many : part[j] = s[at + j]
  <2>1. \A j \in 1 .. many : buf[j] \in FilterUnits /\ buf[j] = s[at + j]
    BY <1>1, ElementOfSeq DEF Shifted
  <2>2. 1 \in Int /\ many \in Int
    BY <1>1
  <2>3. /\ part \in Seq(FilterUnits) /\ Len(part) = IF 1 <= many THEN (many - 1) + 1 ELSE 0
        /\ \A j \in 1 .. (many - 1) + 1 : part[j] = buf[(1 + j) - 1]
    BY <2>1, <2>2, SubSeqProperties
  <2> HIDE DEF part
  <2>4. \A j \in 1 .. many : j \in 1 .. (many - 1) + 1 /\ (1 + j) - 1 = j
    BY <1>1
  <2>5. Len(part) = many
    BY <1>1, <2>3
  <2>6. \A j \in 1 .. many : part[j] = buf[j]
    BY <2>3, <2>4, Zenon
  <2> QED BY <2>1, <2>3, <2>5, <2>6, Zenon
<1> HIDE DEF part
<1>3. RunFrom(s, at + 1, at + many, base)
  OBVIOUS
<1>4. RunFrom(part, 1, many, base) /\ EndOf(part, 1, many, base) = x
  <2>1. Shifted(s, part, at, many)
    BY <1>2 DEF Shifted
  <2>2. at \in Nat /\ many \in Nat
    BY <1>1
  <2> HIDE DEF base, x
  <2>3. RunFrom(part, 1, many, base) /\ EndOf(part, 1, many, base) = EndOf(s, at + 1, at + many, base)
    BY <1>3, <2>1, <2>2, RunShifted
  <2> QED BY <2>3 DEF x
<1>5. x - base \in Nat /\ BytesOf(part) = RunOf(base, x - base)
  BY <1>1, <1>2, <1>4, BytesOfRun
<1> HIDE DEF x
<1>6. RunOf(from, l) \o RunOf(base, x - base) = RunOf(from, l + (x - base))
  BY <1>5, RunOfJoined
<1>8. x \in Int
  <2>1. CASE many = 0
    BY <1>1, <2>1 DEF x, EndOf
  <2>2. CASE many # 0
    <3>1. at + many \in 1 .. Len(s) /\ ~(at + many < at + 1)
      BY <1>1, <2>2, LenProperties
    <3>2. s[at + many].o \in Int /\ s[at + many].s \in Int
      BY <3>1, UnitFields
    <3> QED BY <3>1, <3>2 DEF x, EndOf
  <2> QED BY <2>1, <2>2
<1>7. l + (x - base) = x - from /\ x - from \in Nat
  BY <1>1, <1>5, <1>8
<1> QED BY <1>5, <1>6, <1>7 DEF part, x

Consumed == in_pos - in_buffer
Decoded == total_out + Len(pending)

(* What a decoding d comes to that takes k units and gives n bytes. *)
Decoding(d, left, e, k, n) ==
    LET x == EndOf(archive, Consumed + 1, Consumed + k, Decoded)
    IN  /\ k \in 0 .. in_buffer /\ Consumed + k < e
        /\ n \in 0 .. left /\ x - total_out \in Nat /\ n <= x - total_out
        /\ d.data = RunOf(total_out, n)
        /\ d.pending = RunOf(total_out + n, (x - total_out) - n)
        /\ \/ d.state = "run" /\ d.taken = k /\ (n < left => k = in_buffer)
           \/ /\ d.state = "end" /\ d.taken = k + 1 /\ k < in_buffer
              /\ Consumed + k + 1 = e /\ n = x - total_out

LEMMA DecodeFacts ==
  ASSUME archive \in Seq(FilterUnits), in_pos \in 0 .. Len(archive), in_buffer \in 1 .. in_pos,
         total_out \in Nat, NEW lp \in Nat, Len(pending) = lp, pending = RunOf(total_out, lp),
         NEW left \in Nat \ {0},
         NEW e \in Consumed + 1 .. Len(archive),
         RunFrom(archive, Consumed + 1, e - 1, Decoded), archive[e].k = "end"
  PROVE  \E k \in Nat, n \in Nat : Decoding(Decode(left), left, e, k, n)
<1> DEFINE units == Buffered
           stop == {j \in DOMAIN units : units[j].k # "data"}
           first == CHOOSE j \in stop : \A l \in stop : j <= l
           good == IF stop = {} THEN Len(units) ELSE first - 1
           bytes == [k \in 0 .. good |-> pending \o BytesOf(SubSeq(units, 1, k))]
           enough == {k \in 0 .. good : Len(bytes[k]) >= left}
           few == CHOOSE m \in enough : \A l \in enough : m <= l
           k == IF enough = {} THEN good ELSE few
           n == IF enough = {} THEN Len(bytes[k]) ELSE left
           met == enough = {} /\ good < Len(units)
           d == Decode(left)
           c == Consumed
           X(j) == EndOf(archive, c + 1, c + j, Decoded)
<1>1. d = [data |-> SubSeq(bytes[k], 1, n),
           pending |-> SubSeq(bytes[k], n + 1, Len(bytes[k])),
           taken |-> IF met /\ units[good + 1].k = "end" THEN k + 1 ELSE k,
           state |-> IF ~met THEN "run" ELSE IF units[good + 1].k = "end" THEN "end" ELSE "error"]
  BY DEF Decode
<1> HIDE DEF d
<1>2. Len(archive) \in Nat /\ in_pos \in Nat /\ in_buffer \in Nat \ {0} /\ c \in Nat
      /\ c + in_buffer = in_pos /\ e \in Nat /\ c + 1 <= e /\ e <= Len(archive) /\ in_pos <= Len(archive)
  BY LenProperties DEF Consumed
<1> DEFINE D == Decoded
<1>3. D = total_out + lp /\ D \in Int
  BY DEF Decoded
<1> HIDE DEF c, D
<1>4. units \in Seq(FilterUnits) /\ Len(units) = in_buffer /\ DOMAIN units = 1 .. in_buffer
      /\ \A j \in 1 .. in_buffer : units[j] = archive[c + j]
  <2>1. units = SubSeq(archive, c + 1, in_pos)
    BY DEF Buffered, Consumed, c
  <2>2. c + 1 \in Int /\ in_pos \in Int /\ \A j \in c + 1 .. in_pos : archive[j] \in FilterUnits
    BY <1>2, ElementOfSeq
  <2>3. /\ SubSeq(archive, c + 1, in_pos) \in Seq(FilterUnits)
        /\ Len(SubSeq(archive, c + 1, in_pos)) = IF c + 1 <= in_pos THEN (in_pos - (c + 1)) + 1 ELSE 0
        /\ \A j \in 1 .. (in_pos - (c + 1)) + 1 : SubSeq(archive, c + 1, in_pos)[j] = archive[((c + 1) + j) - 1]
    BY <2>2, SubSeqProperties
  <2> HIDE DEF units
  <2>4. units \in Seq(FilterUnits) /\ Len(units) = in_buffer
        /\ \A j \in 1 .. in_buffer : units[j] = archive[((c + 1) + j) - 1]
    <3>1. (in_pos - (c + 1)) + 1 = in_buffer /\ c + 1 <= in_pos
      BY <1>2
    <3> QED BY <2>1, <2>3, <3>1, Zenon
  <2>5. \A j \in 1 .. in_buffer : ((c + 1) + j) - 1 = c + j
    BY <1>2
  <2>6. DOMAIN units = 1 .. in_buffer
    BY <2>4, LenProperties
  <2> QED BY <2>4, <2>5, <2>6, Zenon
<1> HIDE DEF units
<1>5. \A j \in 1 .. in_buffer : c + j < e => units[j].k = "data"
  <2> TAKE j \in 1 .. in_buffer
  <2> HAVE c + j < e
  <2>1. c + j \in c + 1 .. e - 1
    BY <1>2
  <2>2. archive[c + j].k = "data"
    BY <2>1 DEF RunFrom, c
  <2> QED BY <1>4, <2>2
<1>6. \A j \in 1 .. in_buffer : c + j = e => units[j].k = "end"
  BY <1>4
<1>7. good \in Nat /\ good <= in_buffer /\ c + good < e /\ (good < in_buffer => c + good + 1 = e)
  <2>1. \A j \in stop : j \in Nat /\ j >= 1 /\ j <= in_buffer /\ c + j >= e
    <3> TAKE j \in stop
    <3>1. j \in 1 .. in_buffer /\ units[j].k # "data"
      BY <1>4
    <3>2. ~(c + j < e)
      BY <1>5, <3>1
    <3> QED BY <1>2, <3>1, <3>2
  <2>2. CASE stop = {}
    <3>1. ~(e - c \in 1 .. in_buffer)
      <4>1. ASSUME e - c \in 1 .. in_buffer PROVE FALSE
        <5>1. c + (e - c) = e
          BY <1>2
        <5>2. units[e - c].k = "end"
          BY <1>6, <4>1, <5>1, Zenon
        <5>3. e - c \in stop
          BY <1>4, <4>1, <5>2
        <5> QED BY <2>2, <5>3
      <4> QED BY <4>1
    <3>2. good = in_buffer
      BY <1>4, <2>2
    <3> QED BY <1>2, <3>1, <3>2
  <2>3. CASE stop # {}
    <3>1. stop \subseteq Nat
      BY <2>1
    <3>2. first \in stop /\ \A l \in stop : first <= l
      <4>1. PICK T : T = stop
        OBVIOUS
      <4>2. T \subseteq Nat /\ T # {} /\ first = CHOOSE j \in T : \A l \in T : j <= l
        BY <2>3, <3>1, <4>1, Zenon
      <4> HIDE DEF first
      <4>3. first \in T /\ \A l \in T : first <= l
        BY <4>2, LeastChosen
      <4> QED BY <4>1, <4>3, Zenon
    <3> HIDE DEF first
    <3>3. first \in Nat /\ first >= 1 /\ first <= in_buffer /\ c + first >= e
      BY <2>1, <3>2
    <3>4. good = first - 1
      BY <2>3
    <3>5. c + first = e
      <4>1. ASSUME c + first > e PROVE FALSE
        <5>1. e - c \in 1 .. in_buffer /\ c + (e - c) = e /\ e - c < first
          BY <1>2, <3>3, <4>1
        <5>2. units[e - c].k = "end"
          BY <1>6, <5>1, Zenon
        <5>3. e - c \in stop
          BY <1>4, <5>1, <5>2
        <5>4. first <= e - c
          BY <3>2, <5>3
        <5> QED BY <1>2, <3>3, <5>1, <5>4
      <4> QED BY <1>2, <3>3, <4>1
    <3> HIDE DEF good
    <3> QED BY <1>2, <3>3, <3>4, <3>5
  <2> QED BY <2>2, <2>3
<1> HIDE DEF good
<1>16. total_out \in Int
  OBVIOUS
<1>8. ASSUME NEW j \in 0 .. good
      PROVE  X(j) - total_out \in Nat /\ bytes[j] = RunOf(total_out, X(j) - total_out)
  <2>1. bytes[j] = pending \o BytesOf(SubSeq(units, 1, j))
    OBVIOUS
  <2>2. j \in 0 .. Len(units) /\ c + Len(units) <= Len(archive) /\ c + j <= e - 1 /\ e - 1 \in Int
    BY <1>2, <1>4, <1>7
  <2>3. RunFrom(archive, c + 1, e - 1, total_out + lp)
    BY <1>3, Zenon DEF D, c
  <2>4. Shifted(archive, units, c, Len(units))
    BY <1>4 DEF Shifted
  <2>5. /\ EndOf(archive, c + 1, c + j, total_out + lp) - total_out \in Nat
        /\ RunOf(total_out, lp) \o BytesOf(SubSeq(units, 1, j))
             = RunOf(total_out, EndOf(archive, c + 1, c + j, total_out + lp) - total_out)
    <3>1. RunFrom(archive, c + 1, c + j, total_out + lp)
      <4>1. c + 1 \in Nat \ {0} /\ c + j \in (c + 1) - 1 .. e - 1
        BY <1>2, <2>2
      <4> QED BY <2>2, <2>3, <4>1, RunSplit
    <3>3. c + Len(units) <= Len(archive) /\ j \in 0 .. Len(units)
      BY <2>2
    <3>4. c \in Nat /\ units \in Seq(FilterUnits) /\ lp \in Nat
      BY <1>2, <1>4
    <3> HIDE DEF bytes, stop, enough, X, few, first, met, k, n
    <3>5. archive \in Seq(FilterUnits)
      OBVIOUS
    <3> QED BY ONLY <1>16, <2>4, <3>1, <3>3, <3>4, <3>5, TakenBytes, SMTT(30)
  <2>6. EndOf(archive, c + 1, c + j, total_out + lp) = X(j)
    BY <1>3, Zenon DEF D
  <2> QED BY <2>1, <2>5, <2>6, Zenon
<1>9. ASSUME NEW j \in 0 .. good PROVE Len(bytes[j]) = X(j) - total_out
  <2>1. X(j) - total_out \in Nat /\ bytes[j] = RunOf(total_out, X(j) - total_out)
    BY <1>8
  <2> HIDE DEF X, bytes
  <2>2. Len(RunOf(total_out, X(j) - total_out)) = X(j) - total_out
    BY <1>16, <2>1, RunOfFacts, Zenon
  <2> QED BY <2>1, <2>2, Zenon
<1> HIDE DEF X, bytes
<1>10. k \in 0 .. good /\ (enough = {} => k = good)
       /\ n \in Nat /\ n <= X(k) - total_out /\ n <= left
       /\ (enough # {} => n = left) /\ (enough = {} => n = X(k) - total_out)
  <2>1. \A j \in enough : j \in 0 .. good /\ X(j) - total_out >= left
    BY <1>9
  <2>2. CASE enough = {}
    <3>1. k = good /\ good \in 0 .. good /\ n = Len(bytes[k])
      BY <1>7, <2>2
    <3>2. ~(Len(bytes[good]) >= left)
      BY <2>2, <3>1
    <3>3. Len(bytes[good]) = X(good) - total_out /\ X(good) - total_out \in Nat
      BY <1>8, <1>9, <3>1
    <3> HIDE DEF k, n, enough
    <3> QED BY <2>2, <3>1, <3>2, <3>3
  <2>3. CASE enough # {}
    <3>1. enough \subseteq Nat
      BY <1>7, <2>1
    <3>2. few \in enough /\ \A l \in enough : few <= l
      <4>1. PICK T : T = enough
        OBVIOUS
      <4>2. T \subseteq Nat /\ T # {} /\ few = CHOOSE j \in T : \A l \in T : j <= l
        BY <2>3, <3>1, <4>1, Zenon
      <4> HIDE DEF few
      <4>3. few \in T /\ \A l \in T : few <= l
        BY <4>2, LeastChosen
      <4> QED BY <4>1, <4>3, Zenon
    <3> HIDE DEF few
    <3>3. k = few /\ n = left
      BY <2>3
    <3> HIDE DEF k, n, enough
    <3>4. k \in 0 .. good /\ X(k) - total_out >= left
      BY <2>1, <3>2, <3>3
    <3> QED BY <2>3, <3>3, <3>4
  <2> QED BY <2>2, <2>3
<1> HIDE DEF k, n
<1> DEFINE l == X(k) - total_out
<1>11. l \in Nat /\ bytes[k] = RunOf(total_out, l) /\ Len(bytes[k]) = l /\ n \in 0 .. l
  BY <1>8, <1>9, <1>10
<1> HIDE DEF l
<1>12. d.data = RunOf(total_out, n) /\ d.pending = RunOf(total_out + n, l - n)
  <2>1. SubSeq(RunOf(total_out, l), 1, n) = RunOf(total_out, n)
        /\ SubSeq(RunOf(total_out, l), n + 1, l) = RunOf(total_out + n, l - n)
    BY <1>11, <1>16, RunOfCut, Zenon
  <2>2. d.data = SubSeq(bytes[k], 1, n) /\ d.pending = SubSeq(bytes[k], n + 1, Len(bytes[k]))
    BY <1>1
  <2> QED BY <1>11, <2>1, <2>2, Zenon
<1>13. k \in Nat /\ k \in 0 .. in_buffer /\ c + k < e
  BY <1>2, <1>7, <1>10
<1>14. \/ d.state = "run" /\ d.taken = k /\ (n < left => k = in_buffer)
       \/ d.state = "end" /\ d.taken = k + 1 /\ k < in_buffer /\ c + k + 1 = e /\ n = l
  <2>1. CASE ~met
    <3>1. d.state = "run" /\ d.taken = k
      BY <1>1, <2>1
    <3>2. ASSUME n < left PROVE k = in_buffer
      <4>1. enough = {}
        BY <1>10, <3>2
      <4>2. k = good /\ ~(good < in_buffer)
        BY <1>4, <1>10, <2>1, <4>1
      <4> QED BY <1>7, <4>2
    <3> QED BY <3>1, <3>2
  <2>2. CASE met
    <3>1. enough = {} /\ good < in_buffer /\ k = good
      BY <1>4, <1>10, <2>2
    <3>2. c + good + 1 = e /\ good + 1 \in 1 .. in_buffer /\ c + (good + 1) = e
      BY <1>2, <1>7, <3>1
    <3>3. units[good + 1].k = "end"
      BY <1>6, <3>2
    <3>4. d.state = "end" /\ d.taken = k + 1
      BY <1>1, <2>2, <3>3
    <3>5. n = l
      BY <1>10, <3>1 DEF l
    <3>6. k < in_buffer /\ c + k + 1 = e
      BY <3>1, <3>2
    <3> QED BY <3>4, <3>5, <3>6
  <2> QED BY <2>1, <2>2
<1> HIDE DEF met, enough
<1>15. Decoding(d, left, e, k, n)
  <2>1. EndOf(archive, Consumed + 1, Consumed + k, Decoded) - total_out = l
    BY DEF l, X, c
  <2>2. n \in 0 .. left
    BY <1>10
  <2>3. Decoding(d, left, e, k, n) =
          /\ k \in 0 .. in_buffer /\ c + k < e
          /\ n \in 0 .. left /\ l \in Nat /\ n <= l
          /\ d.data = RunOf(total_out, n)
          /\ d.pending = RunOf(total_out + n, l - n)
          /\ \/ d.state = "run" /\ d.taken = k /\ (n < left => k = in_buffer)
             \/ /\ d.state = "end" /\ d.taken = k + 1 /\ k < in_buffer
                /\ c + k + 1 = e /\ n = l
    BY <2>1, Zenon DEF Decoding, c
  <2>4. n <= l
    BY <1>11
  <2> QED BY <1>11, <1>12, <1>13, <1>14, <2>2, <2>3, <2>4, Zenon
<1> QED BY <1>10, <1>13, <1>15 DEF d

----------------------------------------------------------------------------
(* The header of a gzip file. *)

LEMMA StringPassed ==
  ASSUME NEW units \in Seq(FilterUnits), NEW at \in Nat, NEW n \in at + 1 .. Len(units),
         units[n].k = "nul", \A j \in at + 1 .. n - 1 : units[j].k # "nul"
  PROVE  PastString(units, at) = n
<1> DEFINE ends == {j \in at + 1 .. Len(units) : units[j].k = "nul"}
           c == CHOOSE j \in ends : \A l \in ends : j <= l
<1>1. n \in ends /\ ends \subseteq Nat /\ ends # {}
  BY LenProperties
<1>2. c \in ends /\ \A l \in ends : c <= l
  <2>1. PICK T : T = ends
    OBVIOUS
  <2>2. T \subseteq Nat /\ T # {} /\ c = CHOOSE j \in T : \A l \in T : j <= l
    BY <1>1, <2>1, Zenon
  <2> HIDE DEF c
  <2>3. c \in T /\ \A l \in T : c <= l
    BY <2>2, LeastChosen
  <2> QED BY <2>1, <2>3, Zenon
<1> HIDE DEF c
<1>3. c <= n /\ c \in at + 1 .. Len(units) /\ units[c].k = "nul"
  BY <1>1, <1>2
<1>4. c = n
  <2>1. ~(c \in at + 1 .. n - 1)
    BY <1>3
  <2> QED BY <1>3, <2>1, LenProperties
<1>5. PastString(units, at) = c
  BY <1>1, Zenon DEF PastString, c
<1> QED BY <1>4, <1>5

(* A field that may be there. *)
Field(s, x, flags, t, u) ==
    /\ u \in Seq(FilterUnits)
    /\ Len(u) = IF x \in flags THEN Len(s) + Len(t) ELSE Len(s)
    /\ \A j \in 1 .. Len(s) : u[j] = s[j]
    /\ x \in flags => \A j \in 1 .. Len(t) : u[Len(s) + j] = t[j]

LEMMA FieldJoined ==
  ASSUME NEW s \in Seq(FilterUnits), NEW x, NEW flags, NEW t \in Seq(FilterUnits)
  PROVE  Field(s, x, flags, t, s \o (IF x \in flags THEN t ELSE <<>>))
<1> DEFINE u == s \o (IF x \in flags THEN t ELSE <<>>)
<1>1. CASE x \in flags
  <2>1. /\ s \o t \in Seq(FilterUnits) /\ Len(s \o t) = Len(s) + Len(t)
        /\ \A j \in 1 .. Len(s) : (s \o t)[j] = s[j]
        /\ \A j \in 1 .. Len(t) : (s \o t)[Len(s) + j] = t[j]
    BY Joined
  <2>2. u = s \o t
    BY <1>1
  <2> HIDE DEF u
  <2>3. Field(s, x, flags, t, u)
    BY <1>1, <2>1, <2>2, Zenon DEF Field
  <2> QED BY <2>3 DEF u
<1>2. CASE x \notin flags
  <2>1. u = s \o <<>>
    BY <1>2
  <2>2. u = s
    BY <2>1, ConcatEmptySeq, Zenon
  <2> HIDE DEF u
  <2>3. Field(s, x, flags, t, u)
    BY <1>2, <2>2, Zenon DEF Field
  <2> QED BY <2>3 DEF u
<1> QED BY <1>1, <1>2

Flag(k, o, s) == Unit(k, 0, o, 0, s)

LEMMA FlagUnit ==
  ASSUME NEW k \in {"head", "data", "end", "crc", "size", "nul", "char"}, NEW o \in Int, NEW n \in Int
  PROVE  Flag(k, o, n) \in FilterUnits /\ Flag(k, o, n).k = k /\ Flag(k, o, n).s = n
  BY DEF Flag, Unit, FilterUnits

(* Whatever fields there are, gzip's reader starts behind them. *)
LEMMA HeaderPassed ==
  ASSUME NEW flags, NEW u \in Seq(FilterUnits), NEW h, h = Fields(flags),
         Len(h) <= Len(u), \A j \in 1 .. Len(h) : u[j] = h[j]
  PROVE  GzipNewReader(u, flags) = {Len(h)}
<1> DEFINE head == Flag("head", 0, 0)
           size == Flag("size", 0, 1)
           nul == Flag("nul", 0, 0)
           char == Flag("char", 0, 0)
           t0 == <<head>>
           t1 == <<size, nul>>
           t2 == <<char, nul>>
           t3 == <<nul>>
           t4 == <<char>>
           extra == "extra" \in flags
           name == "name" \in flags
           comment == "comment" \in flags
           crc16 == "crc16" \in flags
           h1 == t0 \o (IF extra THEN t1 ELSE <<>>)
           h2 == h1 \o (IF name THEN t2 ELSE <<>>)
           h3 == h2 \o (IF comment THEN t3 ELSE <<>>)
           h4 == h3 \o (IF crc16 THEN t4 ELSE <<>>)
<1>1. h = h4
  BY DEF Fields, Flag
<1>7. /\ head \in FilterUnits /\ head.k = "head"
      /\ size \in FilterUnits /\ size.k = "size" /\ size.s = 1
      /\ nul \in FilterUnits /\ nul.k = "nul"
      /\ char \in FilterUnits /\ char.k = "char"
  BY FlagUnit
<1> HIDE DEF head, size, nul, char
<1>2. t0 \in Seq(FilterUnits) /\ Len(t0) = 1 /\ t0[1].k = "head"
  BY <1>7
<1>3. t1 \in Seq(FilterUnits) /\ Len(t1) = 2 /\ t1[1].k = "size" /\ t1[1].s = 1
  BY <1>7
<1>4. t2 \in Seq(FilterUnits) /\ Len(t2) = 2 /\ t2[1].k = "char" /\ t2[2].k = "nul"
  BY <1>7
<1>5. t3 \in Seq(FilterUnits) /\ Len(t3) = 1 /\ t3[1].k = "nul"
  BY <1>7
<1>6. t4 \in Seq(FilterUnits) /\ Len(t4) = 1
  BY <1>7
<1> HIDE DEF t0, t1, t2, t3, t4
<1>8. /\ h1 \in Seq(FilterUnits) /\ Len(h1) = IF extra THEN 3 ELSE 1
      /\ h1[1].k = "head" /\ (extra => h1[2].s = 1)
  <2>1. /\ h1 \in Seq(FilterUnits)
        /\ Len(h1) = IF extra THEN Len(t0) + Len(t1) ELSE Len(t0)
        /\ \A j \in 1 .. Len(t0) : h1[j] = t0[j]
        /\ extra => \A j \in 1 .. Len(t1) : h1[Len(t0) + j] = t1[j]
    <3>1. Field(t0, "extra", flags, t1, h1)
      BY <1>2, <1>3, FieldJoined, Zenon
    <3> HIDE DEF h1
    <3> QED BY <3>1, Zenon DEF Field
  <2> HIDE DEF h1
  <2>2. h1[1] = t0[1]
    BY <1>2, <2>1
  <2>3. extra => h1[1 + 1] = t1[1]
    BY <1>2, <1>3, <2>1
  <2> QED BY <1>2, <1>3, <2>1, <2>2, <2>3
<1> HIDE DEF h1
<1>9. /\ h2 \in Seq(FilterUnits) /\ Len(h2) = IF name THEN Len(h1) + 2 ELSE Len(h1)
      /\ \A j \in 1 .. Len(h1) : h2[j] = h1[j]
      /\ name => h2[Len(h1) + 1].k = "char" /\ h2[Len(h1) + 2].k = "nul"
  <2>1. /\ h2 \in Seq(FilterUnits)
        /\ Len(h2) = IF name THEN Len(h1) + Len(t2) ELSE Len(h1)
        /\ \A j \in 1 .. Len(h1) : h2[j] = h1[j]
        /\ name => \A j \in 1 .. Len(t2) : h2[Len(h1) + j] = t2[j]
    <3>1. Field(h1, "name", flags, t2, h2)
      BY <1>4, <1>8, FieldJoined, Zenon
    <3> HIDE DEF h2
    <3> QED BY <3>1, Zenon DEF Field
  <2> HIDE DEF h2
  <2>2. name => h2[Len(h1) + 1] = t2[1] /\ h2[Len(h1) + 2] = t2[2]
    BY <1>4, <2>1
  <2> QED BY <1>4, <2>1, <2>2
<1> HIDE DEF h2
<1>10. /\ h3 \in Seq(FilterUnits) /\ Len(h3) = IF comment THEN Len(h2) + 1 ELSE Len(h2)
       /\ \A j \in 1 .. Len(h2) : h3[j] = h2[j]
       /\ comment => h3[Len(h2) + 1].k = "nul"
  <2>1. /\ h3 \in Seq(FilterUnits)
        /\ Len(h3) = IF comment THEN Len(h2) + Len(t3) ELSE Len(h2)
        /\ \A j \in 1 .. Len(h2) : h3[j] = h2[j]
        /\ comment => \A j \in 1 .. Len(t3) : h3[Len(h2) + j] = t3[j]
    <3>1. Field(h2, "comment", flags, t3, h3)
      BY <1>5, <1>9, FieldJoined, Zenon
    <3> HIDE DEF h3
    <3> QED BY <3>1, Zenon DEF Field
  <2> HIDE DEF h3
  <2>2. comment => h3[Len(h2) + 1] = t3[1]
    BY <1>5, <2>1
  <2> QED BY <1>5, <2>1, <2>2
<1> HIDE DEF h3
<1>11. /\ h4 \in Seq(FilterUnits) /\ Len(h4) = IF crc16 THEN Len(h3) + 1 ELSE Len(h3)
       /\ \A j \in 1 .. Len(h3) : h4[j] = h3[j]
  <2>1. /\ h4 \in Seq(FilterUnits)
        /\ Len(h4) = IF crc16 THEN Len(h3) + Len(t4) ELSE Len(h3)
        /\ \A j \in 1 .. Len(h3) : h4[j] = h3[j]
    <3>1. Field(h3, "crc16", flags, t4, h4)
      BY <1>6, <1>10, FieldJoined, Zenon
    <3> HIDE DEF h4
    <3> QED BY <3>1, Zenon DEF Field
  <2> HIDE DEF h4
  <2> QED BY <1>6, <2>1
<1> HIDE DEF h4
<1> DEFINE l1 == Len(h1)
           l2 == Len(h2)
           l3 == Len(h3)
           l4 == Len(h4)
<1>12. l1 \in 1 .. l2 /\ l2 \in l1 .. l3 /\ l3 \in l2 .. l4 /\ l4 <= Len(u) /\ Len(u) \in Nat /\ l4 \in Nat
  BY <1>1, <1>8, <1>9, <1>10, <1>11, LenProperties
<1>13. /\ \A j \in 1 .. l3 : u[j] = h3[j]
       /\ \A j \in 1 .. l2 : u[j] = h2[j]
       /\ \A j \in 1 .. l1 : u[j] = h1[j]
  <2>1. \A j \in 1 .. l4 : u[j] = h4[j]
    BY <1>1
  <2>2. \A j \in 1 .. l3 : u[j] = h3[j]
    BY <1>11, <1>12, <2>1
  <2>3. \A j \in 1 .. l2 : u[j] = h2[j]
    BY <1>10, <1>12, <2>2
  <2>4. \A j \in 1 .. l1 : u[j] = h1[j]
    BY <1>9, <1>12, <2>3
  <2> QED BY <2>2, <2>3, <2>4
<1>14. u[1].k = "head" /\ (extra => u[2].s = 1 /\ l1 = 3)
  BY <1>8, <1>12, <1>13
<1> DEFINE past1 == IF extra THEN 1 + 1 + u[2].s ELSE 1
           past2 == IF name THEN PastString(u, past1) ELSE past1
           past3 == IF comment THEN PastString(u, past2) ELSE past2
<1>15. past1 = l1
  BY <1>8, <1>14
<1> HIDE DEF past1, l1, l2, l3, l4
<1>16. past2 = l2
  <2>1. CASE name
    <3>1. l2 = l1 + 2 /\ u[l1 + 1].k = "char" /\ u[l1 + 2].k = "nul"
      BY <1>9, <1>12, <1>13, <2>1 DEF l1, l2
    <3>2. l1 \in Nat /\ l1 + 2 \in l1 + 1 .. Len(u) /\ \A j \in l1 + 1 .. (l1 + 2) - 1 : j = l1 + 1
      BY <1>12, <3>1
    <3>3. PastString(u, l1) = l1 + 2
      BY <3>1, <3>2, StringPassed
    <3> QED BY <1>15, <2>1, <3>1, <3>3
  <2>2. CASE ~name
    BY <1>9, <1>15, <2>2 DEF l1, l2
  <2> QED BY <2>1, <2>2
<1> HIDE DEF past2
<1>17. past3 = l3
  <2>1. CASE comment
    <3>1. l3 = l2 + 1 /\ u[l2 + 1].k = "nul"
      BY <1>10, <1>12, <1>13, <2>1 DEF l2, l3
    <3>2. l2 \in Nat /\ l2 + 1 \in l2 + 1 .. Len(u) /\ \A j \in l2 + 1 .. (l2 + 1) - 1 : FALSE
      BY <1>12, <3>1
    <3>3. PastString(u, l2) = l2 + 1
      BY <3>1, <3>2, StringPassed
    <3> QED BY <1>16, <2>1, <3>1, <3>3
  <2>2. CASE ~comment
    BY <1>10, <1>16, <2>2 DEF l2, l3
  <2> QED BY <2>1, <2>2
<1> HIDE DEF past3
<1>18. PastHeader(u, flags) = l4
  <2>1. PastHeader(u, flags) = IF crc16 THEN past3 + 1 ELSE past3
    BY Zenon DEF PastHeader, past1, past2, past3
  <2> QED BY <1>11, <1>17, <2>1 DEF l3, l4
<1>19. ~(extra /\ Len(u) = 1)
  BY <1>12, <1>14
<1>20. ~(l4 > Len(u)) /\ l4 = Len(h)
  BY <1>1, <1>12 DEF l4
<1>21. GzipNewReader(u, flags) = {l4}
  BY <1>14, <1>18, <1>19, <1>20 DEF GzipNewReader
<1> QED BY <1>20, <1>21

----------------------------------------------------------------------------
(* The readers. *)

(* Behind c units the run goes on from m to the end mark e, the last of the *)
(* client's bytes, when they are all there, before it.                      *)
AheadOf(c, m, e) ==
    /\ e \in c + 1 .. Len(archive)
    /\ RunFrom(archive, c + 1, e - 1, m)
    /\ whole => EndOf(archive, c + 1, e - 1, m) = ReadSize
    /\ archive[e].k = "end"
    /\ filter = "bzip2" /\ ~behind => e = Len(archive)

Ahead == \E e \in Nat : AheadOf(Consumed, Decoded, e)

Calling ==
    /\ call \in [op : {"read", "forward"}, left : Nat \ {0}, got : Seq(Int)]
    /\ Len(call.got) <= total_out
    /\ call.left + Len(call.got) <= MaxAsk
    /\ call.got = RunOf(total_out - Len(call.got), Len(call.got))

(* What has been decoded is what the client wrote, and behind the end mark  *)
(* it is all of it.                                                         *)
Through ==
    /\ pending = <<>>
    /\ whole => total_out = ReadSize
    /\ filter = "bzip2" /\ ~behind => in_buffer = 0 /\ in_pos = Len(archive)

Reads ==
    /\ archive \in Seq(FilterUnits)
    /\ in_pos \in 0 .. Len(archive) /\ in_buffer \in 0 .. in_pos
    /\ total_out \in Nat
    /\ Len(pending) \in Nat /\ pending = RunOf(total_out, Len(pending))
    /\ call = Idle \/ Calling
    /\ decoder \in {"run", "end", "error"}
    /\ decoder = "run" /\ reading => Ahead
    /\ decoder = "run" /\ stage = "fill" => in_buffer = 0
    /\ decoder # "run" => Through
    /\ decoder = "error" => filter = "bzip2" /\ behind

Gives(d, n) ==
    /\ n \in 0 .. call.left
    /\ d.data = RunOf(total_out, n)
    /\ d.taken \in 0 .. in_buffer
    /\ Len(d.pending) \in Nat /\ d.pending = RunOf(total_out + n, Len(d.pending))
    /\ d.state \in {"run", "end", "error"}
    /\ d.state = "run" => /\ \E e \in Nat : AheadOf(Consumed + d.taken, total_out + n + Len(d.pending), e)
                          /\ n < call.left => d.taken = in_buffer
    /\ d.state # "run" => /\ d.pending = <<>>
                          /\ whole => total_out + n = ReadSize
                          /\ filter = "bzip2" /\ ~behind => d.taken = in_buffer /\ in_pos = Len(archive)
    /\ d.state = "error" => filter = "bzip2" /\ behind

LEMMA NothingRun ==
  ASSUME NEW m \in Int
  PROVE  RunOf(m, 0) = <<>>
<1>1. RunOf(m, 0) \in Seq(Int) /\ Len(RunOf(m, 0)) = 0
  BY RunOfFacts
<1> QED BY <1>1, EmptySeq

LEMMA DecodeGives ==
  ASSUME Reads, reading, call.op # "none", in_buffer > 0, decoder = "run"
  PROVE  \E n \in Nat : Gives(Decode(call.left), n)
<1> DEFINE left == call.left
           d == Decode(left)
           lp == Len(pending)
<1>1. left \in Nat \ {0}
  <2>1. call # Idle
    BY DEF Idle
  <2> QED BY <2>1 DEF Reads, Calling
<1>2. archive \in Seq(FilterUnits) /\ in_pos \in 0 .. Len(archive) /\ in_buffer \in 1 .. in_pos
      /\ total_out \in Nat /\ lp \in Nat /\ pending = RunOf(total_out, lp) /\ Len(archive) \in Nat
  BY LenProperties DEF Reads
<1>3. PICK e \in Nat : AheadOf(Consumed, Decoded, e)
  BY DEF Reads, Ahead
<1>4. e \in Consumed + 1 .. Len(archive) /\ RunFrom(archive, Consumed + 1, e - 1, Decoded)
      /\ archive[e].k = "end"
  BY <1>3 DEF AheadOf
<1>5. PICK k \in Nat, n \in Nat : Decoding(d, left, e, k, n)
  <2> HIDE DEF left
  <2> QED BY <1>1, <1>2, <1>4, DecodeFacts
<1> HIDE DEF d, left
<1> DEFINE x == EndOf(archive, Consumed + 1, Consumed + k, Decoded)
           l == x - total_out
           c == Consumed
<1>6. /\ k \in 0 .. in_buffer /\ c + k < e
      /\ n \in 0 .. left /\ l \in Nat /\ n <= l
      /\ d.data = RunOf(total_out, n)
      /\ d.pending = RunOf(total_out + n, l - n)
      /\ \/ d.state = "run" /\ d.taken = k /\ (n < left => k = in_buffer)
         \/ /\ d.state = "end" /\ d.taken = k + 1 /\ k < in_buffer
            /\ c + k + 1 = e /\ n = l
  BY <1>5 DEF Decoding
<1>7. c \in Nat /\ c + in_buffer = in_pos
  BY <1>2 DEF Consumed
<1>8. /\ RunFrom(archive, (c + k) + 1, e - 1, x)
      /\ EndOf(archive, (c + k) + 1, e - 1, x) = EndOf(archive, c + 1, e - 1, Decoded)
  <2>1. c + 1 \in Nat \ {0} /\ e - 1 \in Int /\ c + k \in (c + 1) - 1 .. e - 1 /\ e - 1 \in c + k .. e - 1
    BY <1>4, <1>6, <1>7
  <2>2. RunFrom(archive, c + 1, e - 1, Decoded)
    BY <1>4
  <2>3. /\ RunFrom(archive, (c + k) + 1, e - 1, EndOf(archive, c + 1, c + k, Decoded))
        /\ \A j \in c + k .. e - 1 : EndOf(archive, (c + k) + 1, j, EndOf(archive, c + 1, c + k, Decoded))
                                        = EndOf(archive, c + 1, j, Decoded)
    <3> HIDE DEF c
    <3> QED BY <2>1, <2>2, RunSplit
  <2> QED BY <2>1, <2>3
<1>9. l - n \in Nat /\ total_out + n \in Int
  BY <1>2, <1>6
<1> HIDE DEF x, c
<1>10. Len(d.pending) = l - n /\ (l - n = 0 => d.pending = <<>>)
  BY <1>6, <1>9, RunOfFacts, NothingRun
<1>11. x = total_out + n + Len(d.pending)
  <2>1. x \in Int
    <3>1. CASE k = 0
      <4>1. x = Decoded
        BY <1>7, <3>1 DEF x, EndOf, c
      <4> QED BY <1>2, <4>1 DEF Decoded
    <3>2. CASE k # 0
      <4>1. c + k \in 1 .. Len(archive) /\ ~(c + k < c + 1)
        BY <1>2, <1>6, <1>7, <3>2
      <4>2. archive[c + k].o \in Int /\ archive[c + k].s \in Int
        BY <1>2, <4>1, UnitFields
      <4>3. x = archive[c + k].o + archive[c + k].s
        BY <4>1 DEF x, EndOf, c
      <4> QED BY <4>2, <4>3
    <3> QED BY <3>1, <3>2
  <2> QED BY <1>2, <1>6, <1>10, <2>1
<1>12. CASE d.state = "run"
  <2>1. d.taken = k /\ (n < left => k = in_buffer)
    BY <1>6, <1>12
  <2>2. AheadOf(c + k, x, e)
    <3>1. e \in (c + k) + 1 .. Len(archive)
      BY <1>4, <1>6, <1>7
    <3> QED BY <1>3, <1>8, <3>1, Zenon DEF AheadOf, c
  <2>3. AheadOf(Consumed + d.taken, total_out + n + Len(d.pending), e)
    BY <1>11, <2>1, <2>2, Zenon DEF c
  <2>4. d.taken \in 0 .. in_buffer
    BY <1>6, <2>1
  <2> QED BY <1>6, <1>9, <1>10, <1>12, <2>1, <2>3, <2>4 DEF Gives, left, d
<1>13. CASE d.state # "run"
  <2>1. d.state = "end" /\ d.taken = k + 1 /\ k < in_buffer /\ c + k + 1 = e /\ n = l
    BY <1>6, <1>13
  <2>2. d.pending = <<>> /\ d.taken \in 0 .. in_buffer
    <3>1. l - n = 0
      BY <1>6, <2>1
    <3>2. k + 1 \in 0 .. in_buffer
      BY <1>2, <1>6, <2>1
    <3> QED BY <1>10, <2>1, <3>1, <3>2
  <2>3. ASSUME whole PROVE total_out + n = ReadSize
    <3>1. EndOf(archive, (c + k) + 1, e - 1, x) = ReadSize
      BY <1>3, <1>8, <2>3, Zenon DEF AheadOf, c
    <3>2. e - 1 < (c + k) + 1
      BY <1>6, <1>7, <2>1
    <3>3. x = ReadSize
      BY <3>1, <3>2 DEF EndOf
    <3> QED BY <1>2, <1>6, <1>10, <1>11, <2>1, <3>3
  <2>4. ASSUME filter = "bzip2", ~behind PROVE d.taken = in_buffer /\ in_pos = Len(archive)
    <3>1. e = Len(archive)
      BY <1>3, <2>4 DEF AheadOf
    <3> QED BY <1>2, <1>6, <1>7, <2>1, <3>1
  <2> QED BY <1>6, <1>9, <1>10, <1>13, <2>1, <2>2, <2>3, <2>4 DEF Gives, left, d
<1> QED BY <1>12, <1>13

(* A decoder that is through gives nothing, and says so. *)
LEMMA NothingGives ==
  ASSUME Reads, reading, call.op # "none", in_buffer > 0, decoder # "run",
         NEW s \in {"end", "error"}, s = "error" => filter = "bzip2"
  PROVE  Gives(Nothing(s), 0)
<1> DEFINE d == Nothing(s)
<1>1. d.data = <<>> /\ d.pending = pending /\ d.taken = 0 /\ d.state = s
  BY DEF Nothing
<1> HIDE DEF d
<1>2. Through
  BY DEF Reads
<1>3. filter = "bzip2" => behind
  BY <1>2 DEF Through
<1>4. total_out \in Nat /\ in_buffer \in Nat /\ pending = <<>>
  <2>1. Len(archive) \in Nat /\ in_pos \in 0 .. Len(archive) /\ in_buffer \in 0 .. in_pos /\ total_out \in Nat
    BY LenProperties DEF Reads
  <2> QED BY <1>2, <2>1 DEF Through
<1>5. call.left \in Nat
  <2>1. call # Idle
    BY DEF Idle
  <2> QED BY <2>1 DEF Reads, Calling
<1>6. RunOf(total_out, 0) = <<>> /\ RunOf(total_out + 0, 0) = <<>> /\ Len(<<>>) = 0
  BY <1>4, NothingRun
<1>7. /\ 0 \in 0 .. call.left /\ d.data = RunOf(total_out, 0) /\ d.taken \in 0 .. in_buffer
      /\ Len(d.pending) = 0 /\ d.pending = <<>> /\ d.state # "run" /\ d.state \in {"run", "end", "error"}
  BY <1>1, <1>4, <1>5, <1>6
<1>8. Len(d.pending) \in Nat /\ d.pending = RunOf(total_out + 0, Len(d.pending))
  BY <1>6, <1>7
<1>9. whole => total_out + 0 = ReadSize
  BY <1>2, <1>4 DEF Through
<1>10. d.state = "error" => filter = "bzip2" /\ behind
  BY <1>1, <1>3
<1>11. ~(filter = "bzip2" /\ ~behind)
  BY <1>3
<1>12. Gives(d, 0)
  BY <1>7, <1>8, <1>9, <1>10, <1>11, Zenon DEF Gives
<1> QED BY <1>12 DEF d

(* The three libraries. *)
LEMMA LibraryGives ==
  ASSUME Reads, reading, call.op # "none", in_buffer > 0,
         NEW d, \/ d = Inflate(call.left) \/ d = LzmaDecode(call.left)
                \/ d = BzDecompress(call.left) /\ filter = "bzip2"
  PROVE  \E n \in Nat : Gives(d, n)
<1>1. CASE decoder = "run"
  <2>1. d = Decode(call.left)
    BY <1>1, Zenon DEF Inflate, LzmaDecode, BzDecompress
  <2> QED BY <1>1, <2>1, DecodeGives
<1>2. CASE decoder # "run"
  <2>1. decoder \in {"end", "error"} /\ (decoder = "error" => filter = "bzip2")
    BY <1>2 DEF Reads
  <2>2. d = Nothing(decoder) \/ (d = Nothing("error") /\ filter = "bzip2")
    BY <1>2, Zenon DEF Inflate, LzmaDecode, BzDecompress
  <2>3. Gives(d, 0)
    <3>1. CASE d = Nothing(decoder)
      <4>1. Gives(Nothing(decoder), 0)
        BY <1>2, <2>1, NothingGives
      <4> QED BY <3>1, <4>1, Zenon
    <3>2. CASE d = Nothing("error") /\ filter = "bzip2"
      <4>1. Gives(Nothing("error"), 0)
        BY <1>2, <3>2, NothingGives
      <4> QED BY <3>2, <4>1, Zenon
    <3> QED BY <2>2, <3>1, <3>2
  <2>4. 0 \in Nat
    OBVIOUS
  <2> QED BY <2>3, <2>4, Zenon
<1> QED BY <1>1, <1>2

(* What is in progress of a call, and what a step of it adds. *)
LEMMA GivenOn ==
  ASSUME Reads, call.op # "none", NEW d, NEW n \in Nat, Gives(d, n)
  PROVE  /\ call.op \in {"read", "forward"} /\ call.left \in Nat \ {0} /\ call.got \in Seq(Int)
         /\ Len(d.data) = n /\ n <= call.left
         /\ Len(call.got \o d.data) = Len(call.got) + n
         /\ Len(call.got) \in Nat /\ Len(call.got) <= total_out
         /\ call.left + Len(call.got) <= MaxAsk
         /\ call.got \o d.data = RunOf(total_out - Len(call.got), Len(call.got) + n)
<1> DEFINE g == Len(call.got)
           m == total_out - g
<1>1. Calling
  <2>1. call # Idle
    BY DEF Idle
  <2> QED BY <2>1 DEF Reads
<1>2. /\ call.op \in {"read", "forward"} /\ call.left \in Nat \ {0} /\ call.got \in Seq(Int)
      /\ g <= total_out /\ call.left + g <= MaxAsk /\ call.got = RunOf(m, g)
  BY <1>1 DEF Calling
<1>3. g \in Nat /\ total_out \in Nat
  BY <1>2, LenProperties DEF Reads
<1>4. m \in Int /\ total_out = m + g
  BY <1>3
<1>5. n \in 0 .. call.left /\ d.data = RunOf(total_out, n)
  BY DEF Gives
<1>6. n <= call.left
  BY <1>2, <1>5
<1>7. Len(d.data) = n
  BY <1>3, <1>5, RunOfFacts
<1>8. call.got \o d.data = RunOf(m, g + n)
  <2> HIDE DEF m, g
  <2>1. RunOf(m, g) \o RunOf(m + g, n) = RunOf(m, g + n)
    BY <1>3, <1>4, RunOfJoined
  <2> QED BY <1>2, <1>4, <1>5, <2>1, Zenon
<1>9. Len(call.got \o d.data) = g + n
  <2> HIDE DEF m, g
  <2>1. g + n \in Nat
    BY <1>3
  <2>2. Len(RunOf(m, g + n)) = g + n
    BY <1>4, <2>1, RunOfFacts
  <2> QED BY <1>8, <2>2, Zenon
<1> QED BY <1>2, <1>3, <1>6, <1>7, <1>8, <1>9

(* A step that moves the decoder, and not the archive. *)
LEMMA AheadLater ==
  ASSUME NEW c, NEW m, NEW e, AheadOf(c, m, e), Consumed' = c, Decoded' = m,
         archive' = archive, filter' = filter, whole' = whole, behind' = behind
  PROVE  AheadOf(Consumed, Decoded, e)'
<1>1. /\ e \in c + 1 .. Len(archive')
      /\ RunFrom(archive', c + 1, e - 1, m)
      /\ whole' => EndOf(archive', c + 1, e - 1, m) = ReadSize
      /\ archive'[e].k = "end"
      /\ filter' = "bzip2" /\ ~behind' => e = Len(archive')
  BY Zenon DEF AheadOf
<1>2. /\ e \in Consumed' + 1 .. Len(archive')
      /\ RunFrom(archive', Consumed' + 1, e - 1, Decoded')
      /\ whole' => EndOf(archive', Consumed' + 1, e - 1, Decoded') = ReadSize
  BY <1>1, Zenon
<1> QED BY <1>1, <1>2, Zenon DEF AheadOf

(* A call that was given n of what it asked for asks for the rest. *)
LEMMA AskedLess ==
  ASSUME NEW asked \in Nat, NEW n \in Nat, n <= asked, asked - n # 0,
         NEW g \in Nat, NEW t \in Nat, g <= t, NEW most \in Nat, asked + g <= most,
         NEW u, u = t + n
  PROVE  asked - n \in Nat \ {0} /\ (asked - n) + (g + n) <= most /\ g + n <= u
         /\ u - (g + n) = t - g
OBVIOUS

LEMMA DecodeReads ==
  ASSUME Reads, reading, NEW d, NEW n \in Nat, Gives(d, n), DecodeStep(d),
         UNCHANGED <<reading, whole, behind>>
  PROVE  Reads'
<1> DEFINE g == Len(call.got)
           left == call.left - n
           got == call.got \o d.data
<1>1. /\ call.op \in {"read", "forward"} /\ call.left \in Nat \ {0} /\ call.got \in Seq(Int)
      /\ Len(d.data) = n /\ n <= call.left
      /\ Len(got) = g + n
      /\ g \in Nat /\ g <= total_out /\ call.left + g <= MaxAsk
      /\ got = RunOf(total_out - g, g + n)
  BY GivenOn DEF DecodeStep
<1>2. /\ pending' = d.pending /\ decoder' = d.state /\ in_buffer' = in_buffer - d.taken
      /\ total_out' = total_out + n
      /\ UNCHANGED <<filter, archive, in_pos, reading, whole, behind>>
  BY <1>1 DEF DecodeStep
<1>3. \/ call' = Idle /\ stage' = "decode"
      \/ /\ d.state # "end" /\ left # 0
         /\ call' = [call EXCEPT !.left = left, !.got = got]
         /\ stage' = IF call.op = "read" THEN "fill" ELSE "decode"
  <2>1. /\ in_buffer > 0
        /\ IF d.state = "end" \/ left = 0
              THEN IF call.op = "read" THEN Returns(Len(got), got) ELSE Returns(total_out', <<-1>>)
              ELSE /\ call' = [call EXCEPT !.left = left, !.got = got]
                   /\ stage' = IF call.op = "read" THEN "fill" ELSE "decode"
    BY <1>1 DEF DecodeStep
  <2> HIDE DEF got, left
  <2> QED BY <2>1 DEF Returns
<1> HIDE DEF got
<1>4. /\ archive \in Seq(FilterUnits) /\ Len(archive) \in Nat /\ in_pos \in 0 .. Len(archive)
      /\ in_buffer \in 0 .. in_pos /\ total_out \in Nat
  BY LenProperties DEF Reads
<1>5. /\ d.taken \in 0 .. in_buffer
      /\ Len(d.pending) \in Nat /\ d.pending = RunOf(total_out + n, Len(d.pending))
      /\ d.state \in {"run", "end", "error"}
  BY DEF Gives
<1>6. in_buffer' \in 0 .. in_pos /\ total_out' \in Nat /\ Consumed' = Consumed + d.taken
      /\ Decoded' = total_out + n + Len(d.pending)
  BY <1>2, <1>4, <1>5 DEF Consumed, Decoded
<1>7. pending' = RunOf(total_out', Len(pending')) /\ Len(pending') \in Nat
  BY <1>2, <1>5
<1>8. call' = Idle \/ Calling'
  <2>1. ASSUME left # 0, call' = [call EXCEPT !.left = left, !.got = got] PROVE Calling'
    <3>1. left \in Nat \ {0} /\ left + (g + n) <= MaxAsk /\ g + n <= total_out'
          /\ total_out' - (g + n) = total_out - g
      <4>1. MaxAsk \in Nat
        BY ReaderAssumption DEF ReaderAssumption
      <4>2. /\ call.left \in Nat /\ n <= call.left /\ g \in Nat /\ g <= total_out
            /\ call.left + g <= MaxAsk
        BY <1>1
      <4>3. total_out \in Nat /\ total_out' = total_out + n /\ call.left - n # 0
        BY <1>2, <1>4, <2>1
      <4> QED BY <4>1, <4>2, <4>3, AskedLess
    <3>2. got \in Seq(Int)
      <4>1. total_out - g \in Int /\ g + n \in Nat
        BY <1>1, <1>4
      <4> QED BY <1>1, <4>1, RunOfFacts
    <3> HIDE DEF left
    <3>3. call \in [op : {"read", "forward"}, left : Nat \ {0}, got : Seq(Int)]
      <4>1. call # Idle
        BY <1>1 DEF Idle
      <4> QED BY <4>1 DEF Reads, Calling
    <3>4. /\ call' \in [op : {"read", "forward"}, left : Nat \ {0}, got : Seq(Int)]
          /\ call'.got = got /\ call'.left = left
      <4>1. PICK S : S = Seq(Int)
        OBVIOUS
      <4>2. call \in [op : {"read", "forward"}, left : Nat \ {0}, got : S] /\ got \in S
        BY <3>2, <3>3, <4>1
      <4>3. /\ call' \in [op : {"read", "forward"}, left : Nat \ {0}, got : S]
            /\ call'.got = got /\ call'.left = left
        BY <2>1, <3>1, <4>2
      <4> QED BY <4>1, <4>3
    <3>5. Len(call'.got) <= total_out' /\ call'.left + Len(call'.got) <= MaxAsk
      BY <1>1, <3>1, <3>4
    <3>6. call'.got = RunOf(total_out' - Len(call'.got), Len(call'.got))
      BY <1>1, <3>1, <3>4, Zenon
    <3> QED BY <3>4, <3>5, <3>6 DEF Calling
  <2> QED BY <1>3, <2>1
<1>9. ASSUME decoder' = "run" PROVE Ahead'
  <2>1. PICK e \in Nat : AheadOf(Consumed + d.taken, total_out + n + Len(d.pending), e)
    BY <1>2, <1>9 DEF Gives
  <2>2. PICK c : c = Consumed + d.taken
    OBVIOUS
  <2>3. PICK m : m = total_out + n + Len(d.pending)
    OBVIOUS
  <2>4. AheadOf(c, m, e)
    BY <2>1, <2>2, <2>3, Zenon
  <2>5. c = Consumed' /\ m = Decoded'
    BY <1>6, <2>2, <2>3
  <2>6. /\ archive' = archive /\ filter' = filter /\ whole' = whole /\ behind' = behind
    BY <1>2
  <2>7. AheadOf(Consumed, Decoded, e)'
    BY <2>4, <2>5, <2>6, AheadLater
  <2> QED BY <2>1, <2>7, Zenon DEF Ahead
<1>10. ASSUME decoder' = "run", stage' = "fill" PROVE in_buffer' = 0
  <2>1. left # 0
    BY <1>3, <1>10
  <2>2. n < call.left
    BY <1>1, <2>1
  <2>3. d.taken = in_buffer
    BY <1>2, <1>10, <2>2 DEF Gives
  <2> QED BY <1>2, <1>4, <2>3
<1>11. ASSUME decoder' # "run" PROVE Through'
  <2>1. pending' = <<>> /\ (whole' => total_out' = ReadSize)
    BY <1>2, <1>11 DEF Gives
  <2>2. ASSUME filter' = "bzip2", ~behind' PROVE in_buffer' = 0 /\ in_pos' = Len(archive')
    <3>1. d.taken = in_buffer /\ in_pos = Len(archive)
      BY <1>2, <1>11, <2>2 DEF Gives
    <3> QED BY <1>2, <1>4, <3>1
  <2> QED BY <2>1, <2>2 DEF Through
<1>12. decoder' = "error" => filter' = "bzip2" /\ behind'
  BY <1>2 DEF Gives
<1>13. archive' \in Seq(FilterUnits) /\ in_pos' \in 0 .. Len(archive') /\ in_buffer' \in 0 .. in_pos'
  BY <1>2, <1>4, <1>6
<1>14. decoder' \in {"run", "end", "error"}
  BY <1>2, <1>5
<1> QED BY <1>6, <1>7, <1>8, <1>9, <1>10, <1>11, <1>12, <1>13, <1>14, Zenon DEF Reads

(* The read below comes to its end only when the end mark was met. *)
LEMMA FillCases ==
  ASSUME Reads, reading, Fill
  PROVE  /\ call.op # "none"
         /\ UNCHANGED <<filter, archive, pending, decoder, total_out>>
         /\ \/ /\ \E n \in Nat \ {0} :
                     n <= Len(archive) - in_pos /\ in_pos' = in_pos + n /\ in_buffer' = in_buffer + n
               /\ stage' = "decode" /\ call' = call /\ out' = out
            \/ decoder # "run" /\ AtEnd /\ in_pos' = in_pos /\ in_buffer' = in_buffer
            \/ Returns(-1, <<>>) /\ in_pos' = in_pos /\ in_buffer' = in_buffer
<1> DEFINE rest == Len(archive) - in_pos
           n == IF Room < rest THEN Room ELSE rest
<1>1. /\ Len(archive) \in Nat /\ in_pos \in 0 .. Len(archive) /\ in_buffer \in 0 .. in_pos
      /\ Window \in Nat \ {0}
  BY LenProperties, ReaderAssumption DEF Reads, ReaderAssumption
<1>2. /\ call.op # "none" /\ (stage = "fill" \/ in_buffer = 0)
      /\ UNCHANGED <<filter, archive, pending, decoder, total_out>>
      /\ \/ n > 0 /\ in_pos' = in_pos + n /\ in_buffer' = in_buffer + n /\ stage' = "decode"
            /\ call' = call /\ out' = out
         \/ n = 0 /\ AtEnd /\ in_pos' = in_pos /\ in_buffer' = in_buffer
         \/ Returns(-1, <<>>) /\ in_pos' = in_pos /\ in_buffer' = in_buffer
  BY DEF Fill
<1>3. rest \in Nat /\ n \in Int /\ n <= rest
  BY <1>1 DEF Room
<1>4. ASSUME n = 0, decoder = "run" PROVE FALSE
  <2>1. in_buffer = 0
    BY <1>2, <1>4 DEF Reads
  <2>2. rest = 0
    BY <1>1, <1>4, <2>1 DEF Room
  <2>3. Consumed = Len(archive)
    BY <1>1, <2>1, <2>2 DEF Consumed
  <2>4. PICK e \in Nat : AheadOf(Consumed, Decoded, e)
    BY <1>4 DEF Reads, Ahead
  <2>5. e \in Consumed + 1 .. Len(archive)
    BY <2>4 DEF AheadOf
  <2> QED BY <1>1, <2>3, <2>5
<1> HIDE DEF n
<1>5. n > 0 => n \in Nat \ {0} /\ n <= rest
  BY <1>3
<1> QED BY <1>2, <1>4, <1>5

LEMMA FillReads ==
  ASSUME Reads, reading, Fill, UNCHANGED <<reading, whole, behind>>
  PROVE  Reads'
<1>1. /\ archive \in Seq(FilterUnits) /\ Len(archive) \in Nat /\ in_pos \in 0 .. Len(archive)
      /\ in_buffer \in 0 .. in_pos /\ total_out \in Nat
      /\ Len(pending) \in Nat /\ pending = RunOf(total_out, Len(pending))
      /\ call = Idle \/ Calling
      /\ decoder \in {"run", "end", "error"}
      /\ decoder = "error" => filter = "bzip2" /\ behind
  BY LenProperties DEF Reads
<1>2. /\ UNCHANGED <<filter, archive, pending, decoder, total_out, reading, whole, behind>>
  BY FillCases
<1>3. CASE \E n \in Nat \ {0} : /\ n <= Len(archive) - in_pos
                                /\ in_pos' = in_pos + n /\ in_buffer' = in_buffer + n
                                /\ stage' = "decode" /\ call' = call
  <2>1. PICK n \in Nat \ {0} : /\ n <= Len(archive) - in_pos
                               /\ in_pos' = in_pos + n /\ in_buffer' = in_buffer + n
                               /\ stage' = "decode" /\ call' = call
    BY <1>3
  <2>2. in_pos' \in 0 .. Len(archive) /\ in_buffer' \in 0 .. in_pos' /\ Consumed' = Consumed
    BY <1>1, <2>1 DEF Consumed
  <2>3. Decoded' = Decoded
    BY <1>2 DEF Decoded
  <2>4. ASSUME decoder' = "run" PROVE Ahead'
    <3>1. PICK e \in Nat : AheadOf(Consumed, Decoded, e)
      BY <1>2, <2>4 DEF Reads, Ahead
    <3>2. AheadOf(Consumed, Decoded, e)'
      BY <1>2, <2>2, <2>3, <3>1, AheadLater
    <3> QED BY <3>1, <3>2, Zenon DEF Ahead
  <2>5. ASSUME decoder' # "run" PROVE Through'
    <3>1. Through
      BY <1>2, <2>5 DEF Reads
    <3>2. ~(filter = "bzip2" /\ ~behind)
      BY <1>1, <2>1, <3>1 DEF Through
    <3> QED BY <1>2, <3>1, <3>2 DEF Through
  <2>6. call' = Idle \/ Calling'
    BY <1>1, <1>2, <2>1 DEF Calling
  <2>7. /\ archive' \in Seq(FilterUnits) /\ in_pos' \in 0 .. Len(archive') /\ in_buffer' \in 0 .. in_pos'
        /\ total_out' \in Nat /\ Len(pending') \in Nat /\ pending' = RunOf(total_out', Len(pending'))
        /\ decoder' \in {"run", "end", "error"} /\ (decoder' = "error" => filter' = "bzip2" /\ behind')
        /\ stage' = "decode"
    BY <1>1, <1>2, <2>1, <2>2
  <2> QED BY <2>4, <2>5, <2>6, <2>7 DEF Reads
<1>4. CASE call' = Idle /\ stage' = "decode" /\ in_pos' = in_pos /\ in_buffer' = in_buffer
  <2>2. Consumed' = Consumed /\ Decoded' = Decoded
    BY <1>2, <1>4 DEF Consumed, Decoded
  <2>4. ASSUME decoder' = "run" PROVE Ahead'
    <3>1. PICK e \in Nat : AheadOf(Consumed, Decoded, e)
      BY <1>2, <2>4 DEF Reads, Ahead
    <3>2. AheadOf(Consumed, Decoded, e)'
      BY <1>2, <2>2, <3>1, AheadLater
    <3> QED BY <3>1, <3>2, Zenon DEF Ahead
  <2>5. decoder' # "run" => Through'
    BY <1>2, <1>4 DEF Reads, Through
  <2>7. /\ archive' \in Seq(FilterUnits) /\ in_pos' \in 0 .. Len(archive') /\ in_buffer' \in 0 .. in_pos'
        /\ total_out' \in Nat /\ Len(pending') \in Nat /\ pending' = RunOf(total_out', Len(pending'))
        /\ decoder' \in {"run", "end", "error"} /\ (decoder' = "error" => filter' = "bzip2" /\ behind')
        /\ stage' = "decode" /\ call' = Idle
    BY <1>1, <1>2, <1>4
  <2> QED BY <2>4, <2>5, <2>7 DEF Reads
<1>5. /\ \/ /\ \E n \in Nat \ {0} :
                  n <= Len(archive) - in_pos /\ in_pos' = in_pos + n /\ in_buffer' = in_buffer + n
            /\ stage' = "decode" /\ call' = call /\ out' = out
         \/ AtEnd /\ in_pos' = in_pos /\ in_buffer' = in_buffer
         \/ Returns(-1, <<>>) /\ in_pos' = in_pos /\ in_buffer' = in_buffer
  BY FillCases
<1> QED BY <1>3, <1>4, <1>5 DEF AtEnd, Returns

LEMMA CallReads ==
  ASSUME Reads, ReaderCall, UNCHANGED <<reading, whole, behind>>
  PROVE  Reads'
<1>1. /\ archive \in Seq(FilterUnits) /\ Len(archive) \in Nat /\ in_pos \in 0 .. Len(archive)
      /\ in_buffer \in 0 .. in_pos /\ total_out \in Nat
      /\ Len(pending) \in Nat /\ pending = RunOf(total_out, Len(pending))
      /\ call = Idle \/ Calling
      /\ decoder \in {"run", "end", "error"}
      /\ decoder = "error" => filter = "bzip2" /\ behind
      /\ decoder = "run" /\ stage = "fill" => in_buffer = 0
  BY LenProperties DEF Reads
<1>2. /\ UNCHANGED <<filter, archive, pending, decoder, total_out, reading, whole, behind, in_pos, in_buffer>>
      /\ stage' \in {stage, "decode"}
  BY DEF ReaderCall, Read, Forward, CloseReader, Start, Answer
<1>3. Consumed' = Consumed /\ Decoded' = Decoded
  BY <1>2 DEF Consumed, Decoded
<1>4. ASSUME decoder' = "run", reading' PROVE Ahead'
  <2>1. PICK e \in Nat : AheadOf(Consumed, Decoded, e)
    BY <1>2, <1>4 DEF Reads, Ahead
  <2>2. AheadOf(Consumed, Decoded, e)'
    BY <1>2, <1>3, <2>1, AheadLater
  <2> QED BY <2>1, <2>2, Zenon DEF Ahead
<1>5. decoder' # "run" => Through'
  BY <1>2 DEF Reads, Through
<1>6. ASSUME NEW o \in {"read", "forward"}, NEW length \in 1 .. MaxAsk, Start(o, length)
      PROVE  Calling'
  <2>1. MaxAsk \in Nat /\ length \in Nat \ {0} /\ length <= MaxAsk
    BY ReaderAssumption DEF ReaderAssumption
  <2>2. call' = [op |-> o, left |-> length, got |-> <<>>]
    BY <1>6 DEF Start
  <2>3. <<>> \in Seq(Int) /\ Len(<<>>) = 0
    OBVIOUS
  <2>4. call' \in [op : {"read", "forward"}, left : Nat \ {0}, got : Seq(Int)]
        /\ call'.got = <<>> /\ call'.left = length
    <3>1. PICK S : S = Seq(Int)
      OBVIOUS
    <3>2. <<>> \in S
      BY <2>3, <3>1
    <3>3. call' \in [op : {"read", "forward"}, left : Nat \ {0}, got : S]
          /\ call'.got = <<>> /\ call'.left = length
      BY <2>1, <2>2, <3>2
    <3> QED BY <3>1, <3>3
  <2>5. call'.got = RunOf(total_out' - Len(call'.got), Len(call'.got))
    <3>1. total_out' - 0 \in Int
      BY <1>1, <1>2
    <3>2. RunOf(total_out' - 0, 0) = <<>>
      BY <3>1, NothingRun
    <3>3. Len(call'.got) = 0
      BY <2>3, <2>4, Zenon
    <3> QED BY <2>4, <3>2, <3>3, Zenon
  <2>6. Len(call'.got) <= total_out' /\ call'.left + Len(call'.got) <= MaxAsk
    BY <1>1, <1>2, <2>1, <2>3, <2>4
  <2> QED BY <2>4, <2>5, <2>6, Zenon DEF Calling
<1>7. call' = Idle \/ Calling'
  <2>1. CASE call' = call
    BY <1>1, <1>2, <2>1 DEF Calling
  <2>2. CASE call' # call
    <3>1. \/ \E length \in 1 .. MaxAsk : Start("read", length)
          \/ \E length \in 0 .. MaxAsk : length # 0 /\ Start("forward", length)
      BY <2>2 DEF ReaderCall, Read, Forward, CloseReader, Answer
    <3>2. \A length \in 0 .. MaxAsk : length # 0 => length \in 1 .. MaxAsk
      BY ReaderAssumption DEF ReaderAssumption
    <3> QED BY <1>6, <3>1, <3>2
  <2> QED BY <2>1, <2>2
<1>8. /\ archive' \in Seq(FilterUnits) /\ in_pos' \in 0 .. Len(archive') /\ in_buffer' \in 0 .. in_pos'
      /\ total_out' \in Nat /\ Len(pending') \in Nat /\ pending' = RunOf(total_out', Len(pending'))
      /\ decoder' \in {"run", "end", "error"} /\ (decoder' = "error" => filter' = "bzip2" /\ behind')
      /\ decoder' = "run" /\ stage' = "fill" => in_buffer' = 0
  BY <1>1, <1>2
<1> QED BY <1>4, <1>5, <1>7, <1>8 DEF Reads

----------------------------------------------------------------------------
(* Between the writer and the reader. *)

(* Before it is opened nothing is read. *)
Unread ==
    /\ pending = <<>> /\ call = Idle /\ total_out = 0 /\ in_buffer = 0
    /\ decoder = "run" /\ stage = "decode" /\ out = Silent

LEMMA FieldsMade ==
  ASSUME NEW flags
  PROVE  Fields(flags) \in Seq(FilterUnits)
<1> DEFINE head == Flag("head", 0, 0)
           size == Flag("size", 0, 1)
           nul == Flag("nul", 0, 0)
           char == Flag("char", 0, 0)
           h1 == <<head>> \o (IF "extra" \in flags THEN <<size, nul>> ELSE <<>>)
           h2 == h1 \o (IF "name" \in flags THEN <<char, nul>> ELSE <<>>)
           h3 == h2 \o (IF "comment" \in flags THEN <<nul>> ELSE <<>>)
           h4 == h3 \o (IF "crc16" \in flags THEN <<char>> ELSE <<>>)
<1>1. Fields(flags) = h4
  BY DEF Fields, Flag
<1>2. head \in FilterUnits /\ size \in FilterUnits /\ nul \in FilterUnits /\ char \in FilterUnits
  BY FlagUnit
<1> HIDE DEF head, size, nul, char
<1>3. /\ <<head>> \in Seq(FilterUnits) /\ <<size, nul>> \in Seq(FilterUnits)
      /\ <<char, nul>> \in Seq(FilterUnits) /\ <<nul>> \in Seq(FilterUnits) /\ <<char>> \in Seq(FilterUnits)
  BY <1>2
<1>4. h1 \in Seq(FilterUnits)
  <2>1. Field(<<head>>, "extra", flags, <<size, nul>>, h1)
    BY <1>3, FieldJoined, Zenon
  <2> HIDE DEF h1
  <2> QED BY <2>1, Zenon DEF Field
<1> HIDE DEF h1
<1>5. h2 \in Seq(FilterUnits)
  <2>1. Field(h1, "name", flags, <<char, nul>>, h2)
    BY <1>3, <1>4, FieldJoined, Zenon
  <2> HIDE DEF h2
  <2> QED BY <2>1, Zenon DEF Field
<1> HIDE DEF h2
<1>6. h3 \in Seq(FilterUnits)
  <2>1. Field(h2, "comment", flags, <<nul>>, h3)
    BY <1>3, <1>5, FieldJoined, Zenon
  <2> HIDE DEF h3
  <2> QED BY <2>1, Zenon DEF Field
<1> HIDE DEF h3
<1>7. h4 \in Seq(FilterUnits)
  <2>1. Field(h3, "crc16", flags, <<char>>, h4)
    BY <1>3, <1>6, FieldJoined, Zenon
  <2> HIDE DEF h4
  <2> QED BY <2>1, Zenon DEF Field
<1> QED BY <1>1, <1>7

(* What is on the volume, put behind the first d units of a file. *)
LEMMA EndMoved ==
  ASSUME WriterTypeOK, NEW e \in First .. Len(log), EndAt(e), First \in {1, 2},
         NEW a \in Seq(FilterUnits), NEW d \in Nat, NEW c \in Nat, c + 1 = First,
         d + (Len(log) - c) <= Len(a), Moved(log, a, c, d, Len(log) - c)
  PROVE  \E x \in Nat :
            /\ x = d + (e - c) /\ x \in d + 1 .. Len(a)
            /\ RunFrom(a, d + 1, x - 1, 0)
            /\ EndOf(a, d + 1, x - 1, 0) = total_in
            /\ a[x].k = "end"
<1> DEFINE k == e - First
           x == d + (e - c)
<1>1. Len(log) \in Nat /\ Len(a) \in Nat /\ e \in Nat
  BY LenProperties DEF WriterTypeOK
<1>2. /\ k \in Nat /\ k + 1 \in 1 .. Len(log) - c /\ c + k = e - 1 /\ c + (k + 1) = e
      /\ d + k = x - 1 /\ d + (k + 1) = x /\ x \in Nat /\ x \in d + 1 .. Len(a)
  BY <1>1
<1>3. /\ RunFrom(log, c + 1, c + k, 0) /\ EndOf(log, c + 1, c + k, 0) = total_in /\ log[e].k = "end"
  BY <1>2 DEF EndAt
<1> HIDE DEF k, x
<1>4. Moved(log, a, c, d, k) /\ a[d + (k + 1)] = log[c + (k + 1)]
  <2>1. \A j \in 1 .. k : j \in 1 .. Len(log) - c
    BY <1>1, <1>2
  <2> QED BY <1>2, <2>1, Zenon DEF Moved
<1>5. RunFrom(a, d + 1, d + k, 0) /\ EndOf(a, d + 1, d + k, 0) = EndOf(log, c + 1, c + k, 0)
  BY <1>2, <1>3, <1>4, RunMoved
<1>6. a[x].k = "end"
  BY <1>2, <1>3, <1>4, Zenon
<1>7. RunFrom(a, d + 1, x - 1, 0) /\ EndOf(a, d + 1, x - 1, 0) = total_in
  BY <1>2, <1>3, <1>5, Zenon
<1>8. x = d + (e - c)
  BY DEF x
<1> QED BY <1>2, <1>6, <1>7, <1>8, Zenon

LEMMA OpenedReads ==
  ASSUME WriterTypeOK, Written, Unread, filter = kind, Reopen, ~damaged'
  PROVE  Reads'
<1> DEFINE pad == Unit("char", 0, 0, 0, 0)
           Made(flags) == IF kind = "gzip" THEN Fields(flags) \o Tail(log) ELSE log
<1>1. PICK flags :
        /\ \/ archive' \in Padded(Made(flags)) /\ damaged' = ~kept
           \/ MaxDamages > 0 /\ archive' \in Cut(Made(flags)) \cup Spoilt(Made(flags)) /\ damaged' = TRUE
        /\ behind' = (Len(archive') > Len(Made(flags)))
        /\ in_pos' \in CASE kind = "gzip" -> GzipNewReader(archive', flags)
                         [] kind = "bzip2" -> Bzip2NewReader
                         [] kind = "xz" -> XzNewReader
  BY DEF Reopen
<1>2. /\ op = "finished" /\ (whole' = (~damaged' /\ total_in = ReadSize)) /\ reading'
      /\ UNCHANGED <<filter, in_buffer, pending, decoder, total_out, call, stage>>
  BY DEF Reopen
<1> DEFINE made == Made(flags)
<1>3. archive' \in Padded(made) /\ kept
  <2>1. damaged' # TRUE
    OBVIOUS
  <2> HIDE DEF made
  <2>2. archive' \in Padded(made) /\ damaged' = ~kept
    BY <1>1, <2>1, Zenon DEF made
  <2> QED BY <2>2, Zenon
<1>4. PICK e \in First .. Len(log) : EndAt(e)
  BY <1>2, <1>3 DEF Written
<1>5. behind' <=> Len(archive') > Len(made)
  BY <1>1
<1>6. log \in Seq(FilterUnits) /\ Len(log) \in Nat /\ kind \in Filters
  BY LenProperties DEF WriterTypeOK
<1>7. whole' => total_in = ReadSize
  BY <1>2, Zenon
<1>8. First \in {1, 2} /\ e \in Nat /\ Len(log) >= First
  BY <1>4, <1>6 DEF First
<1>9. made \in Seq(FilterUnits) /\ Len(made) \in Nat
  <2>1. CASE kind = "gzip"
    <3>1. log # <<>>
      BY <1>8
    <3>2. Tail(log) \in Seq(FilterUnits)
      BY <1>6, <3>1, HeadTailProperties
    <3>3. Fields(flags) \o Tail(log) \in Seq(FilterUnits)
      BY <3>2, FieldsMade, Joined
    <3> QED BY <2>1, <3>3, LenProperties
  <2>2. CASE kind # "gzip"
    BY <1>6, <2>2
  <2> QED BY <2>1, <2>2
<1>10. PICK h : h = Fields(flags)
  OBVIOUS
<1>11. h \in Seq(FilterUnits) /\ Len(h) \in Nat
  BY <1>10, FieldsMade, LenProperties
<1>12. kind = "gzip" => made = h \o Tail(log)
  BY <1>10
<1>13. kind # "gzip" => made = log
  OBVIOUS
<1> HIDE DEF made, Made
<1>14. /\ archive' \in Seq(FilterUnits) /\ Len(archive') \in Nat /\ Len(archive') >= Len(made)
       /\ \A j \in 1 .. Len(made) : archive'[j] = made[j]
  <2>1. <<pad>> \in Seq(FilterUnits) /\ Len(<<pad>>) = 1
    <3>1. pad \in FilterUnits
      BY DEF Unit, FilterUnits
    <3> QED BY <3>1
  <2>2. archive' = made \/ archive' = made \o <<pad>>
    BY <1>3 DEF Padded
  <2> HIDE DEF pad
  <2>3. CASE archive' = made
    BY <1>9, <2>3
  <2>4. CASE archive' = made \o <<pad>>
    <3>1. /\ made \o <<pad>> \in Seq(FilterUnits) /\ Len(made \o <<pad>>) = Len(made) + 1
          /\ \A j \in 1 .. Len(made) : (made \o <<pad>>)[j] = made[j]
      BY <1>9, <2>1, Joined
    <3>2. PICK a : a = made \o <<pad>>
      OBVIOUS
    <3>3. a \in Seq(FilterUnits) /\ Len(a) = Len(made) + 1 /\ \A j \in 1 .. Len(made) : a[j] = made[j]
      BY <3>1, <3>2, Zenon
    <3>4. Len(a) \in Nat /\ Len(a) >= Len(made)
      BY <1>9, <3>3
    <3> QED BY <2>4, <3>2, <3>3, <3>4
  <2> QED BY <2>2, <2>3, <2>4
<1>15. \E c \in Nat : /\ c + 1 = First /\ in_pos' \in Nat /\ in_pos' + (Len(log) - c) = Len(made)
                      /\ Moved(log, archive', c, in_pos', Len(log) - c)
  <2>1. CASE kind = "gzip"
    <3>1. log # <<>>
      BY <1>8
    <3>2. /\ Tail(log) \in Seq(FilterUnits) /\ Len(Tail(log)) = Len(log) - 1
          /\ \A j \in 1 .. Len(Tail(log)) : Tail(log)[j] = log[j + 1]
      BY <1>6, <3>1, HeadTailProperties
    <3>3. PICK t : t = Tail(log)
      OBVIOUS
    <3>4. t \in Seq(FilterUnits) /\ Len(t) = Len(log) - 1 /\ \A j \in 1 .. Len(t) : t[j] = log[j + 1]
      BY <3>2, <3>3, Zenon
    <3>5. /\ Len(h \o t) = Len(h) + Len(t)
          /\ \A j \in 1 .. Len(h) : (h \o t)[j] = h[j]
          /\ \A j \in 1 .. Len(t) : (h \o t)[Len(h) + j] = t[j]
      <4>1. h \in Seq(FilterUnits) /\ t \in Seq(FilterUnits)
        BY <1>11, <3>4
      <4> QED BY ONLY <4>1, Joined
    <3>6. made = h \o t
      BY <1>12, <2>1, <3>3, Zenon
    <3>7. /\ Len(made) = Len(h) + Len(t)
          /\ \A j \in 1 .. Len(h) : made[j] = h[j]
          /\ \A j \in 1 .. Len(t) : made[Len(h) + j] = t[j]
      BY <3>5, <3>6, Zenon
    <3>8. Len(h) <= Len(archive') /\ \A j \in 1 .. Len(h) : archive'[j] = h[j]
      BY <1>6, <1>8, <1>11, <1>14, <3>4, <3>7
    <3>9. GzipNewReader(archive', flags) = {Len(h)}
      BY <1>10, <1>11, <1>14, <3>8, HeaderPassed
    <3>10. in_pos' = Len(h)
      BY <1>1, <2>1, <3>9
    <3>11. Moved(log, archive', 1, in_pos', Len(log) - 1)
      <4>1. ASSUME NEW j \in 1 .. Len(log) - 1 PROVE archive'[Len(h) + j] = log[1 + j]
        <5>1. j \in 1 .. Len(t) /\ Len(h) + j \in 1 .. Len(made) /\ j + 1 = 1 + j
          BY <1>6, <1>11, <3>4, <3>7
        <5> QED BY <1>14, <3>4, <3>7, <5>1, Zenon
      <4> QED BY <3>10, <4>1, Zenon DEF Moved
    <3>12. 1 \in Nat /\ 1 + 1 = First /\ in_pos' \in Nat /\ in_pos' + (Len(log) - 1) = Len(made)
      BY <1>6, <1>11, <2>1, <3>4, <3>7, <3>10 DEF First
    <3> QED BY <3>11, <3>12, Zenon
  <2>2. CASE kind # "gzip"
    <3>1. in_pos' = 0
      BY <1>1, <1>6, <2>2 DEF Filters, Bzip2NewReader, XzNewReader
    <3>2. made = log
      BY <1>13, <2>2
    <3>3. Moved(log, archive', 0, in_pos', Len(log) - 0)
      <4>1. ASSUME NEW j \in 1 .. Len(log) - 0 PROVE archive'[0 + j] = log[0 + j]
        <5>1. j \in 1 .. Len(log) /\ 0 + j = j
          BY <1>6
        <5> QED BY <1>14, <3>2, <5>1, Zenon
      <4> QED BY <3>1, <4>1, Zenon DEF Moved
    <3>4. 0 \in Nat /\ 0 + 1 = First /\ in_pos' \in Nat /\ in_pos' + (Len(log) - 0) = Len(made)
      BY <1>6, <2>2, <3>1, <3>2 DEF First
    <3> QED BY <3>3, <3>4, Zenon
  <2> QED BY <2>1, <2>2
<1>16. PICK c \in Nat : /\ c + 1 = First /\ in_pos' \in Nat /\ in_pos' + (Len(log) - c) = Len(made)
                        /\ Moved(log, archive', c, in_pos', Len(log) - c)
  BY <1>15
<1>17. PICK x \in Nat :
         /\ x = in_pos' + (e - c) /\ x \in in_pos' + 1 .. Len(archive')
         /\ RunFrom(archive', in_pos' + 1, x - 1, 0)
         /\ EndOf(archive', in_pos' + 1, x - 1, 0) = total_in
         /\ archive'[x].k = "end"
  <2>1. in_pos' + (Len(log) - c) <= Len(archive')
    BY <1>9, <1>14, <1>16
  <2> QED BY <1>4, <1>8, <1>14, <1>16, <2>1, EndMoved
<1>18. Consumed' = in_pos' /\ Decoded' = 0
  <2>1. in_buffer' = 0 /\ pending' = <<>> /\ total_out' = 0
    BY <1>2 DEF Unread
  <2>2. Len(pending') = 0
    BY <2>1
  <2>3. Consumed' = in_pos' - 0
    BY <2>1, Zenon DEF Consumed
  <2>4. Decoded' = 0 + 0
    BY <2>1, <2>2, Zenon DEF Decoded
  <2>5. in_pos' \in Nat
    BY <1>16
  <2>6. \A p \in Nat : p - 0 = p
    BY ONLY TRUE
  <2>7. 0 + 0 = 0
    BY ONLY TRUE
  <2> QED BY <2>3, <2>4, <2>5, <2>6, <2>7, Zenon
<1>19. ASSUME filter' = "bzip2", ~behind' PROVE x = Len(archive')
  <2>1. kind = "bzip2"
    BY <1>2, <1>19
  <2>2. e = Len(log)
    BY <1>4, <2>1 DEF EndAt
  <2>3. Len(archive') = Len(made)
    BY <1>5, <1>9, <1>14, <1>19
  <2> QED BY <1>16, <1>17, <2>2, <2>3
<1>20. AheadOf(Consumed, Decoded, x)'
  <2>1. /\ x \in Consumed' + 1 .. Len(archive')
        /\ RunFrom(archive', Consumed' + 1, x - 1, Decoded')
        /\ whole' => EndOf(archive', Consumed' + 1, x - 1, Decoded') = ReadSize
    BY <1>7, <1>17, <1>18, Zenon
  <2> QED BY <1>17, <1>19, <2>1, Zenon DEF AheadOf
<1>21. Ahead'
  BY <1>17, <1>20, Zenon DEF Ahead
<1>22. /\ in_pos' \in 0 .. Len(archive') /\ in_buffer' \in 0 .. in_pos'
       /\ total_out' = 0 /\ call' = Idle /\ decoder' = "run" /\ in_buffer' = 0 /\ pending' = <<>>
  BY <1>2, <1>14, <1>16, <1>17 DEF Unread
<1>23. Len(pending') \in Nat /\ pending' = RunOf(total_out', Len(pending')) /\ total_out' \in Nat
  <2>1. RunOf(0, 0) = <<>>
    BY NothingRun
  <2>2. Len(pending') = 0
    BY <1>22
  <2> QED BY <1>22, <2>1, <2>2
<1> QED BY <1>14, <1>21, <1>22, <1>23 DEF Reads

(* The writer that was freed has nothing more to say. *)
LEMMA FreeKeeps ==
  ASSUME WriterTypeOK, Free
  PROVE  WriterTypeOK' /\ Written'
<1>1. /\ op' = "freed" /\ fd' = FALSE /\ position' = 0 /\ log' = <<>> /\ faults' = 0
      /\ reserve' = 0 /\ avail_in' = 0 /\ total_in' = 0 /\ held' = 0 /\ padded' = FALSE /\ kept' = TRUE
      /\ volume' = volume /\ kind' = kind
  BY DEF Free
<1>2. Hold \in Nat /\ VolumeSize \in Nat
  BY FilterAssumption, FileAssumption DEF FilterAssumption, FileAssumption
<1>3. fd' = (op' # "freed")
  BY <1>1
<1>4. log' \in Seq(FilterUnits)
  BY <1>1, EmptySeq
<1>5. kept' \in BOOLEAN /\ padded' \in BOOLEAN
  BY <1>1, Zenon
<1>6. /\ kind' \in Filters /\ volume' \in Nat
      /\ op' \in {"none", "null", "write", "flush", "finish", "numbers", "failed", "finished", "freed"}
      /\ reserve' \in Nat /\ avail_in' \in Nat /\ total_in' \in Nat /\ faults' \in Nat
      /\ held' \in Nat /\ held' <= Hold /\ held' <= total_in'
      /\ position' \in Nat /\ (VolumeSize > 0 => position' <= VolumeSize)
  BY <1>1, <1>2 DEF WriterTypeOK
<1>7. WriterTypeOK'
  BY <1>3, <1>4, <1>5, <1>6, Zenon DEF WriterTypeOK
<1>8. op' \notin {"none", "write", "flush", "finish", "numbers", "finished"}
  BY <1>1
<1> QED BY <1>7, <1>8, Zenon DEF Written, Going

(* Nothing is read before there is an archive, and it is whole only when it *)
(* is read and was not touched.                                             *)
Frame ==
    /\ filter = kind
    /\ whole => reading /\ ~damaged
    /\ ~reading => Unread

Inv == WriterTypeOK /\ Written /\ Frame /\ (reading /\ ~damaged => Reads)

(* A step of a reader: what the library gave, or a read below. *)
LEMMA StepCases ==
  ASSUME Reads, reading, ReaderStep
  PROVE  Fill \/ \E d : \E n \in Nat : DecodeStep(d) /\ Gives(d, n)
<1>1. ASSUME NEW d, DecodeStep(d),
             \/ d = Inflate(call.left) \/ d = LzmaDecode(call.left)
             \/ d = BzDecompress(call.left) /\ filter = "bzip2"
      PROVE  \E n \in Nat : DecodeStep(d) /\ Gives(d, n)
  <2>1. call.op # "none" /\ in_buffer > 0
    BY <1>1 DEF DecodeStep
  <2>2. \E n \in Nat : Gives(d, n)
    BY <1>1, <2>1, LibraryGives
  <2> QED BY <1>1, <2>2
<1>2. CASE GzipRead \/ GzipForward
  BY <1>1, <1>2 DEF GzipRead, GzipForward
<1>3. CASE Bzip2Read \/ Bzip2Forward
  BY <1>1, <1>3 DEF Bzip2Read, Bzip2Forward
<1>4. CASE XzRead \/ XzForward
  BY <1>1, <1>4 DEF XzRead, XzForward
<1> QED BY <1>2, <1>3, <1>4 DEF ReaderStep

LEMMA WriterSame ==
  ASSUME WriterTypeOK, Written, UNCHANGED <<fileVars, filterVars>>
  PROVE  WriterTypeOK' /\ Written'
<1>1. /\ fd' = fd /\ position' = position /\ volume' = volume /\ log' = log /\ faults' = faults
      /\ kind' = kind /\ reserve' = reserve /\ total_in' = total_in /\ held' = held /\ kept' = kept
      /\ op' = op /\ avail_in' = avail_in /\ padded' = padded
  BY DEF fileVars, filterVars
<1>2. WriterTypeOK'
  BY <1>1, Zenon DEF WriterTypeOK
<1>3. Written'
  BY <1>1, Zenon DEF Written, Going, Unfinished, EndAt, First, RunFrom, EndOf
<1> QED BY <1>2, <1>3

LEMMA KindKept ==
  ASSUME FilterWrite \/ FilterClient
  PROVE  kind' = kind
<1>1. ASSUME NEW moves, WriteLoop(moves) PROVE kind' = kind
  BY <1>1 DEF WriteLoop
<1>2. ASSUME NEW next, WriteReturns(next) PROVE kind' = kind
  BY <1>2 DEF WriteReturns
<1>3. ASSUME NEW mark, Pass(mark) PROVE kind' = kind
  <2>1. PICK result, r : Then(result, r)
    BY <1>3, Zenon DEF Pass
  <2> QED BY <2>1, Zenon DEF Then, FlushThen, GzipThen, FinishThen
<1>4. ASSUME NEW length, StartWrite(length) PROVE kind' = kind
  BY <1>4 DEF StartWrite
<1>5. CASE GzipWrite \/ Bzip2Write \/ XzWrite
  BY <1>1, <1>2, <1>5 DEF GzipWrite, Bzip2Write, XzWrite
<1>6. CASE Bzip2Flush \/ XzFlush
  BY <1>3, <1>6 DEF Bzip2Flush, XzFlush
<1>7. CASE GzipFinish \/ Bzip2Finish \/ XzFinish
  BY <1>3, <1>7 DEF GzipFinish, Bzip2Finish, XzFinish, GzipNumbers
<1>8. CASE FilterClient
  BY <1>4, <1>8 DEF FilterClient, WriteContent, WriteHeader, WritePadding, StartFinish
<1> QED BY <1>5, <1>6, <1>7, <1>8 DEF FilterWrite

LEMMA ReadsSame ==
  ASSUME Reads, UNCHANGED <<readerVars, reading, whole, behind>>
  PROVE  Reads'
<1>1. /\ filter' = filter /\ archive' = archive /\ in_pos' = in_pos /\ in_buffer' = in_buffer
      /\ pending' = pending /\ decoder' = decoder /\ total_out' = total_out /\ call' = call
      /\ stage' = stage /\ out' = out /\ reading' = reading /\ whole' = whole /\ behind' = behind
  BY DEF readerVars
<1>2. Consumed' = Consumed /\ Decoded' = Decoded
  BY <1>1 DEF Consumed, Decoded
<1>3. ASSUME decoder' = "run", reading' PROVE Ahead'
  <2>1. PICK e \in Nat : AheadOf(Consumed, Decoded, e)
    BY <1>1, <1>3 DEF Reads, Ahead
  <2>2. AheadOf(Consumed, Decoded, e)'
    BY <1>1, <1>2, <2>1, AheadLater
  <2> QED BY <2>1, <2>2, Zenon DEF Ahead
<1>4. (decoder # "run" => Through') /\ (call' = Idle \/ Calling')
  BY <1>1 DEF Reads, Through, Calling
<1> QED BY <1>1, <1>3, <1>4 DEF Reads

LEMMA InvInit == Init => Inv
<1> SUFFICES ASSUME Init PROVE Inv
  OBVIOUS
<1>1. WriterTypeOK /\ Written
  BY WriterInit
<1>2. Frame
  BY DEF Init, Frame, Unread
<1>3. ~reading
  BY DEF Init
<1> QED BY <1>1, <1>2, <1>3 DEF Inv

LEMMA InvNext == Inv /\ [Next]_filtersVars => Inv'
<1> SUFFICES ASSUME Inv, [Next]_filtersVars PROVE Inv'
  OBVIOUS
<1>1. WriterTypeOK /\ Written /\ Frame /\ (reading /\ ~damaged => Reads)
  BY DEF Inv
<1>2. ASSUME FilterClient \/ FilterWrite, UNCHANGED <<readerVars, reading, damaged, whole, behind>>
      PROVE  Inv'
  <2>1. WriterTypeOK' /\ Written'
    BY <1>1, <1>2, ClientStep, WriterStep
  <2>2. kind' = kind
    BY <1>2, KindKept
  <2>3. Frame'
    BY <1>1, <1>2, <2>2 DEF Frame, Unread, readerVars
  <2>4. reading' /\ ~damaged' => Reads'
    BY <1>1, <1>2, ReadsSame
  <2> QED BY <2>1, <2>3, <2>4 DEF Inv
<1>3. CASE WriteCall
  BY <1>2, <1>3 DEF WriteCall
<1>4. CASE WriteStep
  BY <1>2, <1>4 DEF WriteStep
<1>5. CASE Reopen
  <2>1. Free /\ reading' /\ whole' = (~damaged' /\ total_in = ReadSize) /\ filter' = filter
    BY <1>5 DEF Reopen
  <2>2. WriterTypeOK' /\ Written'
    BY <1>1, <2>1, FreeKeeps
  <2>3. filter' = kind'
    BY <1>1, <2>1 DEF Free, Frame
  <2>4. whole' => reading' /\ ~damaged'
    BY <2>1, Zenon
  <2>5. Frame'
    BY <2>1, <2>3, <2>4, Zenon DEF Frame
  <2>6. ~damaged' => Reads'
    <3>1. Unread /\ filter = kind
      BY <1>1, <1>5 DEF Frame, Reopen
    <3> QED BY <1>1, <1>5, <3>1, OpenedReads
  <2> QED BY <2>2, <2>5, <2>6 DEF Inv
<1>6. ASSUME reading, UNCHANGED <<fileVars, filterVars, reading, damaged, whole, behind>>, filter' = filter,
             ~damaged => Reads'
      PROVE  Inv'
  <2>1. WriterTypeOK' /\ Written'
    BY <1>1, <1>6, WriterSame
  <2>2. kind' = kind /\ reading' = reading /\ damaged' = damaged /\ whole' = whole
    BY <1>6 DEF filterVars
  <2>3. reading /\ filter' = filter /\ (~damaged => Reads')
    BY <1>6
  <2>4. Frame'
    BY <1>1, <2>2, <2>3 DEF Frame
  <2>5. reading' /\ ~damaged' => Reads'
    BY <2>2, <2>3
  <2> QED BY <2>1, <2>4, <2>5 DEF Inv
<1>7. CASE ReadCall
  <2>1. reading /\ UNCHANGED <<fileVars, filterVars, reading, damaged, whole, behind>> /\ ReaderCall
    BY <1>7 DEF ReadCall
  <2>2. filter' = filter
    BY <2>1 DEF ReaderCall, Read, Forward, CloseReader, Start, Answer
  <2>3. ~damaged => Reads'
    BY <1>1, <2>1, CallReads
  <2> QED BY <1>6, <2>1, <2>2, <2>3
<1>8. CASE ReadStep
  <2>1. reading /\ UNCHANGED <<fileVars, filterVars, reading, damaged, whole, behind>> /\ ReaderStep
    BY <1>8 DEF ReadStep
  <2>2. filter' = filter
    BY <2>1 DEF ReaderStep, GzipRead, GzipForward, Bzip2Read, Bzip2Forward, XzRead, XzForward,
                DecodeStep, Fill
  <2>3. ASSUME ~damaged PROVE Reads'
    <3>1. Reads
      BY <1>1, <2>1, <2>3
    <3>2. Fill \/ \E d : \E n \in Nat : DecodeStep(d) /\ Gives(d, n)
      BY <2>1, <3>1, StepCases
    <3>3. CASE Fill
      BY <2>1, <3>1, <3>3, FillReads
    <3>4. ASSUME NEW d, NEW n \in Nat, DecodeStep(d), Gives(d, n) PROVE Reads'
      BY <2>1, <3>1, <3>4, DecodeReads
    <3> QED BY <3>2, <3>3, <3>4
  <2> QED BY <1>6, <2>1, <2>2, <2>3
<1>9. CASE UNCHANGED filtersVars
  <2>1. UNCHANGED <<fileVars, filterVars>> /\ UNCHANGED <<readerVars, reading, damaged, whole, behind>>
    BY <1>9 DEF filtersVars
  <2>2. WriterTypeOK' /\ Written'
    BY <1>1, <2>1, WriterSame
  <2>3. /\ filter' = filter /\ kind' = kind /\ whole' = whole /\ reading' = reading /\ damaged' = damaged
        /\ pending' = pending /\ call' = call /\ total_out' = total_out /\ in_buffer' = in_buffer
        /\ decoder' = decoder /\ stage' = stage /\ out' = out
    BY <2>1 DEF readerVars, filterVars
  <2>4. Frame'
    BY <1>1, <2>3, Zenon DEF Frame, Unread
  <2>5. Reads => Reads'
    BY <2>1, ReadsSame
  <2>6. reading' /\ ~damaged' => Reads'
    BY <1>1, <2>3, <2>5, Zenon
  <2> QED BY <2>2, <2>4, <2>6 DEF Inv
<1>10. CASE Stopped
  BY <1>9, <1>10 DEF Stopped
<1> QED BY <1>3, <1>4, <1>5, <1>7, <1>8, <1>9, <1>10 DEF Next

LEMMA InvAlways == Spec => []Inv
  BY InvInit, InvNext, PTL DEF Spec

(* forward goes round and round (reader.c, the inner loop of               *)
(* mtar_filter_*_reader_forward) on damage, and with bzip2 on what follows  *)
(* the end of an archive, but never on an archive as it was written,        *)
(* whatever the sizes of its units, the buffer and the requests are.        *)
THEOREM SpinsOnDamageOnly == Spec => []SpinsOnDamage
<1>1. Inv => SpinsOnDamage
  <2> SUFFICES ASSUME Inv, ReadSpins, ~damaged PROVE filter = "bzip2" /\ behind
    BY DEF SpinsOnDamage
  <2>1. decoder = "error"
    BY DEF ReadSpins
  <2>2. reading
    BY <2>1 DEF Inv, Frame, Unread
  <2> QED BY <2>1, <2>2 DEF Inv, Reads
<1> QED BY <1>1, InvAlways, PTL

----------------------------------------------------------------------------
(* Reading through a filter. *)

Position == total_out - Len(call.got)

LEMMA PlainRead ==
  ASSUME whole, whole', NEW n \in Nat, NEW length \in 1 .. MaxAsk, n <= length,
         Position' = Position + n,
         n > 0 => Position + n <= ReadSize,
         n < length => Position + n >= ReadSize,
         out' = [ret |-> n, data |-> RunOf(Position, n)]
  PROVE  Plain!Read
<1>1. n \in 0 .. length
  BY ReaderAssumption DEF ReaderAssumption
<1> QED BY <1>1 DEF Plain!Read, Plain!Bytes, RunOf, Position

LEMMA PlainForward ==
  ASSUME whole, whole', NEW offset \in 0 .. MaxAsk,
         Position' \in Position .. Position + offset,
         Position' < Position + offset => Position' >= ReadSize,
         out' = [ret |-> Position', data |-> <<-1>>]
  PROVE  Plain!Forward
BY DEF Plain!Forward, Plain!Skipped, Position

LEMMA PlainFail ==
  ASSUME whole, whole', Position' = Position \/ Position' \in Position .. ReadSize,
         NEW data \in {<<>>, <<-1>>}, out' = [ret |-> -1, data |-> data]
  PROVE  Plain!Fail
BY DEF Plain!Fail, Plain!Skipped, Position

LEMMA PlainCall ==
  ASSUME whole, whole', Position' = Position, out' = Silent
  PROVE  Plain!Call
BY DEF Plain!Call, Plain!NoAnswer, Silent, Position

(* Nobody gets more than was written. *)
LEMMA AheadWithin ==
  ASSUME archive \in Seq(FilterUnits), NEW c \in Nat, NEW m \in Int, NEW e \in Nat,
         AheadOf(c, m, e), whole
  PROVE  ReadSize \in Int /\ m <= ReadSize
<1>1. Len(archive) \in Nat
  BY LenProperties
<1>2. c + 1 \in Nat \ {0} /\ e - 1 \in 0 .. Len(archive) /\ e - 1 \in (c + 1) - 1 .. e - 1
  BY <1>1 DEF AheadOf
<1>3. RunFrom(archive, c + 1, e - 1, m) /\ EndOf(archive, c + 1, e - 1, m) = ReadSize
  BY DEF AheadOf
<1>4. \A j \in (c + 1) - 1 .. e - 1 :
        EndOf(archive, c + 1, j, m) \in Int /\ EndOf(archive, c + 1, j, m) >= m
  BY <1>2, <1>3, RunGrows
<1>5. EndOf(archive, c + 1, e - 1, m) \in Int /\ EndOf(archive, c + 1, e - 1, m) >= m
  BY <1>2, <1>4, Zenon
<1> QED BY <1>3, <1>5

LEMMA Within ==
  ASSUME Reads, reading, whole
  PROVE  total_out \in Nat /\ ReadSize \in Int /\ total_out <= ReadSize
<1>1. total_out \in Nat /\ archive \in Seq(FilterUnits) /\ Len(archive) \in Nat
      /\ in_pos \in 0 .. Len(archive) /\ in_buffer \in 0 .. in_pos /\ Len(pending) \in Nat
  BY LenProperties DEF Reads
<1>2. CASE decoder = "run"
  <2>1. PICK e \in Nat : AheadOf(Consumed, Decoded, e)
    BY <1>2 DEF Reads, Ahead
  <2>2. Consumed \in Nat /\ Decoded \in Int /\ total_out <= Decoded
    BY <1>1 DEF Consumed, Decoded
  <2>3. ReadSize \in Int /\ Decoded <= ReadSize
    BY <1>1, <2>1, <2>2, AheadWithin
  <2> QED BY <1>1, <2>2, <2>3
<1>3. CASE decoder # "run"
  BY <1>1, <1>3 DEF Reads, Through
<1> QED BY <1>2, <1>3

(* A call of a client. *)
LEMMA CallPlain ==
  ASSUME Reads, reading, ReaderCall, whole, whole'
  PROVE  \/ Plain!Call \/ Plain!Forward \/ Plain!Fail
         \/ Position' = Position /\ out' = out
<1>1. total_out \in Nat /\ MaxAsk \in Nat
  BY ReaderAssumption DEF Reads, ReaderAssumption
<1>2. ASSUME NEW o, NEW length, Start(o, length) PROVE Plain!Call
  <2>1. call.op = "none" /\ call' = [op |-> o, left |-> length, got |-> <<>>] /\ out' = Silent
        /\ total_out' = total_out
    BY <1>2 DEF Start
  <2>2. call.got = <<>>
    BY <2>1 DEF Reads, Calling, Idle
  <2>3. call'.got = <<>>
    BY <2>1
  <2>4. Position' = Position
    BY <2>1, <2>2, <2>3, Zenon DEF Position
  <2> QED BY <2>1, <2>4, PlainCall
<1>3. ASSUME NEW ret, Answer(ret)
      PROVE  Position' = Position /\ Position = total_out /\ out' = [ret |-> ret, data |-> <<-1>>]
  <2>1. call.op = "none" /\ call' = call /\ total_out' = total_out /\ out' = [ret |-> ret, data |-> <<-1>>]
    BY <1>3 DEF Answer
  <2>2. Position' = Position
    BY <2>1, Zenon DEF Position
  <2>3. call.got = <<>>
    BY <2>1 DEF Reads, Calling, Idle
  <2>4. Len(call.got) = 0
    BY <2>3
  <2>5. Position = total_out
    BY <1>1, <2>4 DEF Position
  <2> QED BY <2>1, <2>2, <2>5
<1>4. CASE Read
  <2>1. CASE \E length \in 1 .. MaxAsk : Start("read", length)
    BY <1>2, <2>1
  <2>2. CASE Answer(-1)
    <3>1. Position' = Position /\ out' = [ret |-> -1, data |-> <<-1>>]
      BY <1>3, <2>2
    <3> QED BY <3>1, PlainFail
  <2> QED BY <1>4, <2>1, <2>2 DEF Read
<1>5. CASE Forward
  <2>1. CASE \E offset \in 0 .. MaxAsk : Start("forward", offset)
    BY <1>2, <2>1
  <2>2. CASE Answer(total_out)
    <3>1. Position' = Position /\ Position = total_out /\ out' = [ret |-> total_out, data |-> <<-1>>]
      BY <1>3, <2>2
    <3>2. /\ 0 \in 0 .. MaxAsk /\ Position' \in Position .. Position + 0 /\ ~(Position' < Position + 0)
          /\ out' = [ret |-> Position', data |-> <<-1>>]
      BY <1>1, <3>1
    <3> QED BY <3>2, PlainForward
  <2> QED BY <1>5, <2>1, <2>2 DEF Forward
<1>6. CASE CloseReader
  <2>1. call' = call /\ total_out' = total_out /\ (out' = out \/ out' = [ret |-> -1, data |-> <<>>])
    BY <1>6 DEF CloseReader
  <2>2. Position' = Position
    BY <2>1, Zenon DEF Position
  <2>3. CASE out' = out
    BY <2>2, <2>3
  <2>4. CASE out' = [ret |-> -1, data |-> <<>>]
    BY <2>2, <2>4, PlainFail
  <2> QED BY <2>1, <2>3, <2>4
<1> QED BY <1>4, <1>5, <1>6 DEF ReaderCall

(* What a library gives on behalf of a call. *)
LEMMA DecodePlain ==
  ASSUME Reads, reading, NEW d, NEW n \in Nat, Gives(d, n), DecodeStep(d), whole, whole'
  PROVE  Plain!Read \/ Plain!Forward \/ (Position' = Position /\ out' = out)
<1> DEFINE g == Len(call.got)
           left == call.left - n
           got == call.got \o d.data
           length == call.left + g
<1>1. /\ call.op \in {"read", "forward"} /\ call.left \in Nat \ {0} /\ call.got \in Seq(Int)
      /\ Len(d.data) = n /\ n <= call.left
      /\ Len(got) = g + n
      /\ g \in Nat /\ g <= total_out /\ length <= MaxAsk
      /\ got = RunOf(total_out - g, g + n)
  BY GivenOn DEF DecodeStep
<1>2. total_out \in Nat /\ MaxAsk \in Nat /\ total_out' = total_out + n
  BY <1>1, ReaderAssumption DEF Reads, ReaderAssumption, DecodeStep
<1>3. IF d.state = "end" \/ left = 0
      THEN IF call.op = "read" THEN Returns(Len(got), got) ELSE Returns(total_out', <<-1>>)
      ELSE call' = [call EXCEPT !.left = left, !.got = got] /\ out' = out
  BY <1>1 DEF DecodeStep
<1>4. ReadSize \in Int /\ total_out + n <= ReadSize
      /\ (d.state = "end" => total_out + n = ReadSize)
  <2>1. CASE d.state = "run"
    <3>1. PICK e \in Nat : AheadOf(Consumed + d.taken, total_out + n + Len(d.pending), e)
      BY <2>1 DEF Gives
    <3>2. archive \in Seq(FilterUnits) /\ Consumed + d.taken \in Nat /\ Len(d.pending) \in Nat
      <4>1. /\ archive \in Seq(FilterUnits) /\ Len(archive) \in Nat /\ in_pos \in 0 .. Len(archive)
            /\ in_buffer \in 0 .. in_pos /\ d.taken \in 0 .. in_buffer /\ Len(d.pending) \in Nat
        BY LenProperties DEF Reads, Gives
      <4> QED BY <4>1 DEF Consumed
    <3>3. PICK c \in Nat : c = Consumed + d.taken
      BY <3>2
    <3>7. total_out + n + Len(d.pending) \in Int
      <4>1. total_out \in Int /\ Len(d.pending) \in Int
        BY <1>2, <3>2
      <4> QED BY <4>1
    <3>4. PICK m \in Int : m = total_out + n + Len(d.pending)
      BY <3>7
    <3>5. AheadOf(c, m, e)
      BY <3>1, <3>3, <3>4, Zenon
    <3>6. ReadSize \in Int /\ m <= ReadSize
      BY <3>2, <3>5, AheadWithin
    <3>8. total_out + n <= m /\ total_out + n \in Int
      <4>1. PICK i \in Nat : i = total_out
        BY <1>2
      <4>2. PICK j \in Nat : j = Len(d.pending)
        BY <3>2
      <4>3. m = i + n + j
        BY <3>4, <4>1, <4>2, Zenon
      <4>4. i + n <= m /\ i + n \in Int
        BY <4>3
      <4> QED BY <4>1, <4>4, Zenon
    <3> QED BY <2>1, <3>4, <3>6, <3>8
  <2>2. CASE d.state # "run"
    <3>1. total_out + n = ReadSize
      BY <2>2 DEF Gives
    <3> QED BY <1>2, <3>1
  <2> QED BY <2>1, <2>2
<1>5. Position = total_out - g /\ Position \in Int
  BY <1>1, <1>2 DEF Position
<1>6. CASE d.state = "end" \/ left = 0
  <2>1. call' = Idle /\ IF call.op = "read" THEN out' = [ret |-> Len(got), data |-> got]
                        ELSE out' = [ret |-> total_out', data |-> <<-1>>]
    <3> HIDE DEF got, left
    <3> QED BY <1>3, <1>6 DEF Returns
  <2>2. Position' = total_out'
    <3>1. call'.got = <<>>
      BY <2>1 DEF Idle
    <3>2. Len(call'.got) = 0
      BY <3>1
    <3> QED BY <1>2, <3>2 DEF Position
  <2>3. Position' = Position + (g + n) /\ Position + (g + n) = total_out + n
    <3>1. PICK i \in Int : i = total_out
      BY <1>2
    <3>2. PICK j \in Int : j = g
      BY <1>1
    <3>3. Position = i - j /\ Position' = i + n
      BY <1>2, <1>5, <2>2, <3>1, <3>2, Zenon
    <3>4. i + n = (i - j) + (j + n)
      OBVIOUS
    <3> QED BY <3>1, <3>2, <3>3, <3>4, Zenon
  <2>4. length \in 1 .. MaxAsk /\ g + n \in Nat /\ g + n <= length
    BY <1>1, <1>2
  <2>5. ASSUME g + n < length PROVE Position + (g + n) >= ReadSize
    <3>1. left # 0
      BY <1>1, <2>5
    <3> QED BY <1>2, <1>4, <1>6, <2>3, <3>1
  <2>6. CASE call.op = "read"
    <3>1. out' = [ret |-> g + n, data |-> RunOf(Position, g + n)]
      BY <1>1, <1>5, <2>1, <2>6
    <3>2. Position + (g + n) <= ReadSize
      BY <1>4, <2>3
    <3> HIDE DEF g, length
    <3>3. PICK k \in Nat : k = g + n
      BY <2>4
    <3>4. /\ k <= length /\ Position' = Position + k /\ Position + k <= ReadSize
          /\ (k < length => Position + k >= ReadSize)
          /\ out' = [ret |-> k, data |-> RunOf(Position, k)]
      BY <2>3, <2>4, <2>5, <3>1, <3>2, <3>3, Zenon
    <3> QED BY <2>4, <3>4, PlainRead
  <2>7. CASE call.op # "read"
    <3>1. out' = [ret |-> Position', data |-> <<-1>>]
      BY <2>1, <2>2, <2>7
    <3>2. length \in 0 .. MaxAsk /\ Position' \in Position .. Position + length
      BY <1>1, <1>2, <1>5, <2>3, <2>4
    <3>3. ASSUME Position' < Position + length PROVE Position' >= ReadSize
      <4>1. g + n < length
        BY <1>1, <1>2, <1>5, <2>3, <3>3
      <4> QED BY <2>3, <2>5, <4>1
    <3> QED BY <3>1, <3>2, <3>3, PlainForward
  <2> QED BY <2>6, <2>7
<1>7. CASE ~(d.state = "end" \/ left = 0)
  <2> HIDE DEF got, left
  <2>1. call' = [call EXCEPT !.left = left, !.got = got] /\ out' = out
    BY <1>3, <1>7
  <2>2. call'.got = got
    <3>1. call # Idle
      BY <1>1 DEF Idle
    <3>2. PICK S : S = Seq(Int)
      OBVIOUS
    <3>3. call \in [op : {"read", "forward"}, left : Nat \ {0}, got : S]
      BY <3>1, <3>2 DEF Reads, Calling
    <3> QED BY <2>1, <3>3
  <2>3. Position' = total_out' - Len(got)
    BY <2>2, Zenon DEF Position
  <2>4. Position' = Position
    <3>1. PICK i \in Int, j \in Int : i = total_out /\ j = g
      BY <1>1, <1>2
    <3>2. Position' = (i + n) - (j + n) /\ Position = i - j
      <4>1. Len(got) = j + n
        BY <1>1, <3>1
      <4> QED BY <1>2, <1>5, <2>3, <3>1, <4>1, Zenon
    <3>3. (i + n) - (j + n) = i - j
      OBVIOUS
    <3> QED BY <3>2, <3>3, Zenon
  <2> QED BY <2>1, <2>4
<1> QED BY <1>6, <1>7

LEMMA FillPlain ==
  ASSUME Reads, reading, Fill, whole, whole'
  PROVE  Plain!Read \/ Plain!Forward \/ Plain!Fail \/ (Position' = Position /\ out' = out)
<1> DEFINE g == Len(call.got)
           length == call.left + g
<1>1. /\ call.op # "none"
      /\ total_out' = total_out
      /\ \/ call' = call /\ out' = out
         \/ decoder # "run" /\ AtEnd
         \/ Returns(-1, <<>>)
  BY FillCases
<1>2. /\ call.op \in {"read", "forward"} /\ call.left \in Nat \ {0} /\ call.got \in Seq(Int)
      /\ g <= total_out /\ length <= MaxAsk /\ call.got = RunOf(total_out - g, g)
  <2>1. call # Idle
    BY <1>1 DEF Idle
  <2> QED BY <2>1 DEF Reads, Calling
<1>3. g \in Nat /\ total_out \in Nat /\ MaxAsk \in Nat /\ ReadSize \in Int /\ total_out <= ReadSize
  BY <1>2, LenProperties, ReaderAssumption, Within DEF ReaderAssumption
<1>4. Position = total_out - g /\ Position \in Int
  BY <1>2, <1>3 DEF Position
<1>5. ASSUME call' = Idle PROVE Position' = total_out
  <2>1. call'.got = <<>>
    BY <1>5 DEF Idle
  <2>2. Len(call'.got) = 0
    BY <2>1
  <2> QED BY <1>1, <1>3, <2>2 DEF Position
<1>6. CASE call' = call /\ out' = out
  BY <1>1, <1>6, Zenon DEF Position
<1>7. CASE Returns(-1, <<>>)
  <2>1. call' = Idle /\ out' = [ret |-> -1, data |-> <<>>]
    BY <1>7 DEF Returns
  <2>2. Position' \in Position .. ReadSize
    BY <1>2, <1>3, <1>4, <1>5, <2>1
  <2> QED BY <2>1, <2>2, PlainFail
<1>8. CASE decoder # "run" /\ AtEnd
  <2>1. total_out = ReadSize
    BY <1>8 DEF Reads, Through
  <2>2. call' = Idle /\ IF call.op = "read" THEN out' = [ret |-> g, data |-> call.got]
                        ELSE out' = [ret |-> total_out, data |-> <<-1>>]
    BY <1>8 DEF AtEnd, Returns
  <2>3. Position' = total_out /\ Position' = Position + g /\ Position + g = ReadSize
    BY <1>2, <1>3, <1>4, <1>5, <2>1, <2>2
  <2>4. length \in 1 .. MaxAsk /\ g <= length
    BY <1>2, <1>3
  <2>5. CASE call.op = "read"
    <3>1. out' = [ret |-> g, data |-> RunOf(Position, g)]
      BY <1>2, <1>4, <2>2, <2>5
    <3>2. Position + g <= ReadSize /\ Position + g >= ReadSize
      BY <1>3, <2>3
    <3> HIDE DEF g, length
    <3> QED BY <1>3, <2>3, <2>4, <3>1, <3>2, PlainRead
  <2>6. CASE call.op # "read"
    <3>1. out' = [ret |-> Position', data |-> <<-1>>]
      BY <2>2, <2>3, <2>6
    <3>2. length \in 0 .. MaxAsk /\ Position' \in Position .. Position + length /\ Position' >= ReadSize
      BY <1>2, <1>3, <1>4, <2>3, <2>4
    <3> QED BY <3>1, <3>2, PlainForward
  <2> QED BY <2>5, <2>6
<1> QED BY <1>1, <1>6, <1>7, <1>8

PlainPosition == IF whole THEN total_out - Len(call.got) ELSE 0
PlainOut == IF whole THEN out ELSE Silent

(* Every step is one of the stream or none. *)
LEMMA PlainStep ==
  ASSUME Inv, [Next]_filtersVars
  PROVE  Plain!Call \/ Plain!Read \/ Plain!Forward \/ Plain!Fail
         \/ (PlainPosition' = PlainPosition /\ PlainOut' = PlainOut)
<1>1. Frame /\ (reading /\ ~damaged => Reads)
  BY DEF Inv
<1>2. ASSUME whole, whole', Position' = Position, out' = out
      PROVE  PlainPosition' = PlainPosition /\ PlainOut' = PlainOut
  BY <1>2, Zenon DEF PlainPosition, PlainOut, Position
<1>3. ASSUME ~whole, ~whole' PROVE PlainPosition' = PlainPosition /\ PlainOut' = PlainOut
  BY <1>3, Zenon DEF PlainPosition, PlainOut
<1>4. ASSUME UNCHANGED <<readerVars, whole>> PROVE PlainPosition' = PlainPosition /\ PlainOut' = PlainOut
  <2>1. call' = call /\ total_out' = total_out /\ out' = out /\ whole' = whole
    BY <1>4 DEF readerVars
  <2> QED BY <2>1, Zenon DEF PlainPosition, PlainOut
<1>5. CASE WriteCall \/ WriteStep \/ Stopped \/ UNCHANGED filtersVars
  BY <1>4, <1>5 DEF WriteCall, WriteStep, Stopped, filtersVars
<1>6. CASE Reopen
  <2>1. Unread /\ ~whole
    BY <1>1, <1>6 DEF Frame, Reopen
  <2>2. call' = Idle /\ total_out' = 0 /\ out' = Silent
    BY <1>6, <2>1 DEF Reopen, Unread
  <2>3. total_out' - Len(call'.got) = 0
    <3>1. call'.got = <<>>
      BY <2>2 DEF Idle
    <3>2. Len(call'.got) = 0
      BY <3>1
    <3> QED BY <2>2, <3>2
  <2>4. PlainPosition = 0 /\ PlainOut = Silent
    BY <2>1 DEF PlainPosition, PlainOut
  <2>5. PlainPosition' = 0 /\ PlainOut' = Silent
    BY <2>2, <2>3, Zenon DEF PlainPosition, PlainOut
  <2> QED BY <2>4, <2>5
<1>7. CASE ReadCall
  <2>1. reading /\ whole' = whole /\ ReaderCall
    BY <1>7 DEF ReadCall
  <2>2. CASE whole
    <3>1. Reads
      BY <1>1, <2>1, <2>2 DEF Frame
    <3> QED BY <1>2, <2>1, <2>2, <3>1, CallPlain
  <2> QED BY <1>3, <2>1, <2>2
<1>8. CASE ReadStep
  <2>1. reading /\ whole' = whole /\ ReaderStep
    BY <1>8 DEF ReadStep
  <2>2. CASE whole
    <3>1. Reads
      BY <1>1, <2>1, <2>2 DEF Frame
    <3>2. Fill \/ \E d : \E n \in Nat : DecodeStep(d) /\ Gives(d, n)
      BY <2>1, <3>1, StepCases
    <3>3. CASE Fill
      BY <1>2, <2>1, <2>2, <3>1, <3>3, FillPlain
    <3>4. ASSUME NEW d, NEW n \in Nat, DecodeStep(d), Gives(d, n)
          PROVE  Plain!Read \/ Plain!Forward \/ (PlainPosition' = PlainPosition /\ PlainOut' = PlainOut)
      BY <1>2, <2>1, <2>2, <3>1, <3>4, DecodePlain
    <3> QED BY <3>2, <3>3, <3>4
  <2> QED BY <1>3, <2>1, <2>2
<1> QED BY <1>5, <1>6, <1>7, <1>8 DEF Next

(* Reading through a filter is reading, in order and as it was, what was     *)
(* written through one (reader.c of the three filters against                *)
(* mtar_io_reader_ops): in pieces of any size, with any skips and any        *)
(* failing calls, whatever fields another program put into the header of a   *)
(* gzip file and whatever follows the end of the archive.                    *)
THEOREM ReadingIsPlain == Spec => IsPlain
<1>1. Init => Plain!Init
  BY DEF Init, Plain!Init, Plain!NoAnswer, Silent
<1>2. Inv /\ [Next]_filtersVars =>
        [Plain!Next]_<<FALSE, IF whole THEN total_out - Len(call.got) ELSE 0, IF whole THEN out ELSE Silent>>
  <2> SUFFICES ASSUME Inv, [Next]_filtersVars
               PROVE [Plain!Next]_<<FALSE, IF whole THEN total_out - Len(call.got) ELSE 0,
                                    IF whole THEN out ELSE Silent>>
    OBVIOUS
  <2>1. CASE Plain!Call \/ Plain!Read \/ Plain!Forward \/ Plain!Fail
    BY <2>1 DEF Plain!Next
  <2>2. CASE PlainPosition' = PlainPosition /\ PlainOut' = PlainOut
    BY <2>2, Zenon DEF PlainPosition, PlainOut
  <2> QED BY <2>1, <2>2, PlainStep
<1> QED BY <1>1, <1>2, InvAlways, PTL DEF Spec, IsPlain, Plain!Spec

=============================================================================
