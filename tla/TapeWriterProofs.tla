-------------------------- MODULE TapeWriterProofs --------------------------
(***************************************************************************)
(* For every size of record, tape and request and any number of failing     *)
(* calls: what the writer of tapes puts on the tape is the archive in       *)
(* order, all of it once the tape is closed, and the position it reports is *)
(* the truth.                                                               *)
(***************************************************************************)
EXTENDS TapeWriter, FiniteSetTheorems, TLAPS

----------------------------------------------------------------------------
(* The inductive invariant. *)

(* The place in the archive of unit k of record r. *)
Offset(r, k) == (r - 1) * BufferSize + k - 1

(* The buffer still goes to the tape as the client filled it: nobody has    *)
(* padded the tape, nor given up on what the buffer held.                   *)
Pending == fd /\ (buffer_used > 0 \/ ~halted)

(* How much of the archive is where. *)
Counters ==
    /\ IF Pending THEN sent = Len(tape) * BufferSize + buffer_used
       ELSE sent <= Len(tape) * BufferSize
    /\ ~halted => fd /\ position = sent

(* Every record holds its part of the archive; the last one is padded only  *)
(* when there is nothing more to come.                                      *)
Recorded ==
    \A r \in 1 .. Len(tape), k \in 1 .. BufferSize :
        \/ tape[r][k] = Offset(r, k)
        \/ ~Pending /\ r = Len(tape) /\ tape[r][k] = Zero /\ Offset(r, k) >= sent

Buffered ==
    Pending => \A k \in 1 .. buffer_used : buffer[k] = Offset(Len(tape) + 1, k)

IInv == TypeOK /\ Counters /\ (~doubled => Recorded /\ Buffered)

USE TapeAssumption DEF TapeAssumption

----------------------------------------------------------------------------
(* Lemmas about the operators. *)

Block == [1 .. BufferSize -> Int]

LEMMA Division ==
    ASSUME NEW a \in Nat, NEW b \in Nat \ {0}
    PROVE  /\ a \div b \in Nat /\ a % b \in 0 .. b - 1
           /\ a = (a \div b) * b + (a % b)
OBVIOUS

(* The records are of one size. *)
LEMMA RecordSize ==
    ASSUME NEW n \in Nat, NEW m \in Nat
    PROVE  /\ n * BufferSize \in Nat
           /\ (n + 1) * BufferSize = n * BufferSize + BufferSize
           /\ (n - 1) * BufferSize = n * BufferSize - BufferSize
           /\ (n + m) * BufferSize = n * BufferSize + m * BufferSize
           /\ n <= m => n * BufferSize <= m * BufferSize
OBVIOUS

LEMMA NextOffset ==
    ASSUME NEW n \in Nat, NEW k \in Int
    PROVE  Offset(n + 1, k) = n * BufferSize + k - 1
<1>1. (n + 1) - 1 = n
    OBVIOUS
<1>2. Offset(n + 1, k) = ((n + 1) - 1) * BufferSize + k - 1
    BY Zenon DEF Offset
<1> QED BY <1>1, <1>2, Zenon

(* What Append and \o do to a tape. *)
LEMMA TapeAppend ==
    ASSUME NEW t \in Seq(Block), NEW x \in Block
    PROVE  /\ Append(t, x) \in Seq(Block)
           /\ Len(Append(t, x)) = Len(t) + 1
           /\ Len(t) \in Nat
           /\ \A r \in 1 .. Len(t) : Append(t, x)[r] = t[r]
           /\ Append(t, x)[Len(t) + 1] = x
OBVIOUS

LEMMA TapeConcat ==
    ASSUME NEW t \in Seq(Block), NEW n \in Nat, NEW b \in [1 .. n -> Block]
    PROVE  /\ t \o b \in Seq(Block)
           /\ Len(t \o b) = Len(t) + n
           /\ \A r \in 1 .. Len(t) : (t \o b)[r] = t[r]
           /\ \A r \in 1 .. n : (t \o b)[Len(t) + r] = b[r]
OBVIOUS

(* The buffer with what is copied behind what it held. *)
LEMMA FilledBuffer ==
    ASSUME TypeOK, NEW n \in 0 .. Room
    PROVE  /\ Filled(n) \in Block
           /\ \A k \in 1 .. buffer_used : Filled(n)[k] = buffer[k]
           /\ \A k \in 1 .. n : Filled(n)[buffer_used + k] = sent + k - 1
BY DEF TypeOK, Filled, Room, Block

LEMMA FilledRecord ==
    ASSUME TypeOK, Counters, Buffered, Pending, NEW n \in 0 .. Room
    PROVE  \A k \in 1 .. buffer_used + n : Filled(n)[k] = Offset(Len(tape) + 1, k)
<1> DEFINE m == Len(tape) * BufferSize
<1>1. buffer_used \in 0 .. BufferSize - 1 /\ Len(tape) \in Nat /\ sent = m + buffer_used
    BY DEF TypeOK, Counters
<1>2. m \in Nat
    BY <1>1, RecordSize
<1> HIDE DEF m
<1> SUFFICES ASSUME NEW k \in 1 .. buffer_used + n PROVE Filled(n)[k] = Offset(Len(tape) + 1, k)
    OBVIOUS
<1>3. Offset(Len(tape) + 1, k) = m + k - 1
    BY <1>1, NextOffset DEF m
<1>4. CASE k <= buffer_used
    BY <1>1, <1>4, FilledBuffer DEF Buffered
<1>5. CASE k > buffer_used
  <2>1. k - buffer_used \in 1 .. n /\ buffer_used + (k - buffer_used) = k
      BY <1>1, <1>5 DEF Room
  <2>2. Filled(n)[k] = sent + (k - buffer_used) - 1
      BY <2>1, FilledBuffer
  <2> QED BY <1>1, <1>2, <1>3, <2>2
<1> QED BY <1>1, <1>4, <1>5

LEMMA PaddedBuffer ==
    ASSUME TypeOK
    PROVE  /\ Padded \in Block
           /\ \A k \in 1 .. buffer_used : Padded[k] = buffer[k]
           /\ \A k \in buffer_used + 1 .. BufferSize : Padded[k] = Zero
BY DEF TypeOK, Padded, Block, Zero

LEMMA AttemptEnds ==
    ASSUME TypeOK, NEW a \in Attempts
    PROVE  /\ a.err \in {"none", "ENOSPC", "EIO"}
           /\ a.fault \in {0, 1} /\ faults + a.fault \in 0 .. MaxFaults
<1>1. CASE a = [ok |-> TRUE, eod |-> FALSE, err |-> "none", fault |-> 0]
    BY <1>1 DEF TypeOK
<1>2. CASE /\ faults < MaxFaults
           /\ \/ a = [ok |-> TRUE, eod |-> TRUE, err |-> "none", fault |-> 1]
              \/ a = [ok |-> FALSE, eod |-> FALSE, err |-> "EIO", fault |-> 1]
              \/ a \in [ok : {FALSE}, eod : {TRUE}, err : {"ENOSPC", "EIO"}, fault : {1}]
  <2>1. a \in [ok : {FALSE}, eod : {TRUE}, err : {"ENOSPC", "EIO"}, fault : {1}]
          => a.err \in {"ENOSPC", "EIO"} /\ a.fault = 1
      OBVIOUS
  <2>2. a = [ok |-> TRUE, eod |-> TRUE, err |-> "none", fault |-> 1]
          => a.err = "none" /\ a.fault = 1
      OBVIOUS
  <2>3. a = [ok |-> FALSE, eod |-> FALSE, err |-> "EIO", fault |-> 1]
          => a.err = "EIO" /\ a.fault = 1
      OBVIOUS
  <2>4. a.err \in {"none", "ENOSPC", "EIO"} /\ a.fault = 1
      BY <1>2, <2>1, <2>2, <2>3, Zenon
  <2> QED BY <1>2, <2>4 DEF TypeOK
<1> QED BY <1>1, <1>2 DEF Attempts

(* The records that are written from the data itself, when each goes to the  *)
(* tape at the first attempt.                                                *)
LEMMA BulkRecords ==
    ASSUME NEW full \in Block, NEW done \in Nat, NEW again \in SUBSET (1 .. done),
           TypeOK, sent = Len(tape) * BufferSize + buffer_used
    PROVE  /\ Bulk(full, done, again) \in [1 .. done -> Block]
           /\ \A r \in 1 .. done, k \in 1 .. BufferSize :
                 again = {} => Bulk(full, done, again)[r][k] = Offset(Len(tape) + 1 + r, k)
<1>1. sent \in Nat /\ buffer_used \in Nat /\ Room \in Nat /\ Len(tape) \in Nat
      /\ buffer_used + Room = BufferSize
    BY DEF TypeOK, Room
<1>2. ASSUME NEW r \in 1 .. done
      PROVE  /\ Units(Room + (r - 1) * BufferSize, BufferSize) \in Block
             /\ \A k \in 1 .. BufferSize :
                   Units(Room + (r - 1) * BufferSize, BufferSize)[k] = Offset(Len(tape) + 1 + r, k)
  <2> DEFINE at == Room + (r - 1) * BufferSize
  <2>1. at \in Int
      BY <1>1, RecordSize
  <2>2. sent + at = (Len(tape) + r) * BufferSize
    <3>1. /\ (r - 1) * BufferSize = r * BufferSize - BufferSize /\ r * BufferSize \in Nat
          /\ (Len(tape) + r) * BufferSize = Len(tape) * BufferSize + r * BufferSize
          /\ Len(tape) * BufferSize \in Nat
        BY <1>1, RecordSize
    <3> QED BY <1>1, <3>1
  <2> HIDE DEF at
  <2>3. Units(at, BufferSize) \in Block
        /\ \A k \in 1 .. BufferSize : Units(at, BufferSize)[k] = (sent + at) + k - 1
      BY <1>1, <2>1 DEF Units, Block
  <2>4. ASSUME NEW k \in 1 .. BufferSize
        PROVE  Offset(Len(tape) + 1 + r, k) = (Len(tape) + r) * BufferSize + k - 1
    <3>1. Len(tape) + 1 + r = (Len(tape) + r) + 1 /\ Len(tape) + r \in Nat /\ k \in Int
        BY <1>1
    <3>2. Offset((Len(tape) + r) + 1, k) = (Len(tape) + r) * BufferSize + k - 1
        BY <3>1, NextOffset, Zenon
    <3> QED BY <3>1, <3>2, Zenon
  <2>5. \A k \in 1 .. BufferSize : Units(at, BufferSize)[k] = Offset(Len(tape) + 1 + r, k)
      BY <2>2, <2>3, <2>4, Zenon
  <2> QED BY <2>3, <2>5, Zenon DEF at
<1> QED BY <1>2, Zenon DEF Bulk

----------------------------------------------------------------------------
(* One lemma for each way a call ends. *)

LEMMA StoreStep ==
    ASSUME IInv, fd, ~halted, NEW n \in Nat, sent + n <= MaxPosition, Store(n)
    PROVE  IInv'
<1>1. Pending /\ Pending' /\ n \in 0 .. Room /\ buffer_used \in 0 .. BufferSize - 1
      /\ buffer_used' = buffer_used + n /\ sent' = sent + n /\ position' = position + n
      /\ tape' = tape /\ buffer' = Filled(n) /\ Len(tape) \in Nat
    BY DEF Pending, Store, Room, IInv, TypeOK
<1>2. TypeOK'
  <2>1. buffer' \in [1 .. BufferSize -> Int]
      BY <1>1, FilledBuffer DEF IInv, Block
  <2>2. buffer_used' \in 0 .. BufferSize - 1 /\ position' \in Nat /\ sent' \in 0 .. MaxPosition
      BY DEF Store, Room, IInv, TypeOK
  <2>3. /\ fd' \in BOOLEAN /\ eod_reached' \in BOOLEAN /\ doubled' \in BOOLEAN /\ halted' \in BOOLEAN
      BY Zenon DEF Store, IInv, TypeOK
  <2>4. last_errno' = "none" /\ tape' \in Seq([1 .. BufferSize -> Int]) /\ faults' \in 0 .. MaxFaults
      BY DEF Store, IInv, TypeOK
  <2> QED BY <2>1, <2>2, <2>3, <2>4 DEF TypeOK
<1>3. Counters'
  <2>1. sent = Len(tape) * BufferSize + buffer_used /\ position = sent
      BY <1>1 DEF IInv, Counters
  <2>2. Len(tape) * BufferSize \in Nat
      BY <1>1, RecordSize
  <2>3. sent' = Len(tape) * BufferSize + buffer_used' /\ position' = sent'
      BY <1>1, <2>1, <2>2
  <2> QED BY <1>1, <2>3, Zenon DEF Counters, Store
<1>4. ASSUME ~doubled' PROVE Recorded' /\ Buffered'
  <2>1. ~doubled
      BY <1>4 DEF Store
  <2>2. Recorded'
      BY <1>1, <2>1, Zenon DEF IInv, Recorded
  <2>3. \A k \in 1 .. buffer_used + n : Filled(n)[k] = Offset(Len(tape) + 1, k)
      BY <1>1, <2>1, FilledRecord DEF IInv
  <2> QED BY <1>1, <2>2, <2>3, Zenon DEF Buffered
<1> QED BY <1>2, <1>3, <1>4 DEF IInv

(* A flush that fails leaves what the client wrote in the buffer, though not *)
(* alone.                                                                    *)
LEMMA StoreFailsStep ==
    ASSUME IInv, fd, ~halted, NEW n \in Nat, NEW header \in BOOLEAN, StoreFails(n, header)
    PROVE  IInv'
<1>1. /\ Pending /\ buffer_used \in 0 .. BufferSize - 1 /\ Room \in 0 .. Room
      /\ buffer_used' = buffer_used /\ sent' = sent /\ position' = position
      /\ tape' = tape /\ buffer' = Filled(Room) /\ Len(tape) \in Nat
    BY DEF Pending, StoreFails, Room, IInv, TypeOK
<1>2. TypeOK'
  <2>1. buffer' \in [1 .. BufferSize -> Int]
      BY <1>1, FilledBuffer DEF IInv, Block
  <2> PICK a \in Attempts :
          /\ last_errno' = a.err /\ eod_reached' = (eod_reached \/ a.eod)
          /\ faults' = faults + a.fault /\ ~a.ok
      BY DEF StoreFails
  <2>2. a.err \in {"none", "ENOSPC", "EIO"} /\ faults + a.fault \in 0 .. MaxFaults
      BY AttemptEnds DEF IInv
  <2>3. /\ fd' \in BOOLEAN /\ eod_reached' \in BOOLEAN /\ doubled' \in BOOLEAN /\ halted' \in BOOLEAN
      BY Zenon DEF StoreFails, IInv, TypeOK
  <2>4. /\ position' \in Nat /\ sent' \in 0 .. MaxPosition /\ buffer_used' \in 0 .. BufferSize - 1
        /\ tape' \in Seq([1 .. BufferSize -> Int])
      BY DEF StoreFails, IInv, TypeOK
  <2> QED BY <2>1, <2>2, <2>3, <2>4 DEF TypeOK
<1>3. Counters'
  <2>1. sent = Len(tape) * BufferSize + buffer_used /\ position = sent /\ fd'
      BY <1>1 DEF IInv, Counters, StoreFails
  <2>2. ~Pending' => buffer_used = 0
      BY <1>1, <2>1 DEF Pending
  <2>3. Len(tape) * BufferSize \in Nat
      BY <1>1, RecordSize
  <2>4. ~Pending' => sent <= Len(tape) * BufferSize
      BY <2>1, <2>2, <2>3
  <2> QED BY <1>1, <2>1, <2>4, Zenon DEF Counters
<1>4. ASSUME ~doubled' PROVE Recorded' /\ Buffered'
  <2>1. ~doubled
      BY <1>4 DEF StoreFails
  <2>2. Recorded'
      BY <1>1, <2>1, Zenon DEF IInv, Recorded
  <2>3. \A k \in 1 .. buffer_used : Filled(Room)[k] = buffer[k]
      BY <1>1, FilledBuffer DEF IInv
  <2> QED BY <1>1, <2>1, <2>2, <2>3, Zenon DEF IInv, Buffered
<1> QED BY <1>2, <1>3, <1>4 DEF IInv

(* Records go to the tape.                                                   *)
LEMMA StoreRecordsStep ==
    ASSUME IInv, fd, ~halted, NEW n \in Nat, sent + n <= MaxPosition, StoreRecords(n)
    PROVE  IInv'
<1> DEFINE whole == (n - Room) \div BufferSize
           rest == (n - Room) % BufferSize
           m == Len(tape) * BufferSize
<1>1. /\ Pending /\ buffer_used \in 0 .. BufferSize - 1 /\ Len(tape) \in Nat
      /\ Room = BufferSize - buffer_used /\ n >= Room /\ sent \in Nat
      /\ position = sent /\ sent = m + buffer_used /\ tape \in Seq(Block)
    BY DEF Pending, StoreRecords, Room, Counters, IInv, TypeOK, Block
<1>2. m \in Nat
    BY <1>1, RecordSize
<1>3. whole \in Nat /\ rest \in 0 .. BufferSize - 1 /\ n - Room = whole * BufferSize + rest
  <2>1. n - Room \in Nat /\ BufferSize \in Nat \ {0}
      BY <1>1
  <2> QED BY <2>1, Division, Zenon
<1>p. PICK a \in Attempts, done \in 0 .. whole : \E again \in SUBSET (1 .. done) :
       /\ tape' = Append(tape, Filled(Room)) \o Bulk(Filled(Room), done, again)
       /\ doubled' = (doubled \/ again # {})
       /\ \/ /\ done = whole
             /\ faults + a.fault + Cardinality(again) <= MaxFaults
             /\ faults' = faults + a.fault + Cardinality(again)
             /\ eod_reached' = (eod_reached \/ a.eod \/ again # {})
             /\ last_errno' = "none"
             /\ buffer' = Rest(Filled(Room), n, rest)
             /\ buffer_used' = rest
             /\ position' = position + n
             /\ sent' = sent + n
             /\ halted' = halted
          \/ /\ faults + a.fault + Cardinality(again) < MaxFaults
             /\ faults' = faults + a.fault + Cardinality(again) + 1
             /\ eod_reached' \in BOOLEAN
             /\ last_errno' \in {"ENOSPC", "EIO"}
             /\ buffer' = Filled(Room)
             /\ buffer_used' = 0
             /\ position' = position + Room + done * BufferSize
             /\ halted' = TRUE
             /\ sent' = sent
    BY Zenon DEF StoreRecords
<1>q. PICK again \in SUBSET (1 .. done) :
       /\ tape' = Append(tape, Filled(Room)) \o Bulk(Filled(Room), done, again)
       /\ doubled' = (doubled \/ again # {})
       /\ \/ /\ done = whole
             /\ faults + a.fault + Cardinality(again) <= MaxFaults
             /\ faults' = faults + a.fault + Cardinality(again)
             /\ eod_reached' = (eod_reached \/ a.eod \/ again # {})
             /\ last_errno' = "none"
             /\ buffer' = Rest(Filled(Room), n, rest)
             /\ buffer_used' = rest
             /\ position' = position + n
             /\ sent' = sent + n
             /\ halted' = halted
          \/ /\ faults + a.fault + Cardinality(again) < MaxFaults
             /\ faults' = faults + a.fault + Cardinality(again) + 1
             /\ eod_reached' \in BOOLEAN
             /\ last_errno' \in {"ENOSPC", "EIO"}
             /\ buffer' = Filled(Room)
             /\ buffer_used' = 0
             /\ position' = position + Room + done * BufferSize
             /\ halted' = TRUE
             /\ sent' = sent
    BY <1>p, Zenon
<1> HIDE DEF whole, rest, m
<1>4. fd' /\ done \in Nat /\ done * BufferSize \in Nat
    BY <1>3, RecordSize DEF StoreRecords
<1>5. Filled(Room) \in Block /\ \A k \in 1 .. BufferSize : ~doubled =>
        Filled(Room)[k] = Offset(Len(tape) + 1, k)
  <2>1. Room \in 0 .. Room /\ buffer_used + Room = BufferSize
      BY <1>1
  <2>2. Filled(Room) \in Block
      BY <2>1, FilledBuffer DEF IInv
  <2>3. ~doubled => \A k \in 1 .. buffer_used + Room : Filled(Room)[k] = Offset(Len(tape) + 1, k)
      BY <1>1, <2>1, FilledRecord DEF IInv
  <2> QED BY <2>1, <2>2, <2>3
<1>6. /\ Bulk(Filled(Room), done, again) \in [1 .. done -> Block]
      /\ \A r \in 1 .. done, k \in 1 .. BufferSize :
            again = {} => Bulk(Filled(Room), done, again)[r][k] = Offset(Len(tape) + 1 + r, k)
    BY <1>1, <1>4, <1>5, BulkRecords, Zenon DEF m, IInv
<1>7. /\ tape' \in Seq(Block) /\ Len(tape') = Len(tape) + 1 + done
      /\ \A r \in 1 .. Len(tape) : tape'[r] = tape[r]
      /\ tape'[Len(tape) + 1] = Filled(Room)
      /\ \A r \in 1 .. done : tape'[Len(tape) + 1 + r] = Bulk(Filled(Room), done, again)[r]
  <2> DEFINE t == Append(tape, Filled(Room))
  <2>1. /\ t \in Seq(Block) /\ Len(t) = Len(tape) + 1
        /\ \A r \in 1 .. Len(tape) : t[r] = tape[r]
        /\ t[Len(tape) + 1] = Filled(Room)
      BY <1>1, <1>5, TapeAppend
  <2> HIDE DEF t
  <2>2. /\ t \o Bulk(Filled(Room), done, again) \in Seq(Block)
        /\ Len(t \o Bulk(Filled(Room), done, again)) = Len(t) + done
        /\ \A r \in 1 .. Len(t) : (t \o Bulk(Filled(Room), done, again))[r] = t[r]
        /\ \A r \in 1 .. done : (t \o Bulk(Filled(Room), done, again))[Len(t) + r]
                                  = Bulk(Filled(Room), done, again)[r]
      BY <1>4, <1>6, <2>1, TapeConcat
  <2>3. tape' = t \o Bulk(Filled(Room), done, again)
      BY <1>q, Zenon DEF t
  <2>4. /\ Len(t) + done = Len(tape) + 1 + done
        /\ \A r \in 1 .. Len(tape) : r \in 1 .. Len(t)
        /\ Len(tape) + 1 \in 1 .. Len(t)
      BY <1>1, <2>1
  <2>5. tape' \in Seq(Block) /\ Len(tape') = Len(tape) + 1 + done
      BY <2>2, <2>3, <2>4, Zenon
  <2>6. /\ \A r \in 1 .. Len(tape) : tape'[r] = tape[r]
        /\ tape'[Len(tape) + 1] = Filled(Room)
    <3>1. \A r \in 1 .. Len(t) : tape'[r] = t[r]
        BY <2>2, <2>3, Zenon
    <3>2. \A r \in 1 .. Len(tape) : tape'[r] = tape[r]
        BY <2>1, <2>4, <3>1, Zenon
    <3>3. tape'[Len(tape) + 1] = Filled(Room)
        BY <2>1, <2>4, <3>1, Zenon
    <3> QED BY <3>2, <3>3
  <2>7. \A r \in 1 .. done : tape'[Len(tape) + 1 + r] = Bulk(Filled(Room), done, again)[r]
      BY <2>1, <2>2, <2>3, Zenon
  <2> QED BY <2>5, <2>6, <2>7
<1>8. ASSUME ~doubled'
      PROVE  \A r \in 1 .. Len(tape'), k \in 1 .. BufferSize : tape'[r][k] = Offset(r, k)
  <2>1. ~doubled /\ again = {}
      BY <1>8, <1>q, Zenon
  <2> SUFFICES ASSUME NEW r \in 1 .. Len(tape'), NEW k \in 1 .. BufferSize
               PROVE  tape'[r][k] = Offset(r, k)
      OBVIOUS
  <2>2. CASE r \in 1 .. Len(tape)
      BY <1>1, <1>7, <2>1, <2>2, Zenon DEF IInv, Recorded
  <2>3. CASE r = Len(tape) + 1
      BY <1>5, <1>7, <2>1, <2>3, Zenon
  <2>4. CASE r > Len(tape) + 1
    <3> DEFINE i == r - Len(tape) - 1
    <3>1. i \in 1 .. done /\ r = Len(tape) + 1 + i
        BY <1>1, <1>4, <1>7, <2>4
    <3> HIDE DEF i
    <3> QED BY <1>6, <1>7, <2>1, <3>1, Zenon
  <2> QED BY <1>1, <1>4, <1>7, <2>2, <2>3, <2>4
<1>9. Len(tape') * BufferSize = m + BufferSize + done * BufferSize
  <2>1. (Len(tape) + 1 + done) * BufferSize = m + BufferSize + done * BufferSize
    <3>1. (Len(tape) + 1 + done) * BufferSize = (Len(tape) + 1) * BufferSize + done * BufferSize
        BY <1>1, <1>4, RecordSize
    <3>2. (Len(tape) + 1) * BufferSize = m + BufferSize
        BY <1>1, RecordSize DEF m
    <3> QED BY <3>1, <3>2
  <2> QED BY <1>7, <2>1, Zenon
<1>10. Cardinality(again) \in Nat
  <2>1. IsFiniteSet(again)
    <3>1. IsFiniteSet(1 .. done)
        BY <1>4, FS_Interval
    <3> QED BY <3>1, FS_Subset, Zenon
  <2> QED BY <2>1, FS_CardinalityType
<1>11. a.fault \in {0, 1} /\ faults \in Nat
    BY AttemptEnds DEF IInv, TypeOK
<1>12. CASE /\ done = whole
            /\ faults + a.fault + Cardinality(again) <= MaxFaults
            /\ faults' = faults + a.fault + Cardinality(again)
            /\ eod_reached' = (eod_reached \/ a.eod \/ again # {})
            /\ last_errno' = "none"
            /\ buffer' = Rest(Filled(Room), n, rest)
            /\ buffer_used' = rest
            /\ position' = position + n
            /\ sent' = sent + n
            /\ halted' = halted
  <2>1. Rest(Filled(Room), n, rest) \in Block
        /\ \A k \in 1 .. rest : Rest(Filled(Room), n, rest)[k] = sent + n - rest + k - 1
      BY <1>1, <1>3, <1>5 DEF Rest, Block
  <2>2. Len(tape') * BufferSize = sent + n - rest
      BY <1>1, <1>2, <1>3, <1>4, <1>9, <1>12
  <2>3. TypeOK'
    <3>1. buffer' \in [1 .. BufferSize -> Int] /\ tape' \in Seq([1 .. BufferSize -> Int])
        BY <1>7, <1>12, <2>1, Zenon DEF Block
    <3>2. /\ position' \in Nat /\ sent' \in 0 .. MaxPosition
          /\ buffer_used' \in 0 .. BufferSize - 1 /\ faults' \in 0 .. MaxFaults
        BY <1>1, <1>3, <1>10, <1>11, <1>12
    <3>3. /\ fd' \in BOOLEAN /\ eod_reached' \in BOOLEAN /\ doubled' \in BOOLEAN
          /\ halted' \in BOOLEAN /\ last_errno' \in {"none", "ENOSPC", "EIO", "EBADF"}
        BY <1>q, <1>4, <1>12, Zenon DEF IInv, TypeOK
    <3> QED BY <3>1, <3>2, <3>3, Zenon DEF TypeOK
  <2>4. Pending' /\ sent' = Len(tape') * BufferSize + buffer_used' /\ position' = sent'
    <3>1. Pending'
        BY <1>4, <1>12, Zenon DEF Pending
    <3>2. sent + n = (sent + n - rest) + rest
        BY <1>1, <1>3
    <3>3. sent + n = Len(tape') * BufferSize + rest
        BY <2>2, <3>2, Zenon
    <3> QED BY <1>1, <1>12, <3>1, <3>3, Zenon
  <2>5. Counters'
      BY <1>4, <2>4, Zenon DEF Counters
  <2>6. ASSUME ~doubled' PROVE Recorded' /\ Buffered'
    <3>1. Recorded'
        BY <1>8, <2>6, Zenon DEF Recorded
    <3>2. ASSUME NEW k \in 1 .. rest PROVE Rest(Filled(Room), n, rest)[k] = Offset(Len(tape') + 1, k)
      <4>1. Len(tape') \in Nat
          BY <1>1, <1>4, <1>7
      <4>2. Offset(Len(tape') + 1, k) = Len(tape') * BufferSize + k - 1
          BY <4>1, NextOffset
      <4> QED BY <2>1, <2>2, <4>2
    <3> QED BY <1>12, <3>1, <3>2, Zenon DEF Buffered
  <2> QED BY <2>3, <2>5, <2>6 DEF IInv
<1>13. CASE /\ faults + a.fault + Cardinality(again) < MaxFaults
            /\ faults' = faults + a.fault + Cardinality(again) + 1
            /\ eod_reached' \in BOOLEAN
            /\ last_errno' \in {"ENOSPC", "EIO"}
            /\ buffer' = Filled(Room)
            /\ buffer_used' = 0
            /\ position' = position + Room + done * BufferSize
            /\ halted' = TRUE
            /\ sent' = sent
  <2>1. TypeOK'
    <3>1. buffer' \in [1 .. BufferSize -> Int] /\ tape' \in Seq([1 .. BufferSize -> Int])
        BY <1>5, <1>7, <1>13, Zenon DEF Block
    <3>2. /\ position' \in Nat /\ sent' \in 0 .. MaxPosition
          /\ buffer_used' \in 0 .. BufferSize - 1 /\ faults' \in 0 .. MaxFaults
      <4>1. position + Room + done * BufferSize \in Nat
          BY <1>1, <1>4
      <4>2. faults + a.fault + Cardinality(again) + 1 \in 0 .. MaxFaults
          BY <1>10, <1>11, <1>13
      <4>3. sent \in 0 .. MaxPosition /\ 0 \in 0 .. BufferSize - 1
          BY DEF IInv, TypeOK
      <4> QED BY <1>13, <4>1, <4>2, <4>3, Zenon
    <3>3. /\ fd' \in BOOLEAN /\ eod_reached' \in BOOLEAN /\ doubled' \in BOOLEAN
          /\ halted' \in BOOLEAN /\ last_errno' \in {"none", "ENOSPC", "EIO", "EBADF"}
        BY <1>q, <1>4, <1>13, Zenon DEF IInv, TypeOK
    <3> QED BY <3>1, <3>2, <3>3, Zenon DEF TypeOK
  <2>2. ~Pending' /\ halted'
      BY <1>13 DEF Pending
  <2>3. sent' <= Len(tape') * BufferSize
      BY <1>1, <1>2, <1>4, <1>9, <1>13
  <2>4. Counters'
      BY <2>2, <2>3, Zenon DEF Counters
  <2>5. ~doubled' => Recorded' /\ Buffered'
      BY <1>8, <2>2, Zenon DEF Recorded, Buffered
  <2> QED BY <2>1, <2>4, <2>5 DEF IInv
<1> QED BY <1>q, <1>12, <1>13, Zenon

(* The buffer is padded and written, for good or for a reader.               *)
LEMMA Flushed ==
    ASSUME IInv, fd, ~Pending', halted', UNCHANGED <<sent, doubled>>,
           IF MustFlush THEN buffer' = Padded /\ tape' = Append(tape, Padded)
           ELSE UNCHANGED <<buffer, tape>>
    PROVE  /\ buffer' \in [1 .. BufferSize -> Int] /\ tape' \in Seq([1 .. BufferSize -> Int])
           /\ Counters' /\ (~doubled' => Recorded' /\ Buffered')
<1>1. /\ buffer_used \in 0 .. BufferSize - 1 /\ Len(tape) \in Nat /\ sent \in Nat
      /\ tape \in Seq(Block) /\ buffer \in Block
    BY DEF IInv, TypeOK, Block
<1>2. Len(tape) * BufferSize \in Nat
      /\ (Len(tape) + 1) * BufferSize = Len(tape) * BufferSize + BufferSize
    BY <1>1, RecordSize
<1>3. CASE MustFlush
  <2>1. Pending /\ tape' = Append(tape, Padded) /\ buffer' = Padded
      BY <1>3 DEF Pending, MustFlush
  <2>2. Padded \in Block
      BY PaddedBuffer DEF IInv
  <2>3. /\ tape' \in Seq(Block) /\ Len(tape') = Len(tape) + 1
        /\ \A r \in 1 .. Len(tape) : tape'[r] = tape[r]
        /\ tape'[Len(tape) + 1] = Padded
      BY <1>1, <2>1, <2>2, TapeAppend, Zenon
  <2>4. sent = Len(tape) * BufferSize + buffer_used
      BY <2>1 DEF IInv, Counters
  <2>5. sent <= (Len(tape) + 1) * BufferSize
      BY <1>1, <1>2, <2>4
  <2>6. Counters'
      BY <2>3, <2>5, Zenon DEF Counters
  <2>7. ASSUME ~doubled, NEW k \in 1 .. BufferSize
        PROVE  \/ Padded[k] = Offset(Len(tape) + 1, k)
               \/ Padded[k] = Zero /\ Offset(Len(tape) + 1, k) >= sent
    <3>1. CASE k \in 1 .. buffer_used
        BY <2>1, <2>7, <3>1, PaddedBuffer, Zenon DEF IInv, Buffered
    <3>2. CASE k \in buffer_used + 1 .. BufferSize
      <4>1. Offset(Len(tape) + 1, k) = Len(tape) * BufferSize + k - 1
          BY <1>1, NextOffset
      <4>2. Offset(Len(tape) + 1, k) >= sent
          BY <1>1, <1>2, <2>4, <3>2, <4>1
      <4> QED BY <3>2, <4>2, PaddedBuffer DEF IInv
    <3> QED BY <1>1, <3>1, <3>2
  <2>8. ASSUME ~doubled PROVE Recorded'
    <3> SUFFICES ASSUME NEW r \in 1 .. Len(tape'), NEW k \in 1 .. BufferSize
                 PROVE  \/ tape'[r][k] = Offset(r, k)
                        \/ r = Len(tape') /\ tape'[r][k] = Zero /\ Offset(r, k) >= sent
        BY Zenon DEF Recorded
    <3>1. CASE r \in 1 .. Len(tape)
        BY <2>1, <2>3, <2>8, <3>1, Zenon DEF IInv, Recorded
    <3>2. CASE r = Len(tape) + 1
        BY <2>3, <2>7, <2>8, <3>2, Zenon
    <3> QED BY <1>1, <2>3, <3>1, <3>2
  <2>9. Buffered'
      BY DEF Buffered
  <2> QED BY <2>1, <2>2, <2>3, <2>6, <2>8, <2>9, Zenon DEF Block
<1>4. CASE ~MustFlush
  <2>1. buffer_used = 0 /\ tape' = tape /\ buffer' = buffer
      BY <1>1, <1>4 DEF MustFlush
  <2>2. sent <= Len(tape) * BufferSize
      BY <1>1, <1>2, <2>1 DEF IInv, Counters
  <2>3. Counters'
      BY <2>1, <2>2, Zenon DEF Counters
  <2>4. ~doubled' => Recorded' /\ Buffered'
      BY <2>1, Zenon DEF IInv, Recorded, Buffered
  <2> QED BY <1>1, <2>1, <2>3, <2>4, Zenon DEF Block
<1> QED BY <1>3, <1>4

LEMMA CloseStep == ASSUME IInv, Close PROVE IInv'
<1>1. ~Pending' /\ halted' /\ fd
    BY Zenon DEF Close, Pending
<1>2. /\ buffer' \in [1 .. BufferSize -> Int] /\ tape' \in Seq([1 .. BufferSize -> Int])
      /\ Counters' /\ (~doubled' => Recorded' /\ Buffered')
    BY <1>1, Flushed, Zenon DEF Close
<1>3. faults' \in 0 .. MaxFaults /\ last_errno' \in {"none", "ENOSPC", "EIO", "EBADF"}
    BY DEF Close, IInv, TypeOK
<1>4. /\ fd' \in BOOLEAN /\ eod_reached' \in BOOLEAN /\ doubled' \in BOOLEAN
      /\ halted' \in BOOLEAN /\ position' \in Nat /\ sent' \in 0 .. MaxPosition
      /\ buffer_used' \in 0 .. BufferSize - 1
    BY Zenon DEF Close, IInv, TypeOK
<1> QED BY <1>2, <1>3, <1>4, Zenon DEF IInv, TypeOK

LEMMA ReopenForReadingStep == ASSUME IInv, ReopenForReading PROVE IInv'
<1>1. ~Pending' /\ halted' /\ fd
    BY DEF ReopenForReading, Pending
<1>2. /\ buffer' \in [1 .. BufferSize -> Int] /\ tape' \in Seq([1 .. BufferSize -> Int])
      /\ Counters' /\ (~doubled' => Recorded' /\ Buffered')
    BY <1>1, Flushed, Zenon DEF ReopenForReading
<1>3. faults' \in 0 .. MaxFaults /\ buffer_used' \in 0 .. BufferSize - 1
  <2>1. faults' = faults \/ (faults < MaxFaults /\ faults' = faults + 1)
      BY Zenon DEF ReopenForReading
  <2>2. buffer_used' = 0
      BY Zenon DEF ReopenForReading
  <2> QED BY <2>1, <2>2 DEF IInv, TypeOK
<1>4. /\ fd' \in BOOLEAN /\ eod_reached' \in BOOLEAN /\ doubled' \in BOOLEAN
      /\ halted' \in BOOLEAN /\ position' \in Nat /\ sent' \in 0 .. MaxPosition
      /\ last_errno' \in {"none", "ENOSPC", "EIO", "EBADF"}
    BY Zenon DEF ReopenForReading, IInv, TypeOK
<1> QED BY <1>2, <1>3, <1>4, Zenon DEF IInv, TypeOK

LEMMA LastRecordFailsStep == ASSUME IInv, fd, LastRecordFails PROVE IInv'
<1>1. Pending /\ Pending' /\ halted'
    BY DEF LastRecordFails, Pending, MustFlush
<1>2. TypeOK'
  <2>1. buffer' \in [1 .. BufferSize -> Int]
      BY PaddedBuffer, Zenon DEF LastRecordFails, IInv, Block
  <2>2. faults' \in 0 .. MaxFaults /\ last_errno' \in {"none", "ENOSPC", "EIO", "EBADF"}
      BY DEF LastRecordFails, IInv, TypeOK
  <2>3. /\ fd' \in BOOLEAN /\ eod_reached' \in BOOLEAN /\ doubled' \in BOOLEAN
        /\ halted' \in BOOLEAN /\ position' \in Nat /\ sent' \in 0 .. MaxPosition
        /\ buffer_used' \in 0 .. BufferSize - 1 /\ tape' \in Seq([1 .. BufferSize -> Int])
      BY Zenon DEF LastRecordFails, IInv, TypeOK
  <2> QED BY <2>1, <2>2, <2>3, Zenon DEF TypeOK
<1>3. Counters'
    BY <1>1, Zenon DEF LastRecordFails, IInv, Counters
<1>4. ~doubled' => Recorded' /\ Buffered'
  <2>1. \A k \in 1 .. buffer_used : Padded[k] = buffer[k]
      BY PaddedBuffer DEF IInv
  <2> QED BY <1>1, <2>1, Zenon DEF LastRecordFails, IInv, Recorded, Buffered
<1> QED BY <1>2, <1>3, <1>4 DEF IInv

LEMMA CloseAgainStep == ASSUME IInv, CloseAgain PROVE IInv'
<1>1. ~Pending /\ ~Pending'
    BY DEF CloseAgain, Pending
<1>2. TypeOK'
  <2>1. last_errno' \in {"none", "ENOSPC", "EIO", "EBADF"}
      BY DEF CloseAgain, IInv, TypeOK
  <2> QED BY <2>1, Zenon DEF CloseAgain, IInv, TypeOK
<1>3. Counters'
    BY <1>1, Zenon DEF CloseAgain, IInv, Counters
<1>4. ~doubled' => Recorded' /\ Buffered'
    BY <1>1, Zenon DEF CloseAgain, IInv, Recorded, Buffered
<1> QED BY <1>2, <1>3, <1>4 DEF IInv

----------------------------------------------------------------------------
(* Whatever a client writes and whatever fails, each record holds its part   *)
(* of the archive, the buffer what comes next, and the two make up what the  *)
(* client was told is written (writer.c:103-276).                            *)
THEOREM Inductive == Spec => []IInv
<1>1. Init => IInv
  <2> SUFFICES ASSUME Init PROVE IInv OBVIOUS
  <2>1. TypeOK
    <3>1. buffer \in [1 .. BufferSize -> Int] /\ tape \in Seq([1 .. BufferSize -> Int])
        BY DEF Init, Garbage
    <3>2. 0 \in 0 .. MaxPosition /\ 0 \in 0 .. BufferSize - 1 /\ 0 \in 0 .. MaxFaults /\ 0 \in Nat
        OBVIOUS
    <3> QED BY <3>1, <3>2, Zenon DEF Init, TypeOK
  <2>2. Len(tape) = 0 /\ sent = 0 /\ buffer_used = 0 /\ position = 0 /\ fd /\ ~halted
      BY DEF Init
  <2>3. 0 = 0 * BufferSize + 0
      OBVIOUS
  <2>4. Counters
      BY <2>2, <2>3, Zenon DEF Counters, Pending
  <2>5. Recorded /\ Buffered
      BY <2>2 DEF Recorded, Buffered
  <2> QED BY <2>1, <2>4, <2>5 DEF IInv
<1>2. IInv /\ [Next]_vars => IInv'
  <2> SUFFICES ASSUME IInv, [Next]_vars PROVE IInv' OBVIOUS
  <2>1. CASE UNCHANGED vars
      BY <2>1, Zenon DEF vars, IInv, TypeOK, Counters, Recorded, Buffered, Pending
  <2>2. ASSUME NEW n \in Nat, NEW header \in BOOLEAN, fd, ~halted,
               sent + n <= MaxPosition, Write(n, header)
        PROVE  IInv'
      BY <2>2, StoreStep, StoreFailsStep, StoreRecordsStep, Zenon DEF Write
  <2>3. CASE WriteHeader
    <3> PICK n \in HeaderSizes : sent + n <= MaxPosition /\ Write(n, TRUE)
        BY <2>3, Zenon DEF WriteHeader
    <3>1. n \in Nat /\ fd /\ ~halted
        BY <2>3 DEF WriteHeader
    <3> QED BY <2>2, <3>1, Zenon
  <2>4. CASE WriteData
    <3> PICK n \in 1 .. (IF position < BufferSize THEN BufferSize ELSE NextPreferedSize) :
            sent + n <= MaxPosition /\ Write(n, FALSE)
        BY <2>4, Zenon DEF WriteData
    <3>1. n \in Nat
        BY DEF NextPreferedSize, IInv, TypeOK
    <3>2. fd /\ ~halted
        BY <2>4, Zenon DEF WriteData
    <3> QED BY <2>2, <3>1, <3>2, Zenon
  <2> QED BY <2>1, <2>3, <2>4, CloseStep, LastRecordFailsStep, CloseAgainStep,
             ReopenForReadingStep, Zenon DEF Next, CloseFails, ReopenFails
<1> QED BY <1>1, <1>2, PTL DEF Spec

(* No variable of the tape writer leaves its type, in particular what is    *)
(* used of the buffer is a number below BufferSize between two calls        *)
(* (writer.c:206-301).                                                      *)
THEOREM TypeCorrect == Spec => []TypeOK
<1>1. IInv => TypeOK
    BY DEF IInv
<1> QED BY <1>1, Inductive, PTL

(* While no call failed the position, from which the room left is told, is   *)
(* what the client wrote: PositionTrue of TapeWriter, writer.c:89-96,        *)
(* 155-276.                                                                  *)
THEOREM PositionIsTrue == Spec => []PositionTrue
<1>1. IInv => PositionTrue
    BY Zenon DEF IInv, PositionTrue, Counters, Pending
<1> QED BY <1>1, Inductive, PTL

(* Where a unit of the tape is. *)
LEMMA Located ==
    ASSUME TypeOK, NEW j \in DOMAIN OnTape
    PROVE  \E r \in 1 .. Len(tape), k \in 1 .. BufferSize :
              OnTape[j] = tape[r][k] /\ Offset(r, k) = j - 1
<1> DEFINE q == (j - 1) \div BufferSize
           k == ((j - 1) % BufferSize) + 1
<1>1. Len(tape) \in Nat /\ Len(tape) * BufferSize \in Nat
    BY RecordSize DEF TypeOK
<1>2. j - 1 \in Nat /\ j - 1 < Len(tape) * BufferSize
    BY <1>1 DEF OnTape
<1>3. q \in Nat /\ k \in 1 .. BufferSize /\ j - 1 = q * BufferSize + k - 1
  <2>1. /\ (j - 1) \div BufferSize \in Nat /\ (j - 1) % BufferSize \in 0 .. BufferSize - 1
        /\ j - 1 = ((j - 1) \div BufferSize) * BufferSize + ((j - 1) % BufferSize)
      BY <1>2, Division
  <2> HIDE DEF q
  <2>2. q * BufferSize \in Nat
      BY <2>1, RecordSize DEF q
  <2> QED BY <2>1, <2>2 DEF q
<1>4. OnTape[j] = tape[q + 1][k]
    BY Zenon DEF OnTape
<1> HIDE DEF q, k
<1>5. q + 1 \in 1 .. Len(tape)
  <2>1. CASE Len(tape) <= q
    <3>1. Len(tape) * BufferSize <= q * BufferSize /\ q * BufferSize \in Nat
        BY <1>1, <1>3, <2>1, RecordSize
    <3> QED BY <1>2, <1>3, <3>1
  <2> QED BY <1>1, <1>3, <2>1
<1>6. Offset(q + 1, k) = j - 1
  <2>1. k \in Int
      BY <1>3
  <2> QED BY <1>3, <2>1, NextOffset, Zenon
<1> QED BY <1>3, <1>4, <1>5, <1>6, Zenon

(* The records hold what the client wrote in order, with padding only behind *)
(* all of it: TapeOrder of TapeWriter, writer.c:103-276.                     *)
THEOREM TapeInOrder == Spec => []TapeOrder
<1>1. IInv => TapeOrder
  <2> SUFFICES ASSUME IInv, ~doubled, NEW j \in DOMAIN OnTape
               PROVE  \/ OnTape[j] = j - 1
                      \/ OnTape[j] = Zero /\ Len(OnTape) - j < BufferSize /\ j > sent
      BY Zenon DEF TapeOrder
  <2>1. Len(tape) \in Nat /\ Len(tape) * BufferSize \in Nat /\ sent \in Nat
      BY RecordSize DEF IInv, TypeOK
  <2>2. j \in 1 .. Len(tape) * BufferSize /\ Len(OnTape) = Len(tape) * BufferSize
      BY <2>1 DEF OnTape
  <2> PICK r \in 1 .. Len(tape), k \in 1 .. BufferSize :
              OnTape[j] = tape[r][k] /\ Offset(r, k) = j - 1
      BY Located, Zenon DEF IInv
  <2>3. CASE tape[r][k] = Offset(r, k)
      BY <2>3, Zenon
  <2>4. CASE r = Len(tape) /\ tape[r][k] = Zero /\ Offset(r, k) >= sent
    <3>1. Len(tape) * BufferSize - BufferSize + k - 1 = j - 1
      <4>1. (Len(tape) - 1) * BufferSize = Len(tape) * BufferSize - BufferSize
          BY <2>1, RecordSize
      <4> QED BY <2>4, <4>1, Zenon DEF Offset
    <3>2. Len(OnTape) - j < BufferSize
        BY <2>1, <2>2, <3>1
    <3>3. j > sent
        BY <2>1, <2>2, <2>4
    <3> QED BY <2>4, <3>2, <3>3, Zenon
  <2> QED BY <2>3, <2>4, Zenon DEF IInv, Recorded
<1> QED BY <1>1, Inductive, PTL

(* Once the tape is closed it holds all that the client was told is written: *)
(* SentKept of TapeWriter, writer.c:103-127.                                 *)
THEOREM AllSentKept == Spec => []SentKept
<1>1. IInv => SentKept
  <2> SUFFICES ASSUME IInv, ~fd, ~doubled, NEW u \in 0 .. sent - 1
               PROVE  \E j \in DOMAIN OnTape : u = OnTape[j]
      BY DEF SentKept
  <2>1. Len(tape) \in Nat /\ Len(tape) * BufferSize \in Nat /\ sent \in Nat
      BY RecordSize DEF IInv, TypeOK
  <2>2. sent <= Len(tape) * BufferSize
      BY Zenon DEF IInv, Counters, Pending
  <2>3. u + 1 \in 1 .. Len(tape) * BufferSize /\ (u + 1) - 1 = u
      BY <2>1, <2>2
  <2>4. u + 1 \in DOMAIN OnTape
      BY <2>3 DEF OnTape
  <2> PICK r \in 1 .. Len(tape), k \in 1 .. BufferSize :
              OnTape[u + 1] = tape[r][k] /\ Offset(r, k) = (u + 1) - 1
      BY <2>4, Located, Zenon DEF IInv
  <2>5. Offset(r, k) = u /\ ~(Offset(r, k) >= sent)
      BY <2>1, <2>3
  <2>6. OnTape[u + 1] = u
      BY <2>5, Zenon DEF IInv, Recorded
  <2> QED BY <2>4, <2>6, Zenon
<1> QED BY <1>1, Inductive, PTL
=============================================================================
