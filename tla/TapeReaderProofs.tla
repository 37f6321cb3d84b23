-------------------------- MODULE TapeReaderProofs --------------------------
(***************************************************************************)
(* For every size and number of records, every request and any number of    *)
(* failing calls: reading a tape of full records is reading a stream in     *)
(* order, and the position that is reported is the position in it.          *)
(***************************************************************************)
EXTENDS TapeReader, TLAPS

(* What the tape writer makes: it fills its last record up (writer.c:106). *)
FullRecords == LastRecord = BlockSize

(* What was not asked for yet is the end of the record the drive has passed *)
(* last.                                                                    *)
BufferOK ==
    InBuffer > 0 =>
        /\ record > 0
        /\ \A j \in buffer_pos + 1 .. BlockSize : buffer[j] = (record - 1) * BlockSize + j - 1

PositionOK == Ready => position = record * BlockSize - InBuffer

IInv == TypeOK /\ BufferOK /\ PositionOK

(* The position the stream is at. *)
Pos == IF Ready THEN position ELSE At

USE TapeAssumption DEF TapeAssumption

----------------------------------------------------------------------------
(* Arithmetic. *)

LEMMA Division ==
    ASSUME NEW a \in Nat, NEW b \in Nat \ {0}
    PROVE  a \div b \in Nat /\ (a \div b) * b <= a /\ a < (a \div b) * b + b
OBVIOUS

LEMMA Product ==
    ASSUME NEW a \in Int, NEW b \in Int, NEW c \in Nat
    PROVE  /\ a * c \in Int
           /\ (a + b) * c = a * c + b * c
           /\ (a - 1) * c = a * c - c
           /\ a <= b => a * c <= b * c
           /\ a >= 0 => a * c >= 0
           /\ 0 * c = 0 /\ 1 * c = c
OBVIOUS

LEMMA TapeSize == ASSUME FullRecords PROVE Size = Records * BlockSize /\ Size \in Nat
BY Product DEF FullRecords, Size

LEMMA Passed ==
    ASSUME FullRecords, NEW r \in 0 .. Records
    PROVE  r * BlockSize \in Nat /\ r * BlockSize <= Size
BY TapeSize, Product

LEMMA LesserFirst ==
    ASSUME NEW a \in Nat, NEW b \in Nat, a <= b
    PROVE  Lesser(a, b) - 0 = a
BY DEF Lesser

LEMMA LaterUnits == ASSUME NEW n \in Nat PROVE \A j \in n + 1 .. BlockSize : j \in 1 .. BlockSize
OBVIOUS

(* Where the reader is. *)
LEMMA Place ==
    ASSUME FullRecords, IInv
    PROVE  /\ InBuffer \in 0 .. BlockSize
           /\ record * BlockSize \in Nat
           /\ record * BlockSize <= Size
           /\ At = record * BlockSize - InBuffer
           /\ At \in 0 .. Size
           /\ Pos = At
<1>1. InBuffer \in 0 .. BlockSize /\ record \in 0 .. Records
    BY DEF IInv, TypeOK, InBuffer
<1>2. record * BlockSize \in Nat /\ record * BlockSize <= Size
    BY <1>1, Passed
<1>3. InBuffer <= record * BlockSize
  <2>1. CASE InBuffer = 0
      BY <2>1, <1>2
  <2>2. CASE InBuffer > 0
    <3>1. 1 <= record /\ 1 * BlockSize <= record * BlockSize
        BY <2>2, <1>1, Product DEF IInv, BufferOK
    <3> QED BY <3>1, <1>1, <1>2, Product
  <2> QED BY <2>1, <2>2, <1>1
<1>4. At = record * BlockSize - InBuffer
    BY <1>1, <1>2, TapeSize DEF At, Lesser
<1>5. Pos = At
    BY <1>4 DEF Pos, IInv, PositionOK
<1> QED BY <1>1, <1>2, <1>3, <1>4, <1>5, TapeSize

(* A request that goes past the buffer takes whole records and a part of    *)
(* one.                                                                     *)
LEMMA Split ==
    ASSUME FullRecords, IInv, NEW length \in Nat, length > InBuffer
    PROVE  /\ Wanted(length) \in Nat
           /\ Wanted(length) * BlockSize \in Nat
           /\ InBuffer + Wanted(length) * BlockSize <= length
           /\ length < InBuffer + Wanted(length) * BlockSize + BlockSize
<1> InBuffer \in 0 .. BlockSize
    BY Place
<1> length - InBuffer \in Nat
    OBVIOUS
<1> QED BY Division, Product DEF Wanted

(* What a record is loaded with, with or without one before it.             *)
LEMMA Loaded ==
    ASSUME FullRecords, IInv, NEW r \in 1 .. Records
    PROVE  /\ Load(r) \in [1 .. BlockSize -> Int]
           /\ \A j \in 1 .. BlockSize : Load(r)[j] = (r - 1) * BlockSize + j - 1
<1>1. Length(r) = BlockSize
    BY DEF Length, FullRecords
<1>2. DOMAIN Record(r) = 1 .. BlockSize
      /\ \A j \in 1 .. BlockSize : Record(r)[j] = (r - 1) * BlockSize + j - 1
    BY <1>1 DEF Record
<1>3. (r - 1) * BlockSize \in Int
    BY Product
<1> HIDE DEF Record
<1> QED BY <1>2, <1>3 DEF Load

(* Two runs of bytes that follow each other are one.                        *)
LEMMA BytesJoin ==
    ASSUME NEW from \in Int, NEW m \in Nat, NEW n \in Nat
    PROVE  Stream!Bytes(from, m) \o Stream!Bytes(from + m, n) = Stream!Bytes(from, m + n)
BY DEF Stream!Bytes

LEMMA SubSeqIs ==
    ASSUME NEW s \in [1 .. BlockSize -> Int], NEW from \in Int, NEW n \in 0 .. BlockSize,
           \A j \in 1 .. BlockSize : s[j] = from + j - 1
    PROVE  SubSeq(s, 1, n) = Stream!Bytes(from, n)
BY DEF Stream!Bytes

(* The buffer and the records behind it. *)
LEMMA BufferBytes ==
    ASSUME FullRecords, IInv, NEW n \in 0 .. InBuffer
    PROVE  Front(n) = Stream!Bytes(At, n)
<1>1. At = record * BlockSize - InBuffer /\ InBuffer \in 0 .. BlockSize
      /\ record * BlockSize \in Nat
    BY Place
<1>2. ASSUME NEW j \in 1 .. n PROVE buffer[buffer_pos + j] = At + j - 1
  <2>1. buffer_pos + j \in buffer_pos + 1 .. BlockSize /\ InBuffer > 0 /\ record \in Int
      BY <1>1 DEF InBuffer, IInv, TypeOK
  <2>2. buffer[buffer_pos + j] = (record - 1) * BlockSize + (buffer_pos + j) - 1
      BY <2>1 DEF IInv, BufferOK
  <2>3. (record - 1) * BlockSize = record * BlockSize - BlockSize
      BY <2>1, Product
  <2> QED BY <1>1, <2>2, <2>3 DEF InBuffer, IInv, TypeOK
<1> QED BY <1>2 DEF Front, Stream!Bytes

LEMMA MiddleBytes ==
    ASSUME FullRecords, IInv, NEW n \in Nat
    PROVE  Middle(n) = Stream!Bytes(At + InBuffer, n)
<1>1. At + InBuffer = record * BlockSize
    BY Place
<1> QED BY <1>1 DEF Middle, Stream!Bytes

----------------------------------------------------------------------------
(* What every call leaves: an empty buffer behind the records it has passed, *)
(* or the record it was in.                                                  *)

LEMMA Emptied ==
    ASSUME FullRecords, IInv,
           record' \in 0 .. Records, buffer' = buffer, buffer_pos' = BlockSize,
           position' \in Nat, out'.ret \in Nat \cup {-2, -1}, faults' \in 0 .. MaxFaults,
           Ready' => position' = record' * BlockSize
    PROVE  IInv' /\ Pos' = record' * BlockSize
<1>1. InBuffer' = 0
    BY DEF InBuffer
<1>2. TypeOK'
    BY DEF TypeOK, IInv
<1>3. BufferOK'
    BY <1>1 DEF BufferOK
<1>4. PositionOK'
    BY <1>1, Passed DEF PositionOK
<1>5. Pos' = record' * BlockSize
  <2>1. record' * BlockSize <= Size /\ record' * BlockSize \in Nat /\ Size \in Nat
      BY Passed, TapeSize
  <2>2. Size' = Size
      BY DEF Size
  <2>3. At' = Lesser(record' * BlockSize, Size) - 0
      BY <1>1, <2>2, Zenon DEF At
  <2>4. At' = record' * BlockSize
      BY <2>1, <2>3, LesserFirst, Zenon
  <2> QED BY <2>4 DEF Pos
<1> QED BY <1>2, <1>3, <1>4, <1>5 DEF IInv

LEMMA Reloaded ==
    ASSUME FullRecords, IInv,
           record' \in 1 .. Records, buffer' = Load(record'), buffer_pos' \in 0 .. BlockSize,
           position' \in Nat, position' = record' * BlockSize - (BlockSize - buffer_pos'),
           out'.ret \in Nat, faults' \in 0 .. MaxFaults
    PROVE  IInv' /\ Pos' = position'
<1>1. InBuffer' = BlockSize - buffer_pos'
    BY DEF InBuffer
<1>2. TypeOK'
  <2>1. buffer' \in [1 .. BlockSize -> Int]
      BY Loaded
  <2>2. record' \in 0 .. Records /\ out'.ret \in Nat \cup {-2, -1}
      OBVIOUS
  <2> QED BY <2>1, <2>2 DEF TypeOK
<1>3. BufferOK'
  <2>1. \A j \in 1 .. BlockSize : buffer'[j] = (record' - 1) * BlockSize + j - 1
      BY Loaded
  <2>2. record' > 0 /\ buffer_pos' \in Nat
      OBVIOUS
  <2> QED BY <2>1, <2>2, LaterUnits, Zenon DEF BufferOK
<1>4. PositionOK'
    BY <1>1 DEF PositionOK
<1>5. Ready'
    BY DEF Ready
<1> QED BY <1>2, <1>3, <1>4, <1>5 DEF IInv, Pos

LEMMA WithinBuffer ==
    ASSUME FullRecords, IInv, Ready, NEW n \in 0 .. InBuffer,
           buffer_pos' = buffer_pos + n, position' = position + n,
           out'.ret \in Nat, UNCHANGED <<record, buffer, faults>>
    PROVE  IInv' /\ Pos' = Pos + n
<1>1. InBuffer' = InBuffer - n /\ InBuffer \in 0 .. BlockSize
    BY Place DEF InBuffer, IInv, TypeOK
<1>2. TypeOK'
    BY <1>1 DEF TypeOK, IInv, InBuffer
<1>3. BufferOK'
    BY <1>1 DEF IInv, BufferOK, TypeOK
<1>4. PositionOK'
    BY <1>1, Place DEF IInv, PositionOK, TypeOK
<1>5. Ready'
    BY DEF Ready
<1> QED BY <1>2, <1>3, <1>4, <1>5 DEF IInv, Pos

----------------------------------------------------------------------------
(* A read that gives all that was asked for is one of the stream.            *)
LEMMA WholeAnswer ==
    ASSUME NEW length \in 1 .. MaxAsk, Pos + length <= Size, Pos' = Pos + length,
           out' = [ret |-> length, data |-> Stream!Bytes(Pos, length)]
    PROVE  Stream!Read
BY DEF Stream!Read, Pos

(* So is a forward that gives the position it comes to.                      *)
LEMMA Moved ==
    ASSUME NEW offset \in 0 .. MaxAsk, Pos' \in Pos .. Pos + offset,
           Pos' < Pos + offset => Pos' >= Size,
           Pos' = position', out' = [ret |-> position', data |-> <<-1>>]
    PROVE  Stream!Forward
BY DEF Stream!Forward, Stream!Skipped, Pos

LEMMA Unchanged ==
    ASSUME IInv, UNCHANGED vars
    PROVE  IInv' /\ UNCHANGED <<FALSE, Pos, out>>
BY DEF vars, IInv, TypeOK, BufferOK, PositionOK, InBuffer, Ready, Pos, At

(* One lemma for each action: it keeps the invariant and is a step of the    *)
(* stream.                                                                   *)

LEMMA ReadBufferStep ==
    ASSUME FullRecords, IInv, Ready, NEW length \in 1 .. MaxAsk, ReadBuffer(length)
    PROVE  IInv' /\ Stream!Read
<1>1. length \in 0 .. InBuffer
    BY Place DEF ReadBuffer
<1>2. IInv' /\ Pos' = Pos + length
    BY <1>1, WithinBuffer DEF ReadBuffer
<1>3. out' = [ret |-> length, data |-> Stream!Bytes(Pos, length)]
    BY <1>1, BufferBytes, Place DEF ReadBuffer
<1>4. Pos + length <= Size
    BY <1>1, Place, TapeSize
<1> QED BY <1>2, <1>3, <1>4, Place DEF Stream!Read, Pos

LEMMA SkipBufferStep ==
    ASSUME FullRecords, IInv, Ready, NEW offset \in 0 .. MaxAsk, SkipBuffer(offset)
    PROVE  IInv' /\ Stream!Forward
<1>1. offset \in 0 .. InBuffer
    BY Place DEF SkipBuffer
<1>2. position' \in Nat /\ out' = [ret |-> position', data |-> <<-1>>]
    BY <1>1, Place DEF SkipBuffer, IInv, TypeOK
<1>3. IInv' /\ Pos' = Pos + offset
    BY <1>1, <1>2, WithinBuffer DEF SkipBuffer
<1>4. Pos' = position'
    BY <1>2 DEF Pos, Ready
<1> QED BY <1>2, <1>3, <1>4, Place DEF Stream!Forward, Stream!Skipped, Pos

(* A call that fails has passed whole records and nothing else.              *)
LEMMA FailStep ==
    ASSUME FullRecords, IInv, Ready, NEW done \in Nat, record + done <= Records,
           Fails(InBuffer + done * BlockSize),
           record' = record + done, buffer_pos' = BlockSize, buffer' = buffer
    PROVE  IInv' /\ Stream!Fail
<1>1. InBuffer \in 0 .. BlockSize /\ done * BlockSize \in Nat /\ record \in Nat
    BY Place, Product DEF IInv, TypeOK
<1>2. position' \in Nat /\ faults' \in 0 .. MaxFaults
      /\ out' = [ret |-> -1, data |-> <<>>]
    BY <1>1 DEF Fails, IInv, TypeOK
<1>3. IInv' /\ Pos' = record' * BlockSize
    BY <1>1, <1>2, Emptied DEF Ready
<1>4. Pos' \in Pos .. Size
  <2>1. record' * BlockSize = record * BlockSize + done * BlockSize
        /\ record' * BlockSize <= Records * BlockSize
        /\ Records * BlockSize \in Int
      BY <1>1, Product
  <2> QED BY <1>1, <1>3, <2>1, Place, TapeSize
<1> QED BY <1>2, <1>3, <1>4 DEF Stream!Fail, Pos

(* The loop over the records reads as many as the request and the tape have. *)
LEMMA Whole ==
    ASSUME FullRecords, IInv, NEW length \in Nat, length > InBuffer,
           NEW whole, whole = Lesser(Wanted(length), Records - record)
    PROVE  /\ whole \in Nat /\ whole * BlockSize \in Nat
           /\ record + whole \in 0 .. Records
           /\ (record + whole) * BlockSize = record * BlockSize + whole * BlockSize
           /\ Lesser(whole * BlockSize, Size - record * BlockSize) = whole * BlockSize
           /\ InBuffer + whole * BlockSize <= length
           /\ record + whole < Records => length < InBuffer + whole * BlockSize + BlockSize
<1>1. record \in 0 .. Records /\ record * BlockSize \in Nat /\ InBuffer \in 0 .. BlockSize
    BY Place DEF IInv, TypeOK
<1>2. /\ Wanted(length) \in Nat /\ Wanted(length) * BlockSize \in Nat
      /\ InBuffer + Wanted(length) * BlockSize <= length
      /\ length < InBuffer + Wanted(length) * BlockSize + BlockSize
    BY Split
<1>3. /\ whole \in Nat /\ record + whole \in 0 .. Records /\ whole <= Wanted(length)
      /\ record + whole < Records => whole = Wanted(length)
    BY <1>1, <1>2 DEF Lesser
<1>4. whole * BlockSize \in Nat
      /\ whole * BlockSize <= Wanted(length) * BlockSize
      /\ (record + whole) * BlockSize = record * BlockSize + whole * BlockSize
    BY <1>1, <1>2, <1>3, Product
<1>5. (record + whole) * BlockSize <= Size
    BY <1>3, Passed
<1>6. Lesser(whole * BlockSize, Size - record * BlockSize) = whole * BlockSize
    BY <1>1, <1>4, <1>5, TapeSize DEF Lesser
<1> QED BY <1>1, <1>2, <1>3, <1>4, <1>6

LEMMA ReadRecordsStep ==
    ASSUME FullRecords, IInv, Ready, NEW length \in 1 .. MaxAsk, ReadRecords(length)
    PROVE  IInv' /\ (Stream!Read \/ Stream!Fail)
<1> DEFINE whole == Lesser(Wanted(length), Records - record)
           middle == Lesser(whole * BlockSize, Size - record * BlockSize)
           got == InBuffer + middle
           rest == length - got
<1>1. /\ InBuffer \in 0 .. BlockSize /\ record \in 0 .. Records
      /\ record * BlockSize \in Nat /\ At \in Nat
      /\ position = At /\ Pos = At /\ At = record * BlockSize - InBuffer
      /\ length > InBuffer /\ length \in Nat /\ faults \in 0 .. MaxFaults
    BY Place DEF ReadRecords, IInv, TypeOK, PositionOK
<1>2. /\ whole \in Nat /\ whole * BlockSize \in Nat
      /\ record + whole \in 0 .. Records
      /\ (record + whole) * BlockSize = record * BlockSize + whole * BlockSize
      /\ middle = whole * BlockSize
      /\ got <= length
      /\ record + whole < Records => length < got + BlockSize
    BY <1>1, Whole
<1>3. (record + whole) * BlockSize <= Size /\ Size \in Nat
    BY <1>2, Passed, TapeSize
<1>4. Front(InBuffer) \o Middle(middle) = Stream!Bytes(At, got)
  <2>1. Front(InBuffer) = Stream!Bytes(At, InBuffer)
      BY <1>1, BufferBytes
  <2>2. Middle(middle) = Stream!Bytes(At + InBuffer, middle)
      BY <1>2, MiddleBytes
  <2>3. InBuffer \in Nat /\ middle \in Nat /\ At \in Int
      BY <1>1, <1>2
  <2> HIDE DEF middle
  <2>4. Stream!Bytes(At, InBuffer) \o Stream!Bytes(At + InBuffer, middle)
          = Stream!Bytes(At, InBuffer + middle)
      BY <2>3, BytesJoin
  <2> QED BY <2>1, <2>2, <2>4, Zenon
<1>5. got \in Nat /\ rest \in Nat /\ At + got = (record + whole) * BlockSize
    BY <1>1, <1>2
<1>6. \/ /\ rest = 0
         /\ out' = [ret |-> length, data |-> Front(InBuffer) \o Middle(middle)]
         /\ record' = record + whole
         /\ position' = position + got
         /\ buffer_pos' = BlockSize
         /\ UNCHANGED <<buffer, faults>>
      \/ /\ rest > 0 /\ record + whole = Records
         /\ out' = [ret |-> got, data |-> Front(InBuffer) \o Middle(middle)]
         /\ record' = Records
         /\ position' = position + got
         /\ buffer_pos' = BlockSize
         /\ UNCHANGED <<buffer, faults>>
      \/ /\ rest > 0 /\ record + whole < Records
         /\ buffer' = Load(record + whole + 1)
         /\ out' = [ret |-> length,
                    data |-> Front(InBuffer) \o Middle(middle) \o SubSeq(buffer', 1, rest)]
         /\ record' = record + whole + 1
         /\ position' = position + length
         /\ buffer_pos' = rest
         /\ UNCHANGED faults
      \/ \E done \in 0 .. whole :
            /\ Fails(InBuffer + done * BlockSize)
            /\ record' = record + done
            /\ buffer_pos' = BlockSize
            /\ UNCHANGED buffer
    BY DEF ReadRecords, After
<1> HIDE DEF whole, middle, got, rest
<1>7. CASE /\ rest = 0 \/ record + whole = Records
           /\ out' = [ret |-> got, data |-> Front(InBuffer) \o Middle(middle)]
           /\ record' = record + whole
           /\ position' = position + got
           /\ buffer_pos' = BlockSize
           /\ UNCHANGED <<buffer, faults>>
  <2>1. position' = record' * BlockSize /\ position' \in Nat
      BY <1>1, <1>2, <1>3, <1>5, <1>7
  <2>2. IInv' /\ Pos' = Pos + got
      BY <1>1, <1>2, <1>5, <1>7, <2>1, Emptied
  <2>3. out' = [ret |-> got, data |-> Stream!Bytes(Pos, got)]
      BY <1>1, <1>4, <1>7
  <2>4. got < length => Pos + got >= Size
      BY <1>1, <1>2, <1>5, <1>7, TapeSize DEF rest
  <2>5. got \in 0 .. length /\ Pos + got <= Size
      BY <1>1, <1>2, <1>3, <1>5
  <2> QED BY <2>2, <2>3, <2>4, <2>5 DEF Stream!Read, Pos
<1>8. CASE /\ rest > 0 /\ record + whole < Records
           /\ buffer' = Load(record + whole + 1)
           /\ out' = [ret |-> length,
                      data |-> Front(InBuffer) \o Middle(middle) \o SubSeq(buffer', 1, rest)]
           /\ record' = record + whole + 1
           /\ position' = position + length
           /\ buffer_pos' = rest
           /\ UNCHANGED faults
  <2>1. rest \in 1 .. BlockSize /\ got + rest = length
      BY <1>1, <1>2, <1>5, <1>8 DEF rest
  <2>2. record + whole + 1 \in 1 .. Records
      BY <1>2, <1>8
  <2>3. /\ (record + whole + 1) * BlockSize = (record + whole) * BlockSize + BlockSize
        /\ (record + whole + 1) * BlockSize <= Size
    <3> DEFINE r == record + whole + 1
    <3>1. r \in 0 .. Records /\ r - 1 = record + whole
        BY <1>2, <2>2
    <3> HIDE DEF r
    <3>2. r * BlockSize = (r - 1) * BlockSize + BlockSize /\ r * BlockSize <= Size
        BY <3>1, Product, Passed
    <3> QED BY <3>1, <3>2 DEF r
  <2>4. SubSeq(buffer', 1, rest) = Stream!Bytes(At + got, rest)
    <3> DEFINE r == record + whole + 1
    <3>1. r \in 1 .. Records /\ buffer' = Load(r) /\ (r - 1) = record + whole
        BY <1>2, <1>8, <2>2
    <3> HIDE DEF r
    <3>2. buffer' \in [1 .. BlockSize -> Int]
          /\ \A j \in 1 .. BlockSize : buffer'[j] = (r - 1) * BlockSize + j - 1
        BY <3>1, Loaded
    <3>3. \A j \in 1 .. BlockSize : buffer'[j] = At + got + j - 1
        BY <1>5, <3>1, <3>2
    <3>4. At + got \in Int /\ rest \in 0 .. BlockSize
        BY <1>1, <1>5, <2>1
    <3> QED BY <3>2, <3>3, <3>4, SubSeqIs, Zenon
  <2>5. out' = [ret |-> length, data |-> Stream!Bytes(Pos, length)]
    <3>1. At \in Int /\ got \in Nat /\ rest \in Nat
        BY <1>1, <1>5
    <3>2. Stream!Bytes(At, got) \o Stream!Bytes(At + got, rest) = Stream!Bytes(At, got + rest)
        BY <3>1, BytesJoin
    <3>3. out' = [ret |-> length, data |-> Stream!Bytes(At, got) \o Stream!Bytes(At + got, rest)]
        BY <1>4, <1>8, <2>4
    <3> QED BY <1>1, <2>1, <3>2, <3>3
  <2>6. position' = record' * BlockSize - (BlockSize - buffer_pos') /\ position' \in Nat
    <3>1. record' * BlockSize = At + got + BlockSize
        BY <1>5, <1>8, <2>3
    <3>2. position' = At + length /\ buffer_pos' = rest
        BY <1>1, <1>8
    <3> QED BY <1>1, <1>5, <2>1, <3>1, <3>2
  <2>7. IInv' /\ Pos' = position'
    <3>1. record' \in 1 .. Records /\ buffer' = Load(record') /\ faults' \in 0 .. MaxFaults
        BY <1>1, <1>8, <2>2
    <3>2. buffer_pos' \in 0 .. BlockSize /\ out'.ret \in Nat
        BY <1>1, <1>8, <2>1
    <3> QED BY <2>6, <3>1, <3>2, Reloaded
  <2>8. Pos + length <= Size
      BY <1>1, <1>3, <1>5, <2>1, <2>3
  <2>9. Pos' = Pos + length
      BY <1>1, <1>8, <2>7
  <2> QED BY <2>5, <2>7, <2>8, <2>9, WholeAnswer
<1>9. CASE \E done \in 0 .. whole :
            /\ Fails(InBuffer + done * BlockSize)
            /\ record' = record + done
            /\ buffer_pos' = BlockSize
            /\ UNCHANGED buffer
  <2> PICK done \in 0 .. whole :
            /\ Fails(InBuffer + done * BlockSize)
            /\ record' = record + done
            /\ buffer_pos' = BlockSize
            /\ UNCHANGED buffer
      BY <1>9
  <2>1. done \in Nat /\ record + done <= Records
      BY <1>1, <1>2
  <2> QED BY <2>1, FailStep
<1>10. rest = 0 => got = length
    BY <1>1, <1>5 DEF rest
<1> QED BY <1>6, <1>7, <1>8, <1>9, <1>10

LEMMA SkipRecordsStep ==
    ASSUME FullRecords, IInv, Ready, NEW offset \in 0 .. MaxAsk, SkipRecords(offset)
    PROVE  IInv' /\ (Stream!Forward \/ Stream!Fail)
<1> DEFINE whole == Wanted(offset)
           got == InBuffer + whole * BlockSize
           rest == offset - got
           partly == rest > 0 /\ record + whole < Records
<1>1. /\ InBuffer \in 0 .. BlockSize /\ record \in 0 .. Records
      /\ record * BlockSize \in Nat /\ At \in Nat /\ At <= Size
      /\ position = At /\ Pos = At /\ At = record * BlockSize - InBuffer
      /\ offset > InBuffer /\ offset \in Nat /\ faults \in 0 .. MaxFaults
    BY Place DEF SkipRecords, IInv, TypeOK, PositionOK
<1>2. /\ whole \in Nat /\ whole * BlockSize \in Nat
      /\ got <= offset /\ offset < got + BlockSize
    BY <1>1, Split
<1>3. got \in Nat /\ rest \in 0 .. BlockSize /\ got + rest = offset
      /\ (record + whole) * BlockSize = record * BlockSize + whole * BlockSize
      /\ At + got = (record + whole) * BlockSize
    BY <1>1, <1>2, Product
<1>4. \/ /\ record + whole <= Records
         /\ record' = record + whole + (IF partly THEN 1 ELSE 0)
         /\ IF partly
            THEN /\ buffer' = Load(record')
                 /\ buffer_pos' = rest
                 /\ position' = position + offset
            ELSE /\ buffer_pos' = BlockSize
                 /\ position' = position + got
                 /\ UNCHANGED buffer
         /\ out' = [ret |-> position', data |-> <<-1>>]
         /\ UNCHANGED faults
      \/ /\ record + whole > Records
         /\ record' = Records
         /\ buffer_pos' = BlockSize
         /\ position' = position + InBuffer
                        + ((Records - record) \div MaxSpace) * MaxSpace * BlockSize
         /\ out' = [ret |-> -1, data |-> <<>>]
         /\ UNCHANGED <<buffer, faults>>
      \/ \E done \in 0 .. whole :
            /\ record + done <= Records
            /\ Fails(InBuffer + done * BlockSize)
            /\ record' = record + done
            /\ buffer_pos' = BlockSize
            /\ UNCHANGED buffer
    BY DEF SkipRecords
<1> HIDE DEF whole, got, rest, partly
<1>5. CASE /\ ~partly /\ record + whole <= Records
           /\ record' = record + whole
           /\ buffer_pos' = BlockSize
           /\ position' = position + got
           /\ UNCHANGED <<buffer, faults>>
           /\ out' = [ret |-> position', data |-> <<-1>>]
  <2>1. record' \in 0 .. Records /\ position' \in Nat
        /\ position' = (record + whole) * BlockSize
      BY <1>1, <1>2, <1>3, <1>5
  <2>2. position' = record' * BlockSize
      BY <1>5, <2>1, Zenon
  <2>3. IInv' /\ Pos' = record' * BlockSize
      BY <1>1, <1>5, <2>1, <2>2, Emptied
  <2>4. Pos' = position' /\ Pos' = Pos + got /\ Pos \in Nat
      BY <1>1, <1>5, <2>2, <2>3
  <2>5. Pos' < Pos + offset => Pos' >= Size
    <3>1. record + whole = Records => Pos' = Size
        BY <2>1, <2>4, TapeSize
    <3>2. rest = 0 => got = offset
        BY <1>1, <1>3
    <3> QED BY <1>1, <1>2, <1>3, <1>5, <2>4, <3>1, <3>2, TapeSize DEF partly
  <2>6. Pos' \in Pos .. Pos + offset
      BY <1>1, <1>2, <1>3, <2>4
  <2> QED BY <1>5, <2>3, <2>4, <2>5, <2>6, Moved
<1>6. CASE /\ partly
           /\ record' = record + whole + 1
           /\ buffer' = Load(record')
           /\ buffer_pos' = rest
           /\ position' = position + offset
           /\ out' = [ret |-> position', data |-> <<-1>>]
           /\ UNCHANGED faults
  <2> DEFINE r == record + whole + 1
  <2>1. r \in 1 .. Records /\ r - 1 = record + whole /\ r \in 0 .. Records
      BY <1>1, <1>2, <1>6 DEF partly
  <2>2. record' = r
      BY <1>6
  <2> HIDE DEF r
  <2>3. r * BlockSize = (r - 1) * BlockSize + BlockSize
      BY <2>1, Product
  <2>4. r * BlockSize = At + got + BlockSize
      BY <1>3, <2>1, <2>3
  <2>5. record' * BlockSize = At + got + BlockSize
      BY <2>2, <2>4, Zenon
  <2>6. position' = record' * BlockSize - (BlockSize - buffer_pos') /\ position' \in Nat
    <3>1. position' = At + offset /\ buffer_pos' = rest
        BY <1>1, <1>6
    <3> QED BY <1>1, <1>3, <2>5, <3>1
  <2>7. IInv' /\ Pos' = position'
    <3>1. record' \in 1 .. Records /\ buffer' = Load(record') /\ faults' \in 0 .. MaxFaults
        BY <1>1, <1>6, <2>1, <2>2
    <3>2. buffer_pos' \in 0 .. BlockSize /\ out'.ret \in Nat
        BY <1>3, <1>6, <2>6
    <3> QED BY <2>6, <3>1, <3>2, Reloaded
  <2>8. Pos' = Pos + offset
      BY <1>1, <1>6, <2>7
  <2> QED BY <1>1, <1>6, <2>7, <2>8, Moved
<1>7. CASE /\ record + whole > Records
           /\ record' = Records
           /\ buffer_pos' = BlockSize
           /\ position' = position + InBuffer
                          + ((Records - record) \div MaxSpace) * MaxSpace * BlockSize
           /\ out' = [ret |-> -1, data |-> <<>>]
           /\ UNCHANGED <<buffer, faults>>
  <2>1. ((Records - record) \div MaxSpace) * MaxSpace * BlockSize \in Nat
    <3>1. (Records - record) \div MaxSpace \in Nat
        BY <1>1, Division
    <3>2. ((Records - record) \div MaxSpace) * MaxSpace \in Nat
        BY <3>1, Product
    <3> QED BY <3>2, Product
  <2>2. position' \in Nat
      BY <1>1, <1>7, <2>1
  <2>3. IInv' /\ Pos' = record' * BlockSize
      BY <1>1, <1>7, <2>2, Emptied DEF Ready
  <2>4. Pos' = Size
      BY <1>7, <2>3, TapeSize, Zenon
  <2> QED BY <1>1, <1>7, <2>3, <2>4, TapeSize DEF Stream!Fail, Pos
<1>8. CASE \E done \in 0 .. whole :
            /\ record + done <= Records
            /\ Fails(InBuffer + done * BlockSize)
            /\ record' = record + done
            /\ buffer_pos' = BlockSize
            /\ UNCHANGED buffer
    BY <1>2, <1>8, FailStep
<1> QED BY <1>1, <1>2, <1>4, <1>5, <1>6, <1>7, <1>8

----------------------------------------------------------------------------
(* For tapes of full records: the buffer holds the end of the record the     *)
(* drive has passed last, and while calls succeed the position that is       *)
(* reported is that of the next byte (reader.c:100-219).                     *)
THEOREM Inductive == ASSUME FullRecords PROVE Spec => []IInv
<1>1. Init => IInv
  <2> SUFFICES ASSUME Init PROVE IInv OBVIOUS
  <2>1. InBuffer = 0
      BY DEF Init, InBuffer
  <2>2. TypeOK
      BY DEF Init, TypeOK
  <2>3. BufferOK
      BY <2>1 DEF BufferOK
  <2>4. PositionOK
      BY <2>1, Product DEF Init, PositionOK
  <2> QED BY <2>2, <2>3, <2>4 DEF IInv
<1>2. IInv /\ [Next]_vars => IInv'
  <2> SUFFICES ASSUME IInv, [Next]_vars PROVE IInv' OBVIOUS
  <2>1. CASE UNCHANGED vars
      BY <2>1, Unchanged
  <2>2. CASE Read
      BY <2>2, ReadBufferStep, ReadRecordsStep DEF Read
  <2>3. CASE Forward
      BY <2>3, SkipBufferStep, SkipRecordsStep DEF Forward
  <2>4. CASE Stopped
      BY <2>4, Unchanged DEF Stopped
  <2> QED BY <2>1, <2>2, <2>3, <2>4 DEF Next
<1> QED BY <1>1, <1>2, PTL DEF Spec

(* A tape the writer made is a stream that is read in order, through any     *)
(* mix of reading and spacing and any calls that fail: IsStream of           *)
(* TapeReader.                                                               *)
THEOREM Refines == ASSUME FullRecords PROVE Spec => IsStream
<1>1. Init => Stream!Init
    BY DEF Init, Stream!Init, Stream!NoAnswer, Ready
<1>2. IInv /\ [Next]_vars => [Stream!Next]_<<FALSE, Pos, out>>
  <2> SUFFICES ASSUME IInv, [Next]_vars
               PROVE  [Stream!Next]_<<FALSE, Pos, out>>
      OBVIOUS
  <2>1. CASE UNCHANGED vars
      BY <2>1, Unchanged
  <2>2. CASE Read
      BY <2>2, ReadBufferStep, ReadRecordsStep DEF Read, Stream!Next
  <2>3. CASE Forward
      BY <2>3, SkipBufferStep, SkipRecordsStep DEF Forward, Stream!Next
  <2>4. CASE Stopped
      BY <2>4, Unchanged DEF Stopped
  <2> QED BY <2>1, <2>2, <2>3, <2>4 DEF Next
<1> QED BY <1>1, <1>2, Inductive, PTL DEF Spec, IsStream, Stream!Spec, Pos
=============================================================================
