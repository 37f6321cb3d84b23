------------------------- MODULE FormatDetectProofs -------------------------
(***************************************************************************)
(* For every size of stream, block, request and pipe buffer: reading        *)
(* through the format detection is reading a stream in order.  And the mtf  *)
(* reader, which reads so, finds all there is in an archive that is whole.  *)
(***************************************************************************)
EXTENDS MtfReader, FiniteSetTheorems, TLAPS

(* While there is a buffer, the reader is behind it and not past the end,   *)
(* where only lseek on a file of unknown size gets.                         *)
Ahead == (buffered => position <= Size) /\ (position > Size => ~pipe /\ volume_size = 0)

IInv == TypeOK /\ BufferOK /\ Ahead

USE StreamAssumption, DetectAssumption DEF StreamAssumption, DetectAssumption

(* What a read of the io layer can return: some of what is left, all of it  *)
(* unless the stream is a pipe, or an error.                                *)
LEMMA ReadRange ==
    ASSUME TypeOK, NEW length \in Nat \ {0}, NEW n \in StreamReads(length)
    PROVE  /\ n \in Int /\ n >= -1 /\ n <= length
           /\ n > 0 => position + n <= Size
           /\ n >= 0 /\ n < length => position + n >= Size \/ (pipe /\ n > 0)
           /\ n < 0 => faults < MaxFaults
BY DEF TypeOK, StreamReads, Lesser, Rest, Failing

(* Where a skip of the io layer can end: where it was told to, at the end   *)
(* of the stream, or, when it fails, not behind it.                         *)
LEMMA ForwardRange ==
    ASSUME TypeOK, position > Size => ~pipe /\ volume_size = 0,
           NEW offset \in Nat, NEW r \in StreamForwards(offset)
    PROVE  /\ r.to \in position .. position + offset
           /\ r.to > Size => ~pipe /\ volume_size = 0
           /\ r.ret >= 0 => r.ret = r.to /\ (r.to < position + offset => r.to >= Size)
           /\ r.ret < 0 => /\ r.ret = -1 /\ faults < MaxFaults
                           /\ r.to = position \/ r.to <= Size
           /\ r.ret \in Int
<1>1. CASE pipe
  <2>1. CASE r = [to |-> position + Lesser(offset, Rest), ret |-> position + Lesser(offset, Rest)]
    BY <2>1 DEF TypeOK, Lesser, Rest
  <2>2. CASE /\ faults < MaxFaults /\ offset > 0
             /\ r \in [to : position .. position + Lesser(offset - 1, Rest), ret : {-1}]
    BY <2>2 DEF TypeOK, Lesser, Rest
  <2> QED BY <1>1, <2>1, <2>2 DEF StreamForwards, Failing
<1>2. CASE ~pipe
  <2>1. CASE \E e \in {IF volume_size > 0 /\ volume_size < position + offset THEN Size
                       ELSE position + offset} : r = [to |-> e, ret |-> e]
    BY <1>2, <2>1 DEF TypeOK
  <2>2. CASE faults < MaxFaults /\ r = [to |-> position, ret |-> -1]
    BY <2>2 DEF TypeOK
  <2> QED BY <1>2, <2>1, <2>2 DEF StreamForwards, Failing
<1> QED BY <1>1, <1>2 DEF TypeOK

(* Two runs of bytes that follow each other are one.                        *)
LEMMA BytesJoin ==
    ASSUME NEW from \in Int, NEW m \in Nat, NEW n \in Nat
    PROVE  Stream!Bytes(from, m) \o Stream!Bytes(from + m, n) = Stream!Bytes(from, m + n)
BY DEF Stream!Bytes

----------------------------------------------------------------------------
(* The invariant. *)

LEMMA DetectKeeps == ASSUME IInv, Detect PROVE IInv'
<1> PICK n \in StreamReads(BlockSize) : n > 0 /\ StreamRead(n) /\ buffer_size' = n
    BY DEF Detect
<1> n \in Int /\ n <= BlockSize /\ position + n <= Size
    BY ReadRange DEF IInv
<1> QED BY DEF IInv, TypeOK, BufferOK, Ahead, Detect, StreamRead

LEMMA ReadKeeps ==
    ASSUME IInv, detected, NEW length \in Nat \ {0}, ReadOf(length)
    PROVE  IInv'
<1> ReadBuffer(length) \/ ReadBoth(length) \/ ReadThrough(length)
    BY DEF ReadOf
<1>1. CASE ReadBuffer(length)
  <2>1. out' = [ret |-> length, data |-> Buffered(length)] /\ UNCHANGED streamVars
        /\ buffered /\ length <= Available
      BY <1>1 DEF ReadBuffer
  <2>2. out'.ret \in Nat \cup {-2, -1}
      BY <2>1
  <2>3. CASE length = Available
    <3>1. detected' /\ ~buffered' /\ UNCHANGED <<buffer_size, buffer_pos>>
        BY <1>1, <2>3, Zenon DEF ReadBuffer, Drop
    <3>2. detected' \in BOOLEAN /\ buffered' \in BOOLEAN
        BY <1>1, <2>3 DEF ReadBuffer, Drop, IInv, TypeOK
    <3> QED BY <2>1, <2>2, <3>1, <3>2 DEF IInv, TypeOK, BufferOK, Ahead, streamVars
  <2>4. CASE length # Available
      BY <1>1, <2>1, <2>2, <2>4 DEF ReadBuffer, Take, Available, IInv, TypeOK, BufferOK, Ahead, streamVars
  <2> QED BY <2>3, <2>4
<1>2. CASE ReadBoth(length)
  <2> PICK n \in StreamReads(length - Available) :
         /\ StreamRead(n)
         /\ IF n < 0
            THEN out' = [ret |-> n, data |-> <<>>] /\ UNCHANGED detectVars
            ELSE /\ out' = [ret |-> n + Available,
                            data |-> Buffered(Available) \o StreamBytes(n)]
                 /\ Drop
      BY <1>2 DEF ReadBoth
  <2>1. length - Available \in Nat \ {0} /\ Available \in Nat
      BY <1>2 DEF ReadBoth, IInv, TypeOK, Available
  <2>2. n \in Int /\ n >= -1 /\ (n < 0 => faults < MaxFaults)
      BY <2>1, ReadRange DEF IInv
  <2>3. CASE n < 0
      BY <2>2, <2>3 DEF StreamRead, detectVars, IInv, TypeOK, BufferOK, Ahead
  <2>4. CASE n >= 0
    <3>1. out' = [ret |-> n + Available, data |-> Buffered(Available) \o StreamBytes(n)] /\ Drop
        BY <2>2, <2>4
    <3>2. out'.ret \in Nat \cup {-2, -1}
        BY <2>1, <2>2, <2>4, <3>1
    <3>3. detected' /\ ~buffered' /\ UNCHANGED <<buffer_size, buffer_pos>>
        BY <3>1, Zenon DEF Drop
    <3>4. position' \in Nat /\ faults' \in 0 .. MaxFaults /\ UNCHANGED <<pipe, volume_size>>
        BY <2>2, <2>4 DEF StreamRead, IInv, TypeOK
    <3>5. detected' \in BOOLEAN /\ buffered' \in BOOLEAN
        BY <3>1 DEF Drop, IInv, TypeOK
    <3>6. position' > Size => position' = position
        BY <2>1, <2>2, <2>4, ReadRange DEF StreamRead, IInv, TypeOK
    <3> QED BY <3>2, <3>3, <3>4, <3>5, <3>6 DEF IInv, TypeOK, BufferOK, Ahead
  <2> QED BY <2>2, <2>3, <2>4
<1>3. CASE ReadThrough(length)
  <2> PICK n \in StreamReads(length) :
         StreamRead(n) /\ out' = [ret |-> n, data |-> StreamBytes(n)]
      BY <1>3 DEF ReadThrough
  <2>1. n \in Int /\ n >= -1 /\ (n < 0 => faults < MaxFaults) /\ (n > 0 => position + n <= Size)
      BY ReadRange DEF IInv
  <2>2. detected' /\ ~buffered' /\ UNCHANGED <<buffer_size, buffer_pos>>
      BY <1>3, Zenon DEF ReadThrough, detectVars
  <2>3. detected' \in BOOLEAN /\ buffered' \in BOOLEAN
      BY <1>3 DEF ReadThrough, detectVars, IInv, TypeOK
  <2>4. position' \in Nat /\ faults' \in 0 .. MaxFaults /\ UNCHANGED <<pipe, volume_size>>
      BY <2>1 DEF StreamRead, IInv, TypeOK
  <2>5. out'.ret \in Nat \cup {-2, -1}
      BY <2>1
  <2>6. position' > Size => position' = position
      BY <2>1 DEF StreamRead, IInv, TypeOK
  <2> QED BY <2>2, <2>3, <2>4, <2>5, <2>6 DEF IInv, TypeOK, BufferOK, Ahead
<1> QED BY <1>1, <1>2, <1>3

LEMMA ForwardKeeps ==
    ASSUME IInv, detected, NEW offset \in Nat, ForwardOf(offset)
    PROVE  IInv'
<1>      \/ /\ buffered /\ offset < Available
            /\ Take(offset)
            /\ out' = [ret |-> buffer_pos + offset, data |-> <<-1>>]
            /\ UNCHANGED streamVars
         \/ /\ ~buffered \/ offset >= Available
            /\ \E r \in StreamForwards(Beyond(offset)) :
                 /\ StreamForward(r)
                 /\ out' = [ret |-> r.ret, data |-> <<-1>>]
            /\ IF buffered THEN Drop ELSE UNCHANGED detectVars
    BY DEF ForwardOf
<1>1. CASE /\ buffered /\ offset < Available
           /\ Take(offset)
           /\ out' = [ret |-> buffer_pos + offset, data |-> <<-1>>]
           /\ UNCHANGED streamVars
    BY <1>1 DEF Take, Available, streamVars, IInv, TypeOK, BufferOK, Ahead
<1>2. CASE /\ ~buffered \/ offset >= Available
           /\ \E r \in StreamForwards(Beyond(offset)) :
                 /\ StreamForward(r)
                 /\ out' = [ret |-> r.ret, data |-> <<-1>>]
           /\ IF buffered THEN Drop ELSE UNCHANGED detectVars
  <2> PICK r \in StreamForwards(Beyond(offset)) :
         StreamForward(r) /\ out' = [ret |-> r.ret, data |-> <<-1>>]
      BY <1>2
  <2>1. Beyond(offset) \in Nat
      BY <1>2 DEF Beyond, Available, IInv, TypeOK
  <2>2. /\ r.to \in Nat /\ r.ret \in Nat \cup {-1}
        /\ r.ret < 0 => faults < MaxFaults
        /\ r.to > Size => ~pipe /\ volume_size = 0
      BY <2>1, ForwardRange DEF IInv, Ahead, TypeOK
  <2>3. out'.ret \in Nat \cup {-2, -1}
      BY <2>2
  <2>4. position' \in Nat /\ faults' \in 0 .. MaxFaults /\ UNCHANGED <<pipe, volume_size>>
      BY <2>2 DEF StreamForward, IInv, TypeOK
  <2>5. detected' /\ ~buffered' /\ UNCHANGED <<buffer_size, buffer_pos>>
      BY <1>2, Zenon DEF Drop, detectVars
  <2>6. detected' \in BOOLEAN /\ buffered' \in BOOLEAN
      BY <1>2 DEF Drop, detectVars, IInv, TypeOK
  <2>7. position' = r.to
      BY DEF StreamForward
  <2> QED BY <2>2, <2>3, <2>4, <2>5, <2>6, <2>7 DEF IInv, TypeOK, BufferOK, Ahead
<1> QED BY <1>1, <1>2

LEMMA InitTypes == ASSUME Init PROVE IInv
<1>1. out.ret \in Nat \cup {-2, -1}
    BY DEF Init, Nothing
<1>2. pipe \in BOOLEAN /\ volume_size \in {0, Size}
    BY DEF Init, StreamInit
<1>3. ~detected /\ ~buffered
    BY Zenon DEF Init
<1>4. detected \in BOOLEAN /\ buffered \in BOOLEAN
    BY DEF Init
<1>5. /\ position = 0 /\ faults = 0 /\ buffer_size = 0 /\ buffer_pos = 0
    BY DEF Init, StreamInit
<1> QED BY <1>1, <1>2, <1>3, <1>4, <1>5 DEF IInv, TypeOK, BufferOK, Ahead

(* The invariant: types, the buffer lies in front of the reader and is not  *)
(* empty.                                                                   *)
THEOREM Inductive == Spec => []IInv
<1>1. Init => IInv
  BY InitTypes
<1>2. IInv /\ [Next]_vars => IInv'
  <2> SUFFICES ASSUME IInv, [Next]_vars PROVE IInv' OBVIOUS
  <2>1. CASE UNCHANGED vars
      BY <2>1 DEF vars, streamVars, detectVars, IInv, TypeOK, BufferOK, Ahead
  <2>2. CASE Read
      BY <2>2, ReadKeeps DEF Read
  <2>3. CASE Forward
      BY <2>3, ForwardKeeps DEF Forward
  <2> QED BY <2>1, <2>2, <2>3, DetectKeeps DEF Next
<1> QED BY <1>1, <1>2, PTL DEF Spec

----------------------------------------------------------------------------
(* What calls do. *)

(* A read gives the next bytes, less than asked for at the end or, from a   *)
(* pipe, or it fails.                                                       *)
Got(length, n) ==
    /\ n > 0 => Position + n <= Size
    /\ n < length => Position + n >= Size \/ (pipe /\ n > 0)
    /\ out' = [ret |-> n, data |-> Stream!Bytes(Position, n)]
    /\ Position' = Position + n
    /\ UNCHANGED <<pipe, faults>>

ReadFails ==
    /\ out' = [ret |-> -1, data |-> <<>>]
    /\ faults' = faults + 1
    /\ UNCHANGED <<pipe, Position>>

(* A forward skips all of it, at the end of the stream perhaps less.        *)
Moved(offset) ==
    /\ Position' \in Position .. Position + offset
    /\ Position' < Position + offset => Position' >= Size
    /\ out' = [ret |-> Position', data |-> Stream!Skipped]
    /\ UNCHANGED <<pipe, faults>>

MoveFails ==
    /\ Position' = Position \/ Position' \in Position .. Size
    /\ out' = [ret |-> -1, data |-> Stream!Skipped]
    /\ faults' = faults + 1
    /\ pipe' = pipe

LEMMA DetectRefines == ASSUME IInv, Detect PROVE UNCHANGED <<pipe, Position, out>>
<1> PICK n \in StreamReads(BlockSize) : StreamRead(n)
    BY DEF Detect
<1> QED BY DEF Detect, StreamRead, Position, IInv, BufferOK

LEMMA ReadGives ==
    ASSUME IInv, detected, NEW length \in Nat \ {0}, ReadOf(length)
    PROVE  ReadFails \/ \E n \in 0 .. length : Got(length, n)
<1> ReadBuffer(length) \/ ReadBoth(length) \/ ReadThrough(length)
    BY DEF ReadOf
<1> IInv'
    BY ReadKeeps
<1>1. CASE ReadBuffer(length)
  <2>1. out' = [ret |-> length, data |-> Stream!Bytes(Position, length)]
      BY <1>1 DEF ReadBuffer, Buffered, Stream!Bytes, Position
  <2>2. Position' = Position + length /\ Position + length <= Size
    <3>1. buffered /\ length <= Available /\ position' = position /\ Position = buffer_pos
        BY <1>1 DEF ReadBuffer, streamVars, Position
    <3>2. CASE length = Available
      <4>1. detected' /\ ~buffered'
          BY <1>1, <3>2, Zenon DEF ReadBuffer, Drop
      <4>2. Position' = position
          BY <3>1, <4>1 DEF Position
      <4> QED BY <3>1, <3>2, <4>2 DEF Available, IInv, TypeOK, BufferOK, Ahead
    <3>3. CASE length # Available
        BY <1>1, <3>1, <3>3 DEF ReadBuffer, Take, Available, Position,
                                IInv, TypeOK, BufferOK, Ahead
    <3> QED BY <3>2, <3>3
  <2>3. UNCHANGED <<pipe, faults>> /\ length \in 0 .. length
      BY <1>1 DEF ReadBuffer, streamVars
  <2> QED BY <2>1, <2>2, <2>3 DEF Got
<1>2. CASE ReadBoth(length)
  <2> PICK n \in StreamReads(length - Available) :
         /\ StreamRead(n)
         /\ IF n < 0
            THEN out' = [ret |-> n, data |-> <<>>] /\ UNCHANGED detectVars
            ELSE /\ out' = [ret |-> n + Available,
                            data |-> Buffered(Available) \o StreamBytes(n)]
                 /\ Drop
      BY <1>2 DEF ReadBoth
  <2>1. /\ length - Available \in Nat \ {0} /\ Available \in Nat /\ Available > 0
        /\ buffer_pos \in Nat /\ position = buffer_pos + Available /\ position <= Size
        /\ Position = buffer_pos
      BY <1>2 DEF ReadBoth, IInv, TypeOK, BufferOK, Ahead, Available, Position
  <2>2. /\ n \in Int /\ n >= -1 /\ n <= length - Available
        /\ n > 0 => position + n <= Size
        /\ n >= 0 /\ n < length - Available => position + n >= Size \/ (pipe /\ n > 0)
      BY <2>1, ReadRange DEF IInv
  <2>3. CASE n < 0
    <3>1. Position' = Position /\ out' = [ret |-> -1, data |-> <<>>]
        BY <1>2, <2>2, <2>3 DEF StreamRead, detectVars, ReadBoth, Position
    <3> QED BY <2>3, <3>1 DEF ReadFails, StreamRead
  <2>4. CASE n >= 0
    <3> DEFINE got == n + Available
    <3>1. Buffered(Available) \o StreamBytes(n) = Stream!Bytes(Position, got)
      <4>1. Buffered(Available) = Stream!Bytes(buffer_pos, Available)
          BY DEF Buffered, Stream!Bytes
      <4>2. StreamBytes(n) = Stream!Bytes(buffer_pos + Available, n)
          BY <2>1 DEF StreamBytes, Stream!Bytes
      <4>3. buffer_pos \in Int /\ n \in Nat
          BY <2>1, <2>2, <2>4
      <4>4. Stream!Bytes(buffer_pos, Available) \o Stream!Bytes(buffer_pos + Available, n)
              = Stream!Bytes(buffer_pos, Available + n)
          BY <4>3, <2>1, BytesJoin
      <4>5. Available + n = got /\ Position = buffer_pos
          BY <2>1, <4>3
      <4> QED BY <4>1, <4>2, <4>4, <4>5
    <3>2. out' = [ret |-> got, data |-> Stream!Bytes(Position, got)]
      <4>1. ~(n < 0)
          BY <2>2, <2>4
      <4> QED BY <3>1, <4>1
    <3>3. Position' = Position + got /\ UNCHANGED <<pipe, faults>>
      <4>0. ~(n < 0)
          BY <2>2, <2>4
      <4>1. detected' /\ ~buffered' /\ UNCHANGED <<pipe, faults>>
          BY <4>0, Zenon DEF Drop, StreamRead
      <4>2. position' = position + n
          BY <2>1, <2>2, <2>4 DEF StreamRead
      <4> QED BY <4>1, <4>2, <2>1, <2>2, <2>4 DEF Position
    <3>4. /\ got \in 0 .. length
          /\ Position + got <= Size
          /\ got < length => Position + got >= Size \/ (pipe /\ got > 0)
        BY <2>1, <2>2, <2>4
    <3> HIDE DEF got
    <3> QED BY <3>2, <3>3, <3>4 DEF Got
  <2> QED BY <2>2, <2>3, <2>4
<1>3. CASE ReadThrough(length)
  <2> PICK n \in StreamReads(length) :
         StreamRead(n) /\ out' = [ret |-> n, data |-> StreamBytes(n)]
      BY <1>3 DEF ReadThrough
  <2>1. /\ n \in Int /\ n >= -1 /\ n <= length
        /\ n > 0 => position + n <= Size
        /\ n >= 0 /\ n < length => position + n >= Size \/ (pipe /\ n > 0)
      BY ReadRange DEF IInv
  <2>2. Position = position /\ Position' = position' /\ pipe' = pipe /\ position \in Nat
      BY <1>3 DEF ReadThrough, detectVars, Position, StreamRead, IInv, TypeOK
  <2>3. CASE n < 0
    <3>1. StreamBytes(n) = <<>>
        BY <2>1, <2>3 DEF StreamBytes
    <3>2. Position' = Position /\ out' = [ret |-> -1, data |-> <<>>]
        BY <2>1, <2>2, <2>3, <3>1 DEF StreamRead
    <3> QED BY <2>2, <2>3, <3>2 DEF ReadFails, StreamRead
  <2>4. CASE n >= 0
    <3>1. out' = [ret |-> n, data |-> Stream!Bytes(Position, n)]
        BY <2>2 DEF StreamBytes, Stream!Bytes
    <3>2. Position' = Position + n /\ faults' = faults
        BY <2>1, <2>2, <2>4 DEF StreamRead
    <3> QED BY <2>1, <2>2, <2>4, <3>1, <3>2 DEF Got
  <2> QED BY <2>1, <2>3, <2>4
<1> QED BY <1>1, <1>2, <1>3

LEMMA ForwardGives ==
    ASSUME IInv, detected, NEW offset \in Nat, ForwardOf(offset)
    PROVE  Moved(offset) \/ MoveFails
<1>      \/ /\ buffered /\ offset < Available
            /\ Take(offset)
            /\ out' = [ret |-> buffer_pos + offset, data |-> <<-1>>]
            /\ UNCHANGED streamVars
         \/ /\ ~buffered \/ offset >= Available
            /\ \E r \in StreamForwards(Beyond(offset)) :
                 /\ StreamForward(r)
                 /\ out' = [ret |-> r.ret, data |-> <<-1>>]
            /\ IF buffered THEN Drop ELSE UNCHANGED detectVars
    BY DEF ForwardOf
<1>1. CASE /\ buffered /\ offset < Available
           /\ Take(offset)
           /\ out' = [ret |-> buffer_pos + offset, data |-> <<-1>>]
           /\ UNCHANGED streamVars
  <2>1. Position' = Position + offset /\ Position \in Nat /\ UNCHANGED <<pipe, faults>>
        /\ out' = [ret |-> Position', data |-> <<-1>>]
      BY <1>1 DEF Take, streamVars, Position, IInv, TypeOK
  <2> QED BY <2>1 DEF Moved, Stream!Skipped
<1>2. CASE /\ ~buffered \/ offset >= Available
           /\ \E r \in StreamForwards(Beyond(offset)) :
                 /\ StreamForward(r)
                 /\ out' = [ret |-> r.ret, data |-> <<-1>>]
           /\ IF buffered THEN Drop ELSE UNCHANGED detectVars
  <2> PICK r \in StreamForwards(Beyond(offset)) :
         StreamForward(r) /\ out' = [ret |-> r.ret, data |-> <<-1>>]
      BY <1>2
  <2>1. /\ Beyond(offset) \in Nat
        /\ position + Beyond(offset) = Position + offset
        /\ Position <= position /\ Position \in Nat /\ position \in Nat
      BY <1>2 DEF Beyond, Available, Position, IInv, TypeOK, BufferOK
  <2>2. Position' = r.to /\ pipe' = pipe
    <3>1. detected' /\ ~buffered'
        BY <1>2, Zenon DEF Drop, detectVars
    <3> QED BY <3>1 DEF StreamForward, Position
  <2>3. /\ r.to \in position .. Position + offset
        /\ r.ret >= 0 => r.ret = r.to /\ (r.to < Position + offset => r.to >= Size)
        /\ r.ret < 0 => r.ret = -1 /\ (r.to = Position \/ r.to <= Size)
        /\ r.ret \in Int
      <3>1. position > Size => position = Position
        <4>1. CASE buffered
            BY <4>1 DEF IInv, TypeOK, Ahead
        <4>2. CASE ~buffered
            BY <4>2 DEF Position
        <4> QED BY <4>1, <4>2
      <3> QED BY <2>1, <3>1, ForwardRange DEF IInv, Ahead
  <2>4. CASE r.ret >= 0
      BY <2>1, <2>2, <2>3, <2>4 DEF Moved, StreamForward, Stream!Skipped
  <2>5. CASE r.ret < 0
      BY <2>1, <2>2, <2>3, <2>5 DEF MoveFails, StreamForward, Stream!Skipped
  <2> QED BY <2>3, <2>4, <2>5
<1> QED BY <1>1, <1>2

----------------------------------------------------------------------------
(* The refinement. *)

LEMMA PositionType == ASSUME IInv PROVE Position \in Nat
BY DEF IInv, TypeOK, Position

LEMMA ReadRefines ==
    ASSUME IInv, detected, NEW length \in 1 .. MaxAsk, ReadOf(length)
    PROVE  Stream!Next
<1>1. ASSUME ReadFails PROVE Stream!Next
  BY <1>1 DEF ReadFails, Stream!Next, Stream!Fail
<1>2. ASSUME NEW n \in 0 .. length, Got(length, n) PROVE Stream!Next
  BY <1>2 DEF Got, Stream!Next, Stream!Read
<1> QED BY <1>1, <1>2, ReadGives

LEMMA ForwardRefines ==
    ASSUME IInv, detected, NEW offset \in 0 .. MaxAsk, ForwardOf(offset)
    PROVE  Stream!Next
<1>1. ASSUME MoveFails PROVE Stream!Next
  BY <1>1, PositionType DEF MoveFails, Stream!Next, Stream!Fail
<1>2. ASSUME Moved(offset) PROVE Stream!Next
  BY <1>2 DEF Moved, Stream!Next, Stream!Forward
<1> QED BY <1>1, <1>2, ForwardGives

LEMMA StreamBegins == ASSUME Init PROVE Stream!Init
BY DEF Init, StreamInit, Nothing, Stream!Init, Stream!NoAnswer, Position

(* A format that reads through the detection reads a stream in order:       *)
(* IsStream of FormatDetect, format_detect.c:109-183.                       *)
THEOREM Refines == Spec => IsStream
<1>1. Init => Stream!Init
  BY StreamBegins
<1>2. IInv /\ [Next]_vars => [Stream!Next]_<<pipe, Position, out>>
  <2> SUFFICES ASSUME IInv, [Next]_vars PROVE [Stream!Next]_<<pipe, Position, out>> OBVIOUS
  <2>1. CASE UNCHANGED vars
      BY <2>1 DEF vars, streamVars, detectVars, Position
  <2>2. CASE Read
      BY <2>2, ReadRefines DEF Read
  <2>3. CASE Forward
      BY <2>3, ForwardRefines DEF Forward
  <2> QED BY <2>1, <2>2, <2>3, DetectRefines DEF Next
<1> QED BY <1>1, <1>2, Inductive, PTL DEF Spec, IsStream, Stream!Spec
----------------------------------------------------------------------------
(* The mtf reader. *)

Kinds == Blocks \cup Streams \cup {"data"}
Units == [k : Kinds, id : Directories \cup {0}, len : 0 .. MaxAsk]

(* A client that reads this way asks for as much as a structure, a name or  *)
(* a stream is long: MaxAsk has to be no less.                              *)
AsksFit ==
    /\ BlockHead <= MaxAsk /\ DirbHead \in 1 .. MaxAsk /\ FileHead \in 1 .. MaxAsk
    /\ NameLength \in 1 .. MaxAsk /\ StreamHead <= MaxAsk
    /\ Boundary <= MaxAsk /\ StreamAlign <= MaxAsk
    /\ Archives \subseteq Seq(Units)

MtfTypes ==
    /\ archive \in Archives
    /\ format = "none" => step = "none"
    /\ format # "none" => detected
    /\ block \in Units /\ strm \in Units
    /\ counted \in Nat
    /\ step = "event" => counted < block.len
    /\ file_size \in 0 .. MaxAsk /\ file_offset \in 0 .. file_size

(* What a step does to the io layer. *)
Asks ==
    \/ UNCHANGED vars
    \/ \E length \in 1 .. MaxAsk : ReadOf(length)
    \/ \E offset \in 0 .. MaxAsk : ForwardOf(offset)

LEMMA Detected ==
    ASSUME detected, NEW n, ReadOf(n) \/ ForwardOf(n) \/ UNCHANGED vars
    PROVE  detected'
BY Zenon DEF ReadOf, ReadBuffer, ReadBoth, ReadThrough, ForwardOf, Drop, Take, detectVars, vars

LEMMA ModRange ==
    ASSUME NEW h \in Nat, NEW n \in Nat \ {0}
    PROVE  h % n \in 0 .. n - 1
OBVIOUS

LEMMA UnitOf ==
    ASSUME MtfAssumption, AsksFit, archive \in Archives, NEW j \in 1 .. Size
    PROVE  archive[j] \in Units
<1>1. archive \in Seq(Units) /\ Len(archive) = Size
  BY DEF MtfAssumption, AsksFit
<1> QED BY <1>1

(* The unit that was read is one of the archive.                            *)
LEMMA UnitRead ==
    ASSUME MtfAssumption, AsksFit, IInv, MtfTypes, detected,
           NEW length \in Nat \ {0}, ReadOf(length)
    PROVE  /\ out'.ret \in -1 .. length
           /\ out'.ret > 0 => out'.data[1] = Position /\ Position + out'.ret <= Size
           /\ out'.ret > 0 => ThisUnit = archive[Position + 1] /\ ThisUnit \in Units
<1>1. Position \in Nat
  BY PositionType
<1>2. CASE ReadFails
  BY <1>2 DEF ReadFails
<1>3. ASSUME NEW n \in 0 .. length, Got(length, n) 
      PROVE  /\ out'.ret = n
             /\ n > 0 => out'.data[1] = Position /\ Position + n <= Size
  BY <1>1, <1>3 DEF Got, Stream!Bytes
<1>4. /\ out'.ret \in -1 .. length
      /\ out'.ret > 0 => out'.data[1] = Position /\ Position + out'.ret <= Size
  BY <1>2, <1>3, ReadGives DEF ReadFails
<1>5. ASSUME out'.ret > 0 PROVE archive[Position + 1] \in Units
  <2>1. Position + 1 \in 1 .. Size
    BY <1>1, <1>4, <1>5
  <2> QED BY <2>1, UnitOf DEF MtfTypes
<1> QED BY <1>4, <1>5 DEF ThisUnit

LEMMA HeadAsked == ASSUME MtfAssumption, AsksFit PROVE StreamHead \in 1 .. MaxAsk
BY DEF MtfAssumption, AsksFit

(* So is a stream, also one that was read in part.                          *)
LEMMA StreamRead1 ==
    ASSUME MtfAssumption, AsksFit, IInv, MtfTypes, detected, ReadOf(StreamHead), out'.ret > 0,
           NEW s \in ThisStream \cup PartStream
    PROVE  s \in Units
<1>1. Garbage \subseteq Units /\ ThisUnit \in Units /\ strm \in Units
  <2>1. ThisUnit \in Units
    BY HeadAsked, UnitRead
  <2> QED BY <2>1 DEF Garbage, Unit, Units, Kinds, MtfTypes
<1>2. ThisStream \subseteq Units
  BY <1>1 DEF ThisStream
<1>3. CASE s \in PartStream
  <2>1. PICK new \in ThisStream :
           s \in {strm, Unit(new.k, 0, strm.len), Unit(strm.k, 0, new.len), Unit("other", 0, new.len),
                 Unit("other", 0, strm.len)}
    BY <1>3 DEF PartStream
  <2>2. new.k \in Kinds /\ new.len \in 0 .. MaxAsk /\ strm.k \in Kinds /\ strm.len \in 0 .. MaxAsk
    BY <1>1, <1>2 DEF Units
  <2>3. ASSUME NEW k \in Kinds, NEW n \in 0 .. MaxAsk PROVE Unit(k, 0, n) \in Units
    BY DEF Unit, Units
  <2>4. "other" \in Kinds
    BY DEF Kinds, Streams
  <2> QED BY <1>1, <2>1, <2>2, <2>3, <2>4
<1> QED BY <1>2, <1>3

LEMMA InCall == ASSUME MtfTypes, step # "none" PROVE detected
BY Zenon DEF MtfTypes

(* Each step keeps the types and asks for no more than MaxAsk. *)
LEMMA BlockTypes ==
    ASSUME MtfAssumption, AsksFit, IInv, MtfTypes, UNCHANGED <<archive, format>>, ReadBlock
    PROVE  Asks /\ MtfTypes'
<1>1. step = "block" /\ ReadOf(BlockHead) /\ BlockHead \in 1 .. MaxAsk
  BY DEF ReadBlock, MtfAssumption, AsksFit
<1>2. detected /\ detected'
  BY <1>1, InCall, Detected
<1>3. CASE BlockResult(out'.ret) # "ok"
  BY <1>1, <1>2, <1>3 DEF ReadBlock, Returns, readerVars, contentVars, MtfTypes, Asks
<1>4. CASE BlockResult(out'.ret) = "ok"
  <2>1. out'.ret > 0
    <3>1. out'.ret \in -1 .. BlockHead
      BY <1>1, <1>2, UnitRead
    <3> QED BY <3>1, <1>4 DEF BlockResult
  <2>2. ThisUnit \in Units
    BY <1>1, <1>2, <2>1, UnitRead
  <2>3. /\ block' = ThisUnit /\ counted' = BlockHead
        /\ step' \in {"part", "boundary"}
        /\ UNCHANGED <<strm, file_offset, file_size>>
    BY <1>4 DEF ReadBlock, Goes, contentVars
  <2> QED BY <1>1, <1>2, <2>2, <2>3 DEF MtfTypes, Asks
<1> QED BY <1>3, <1>4

LEMMA SkipBlockTypes ==
    ASSUME MtfAssumption, AsksFit, IInv, MtfTypes, UNCHANGED <<archive, format>>, SkipBlock
    PROVE  Asks /\ MtfTypes'
<1>1. step = "boundary" /\ step' = "block"
  BY DEF SkipBlock, Goes
<1>2. Position % Boundary \in 0 .. Boundary - 1 /\ Boundary \in Nat
  BY PositionType, ModRange DEF MtfAssumption
<1>3. Boundary - (Position % Boundary) \in 0 .. MaxAsk
  BY <1>2 DEF AsksFit
<1>4. ForwardOf(Boundary - (Position % Boundary)) \/ UNCHANGED vars
  BY DEF SkipBlock
<1>5. detected /\ detected'
  BY <1>1, <1>4, InCall, Detected
<1> QED BY <1>1, <1>3, <1>4, <1>5 DEF SkipBlock, readerVars, contentVars, MtfTypes, Asks

LEMMA PartTypes ==
    ASSUME MtfAssumption, AsksFit, IInv, MtfTypes, UNCHANGED <<archive, format>>, ReadPart
    PROVE  Asks /\ MtfTypes'
<1>1. step \in {"part", "name"} /\ ReadOf(PartLength) /\ PartLength \in 1 .. MaxAsk
  BY DEF ReadPart, PartLength, AsksFit
<1>2. detected /\ detected'
  BY <1>1, InCall, Detected
<1>3. CASE out'.ret < PartLength
  BY <1>1, <1>2, <1>3 DEF ReadPart, Returns, readerVars, MtfTypes, Asks
<1>4. CASE ~(out'.ret < PartLength)
  <2>1. /\ counted' = counted + PartLength
        /\ step' # "none" /\ (step' = "event" => counted' < block.len)
        /\ UNCHANGED <<block, strm, file_offset, file_size>>
    BY <1>4 DEF ReadPart, Goes
  <2>2. counted' \in Nat
    BY <1>1, <2>1 DEF MtfTypes
  <2> QED BY <1>1, <1>2, <2>1, <2>2 DEF MtfTypes, Asks
<1> QED BY <1>3, <1>4

LEMMA DirectoryTypes ==
    ASSUME MtfAssumption, AsksFit, IInv, MtfTypes, UNCHANGED <<archive, format>>, SkipDirectory
    PROVE  Asks /\ MtfTypes'
<1>1. step = "rest" /\ step' = "none" /\ ForwardOf(Boundary - BlockHead - DirbHead - NameLength)
  BY DEF SkipDirectory, GivesHeader, Returns
<1>2. Boundary - BlockHead - DirbHead - NameLength \in 0 .. MaxAsk
  BY DEF AsksFit, MtfAssumption
<1>3. detected /\ detected'
  BY <1>1, InCall, Detected
<1>4. file_offset' = 0 /\ file_size' = 0 /\ UNCHANGED <<block, strm, counted>>
  BY DEF SkipDirectory, GivesHeader, readerVars
<1> QED BY <1>1, <1>2, <1>3, <1>4 DEF MtfTypes, Asks

LEMMA EventTypes ==
    ASSUME MtfAssumption, AsksFit, IInv, MtfTypes, UNCHANGED <<archive, format>>, SkipToEvent
    PROVE  Asks /\ MtfTypes'
<1>1. step = "event" /\ step' = "stream" /\ ForwardOf(block.len - counted)
  BY DEF SkipToEvent, Goes
<1>2. block.len \in 0 .. MaxAsk /\ block.len - counted \in 0 .. MaxAsk
  BY <1>1 DEF MtfTypes, Units
<1>3. detected /\ detected'
  BY <1>1, InCall, Detected
<1> QED BY <1>1, <1>2, <1>3 DEF SkipToEvent, contentVars, MtfTypes, Asks

LEMMA StreamTypes ==
    ASSUME MtfAssumption, AsksFit, IInv, MtfTypes, UNCHANGED <<archive, format>>, ReadStream
    PROVE  Asks /\ MtfTypes'
<1>1. step = "stream" /\ ReadOf(StreamHead) /\ StreamHead \in 1 .. MaxAsk
  BY HeadAsked DEF ReadStream
<1>2. detected /\ detected'
  BY <1>1, InCall, Detected
<1>3. CASE out'.ret < StreamHead
  BY <1>1, <1>2, <1>3 DEF ReadStream, Returns, readerVars, contentVars, MtfTypes, Asks
<1>4. CASE ~(out'.ret < StreamHead)
  <2>1. /\ strm' \in ThisStream /\ counted' = counted + StreamHead /\ block' = block
        /\ IF strm'.k = "stan" THEN GivesHeader("file", strm'.len) /\ UNCHANGED directories
           ELSE Goes(IF strm'.k = "spad" THEN "pad" ELSE "skip") /\ UNCHANGED contentVars
    BY <1>4 DEF ReadStream
  <2>2. strm' \in Units /\ strm'.len \in 0 .. MaxAsk
    <3>1. out'.ret \in -1 .. StreamHead /\ out'.ret > 0
      BY <1>1, <1>2, <1>4, UnitRead
    <3>2. strm' \in Units
      BY <1>1, <1>2, <2>1, <3>1, StreamRead1
    <3> QED BY <3>2 DEF Units
  <2>3. /\ step' # "event"
        /\ file_size' \in 0 .. MaxAsk /\ file_offset' \in 0 .. file_size'
    BY <2>1, <2>2 DEF GivesHeader, Returns, Goes, contentVars, MtfTypes
  <2>4. format # "none" /\ counted' \in Nat
    BY <1>1, <2>1 DEF MtfTypes
  <2> QED BY <1>1, <1>2, <2>1, <2>2, <2>3, <2>4 DEF MtfTypes, Asks
<1> QED BY <1>3, <1>4

LEMMA SkipTypes ==
    ASSUME MtfAssumption, AsksFit, IInv, MtfTypes, UNCHANGED <<archive, format>>, SkipStream
    PROVE  Asks /\ MtfTypes'
<1>1. step = "skip" /\ step' \in {"align", "stream", "next"} /\ ForwardOf(strm.len)
  BY DEF SkipStream, Goes, LoopHead
<1>2. strm.len \in 0 .. MaxAsk
  BY DEF MtfTypes, Units
<1>3. detected /\ detected'
  BY <1>1, InCall, Detected
<1>4. counted' \in Nat /\ UNCHANGED <<block, strm, file_offset, file_size>>
  BY <1>2 DEF SkipStream, contentVars, MtfTypes
<1> QED BY <1>1, <1>2, <1>3, <1>4 DEF MtfTypes, Asks

LEMMA AlignTypes ==
    ASSUME MtfAssumption, AsksFit, IInv, MtfTypes, UNCHANGED <<archive, format>>, AlignStream
    PROVE  Asks /\ MtfTypes'
<1>1. /\ step = "align" /\ step' \in {"stream", "next"}
      /\ ForwardOf(StreamAlign - (counted % StreamAlign))
  BY DEF AlignStream, Goes, LoopHead
<1>2. counted \in Nat /\ counted % StreamAlign \in 0 .. StreamAlign - 1 /\ StreamAlign \in Nat
  BY ModRange DEF MtfTypes, MtfAssumption
<1>3. StreamAlign - (counted % StreamAlign) \in 0 .. MaxAsk
  BY <1>2 DEF AsksFit
<1>4. detected /\ detected'
  BY <1>1, InCall, Detected
<1>5. counted' \in Nat /\ UNCHANGED <<block, strm, file_offset, file_size>>
  BY <1>2 DEF AlignStream, contentVars
<1> QED BY <1>1, <1>3, <1>4, <1>5 DEF MtfTypes, Asks

LEMMA PadTypes ==
    ASSUME MtfAssumption, AsksFit, IInv, MtfTypes, UNCHANGED <<archive, format>>, SkipPad
    PROVE  Asks /\ MtfTypes'
<1>1. step = "pad" /\ step' = "none" /\ ForwardOf(strm.len)
  BY DEF SkipPad, GivesHeader, Ends, Returns
<1>2. strm.len \in 0 .. MaxAsk
  BY DEF MtfTypes, Units
<1>3. detected /\ detected'
  BY <1>1, InCall, Detected
<1>4. /\ file_size' \in 0 .. MaxAsk /\ file_offset' \in 0 .. file_size'
      /\ UNCHANGED <<block, strm, counted>>
  BY DEF SkipPad, GivesHeader, Ends, readerVars, MtfTypes
<1> QED BY <1>1, <1>2, <1>3, <1>4 DEF MtfTypes, Asks

LEMMA PositionTypes ==
    ASSUME MtfAssumption, AsksFit, IInv, MtfTypes, UNCHANGED <<archive, format>>, AlignPosition
    PROVE  Asks /\ MtfTypes'
<1>1. /\ step = "position" /\ step' = "first"
      /\ ForwardOf(StreamAlign - (Position % StreamAlign))
  BY DEF AlignPosition, Goes
<1>2. Position % StreamAlign \in 0 .. StreamAlign - 1 /\ StreamAlign \in Nat
  BY PositionType, ModRange DEF MtfAssumption
<1>3. StreamAlign - (Position % StreamAlign) \in 0 .. MaxAsk
  BY <1>2 DEF AsksFit
<1>4. detected /\ detected'
  BY <1>1, InCall, Detected
<1> QED BY <1>1, <1>3, <1>4 DEF AlignPosition, readerVars, contentVars, MtfTypes, Asks

LEMMA LoopTypes ==
    ASSUME MtfAssumption, AsksFit, IInv, MtfTypes, UNCHANGED <<archive, format>>,
           ReadFirst \/ ReadNext
    PROVE  Asks /\ MtfTypes'
<1>1. step \in {"first", "next"} /\ ReadOf(StreamHead) /\ StreamHead \in 1 .. MaxAsk
  BY HeadAsked DEF ReadFirst, ReadNext
<1>2. detected /\ detected'
  BY <1>1, InCall, Detected
<1>3. out'.ret \in -1 .. StreamHead
  BY <1>1, <1>2, UnitRead
<1>4. CASE Ends /\ UNCHANGED readerVars
  BY <1>1, <1>2, <1>4 DEF Ends, Returns, readerVars, MtfTypes, Asks
<1>5. ASSUME NEW S, S \subseteq ThisStream \cup PartStream, TakesStream(S), out'.ret > 0
      PROVE  Asks /\ MtfTypes'
  <2>1. strm' \in Units
    BY <1>1, <1>2, <1>5, StreamRead1 DEF TakesStream
  <2>2. /\ counted' \in Nat /\ step' # "event"
        /\ UNCHANGED <<block, file_offset, file_size>>
    BY <1>3, <1>5 DEF TakesStream, Goes, contentVars
  <2> QED BY <1>1, <1>2, <2>1, <2>2 DEF MtfTypes, Asks
<1>6. CASE ReadFirst
  <2>1. CASE out'.ret < StreamHead
    BY <1>4, <1>6, <2>1 DEF ReadFirst
  <2>2. CASE ~(out'.ret < StreamHead)
    <3>1. TakesStream(ThisStream) /\ out'.ret > 0
      BY <1>1, <1>3, <1>6, <2>2 DEF ReadFirst
    <3> QED BY <1>5, <3>1
  <2> QED BY <2>1, <2>2
<1>7. CASE ReadNext
  <2>1. out'.ret # 0
    <3>1. Position \in Nat /\ Position < Size
      BY <1>7, PositionType DEF ReadNext, Spins
    <3>2. ASSUME NEW n \in 0 .. StreamHead, Got(StreamHead, n) PROVE out'.ret # 0
      <4>1. out'.ret = n
        BY <3>2 DEF Got
      <4>2. CASE n = 0
        BY <1>1, <3>1, <3>2, <4>2 DEF Got
      <4> QED BY <4>1, <4>2
    <3> QED BY <1>1, <1>2, <3>2, ReadGives DEF ReadFails
  <2>2. CASE out'.ret < 0
    BY <1>4, <1>7, <2>2 DEF ReadNext
  <2>3. CASE ~(out'.ret < 0)
    <3>1. TakesStream(IF out'.ret = StreamHead THEN ThisStream ELSE PartStream) /\ out'.ret > 0
      BY <1>3, <1>7, <2>1, <2>3 DEF ReadNext
    <3> QED BY <1>5, <3>1
  <2> QED BY <2>2, <2>3
<1> QED BY <1>6, <1>7

LEMMA CallTypes ==
    ASSUME MtfAssumption, AsksFit, IInv, MtfTypes, MtfCall
    PROVE  Asks /\ MtfTypes'
<1>1. /\ detected /\ format # "none" /\ UNCHANGED <<archive, format>>
      /\ file_size \in 0 .. MaxAsk /\ file_offset \in 0 .. file_size
  BY Zenon DEF MtfCall, MtfTypes
<1>2. CASE GetHeader
  <2>1. (UNCHANGED vars /\ step' # "event") \/ UNCHANGED <<vars, step>>
    BY <1>2 DEF GetHeader
  <2>2. detected'
    BY <1>1, <2>1, Detected
  <2> QED BY <1>1, <1>2, <2>1, <2>2 DEF GetHeader, readerVars, contentVars, MtfTypes, Asks
<1>3. CASE ReadFile
  <2>1. PICK length \in 1 .. MaxAsk :
           IF Clamp(length) < 1 THEN answer' = "ok" /\ UNCHANGED <<vars, call, step, contentVars>>
           ELSE /\ ReadOf(Clamp(length))
                /\ file_offset' = IF out'.ret > 0 THEN file_offset + out'.ret ELSE file_offset
                /\ taken' = taken \o out'.data
                /\ IF file_offset' = file_size
                   THEN call' = "read" /\ step' = StartNextHeader /\ UNCHANGED answer
                   ELSE Returns(IF out'.ret < 0 THEN "error" ELSE "ok")
                /\ UNCHANGED <<file_size, directories, headers>>
    BY <1>3 DEF ReadFile
  <2>2. UNCHANGED <<block, strm, counted>>
    BY <1>3 DEF ReadFile, readerVars
  <2>3. CASE Clamp(length) < 1
    <3>1. UNCHANGED <<vars, step, file_offset, file_size>>
      BY <2>1, <2>3 DEF contentVars
    <3>2. detected'
      BY <1>1, <3>1, Detected
    <3> QED BY <1>1, <2>2, <3>1, <3>2 DEF MtfTypes, Asks
  <2>4. CASE ~(Clamp(length) < 1)
    <3>1. Clamp(length) \in 1 .. MaxAsk /\ file_offset + Clamp(length) <= file_size
      BY <1>1, <2>4 DEF Clamp
    <3>2. /\ ReadOf(Clamp(length))
          /\ file_offset' = IF out'.ret > 0 THEN file_offset + out'.ret ELSE file_offset
          /\ file_size' = file_size /\ step' # "event"
      BY <2>1, <2>4 DEF Returns, StartNextHeader
    <3>3. detected'
      BY <1>1, <3>2, Detected
    <3>4. out'.ret \in -1 .. Clamp(length)
      BY <1>1, <3>1, <3>2, UnitRead
    <3>5. file_offset' \in 0 .. file_size'
      BY <1>1, <3>1, <3>2, <3>4
    <3> QED BY <1>1, <2>2, <3>1, <3>2, <3>3, <3>5 DEF MtfTypes, Asks
  <2> QED BY <2>3, <2>4
<1>4. CASE SkipFile
  <2>1. UNCHANGED <<block, strm, counted, file_size>>
    BY <1>4 DEF SkipFile, readerVars
  <2>2. CASE file_size = file_offset
    <3>1. UNCHANGED <<vars, step, file_offset>>
      BY <1>4, <2>2 DEF SkipFile
    <3>2. detected'
      BY <1>1, <3>1, Detected
    <3> QED BY <1>1, <2>1, <3>1, <3>2 DEF MtfTypes, Asks
  <2>3. CASE file_size # file_offset
    <3> DEFINE left == file_size - file_offset
    <3>1. left \in 0 .. MaxAsk /\ ForwardOf(left)
      BY <1>1, <1>4, <2>3 DEF SkipFile
    <3>2. detected'
      BY <1>1, <3>1, Detected
    <3>3. step' # "event"
      BY <1>4, <2>3 DEF SkipFile, Returns, StartNextHeader
    <3>4. out'.ret = -1 \/ out'.ret \in Position .. Position + left
      <4>1. CASE Moved(left)
        BY <4>1 DEF Moved
      <4>2. CASE MoveFails
        BY <4>2 DEF MoveFails
      <4> QED BY <1>1, <3>1, <4>1, <4>2, ForwardGives
    <3>5. file_offset' \in 0 .. file_size
      <4>1. CASE UNCHANGED file_offset
        BY <1>1, <4>1
      <4>2. CASE /\ out'.ret # -1 /\ Position + file_size - file_offset > out'.ret
                 /\ file_offset' = file_offset + out'.ret - Position
        <5>1. Position \in Nat
          BY PositionType
        <5> QED BY <1>1, <3>1, <3>4, <4>2, <5>1
      <4> QED BY <1>4, <2>3, <4>1, <4>2 DEF SkipFile
    <3> QED BY <1>1, <2>1, <3>1, <3>2, <3>3, <3>5 DEF MtfTypes, Asks
  <2> QED BY <2>2, <2>3
<1> QED BY <1>2, <1>3, <1>4 DEF MtfCall

LEMMA MtfStepTypes ==
    ASSUME MtfAssumption, AsksFit, IInv, MtfTypes, MtfStep
    PROVE  Asks /\ MtfTypes' /\ detected
<1>1. UNCHANGED <<archive, format>>
  BY DEF MtfStep
<1>2. Asks /\ MtfTypes'
  BY <1>1, BlockTypes, SkipBlockTypes, PartTypes, DirectoryTypes, EventTypes, StreamTypes,
     SkipTypes, AlignTypes, PadTypes, PositionTypes, LoopTypes DEF MtfStep
<1>3. step # "none"
  BY DEF MtfStep, ReadBlock, SkipBlock, ReadPart, SkipDirectory, SkipToEvent, ReadStream,
         SkipStream, AlignStream, SkipPad, AlignPosition, ReadFirst, ReadNext
<1> QED BY <1>2, <1>3, InCall

MtfInv == IInv /\ MtfTypes

LEMMA MtfStart == ASSUME MtfAssumption, AsksFit, MtfInit PROVE MtfInv
<1>1. Init /\ IInv
  BY InitTypes DEF MtfInit
<1>2. Data \in Units
  BY DEF Data, Unit, Units, Kinds
<1>3. MtfTypes
  BY <1>2 DEF MtfInit, MtfTypes
<1> QED BY <1>1, <1>3 DEF MtfInv

(* What a step of the reader is to the layer below. *)
LEMMA MtfStepIs ==
    ASSUME MtfAssumption, AsksFit, MtfInv, [MtfNext]_<<vars, mtfVars>>
    PROVE  /\ Detect \/ UNCHANGED vars \/ (detected /\ Asks)
           /\ MtfTypes'
<1> USE DEF MtfInv
<1>1. CASE UNCHANGED <<vars, mtfVars>>
  BY <1>1 DEF vars, mtfVars, readerVars, contentVars, detectVars, MtfTypes
<1>2. CASE AutoDetect
  <2>1. Detect /\ detected' /\ format' # "none" /\ UNCHANGED <<archive, step, readerVars, contentVars>>
    BY <1>2 DEF AutoDetect, Detect
  <2> QED BY <2>1 DEF readerVars, contentVars, MtfTypes
<1>3. CASE MtfCall
  <2>1. detected
    BY <1>3, Zenon DEF MtfCall, MtfTypes
  <2> QED BY <1>3, <2>1, CallTypes
<1>4. CASE MtfStep
  BY <1>4, MtfStepTypes
<1>5. CASE OtherFormat
  <2>1. detected /\ Asks /\ UNCHANGED mtfVars
    BY <1>5 DEF OtherFormat, Read, Forward, Asks
  <2>2. detected'
    BY <2>1, Detected DEF Asks
  <2> QED BY <2>1, <2>2 DEF mtfVars, readerVars, contentVars, MtfTypes
<1>6. CASE Stopped
  BY <1>1, <1>6 DEF Stopped
<1> QED BY <1>1, <1>2, <1>3, <1>4, <1>5, <1>6 DEF MtfNext

LEMMA MtfKeeps ==
    ASSUME MtfAssumption, AsksFit, MtfInv, [MtfNext]_<<vars, mtfVars>>
    PROVE  MtfInv'
<1>1. MtfTypes' /\ IInv
  BY MtfStepIs DEF MtfInv
<1>2. CASE Detect
  BY <1>1, <1>2, DetectKeeps DEF MtfInv
<1>3. CASE UNCHANGED vars
  BY <1>1, <1>3 DEF vars, streamVars, detectVars, MtfInv, IInv, TypeOK, BufferOK, Ahead
<1>4. ASSUME detected, NEW length \in 1 .. MaxAsk, ReadOf(length) PROVE MtfInv'
  BY <1>1, <1>4, ReadKeeps DEF MtfInv
<1>5. ASSUME detected, NEW offset \in 0 .. MaxAsk, ForwardOf(offset) PROVE MtfInv'
  BY <1>1, <1>5, ForwardKeeps DEF MtfInv
<1> QED BY <1>2, <1>3, <1>4, <1>5, MtfStepIs DEF Asks

LEMMA MtfRefines ==
    ASSUME MtfAssumption, AsksFit, MtfInv, [MtfNext]_<<vars, mtfVars>>
    PROVE  [Stream!Next]_<<pipe, Position, out>>
<1>1. IInv
  BY DEF MtfInv
<1>2. CASE Detect
  BY <1>1, <1>2, DetectRefines
<1>3. CASE UNCHANGED vars
  BY <1>3 DEF vars, streamVars, detectVars, Position
<1>4. ASSUME detected, NEW length \in 1 .. MaxAsk, ReadOf(length) PROVE Stream!Next
  BY <1>1, <1>4, ReadRefines
<1>5. ASSUME detected, NEW offset \in 0 .. MaxAsk, ForwardOf(offset) PROVE Stream!Next
  BY <1>1, <1>5, ForwardRefines
<1> QED BY <1>2, <1>3, <1>4, <1>5, MtfStepIs DEF Asks

(* The mtf reader is such a format: whatever archive it is given, whole,    *)
(* cut or damaged, what it reads through the detection is the archive in    *)
(* order, however much of it was in the block of the detection              *)
(* (format_detect.c:109-183, reader.c:128-628).                             *)
THEOREM MtfReadsStream == AsksFit => (MtfSpec => IsStream)
<1>1. MtfAssumption /\ AsksFit /\ MtfInit => MtfInv
  BY MtfStart
<1>2. MtfAssumption /\ AsksFit /\ MtfInv /\ [MtfNext]_<<vars, mtfVars>> => MtfInv'
  BY MtfKeeps
<1>3. MtfInit => Stream!Init
  BY StreamBegins DEF MtfInit
<1>4. MtfAssumption /\ AsksFit /\ MtfInv /\ [MtfNext]_<<vars, mtfVars>>
        => [Stream!Next]_<<pipe, Position, out>>
  BY MtfRefines
<1> SUFFICES ASSUME AsksFit PROVE MtfSpec => IsStream
  OBVIOUS
<1> QED BY <1>1, <1>2, <1>3, <1>4, MtfAssumption, PTL DEF MtfSpec, IsStream, Stream!Spec
----------------------------------------------------------------------------
(* A whole archive. *)

(* The headers of all blocks up to q were given, and no other; their        *)
(* directories are known.                                                   *)
Found(q) ==
    /\ Len(headers) = Number(q)
    /\ \A j \in Listed : j <= q => headers[Number(j)] = Expected(j)
    /\ \A d \in 1 .. q : archive[d].k = "dirb" => directories[archive[d].id] = archive[d].id

(* Where the reader is, at p: between two blocks ...                        *)
OnBlock(p) == BlockAt(p + 1) /\ Found(p)

(* ... in get_header, with the block at hand `counted' units behind ...     *)
OfBlock(h, p, kinds) ==
    /\ h + counted = p + 1
    /\ block = archive[h] /\ block.k \in kinds
    /\ Found(h - 1)

(* ... the block of a file, with no content of it met yet ...               *)
OfFile(h, p) ==
    /\ OfBlock(h, p, {"file"}) /\ p >= h
    /\ \A l \in h + 1 .. p : archive[l].k \notin Blocks \cup {"stan"}

(* ... behind the header of a stream ...                                    *)
OfStream(p, kinds) ==
    \E i \in 1 .. Size : p = i + StreamHead - 1 /\ strm = archive[i] /\ strm.k \in kinds

(* ... or in front of a stream, with a gap between.                         *)
Unaligned(p) == p % StreamAlign # 0 /\ StreamFrom(p + 1)

PartOf(kind) == IF kind = "dirb" THEN DirbHead ELSE FileHead

HeaderAt(h, p) ==
    \/ step = "boundary" /\ OfBlock(h, p, {"tape"}) /\ counted = BlockHead
    \/ step = "part" /\ OfBlock(h, p, {"dirb", "file"}) /\ counted = BlockHead
    \/ step = "name" /\ OfBlock(h, p, {"dirb", "file"}) /\ counted = BlockHead + PartOf(block.k)
    \/ /\ step = "rest" /\ OfBlock(h, p, {"dirb"}) /\ counted = BlockHead + DirbHead + NameLength
       /\ directories[block.id] = block.id
    \/ step = "event" /\ OfBlock(h, p, {"file"})
    \/ step = "stream" /\ OfFile(h, p) /\ StreamAt(p + 1)
    \/ step = "skip" /\ OfFile(h, p) /\ OfStream(p, {"other"})
    \/ step = "align" /\ OfFile(h, p) /\ Unaligned(p)
    \/ step = "pad" /\ OfFile(h, p) /\ OfStream(p, {"spad"})

NextAt(p) ==
    /\ Found(p)
    /\ call = "read" => file_offset = file_size
    /\ \/ step = "position" /\ Unaligned(p)
       \/ step \in {"first", "next"} /\ StreamAt(p + 1)
       \/ step = "skip" /\ OfStream(p, {"stan", "other"}) /\ counted = StreamHead
       \/ step = "align" /\ Unaligned(p) /\ counted % StreamAlign = p % StreamAlign
       \/ step = "pad" /\ OfStream(p, {"spad"})

(* The content of a file, from i on.                                        *)
ContentAt(i, p) ==
    /\ \E j \in Listed : Number(j) = Len(headers) /\ i \in Content(j)
    /\ p = i + StreamHead - 1 + file_offset /\ archive[i].len = file_size
    /\ Len(taken) = file_offset
    /\ \A n \in DOMAIN taken : taken[n] = i + StreamHead - 1 + n - 1
    /\ Found(p)

CallAt(p) ==
    \/ answer = "not_found" /\ Found(Size)
    \/ Going /\ file_offset = file_size /\ OnBlock(p)
    \/ Going /\ file_offset < file_size /\ \E i \in 1 .. Size : ContentAt(i, p)

Where(p) ==
    \/ call = "none" /\ CallAt(p)
    \/ call = "header" /\ step = "block" /\ OnBlock(p)
    \/ call = "header" /\ \E h \in 1 .. Size : HeaderAt(h, p)
    \/ call \in {"read", "skip"} /\ NextAt(p)

(* What was taken is the content of the last file. *)
Taken ==
    taken # <<>> => \E j \in Listed : Number(j) = Len(headers) /\
        \E i \in Content(j) : \A n \in DOMAIN taken : taken[n] = i + StreamHead - 1 + n - 1

HeaderType == [k : {"dirb", "file"}, dir : Directories \cup {0}, size : 0 .. MaxAsk]

Reads ==
    /\ Going \/ (answer = "not_found" /\ call = "none")
    /\ directories \in [Directories -> Directories \cup {0}]
    /\ headers \in Seq(HeaderType) /\ taken \in Seq(Int)
    /\ Taken
    /\ \E p \in 0 .. Size : Position = p /\ Where(p)

Quiet == IsWhole /\ NoEmptyContent /\ faults = 0 /\ ~pipe

Finds ==
    /\ format = "other" => archive[1].k \notin Blocks
    /\ call = "none" <=> step = "none"
    /\ Quiet => Reads

(* A step of a reader on a whole archive, when no call fails.               *)
Undisturbed ==
    /\ MtfAssumption /\ AsksFit /\ MtfInv /\ Finds
    /\ Quiet /\ faults' = 0 /\ UNCHANGED archive

----------------------------------------------------------------------------
(* Remainders. *)

LEMMA ModDef ==
    ASSUME NEW h \in Nat, NEW n \in Nat \ {0}
    PROVE  h \div n \in Nat /\ h % n \in 0 .. n - 1 /\ h = n * (h \div n) + (h % n)
OBVIOUS

LEMMA ModIs ==
    ASSUME NEW q \in Int, NEW n \in Nat \ {0}, NEW r \in 0 .. n - 1
    PROVE  (n * q + r) % n = r
OBVIOUS

LEMMA ModShift ==
    ASSUME NEW b \in Nat, NEW c \in Nat, NEW n \in Nat \ {0}, b % n = 0
    PROVE  (b + c) % n = c % n
<1>1. PICK q \in Nat : q = b \div n
  BY ModDef
<1>2. PICK t \in Nat, r \in 0 .. n - 1 : t = c \div n /\ r = c % n
  BY ModDef
<1>3. b = n * q /\ c = n * t + r /\ n * q \in Int /\ n * t \in Int
  BY <1>1, <1>2, ModDef
<1>4. n * q + n * t = n * (q + t) /\ q + t \in Int
  OBVIOUS
<1>5. b + c = n * (q + t) + r
  BY <1>3, <1>4
<1> QED BY <1>2, <1>4, <1>5, ModIs

(* The next multiple of n.                                                  *)
LEMMA NextMultiple ==
    ASSUME NEW s \in Nat, NEW p \in Nat, NEW n \in Nat \ {0}, s % n = 0, p <= s, s < p + n
    PROVE  s = IF p % n = 0 THEN p ELSE p + (n - (p % n))
<1>1. PICK q \in Nat, r \in 0 .. n - 1 : q = p \div n /\ r = p % n
  BY ModDef
<1>2. p = n * q + r /\ n * q \in Int
  BY <1>1, ModDef
<1>3. CASE r + (s - p) < n
  <2>1. PICK e \in 0 .. n - 1 : e = r + (s - p)
    BY <1>3
  <2>2. s = n * q + e
    BY <1>2, <2>1
  <2>3. e = 0
    BY <2>2, ModIs
  <2> QED BY <1>1, <2>1, <2>3
<1>4. CASE ~(r + (s - p) < n)
  <2>1. PICK e \in 0 .. n - 1 : e = r + (s - p) - n
    BY <1>4
  <2>2. n * (q + 1) = n * q + n /\ q + 1 \in Int
    OBVIOUS
  <2>3. s = n * (q + 1) + e
    BY <1>2, <2>1, <2>2
  <2>4. e = 0
    BY <2>2, <2>3, ModIs
  <2> QED BY <1>1, <2>1, <2>4
<1> QED BY <1>3, <1>4

LEMMA ModOfMultiple ==
    ASSUME NEW b \in Nat, NEW m \in Nat \ {0}, NEW n \in Nat \ {0}, b % m = 0, m % n = 0
    PROVE  b % n = 0
<1>1. PICK q \in Nat : b = m * q
  <2>1. b = m * (b \div m) /\ b \div m \in Nat
    BY ModDef
  <2> QED BY <2>1
<1>2. PICK t \in Nat : m = n * t
  <2>1. m = n * (m \div n) /\ m \div n \in Nat
    BY ModDef
  <2> QED BY <2>1
<1>3. PICK u \in Nat : u = t * q
  OBVIOUS
<1>4. b = n * u + 0
  BY <1>1, <1>2, <1>3
<1>5. 0 \in 0 .. n - 1 /\ u \in Int
  OBVIOUS
<1> QED BY <1>4, <1>5, ModIs

----------------------------------------------------------------------------
(* Numbers of blocks. *)

LEMMA NumberType ==
    ASSUME NEW q
    PROVE  /\ Number(q) \in Nat /\ Number(q) <= Cardinality(Listed)
           /\ Cardinality(Listed) \in Nat
           /\ IsFiniteSet({l \in Listed : l <= q})
<1>1. IsFiniteSet(1 .. Size)
  BY FS_Interval
<1>2. IsFiniteSet(Listed)
  BY <1>1, FS_Subset DEF Listed
<1>3. {l \in Listed : l <= q} \subseteq Listed
  OBVIOUS
<1> QED BY <1>2, <1>3, FS_Subset, FS_CardinalityType DEF Number

LEMMA NumberUp == ASSUME NEW h \in Listed PROVE Number(h) = Number(h - 1) + 1
<1> DEFINE below == {l \in Listed : l <= h - 1}
<1>1. {l \in Listed : l <= h} = below \cup {h}
  BY DEF Listed
<1>2. h \notin below
  BY DEF Listed
<1>3. IsFiniteSet(below)
  BY NumberType
<1>4. Cardinality(below \cup {h}) = Cardinality(below) + 1
  <2> HIDE DEF below
  <2> QED BY <1>2, <1>3, FS_AddElement
<1> QED BY <1>1, <1>4 DEF Number

LEMMA NumberGrows == ASSUME NEW p \in Int, NEW q \in Int, p <= q PROVE Number(p) <= Number(q)
<1> DEFINE A == {l \in Listed : l <= p}
           B == {l \in Listed : l <= q}
<1>1. A \subseteq B
  BY DEF Listed
<1>2. IsFiniteSet(B)
  BY NumberType
<1>3. Cardinality(A) <= Cardinality(B)
  <2> HIDE DEF A, B
  <2> QED BY <1>1, <1>2, FS_Subset
<1> QED BY <1>3 DEF Number

LEMMA NumberBelow ==
    ASSUME NEW q \in Nat, NEW j \in Listed
    PROVE  /\ Number(j) \in Nat \ {0}
           /\ j <= q => Number(j) <= Number(q)
           /\ j > q => Number(j) > Number(q)
<1>1. j \in 1 .. Size /\ j \in Int /\ j - 1 \in Int
  BY DEF Listed
<1>2. Number(j) = Number(j - 1) + 1 /\ Number(j) \in Nat /\ Number(j - 1) \in Nat
  BY NumberUp, NumberType
<1>3. j <= q => Number(j) <= Number(q)
  BY <1>1, NumberGrows
<1>4. j > q => Number(q) <= Number(j - 1)
  BY <1>1, NumberGrows
<1>5. Number(q) \in Nat
  BY NumberType
<1> QED BY <1>2, <1>3, <1>4, <1>5

LEMMA ListedKinds == ASSUME NEW j \in Listed PROVE j \in 1 .. Size /\ archive[j].k \in {"dirb", "file"}
BY DEF Listed

(* Where nothing is listed nothing is missing.                              *)
LEMMA FoundOver ==
    ASSUME NEW p \in Nat, NEW q \in Nat, p <= q, q <= Size, Found(p),
           \A l \in p + 1 .. q : archive[l].k \notin {"dirb", "file"}
    PROVE  Found(q)
<1>1. Number(q) = Number(p)
  <2>1. {l \in Listed : l <= q} = {l \in Listed : l <= p}
    BY DEF Listed
  <2> QED BY <2>1 DEF Number
<1>2. \A j \in Listed : j <= q => j <= p
  BY DEF Listed
<1>3. \A d \in 1 .. q : archive[d].k = "dirb" => d \in 1 .. p
  OBVIOUS
<1> QED BY <1>1, <1>2, <1>3 DEF Found

(* The archive stays as it is. *)
LEMMA Same ==
    ASSUME UNCHANGED archive, NEW j
    PROVE  /\ BlockAt(j)' <=> BlockAt(j)
           /\ StreamAt(j)' <=> StreamAt(j)
           /\ StreamFrom(j)' <=> StreamFrom(j)
           /\ Listed' = Listed
           /\ Content(j)' = Content(j)
           /\ Number(j)' = Number(j)
           /\ Expected(j)' = Expected(j)
<1>1. BlockAt(j)' <=> BlockAt(j)
  BY DEF BlockAt
<1>2. ASSUME NEW s PROVE StreamAt(s)' <=> StreamAt(s)
  BY DEF StreamAt
<1>3. StreamFrom(j)' <=> StreamFrom(j)
  BY <1>2 DEF StreamFrom, Bare
<1>4. Listed' = Listed
  BY DEF Listed
<1>5. Content(j)' = Content(j)
  BY DEF Content
<1>6. Number(j)' = Number(j)
  BY <1>4 DEF Number
<1>7. Expected(j)' = Expected(j)
  BY <1>5 DEF Expected
<1> QED BY <1>1, <1>2, <1>3, <1>4, <1>5, <1>6, <1>7

LEMMA WholeSame ==
    ASSUME UNCHANGED archive
    PROVE  (IsWhole' <=> IsWhole) /\ (NoEmptyContent' <=> NoEmptyContent)
<1>1. ASSUME NEW j PROVE BlockAt(j)' <=> BlockAt(j)
  BY Same
<1>2. ASSUME NEW j PROVE StreamAt(j)' <=> StreamAt(j)
  BY Same
<1>3. ASSUME NEW j PROVE StreamFrom(j)' <=> StreamFrom(j)
  BY Same
<1>4. ASSUME NEW j PROVE Content(j)' = Content(j)
  BY Same
<1>5. ASSUME NEW i, NEW j PROVE Bare(i, j)' <=> Bare(i, j)
  BY DEF Bare
<1>6. ASSUME NEW i, NEW j PROVE FileLaid(i, j)' <=> FileLaid(i, j)
  BY <1>2, <1>4, <1>5 DEF FileLaid
<1>7. ASSUME NEW j PROVE BlockLaid(j)' <=> BlockLaid(j)
  BY <1>1, <1>5, <1>6 DEF BlockLaid
<1>8. ASSUME NEW i, NEW j PROVE StreamLaid(i, j)' <=> StreamLaid(i, j)
  BY <1>1, <1>2, <1>3, <1>5 DEF StreamLaid
<1> QED BY <1>1, <1>7, <1>8 DEF IsWhole, NoEmptyContent

(* Nothing new is found ... *)
LEMMA FoundSame ==
    ASSUME UNCHANGED <<archive, headers>>, NEW p \in Nat, Found(p),
           \A d \in 1 .. p : archive[d].k = "dirb" =>
               directories'[archive[d].id] = directories[archive[d].id] \/ directories'[archive[d].id] = archive[d].id
    PROVE  Found(p)'
<1>1. Listed' = Listed
  BY Same
<1>2. ASSUME NEW j PROVE Number(j)' = Number(j) /\ Expected(j)' = Expected(j)
  BY Same
<1> QED BY <1>1, <1>2 DEF Found

(* ... or the next block is.                                                *)
LEMMA FoundNext ==
    ASSUME UNCHANGED <<archive, directories>>, NEW h \in 1 .. Size, Found(h - 1),
           archive[h].k \in {"dirb", "file"}, NEW T, headers \in Seq(T), Expected(h) \in T,
           archive[h].k = "dirb" => directories[archive[h].id] = archive[h].id,
           headers' = Append(headers, Expected(h)),
           NEW q \in h .. Size, \A l \in h + 1 .. q : archive[l].k \notin {"dirb", "file"}
    PROVE  Found(q)' /\ h \in Listed' /\ Number(h)' = Len(headers')
<1>1. Listed' = Listed /\ h \in Listed
  BY Same DEF Listed
<1>2. ASSUME NEW j PROVE Number(j)' = Number(j) /\ Expected(j)' = Expected(j)
  BY Same
<1>3. Number(h) = Len(headers) + 1
  BY <1>1, NumberUp DEF Found
<1>4. Len(headers') = Len(headers) + 1 /\ Len(headers) \in Nat
  OBVIOUS
<1>5. Number(h)' = Len(headers')
  BY <1>2, <1>3, <1>4
<1>6. ASSUME NEW j \in Listed, j <= h PROVE headers'[Number(j)] = Expected(j)
  <2>1. CASE j = h
    BY <1>3, <2>1
  <2>2. CASE j # h
    <3>1. j \in 1 .. Size /\ j <= h - 1
      BY <1>6, <2>2, ListedKinds
    <3>2. Number(j) \in 1 .. Len(headers)
      BY <3>1, NumberBelow DEF Found
    <3>3. headers[Number(j)] = Expected(j)
      BY <3>1 DEF Found
    <3> QED BY <3>2, <3>3
  <2> QED BY <2>1, <2>2
<1>7. ASSUME NEW d \in 1 .. h, archive[d].k = "dirb" PROVE directories[archive[d].id] = archive[d].id
  BY <1>7 DEF Found
<1>8. Number(q) = Number(h)
  <2>1. {l \in Listed : l <= q} = {l \in Listed : l <= h}
    BY DEF Listed
  <2> QED BY <2>1 DEF Number
<1>9. \A j \in Listed : j <= q => j <= h
  BY DEF Listed
<1>10. \A d \in 1 .. q : archive[d].k = "dirb" => d \in 1 .. h
  OBVIOUS
<1> QED BY <1>1, <1>2, <1>3, <1>4, <1>5, <1>6, <1>7, <1>8, <1>9, <1>10 DEF Found

----------------------------------------------------------------------------
(* Calls that do not fail. *)

LEMMA ReadExact ==
    ASSUME IInv, detected, ~pipe, faults' = faults, NEW n \in Nat \ {0}, NEW p \in Nat,
           Position = p, p + n <= Size, ReadOf(n)
    PROVE  Position' = p + n /\ out' = [ret |-> n, data |-> Stream!Bytes(p, n)]
<1>1. ~ReadFails
  BY DEF ReadFails, IInv, TypeOK
<1>2. PICK m \in 0 .. n : Got(n, m)
  BY <1>1, ReadGives
<1>3. m = n
  BY <1>2 DEF Got
<1> QED BY <1>2, <1>3 DEF Got

LEMMA MoveExact ==
    ASSUME IInv, detected, faults' = faults, NEW n \in Nat, NEW p \in Nat,
           Position = p, p + n <= Size, ForwardOf(n)
    PROVE  Position' = p + n /\ out'.ret = p + n
<1>1. ~MoveFails
  BY DEF MoveFails, IInv, TypeOK
<1>2. Moved(n)
  BY <1>1, ForwardGives
<1> QED BY <1>2 DEF Moved

LEMMA Peace ==
    ASSUME Undisturbed
    PROVE  /\ MtfAssumption /\ AsksFit /\ IInv /\ MtfTypes /\ Reads
           /\ IsWhole /\ NoEmptyContent /\ ~pipe
           /\ faults' = faults /\ archive' = archive /\ archive \in Archives
           /\ (step # "none" \/ format # "none") => detected
           /\ call = "none" <=> step = "none"
<1>1. /\ MtfAssumption /\ AsksFit /\ IInv /\ MtfTypes /\ Reads
      /\ IsWhole /\ NoEmptyContent /\ ~pipe /\ faults = 0 /\ faults' = 0
  BY Zenon DEF Undisturbed, Quiet, Finds, MtfInv
<1>2. (step # "none" \/ format # "none") => detected
  BY <1>1, Zenon DEF MtfTypes
<1>3. archive' = archive /\ archive \in Archives
  BY <1>1 DEF Undisturbed, MtfTypes
<1> QED BY <1>1, <1>2, <1>3 DEF Undisturbed, Finds

(* Within a call nothing that was returned changes.                         *)
LEMMA ReadsOn ==
    ASSUME Undisturbed, UNCHANGED <<answer, headers, taken>>, call # "none",
           directories' \in [Directories -> Directories \cup {0}],
           NEW q \in 0 .. Size, Position' = q, Where(q)'
    PROVE  Reads'
<1>1. Reads
  BY Peace
<1>2. Going'
  BY <1>1 DEF Reads, Going
<1>3. Taken'
  <2>1. Listed' = Listed
    BY Peace, Same
  <2>2. ASSUME NEW j PROVE Number(j)' = Number(j) /\ Content(j)' = Content(j)
    BY Peace, Same
  <2> QED BY <1>1, <2>1, <2>2 DEF Reads, Taken
<1> QED BY <1>1, <1>2, <1>3 DEF Reads

LEMMA FoundStays ==
    ASSUME Undisturbed, UNCHANGED <<headers, directories>>, NEW p \in Nat, Found(p)
    PROVE  Found(p)'
<1>1. archive' = archive
  BY Peace
<1> QED BY <1>1, FoundSame

LEMMA Kind ==
    ASSUME Undisturbed, NEW j \in 1 .. Size
    PROVE  /\ archive[j] \in Units /\ archive[j].k \in Kinds /\ archive[j].len \in Nat
           /\ archive[j].k \in Blocks => BlockLaid(j)
           /\ archive[j].k \in Streams => StreamLaid(j, j + StreamHead - 1 + archive[j].len)
<1>1. archive[j] \in Units
  BY Peace, UnitOf
<1>2. archive[j].k \in Kinds /\ archive[j].len \in Nat
  BY <1>1 DEF Units
<1> QED BY <1>1, <1>2, Peace DEF IsWhole

(* The header of a block can be read: it does not end the archive.          *)
LEMMA BlockRoom ==
    ASSUME Undisturbed, NEW h \in 1 .. Size, BlockAt(h)
    PROVE  /\ h + BlockHead <= Size + 1
           /\ archive[h].k = "dirb" => h + BlockHead + DirbHead + NameLength <= Size
           /\ archive[h].k = "file" => h + BlockHead + FileHead + NameLength <= Size
<1>1. /\ BlockHead \in Nat /\ DirbHead \in Nat /\ FileHead \in Nat /\ NameLength \in Nat
      /\ Boundary \in Nat /\ BlockHead + DirbHead + NameLength <= Boundary
  BY Peace DEF MtfAssumption
<1>2. archive[h].k \in Blocks /\ BlockLaid(h) /\ archive[h].len \in Nat
  BY Kind DEF BlockAt
<1>3. CASE archive[h].k \in {"tape", "dirb"}
  <2>1. h + Boundary <= Size
    BY <1>2, <1>3 DEF BlockLaid, BlockAt
  <2> QED BY <1>1, <1>3, <2>1
<1>4. CASE archive[h].k = "file"
  <2>1. h + archive[h].len <= Size /\ archive[h].len >= BlockHead + FileHead + NameLength
    BY <1>2, <1>4 DEF BlockLaid, FileLaid, StreamAt
  <2> QED BY <1>1, <1>2, <1>4, <2>1
<1>5. CASE archive[h].k = "espb"
  BY <1>2, <1>5 DEF BlockLaid
<1> QED BY <1>2, <1>3, <1>4, <1>5 DEF Blocks

(* A block that was read as a whole: what follows it. *)
LEMMA BlockEnd ==
    ASSUME Undisturbed, NEW h \in 1 .. Size, BlockAt(h), archive[h].k \in {"tape", "dirb"}
    PROVE  /\ h + Boundary <= Size /\ BlockAt(h + Boundary)
           /\ \A l \in h + 1 .. h + Boundary - 1 : archive[l].k = "data"
           /\ archive[h].k = "dirb" => archive[h].id \in Directories
BY Kind DEF BlockLaid, BlockAt, Bare

LEMMA FileStart ==
    ASSUME Undisturbed, NEW h \in 1 .. Size, BlockAt(h), archive[h].k = "file"
    PROVE  /\ archive[h].len \in Nat /\ h + archive[h].len <= Size
           /\ archive[h].len >= BlockHead + FileHead + NameLength
           /\ StreamAt(h + archive[h].len)
           /\ \A l \in h + 1 .. h + archive[h].len - 1 : archive[l].k = "data"
           /\ \E d \in 1 .. h - 1 : archive[d].k = "dirb" /\ archive[d].id = archive[h].id
           /\ \A i, n \in Content(h) : i = n
<1>1. archive[h].len \in Nat /\ FileLaid(h, h + archive[h].len)
  BY Kind DEF BlockLaid, BlockAt, Blocks
<1> QED BY <1>1 DEF FileLaid, StreamAt, Bare

LEMMA InHeader ==
    ASSUME Undisturbed, step \in {"boundary", "part", "name", "rest", "event", "stream"}
    PROVE  /\ call = "header"
           /\ \E p \in 0 .. Size, h \in 1 .. Size : Position = p /\ HeaderAt(h, p)
<1>1. PICK p \in 0 .. Size : Position = p /\ Where(p)
  BY Peace DEF Reads
<1>2. call # "none"
  BY Peace
<1> QED BY <1>1, <1>2 DEF Where, NextAt

LEMMA BlockFinds == ASSUME Undisturbed, ReadBlock PROVE Reads'
<1>1. step = "block" /\ ReadOf(BlockHead) /\ detected /\ BlockHead \in Nat \ {0} /\ call # "none"
  BY Peace DEF ReadBlock, MtfAssumption
<1>2. PICK p \in 0 .. Size : Position = p /\ OnBlock(p)
  <2>1. PICK p \in 0 .. Size : Position = p /\ Where(p)
    BY Peace DEF Reads
  <2> QED BY <1>1, <2>1 DEF Where, HeaderAt, NextAt
<1>3. PICK h \in 1 .. Size : h = p + 1
  BY <1>2 DEF OnBlock, BlockAt
<1>4. BlockAt(h) /\ Found(h - 1) /\ archive[h].k \in Blocks /\ call = "header"
  <2>1. PICK x \in 0 .. Size : Position = x /\ Where(x)
    BY Peace DEF Reads
  <2> QED BY <1>1, <1>2, <1>3, <2>1 DEF OnBlock, BlockAt, Where, NextAt
<1>5. p + BlockHead <= Size
  BY <1>1, <1>3, <1>4, BlockRoom
<1>6. Position' = p + BlockHead /\ out'.ret = BlockHead
  BY <1>1, <1>2, <1>5, Peace, ReadExact
<1>7. ThisUnit = archive[h]
  BY <1>1, <1>2, <1>3, <1>6, Peace, UnitRead
<1>8. UNCHANGED <<file_offset, file_size, directories, headers, taken>>
  BY DEF ReadBlock, contentVars
<1>9. CASE archive[h].k = "espb"
  <2>1. BlockResult(out'.ret) = "not_found"
    BY <1>1, <1>6, <1>7, <1>9 DEF BlockResult, Blocks
  <2>2. call' = "none" /\ answer' = "not_found"
    BY <2>1 DEF ReadBlock, Returns
  <2>3. Found(Size)
    <3>1. \A l \in h + 1 .. Size : archive[l].k = "data"
      BY <1>4, <1>9, Kind DEF BlockLaid, Bare
    <3>2. \A l \in h .. Size : archive[l].k \notin {"dirb", "file"}
      BY <1>9, <3>1
    <3> QED BY <1>3, <1>4, <3>2, FoundOver
  <2>4. Found(Size)'
    BY <1>8, <2>3, FoundStays
  <2>5. Taken' /\ headers' \in Seq(HeaderType) /\ taken' \in Seq(Int)
        /\ directories' \in [Directories -> Directories \cup {0}]
    <3>1. Listed' = Listed
      BY Peace, Same
    <3>2. ASSUME NEW j PROVE Number(j)' = Number(j) /\ Content(j)' = Content(j)
      BY Peace, Same
    <3> QED BY <1>8, <3>1, <3>2, Peace DEF Reads, Taken
  <2>6. p + BlockHead \in 0 .. Size
    BY <1>1, <1>5
  <2> QED BY <1>6, <2>2, <2>4, <2>5, <2>6 DEF Reads, Where, CallAt
<1>10. CASE archive[h].k # "espb"
  <2>1. BlockResult(out'.ret) = "ok"
    BY <1>1, <1>4, <1>6, <1>7, <1>10 DEF BlockResult
  <2>2. /\ block' = archive[h] /\ counted' = BlockHead /\ UNCHANGED <<call, answer>>
        /\ step' = IF archive[h].k \in {"dirb", "file"} THEN "part" ELSE "boundary"
    BY <1>7, <2>1 DEF ReadBlock, Goes
  <2>3. PICK q \in 0 .. Size : q = p + BlockHead
    BY <1>1, <1>5
  <2>4. Found(h - 1)'
    BY <1>3, <1>4, <1>8, FoundStays
  <2>5. archive' = archive
    BY Peace
  <2>6. h + counted' = q + 1
    BY <1>1, <1>3, <2>2, <2>3
  <2>7. OfBlock(h, q, {"tape"})' \/ OfBlock(h, q, {"dirb", "file"})'
    BY <1>4, <1>10, <2>2, <2>4, <2>5, <2>6 DEF OfBlock, Blocks
  <2>8. HeaderAt(h, q)'
    BY <2>2, <2>5, <2>7 DEF HeaderAt, OfBlock
  <2>9. Where(q)'
    BY <1>4, <2>2, <2>8 DEF Where
  <2> QED BY <1>1, <1>6, <1>8, <2>2, <2>3, <2>9, Peace, ReadsOn DEF Reads
<1> QED BY <1>9, <1>10

LEMMA SkipBlockFinds == ASSUME Undisturbed, SkipBlock PROVE Reads'
<1>1. step = "boundary" /\ detected
  BY Peace DEF SkipBlock
<1>2. PICK p \in 0 .. Size, h \in 1 .. Size :
         /\ Position = p /\ call = "header"
         /\ OfBlock(h, p, {"tape"}) /\ counted = BlockHead
  BY <1>1, InHeader DEF HeaderAt
<1>3. /\ archive[h].k = "tape" /\ BlockAt(h) /\ Found(h - 1) /\ h + BlockHead = p + 1
  BY <1>2, Kind DEF OfBlock, BlockLaid, Blocks
<1>4. /\ h + Boundary <= Size /\ BlockAt(h + Boundary)
      /\ \A l \in h + 1 .. h + Boundary - 1 : archive[l].k = "data"
  BY <1>3, BlockEnd
<1>5. /\ BlockHead \in 1 .. Boundary /\ Boundary \in Nat \ {0}
  BY Peace DEF MtfAssumption
<1>6. (h - 1) % Boundary = 0 /\ (h + Boundary - 1) % Boundary = 0
  <2>1. (h + Boundary) - 1 = h + Boundary - 1
    BY <1>5
  <2> QED BY <1>3, <1>4, <2>1 DEF BlockAt
<1>8. PICK q \in 0 .. Size : q = h + Boundary - 1
  BY <1>4, <1>5
<1>7. q = IF p % Boundary = 0 THEN p ELSE p + (Boundary - (p % Boundary))
  <2>1. p <= q /\ q < p + Boundary /\ p \in Nat /\ q \in Nat
    BY <1>3, <1>5, <1>8
  <2>2. q % Boundary = 0
    BY <1>6, <1>8
  <2> QED BY <1>5, <2>1, <2>2, NextMultiple
<1>9. Position' = q
  <2>1. CASE p % Boundary > 0
    <3>0. PICK r \in 0 .. Boundary - 1 : r = p % Boundary
      BY <1>5, ModRange
    <3>1. PICK n \in Nat : n = Boundary - (p % Boundary)
      BY <1>5, <3>0
    <3>2. ForwardOf(n) /\ p % Boundary # 0
      BY <1>2, <2>1, <3>1 DEF SkipBlock
    <3>3. p + n <= Size /\ q = p + n
      BY <1>7, <1>8, <3>1, <3>2
    <3> QED BY <1>1, <1>2, <3>2, <3>3, Peace, MoveExact
  <2>2. CASE ~(p % Boundary > 0)
    <3>1. p % Boundary = 0
      BY <1>5, <2>2, ModRange
    <3>2. UNCHANGED vars
      BY <1>2, <2>2 DEF SkipBlock
    <3>3. Position' = Position
      BY <3>2 DEF vars, streamVars, detectVars, Position
    <3> QED BY <1>2, <1>7, <1>8, <3>1, <3>3
  <2> QED BY <2>1, <2>2
<1>10. Found(q)
  <2>1. \A l \in h .. q : archive[l].k \notin {"dirb", "file"}
    BY <1>3, <1>4, <1>8
  <2> QED BY <1>3, <1>5, <1>8, <2>1, FoundOver
<1>11. step' = "block" /\ UNCHANGED <<call, answer, contentVars>>
  BY DEF SkipBlock, Goes
<1>12. OnBlock(q)'
  <2>1. q + 1 = h + Boundary
    BY <1>5, <1>8
  <2>2. BlockAt(q + 1)'
    BY <1>4, <2>1, Peace, Same
  <2>3. Found(q)'
    BY <1>10, <1>11, FoundStays DEF contentVars
  <2> QED BY <2>2, <2>3 DEF OnBlock
<1>13. Where(q)'
  BY <1>2, <1>11, <1>12 DEF Where
<1> QED BY <1>2, <1>9, <1>11, <1>13, Peace, ReadsOn DEF Reads, contentVars

(* In front of the first stream of a file. *)
LEMMA BeginsStreams ==
    ASSUME Undisturbed, call = "header", NEW h \in 1 .. Size, archive[h].k = "file", BlockAt(h),
           block = archive[h], Found(h - 1),
           UNCHANGED <<call, answer, block, directories, headers, taken>>,
           step' = "stream", counted' = block.len, Position' + 1 = h + block.len, Position' \in Nat
    PROVE  Reads'
<1>1. /\ archive[h].len \in Nat /\ h + archive[h].len <= Size
      /\ StreamAt(h + archive[h].len)
      /\ \A l \in h + 1 .. h + archive[h].len - 1 : archive[l].k = "data"
  BY FileStart
<1>2. PICK q \in 0 .. Size : q = Position'
  BY <1>1
<1>3. q + 1 = h + archive[h].len
  BY <1>2
<1>4. archive' = archive
  BY Peace
<1>5. StreamAt(q + 1)'
  BY <1>1, <1>3, <1>4, Same
<1>6. Found(h - 1)'
  BY FoundStays
<1>0. archive[h].len > 0
  <2>1. BlockHead \in Nat \ {0} /\ FileHead \in Nat /\ NameLength \in Nat
    BY Peace DEF MtfAssumption
  <2> QED BY <1>1, <2>1, FileStart
<1>7. OfFile(h, q)'
  <2>1. \A l \in h + 1 .. q : archive[l].k = "data"
    BY <1>1, <1>3
  <2>2. h + counted' = q + 1
    BY <1>3
  <2>3. q >= h
    BY <1>0, <1>1, <1>3
  <2> QED BY <1>4, <1>6, <2>1, <2>2, <2>3 DEF OfFile, OfBlock, Blocks
<1>8. HeaderAt(h, q)'
  BY <1>5, <1>7 DEF HeaderAt
<1>9. Where(q)'
  BY <1>8 DEF Where
<1>10. directories' \in [Directories -> Directories \cup {0}]
  BY Peace DEF Reads
<1> QED BY <1>2, <1>9, <1>10, ReadsOn

LEMMA PartFinds == ASSUME Undisturbed, ReadPart PROVE Reads'
<1>1. step \in {"part", "name"} /\ ReadOf(PartLength) /\ detected
  BY Peace DEF ReadPart
<1>2. /\ BlockHead \in Nat \ {0} /\ DirbHead \in Nat \ {0} /\ FileHead \in Nat \ {0}
      /\ NameLength \in Nat \ {0}
  BY Peace DEF MtfAssumption, AsksFit
<1>3. PICK p \in 0 .. Size, h \in 1 .. Size :
         /\ Position = p /\ call = "header"
         /\ OfBlock(h, p, {"dirb", "file"})
         /\ counted = IF step = "name" THEN BlockHead + PartOf(block.k) ELSE BlockHead
  BY <1>1, InHeader DEF HeaderAt
<1>4. /\ block = archive[h] /\ archive[h].k \in {"dirb", "file"} /\ BlockAt(h) /\ Found(h - 1)
      /\ h + counted = p + 1
  BY <1>3, Kind DEF OfBlock, BlockLaid, Blocks
<1>5. PICK n \in Nat \ {0} : n = PartLength
  BY <1>2 DEF PartLength
<1>6. PICK q \in 0 .. Size : q = p + n
  BY <1>1, <1>2, <1>3, <1>4, <1>5, BlockRoom DEF PartLength, PartOf
<1>7. Position' = q /\ out'.ret = n
  BY <1>1, <1>3, <1>5, <1>6, Peace, ReadExact
<1>8. /\ counted' = counted + n /\ UNCHANGED <<call, answer, block, headers, taken>>
      /\ step' = IF step = "part" THEN "name" ELSE IF block.k = "dirb" THEN "rest"
                 ELSE IF counted' < block.len THEN "event" ELSE "stream"
      /\ directories' = IF step = "name" /\ block.k = "dirb"
                        THEN [directories EXCEPT ![block.id] = block.id] ELSE directories
  BY <1>5, <1>7 DEF ReadPart, Goes
<1>9. h + counted' = q + 1 /\ archive' = archive
  BY <1>2, <1>3, <1>4, <1>5, <1>6, <1>8, Peace DEF PartOf
<1>10. directories \in [Directories -> Directories \cup {0}]
  BY Peace DEF Reads
<1>11. CASE step = "part"
  <2>1. directories' = directories /\ step' = "name" /\ n = PartOf(block.k)
    BY <1>5, <1>8, <1>11 DEF PartLength, PartOf
  <2>2. Found(h - 1)'
    BY <1>4, <1>8, <2>1, FoundStays
  <2>3. HeaderAt(h, q)'
    <3>1. counted' = BlockHead + PartOf(block'.k)
      BY <1>3, <1>8, <1>11, <2>1
    <3> QED BY <1>4, <1>8, <1>9, <2>1, <2>2, <3>1 DEF HeaderAt, OfBlock
  <2> QED BY <1>3, <1>7, <1>8, <1>10, <2>1, <2>3, ReadsOn DEF Where
<1>12. CASE step = "name" /\ archive[h].k = "dirb"
  <2>1. /\ directories' = [directories EXCEPT ![block.id] = block.id] /\ step' = "rest"
        /\ n = NameLength /\ PartOf(block.k) = DirbHead
    BY <1>4, <1>5, <1>8, <1>12 DEF PartLength, PartOf
  <2>2. ASSUME NEW d \in 1 .. Size, archive[d].k = "dirb" PROVE archive[d].id \in Directories
    BY <2>2, Kind DEF BlockLaid, Blocks
  <2>3. block.id \in Directories
    BY <1>4, <1>12, <2>2
  <2>4. directories' \in [Directories -> Directories \cup {0}] /\ directories'[block.id] = block.id
    BY <1>10, <2>1, <2>3
  <2>5. \A d \in 1 .. h - 1 : archive[d].k = "dirb" =>
           directories'[archive[d].id] = directories[archive[d].id] \/ directories'[archive[d].id] = archive[d].id
    BY <1>10, <2>1, <2>2, <2>3
  <2>6. Found(h - 1)'
    <3>1. h - 1 \in Nat
      OBVIOUS
    <3> QED BY <1>4, <1>8, <1>9, <2>5, <3>1, FoundSame
  <2>7. HeaderAt(h, q)'
    <3>1. counted' = BlockHead + DirbHead + NameLength
      BY <1>2, <1>3, <1>8, <1>12, <2>1
    <3> QED BY <1>4, <1>8, <1>9, <1>12, <2>1, <2>4, <2>6, <3>1 DEF HeaderAt, OfBlock
  <2> QED BY <1>3, <1>7, <1>8, <2>4, <2>7, ReadsOn DEF Where
<1>13. CASE step = "name" /\ archive[h].k = "file"
  <2>1. /\ directories' = directories /\ n = NameLength /\ PartOf(block.k) = FileHead
        /\ step' = IF counted' < block.len THEN "event" ELSE "stream"
    BY <1>4, <1>5, <1>8, <1>13 DEF PartLength, PartOf
  <2>2. counted' = BlockHead + FileHead + NameLength
    BY <1>2, <1>3, <1>8, <1>13, <2>1
  <2>3. block.len \in Nat /\ block.len >= counted'
    BY <1>4, <1>13, <2>2, FileStart
  <2>4. CASE counted' < block.len
    <3>1. Found(h - 1)'
      BY <1>4, <1>8, <2>1, FoundStays
    <3>2. HeaderAt(h, q)'
      BY <1>4, <1>8, <1>9, <1>13, <2>1, <2>4, <3>1 DEF HeaderAt, OfBlock
    <3> QED BY <1>3, <1>7, <1>8, <1>10, <2>1, <3>2, ReadsOn DEF Where
  <2>5. CASE ~(counted' < block.len)
    <3>1. counted' = block.len /\ step' = "stream"
      BY <1>2, <2>1, <2>2, <2>3, <2>5
    <3>2. Position' + 1 = h + block.len /\ Position' \in Nat
      BY <1>7, <1>9, <3>1
    <3> QED BY <1>3, <1>4, <1>8, <1>13, <2>1, <3>1, <3>2, BeginsStreams
  <2> QED BY <2>4, <2>5
<1> QED BY <1>1, <1>4, <1>11, <1>12, <1>13

LEMMA EventFinds == ASSUME Undisturbed, SkipToEvent PROVE Reads'
<1>1. step = "event" /\ ForwardOf(block.len - counted) /\ detected
  BY Peace DEF SkipToEvent
<1>2. PICK p \in 0 .. Size, h \in 1 .. Size :
         Position = p /\ call = "header" /\ OfBlock(h, p, {"file"})
  BY <1>1, InHeader DEF HeaderAt
<1>3. /\ block = archive[h] /\ archive[h].k = "file" /\ BlockAt(h) /\ Found(h - 1)
      /\ h + counted = p + 1
  BY <1>2, Kind DEF OfBlock, BlockLaid, Blocks
<1>4. block.len \in Nat /\ counted \in Nat /\ counted < block.len /\ h + block.len <= Size
  BY <1>1, <1>3, FileStart, Peace DEF MtfTypes
<1>5. PICK n \in Nat : n = block.len - counted
  BY <1>4
<1>6. p + n <= Size /\ p + n + 1 = h + block.len
  BY <1>3, <1>4, <1>5
<1>7. Position' = p + n
  BY <1>1, <1>2, <1>5, <1>6, Peace, MoveExact
<1>8. /\ counted' = block.len /\ step' = "stream"
      /\ UNCHANGED <<call, answer, block, directories, headers, taken>>
  BY DEF SkipToEvent, Goes, contentVars
<1> QED BY <1>2, <1>3, <1>6, <1>7, <1>8, BeginsStreams

(* A header is returned: of the block at h, at q. *)
LEMMA HeaderGiven ==
    ASSUME Undisturbed, NEW h \in 1 .. Size, archive[h].k \in {"dirb", "file"},
           block = archive[h], Found(h - 1), directories[block.id] = block.id,
           NEW size \in 0 .. MaxAsk, Expected(h).size = size,
           GivesHeader(archive[h].k, size), UNCHANGED directories,
           NEW q \in h .. Size, Position' = q, \A l \in h + 1 .. q : archive[l].k \notin {"dirb", "file"},
           size = 0 => BlockAt(q + 1),
           size # 0 => \E i \in Content(h) : q = i + StreamHead - 1 /\ archive[i].len = size
    PROVE  Reads'
<1>1. /\ headers' = Append(headers, Header(archive[h].k, size))
      /\ file_offset' = 0 /\ file_size' = size /\ taken' = <<>>
      /\ call' = "none" /\ step' = "none" /\ answer' = "ok"
  BY DEF GivesHeader, Returns
<1>2. Header(archive[h].k, size) = Expected(h)
  BY DEF Header, Expected
<1>3. Expected(h) \in HeaderType
  BY <1>2, Kind DEF Header, HeaderType, Units
<1>4. headers \in Seq(HeaderType) /\ directories \in [Directories -> Directories \cup {0}] /\ archive' = archive
  BY Peace DEF Reads
<1>5. headers' = Append(headers, Expected(h)) /\ headers' \in Seq(HeaderType)
  BY <1>1, <1>2, <1>3, <1>4
<1>6. Found(q)' /\ h \in Listed' /\ Number(h)' = Len(headers')
  BY <1>3, <1>4, <1>5, FoundNext
<1>7. CASE size = 0
  <2>1. BlockAt(q + 1)'
    BY <1>4, <1>7, Same
  <2>2. CallAt(q)'
    BY <1>1, <1>6, <1>7, <2>1 DEF CallAt, OnBlock, Going
  <2> QED BY <1>1, <1>4, <1>5, <2>2 DEF Reads, Where, Taken, Going
<1>8. CASE size # 0
  <2>1. PICK i \in Content(h) : q = i + StreamHead - 1 /\ archive[i].len = size
    BY <1>8
  <2>2. ContentAt(i, q)'
    <3>1. i \in Content(h)' /\ q = q + 0 /\ StreamHead \in Nat
      BY <1>4, Same, Peace DEF MtfAssumption
    <3> QED BY <1>1, <1>4, <1>6, <2>1, <3>1 DEF ContentAt
  <2>3. i \in 1 .. Size /\ q \in 0 .. Size
    BY DEF Content
  <2>4. CallAt(q)'
    BY <1>1, <1>8, <2>2, <2>3 DEF CallAt, Going
  <2> QED BY <1>1, <1>4, <1>5, <2>3, <2>4 DEF Reads, Where, Taken, Going
<1> QED BY <1>7, <1>8

LEMMA DirectoryFinds == ASSUME Undisturbed, SkipDirectory PROVE Reads'
<1>1. step = "rest" /\ ForwardOf(Boundary - BlockHead - DirbHead - NameLength) /\ detected
  BY Peace DEF SkipDirectory
<1>2. PICK p \in 0 .. Size, h \in 1 .. Size :
         /\ Position = p /\ OfBlock(h, p, {"dirb"})
         /\ counted = BlockHead + DirbHead + NameLength /\ directories[block.id] = block.id
  BY <1>1, InHeader DEF HeaderAt
<1>3. /\ block = archive[h] /\ archive[h].k = "dirb" /\ BlockAt(h) /\ Found(h - 1)
      /\ h + counted = p + 1
  BY <1>2, Kind DEF OfBlock, BlockLaid, Blocks
<1>4. /\ h + Boundary <= Size /\ BlockAt(h + Boundary)
      /\ \A l \in h + 1 .. h + Boundary - 1 : archive[l].k = "data"
  BY <1>3, BlockEnd
<1>5. /\ BlockHead \in Nat /\ DirbHead \in Nat /\ NameLength \in Nat /\ Boundary \in Nat \ {0}
      /\ BlockHead + DirbHead + NameLength <= Boundary
  BY Peace DEF MtfAssumption
<1>6. PICK n \in Nat : n = Boundary - BlockHead - DirbHead - NameLength
  BY <1>5
<1>7. PICK q \in h .. Size : q = h + Boundary - 1
  BY <1>4, <1>5
<1>8. Position' = q
  <2>1. p + n = q
    BY <1>2, <1>3, <1>5, <1>6, <1>7
  <2> QED BY <1>1, <1>2, <1>6, <2>1, Peace, MoveExact
<1>9. BlockAt(q + 1)
  <2>1. q + 1 = h + Boundary
    BY <1>5, <1>7
  <2> QED BY <1>4, <2>1
<1>10. Expected(h).size = 0
  <2>1. Content(h) = {}
    <3>1. ASSUME NEW i \in Content(h) PROVE FALSE
      <4>1. i \in h + 1 .. Size /\ archive[i].k = "stan" /\ \A l \in h + 1 .. i : archive[l].k \notin Blocks
        BY DEF Content
      <4>2. i > h + Boundary - 1
        BY <1>4, <1>5, <4>1
      <4>3. h + Boundary \in h + 1 .. i
        BY <1>5, <4>1, <4>2
      <4> QED BY <1>4, <4>1, <4>3 DEF BlockAt
    <3> QED BY <3>1
  <2> QED BY <2>1 DEF Expected
<1>11. /\ GivesHeader(archive[h].k, 0) /\ UNCHANGED directories
  BY <1>3 DEF SkipDirectory
<1>12. \A l \in h + 1 .. q : archive[l].k \notin {"dirb", "file"}
  BY <1>4, <1>7
<1>13. 0 \in 0 .. MaxAsk
  OBVIOUS
<1> QED BY <1>2, <1>3, <1>8, <1>9, <1>10, <1>11, <1>12, <1>13, HeaderGiven

(* A stream and what follows it.                                            *)
LEMMA StreamEnd ==
    ASSUME Undisturbed, NEW i \in 1 .. Size, archive[i].k \in Streams
    PROVE  /\ archive[i].len \in Nat /\ (i - 1) % StreamAlign = 0
           /\ \E p \in i .. Size :
                /\ p = i + StreamHead - 1 /\ p + archive[i].len < Size
                /\ \A l \in i + 1 .. p + archive[i].len : archive[l].k = "data"
                /\ archive[i].k = "spad" => BlockAt(p + archive[i].len + 1)
                /\ archive[i].k # "spad" => StreamFrom(p + archive[i].len + 1)
<1>1. archive[i].len \in Nat /\ StreamLaid(i, i + StreamHead - 1 + archive[i].len)
  BY Kind
<1>2. StreamHead \in Nat \ {0}
  BY Peace DEF MtfAssumption
<1>3. PICK p \in i .. Size : p = i + StreamHead - 1
  BY <1>1, <1>2 DEF StreamLaid
<1> QED BY <1>1, <1>3 DEF StreamLaid, StreamAt, Bare

(* The header of a stream, and what is behind it at p.                      *)
LEMMA StreamBehind ==
    ASSUME Undisturbed, NEW p \in 0 .. Size, NEW kinds, kinds \subseteq Streams, OfStream(p, kinds)
    PROVE  /\ strm.len \in Nat /\ p + strm.len < Size /\ strm.k \in kinds
           /\ \E i \in 1 .. p : p = i - 1 + StreamHead /\ (i - 1) % StreamAlign = 0
           /\ \A l \in p + 1 .. p + strm.len : archive[l].k = "data"
           /\ strm.k = "spad" => BlockAt(p + strm.len + 1)
           /\ strm.k # "spad" => StreamFrom(p + strm.len + 1)
<1>1. PICK i \in 1 .. Size : p = i + StreamHead - 1 /\ strm = archive[i] /\ strm.k \in kinds
  BY DEF OfStream
<1>2. /\ strm.len \in Nat /\ (i - 1) % StreamAlign = 0
      /\ \E q \in i .. Size :
           /\ q = i + StreamHead - 1 /\ q + strm.len < Size
           /\ \A l \in i + 1 .. q + strm.len : archive[l].k = "data"
           /\ strm.k = "spad" => BlockAt(q + strm.len + 1)
           /\ strm.k # "spad" => StreamFrom(q + strm.len + 1)
  BY <1>1, StreamEnd
<1>3. /\ p \in i .. Size /\ p + strm.len < Size
      /\ \A l \in i + 1 .. p + strm.len : archive[l].k = "data"
      /\ strm.k = "spad" => BlockAt(p + strm.len + 1)
      /\ strm.k # "spad" => StreamFrom(p + strm.len + 1)
  BY <1>1, <1>2
<1>4. i \in 1 .. p /\ p = i - 1 + StreamHead
  <2>1. StreamHead \in Nat
    BY Peace DEF MtfAssumption
  <2> QED BY <1>1, <1>3, <2>1
<1> QED BY <1>1, <1>2, <1>3, <1>4

(* A header of a stream is read as a whole.                                 *)
LEMMA HeadRead ==
    ASSUME Undisturbed, ReadOf(StreamHead), detected, NEW p \in 0 .. Size, Position = p, StreamAt(p + 1)
    PROVE  \E i \in 1 .. Size, q \in 1 .. Size :
              /\ i = p + 1 /\ q >= i /\ q = i + StreamHead - 1 /\ q = p + StreamHead /\ archive[i].k \in Streams
              /\ Position' = q /\ out'.ret = StreamHead /\ ThisStream = {archive[i]}
              /\ \A l \in i + 1 .. q : archive[l].k = "data"
<1>1. PICK i \in 1 .. Size : i = p + 1 /\ archive[i].k \in Streams
  BY DEF StreamAt
<1>2. PICK q \in i .. Size :
         /\ q = i + StreamHead - 1 /\ archive[i].len \in Nat
         /\ \A l \in i + 1 .. q + archive[i].len : archive[l].k = "data"
  BY <1>1, StreamEnd
<1>3. StreamHead \in Nat \ {0} /\ q = p + StreamHead
  <2>1. StreamHead \in Nat \ {0}
    BY Peace DEF MtfAssumption
  <2> QED BY <1>1, <1>2, <2>1
<1>4. Position' = q /\ out'.ret = StreamHead
  <2>1. p \in Nat /\ p + StreamHead <= Size
    BY <1>3
  <2> QED BY <1>3, <2>1, Peace, ReadExact
<1>5. ThisUnit = archive[i]
  <2>1. out'.ret > 0
    BY <1>3, <1>4
  <2> QED BY <1>1, <1>3, <2>1, Peace, UnitRead
<1>6. ThisStream = {archive[i]}
  BY <1>1, <1>5 DEF ThisStream
<1>7. \A l \in i + 1 .. q : archive[l].k = "data"
  BY <1>2
<1> QED BY <1>1, <1>2, <1>3, <1>4, <1>6, <1>7

(* Behind a stream, the next one is where the alignment leads.              *)
LEMMA NextStream ==
    ASSUME Undisturbed, NEW p \in Nat, StreamFrom(p + 1)
    PROVE  \E q \in p .. Size :
              /\ StreamAt(q + 1)
              /\ q = IF p % StreamAlign = 0 THEN p ELSE p + (StreamAlign - (p % StreamAlign))
              /\ \A l \in p + 1 .. q : archive[l].k = "data"
<1>1. StreamAlign \in Nat \ {0}
  BY Peace DEF MtfAssumption
<1>2. PICK s \in p + 1 .. Size : StreamAt(s) /\ s < p + 1 + StreamAlign /\ Bare(p + 1, s - 1)
  BY DEF StreamFrom
<1>3. PICK q \in p .. Size : q = s - 1
  BY <1>2
<1>4. q % StreamAlign = 0 /\ q + 1 = s
  BY <1>2, <1>3 DEF StreamAt
<1>5. p <= q /\ q < p + StreamAlign /\ q \in Nat
  BY <1>1, <1>2, <1>3
<1>6. q = IF p % StreamAlign = 0 THEN p ELSE p + (StreamAlign - (p % StreamAlign))
  BY <1>1, <1>4, <1>5, NextMultiple
<1>7. \A l \in p + 1 .. q : archive[l].k = "data"
  BY <1>2, <1>3 DEF Bare
<1> QED BY <1>2, <1>4, <1>6, <1>7

(* Counted from a block, the position is as aligned as it is.               *)
LEMMA AlignedBlock ==
    ASSUME Undisturbed, NEW h \in 1 .. Size, BlockAt(h), NEW c \in Nat
    PROVE  (h - 1 + c) % StreamAlign = c % StreamAlign
<1>1. /\ Boundary \in Nat \ {0} /\ StreamAlign \in Nat \ {0} /\ Boundary % StreamAlign = 0
  BY Peace DEF MtfAssumption
<1>2. PICK b \in Nat : b = h - 1
  OBVIOUS
<1>3. b % Boundary = 0
  BY <1>2 DEF BlockAt
<1>4. b % StreamAlign = 0
  BY <1>1, <1>3, ModOfMultiple
<1>5. (b + c) % StreamAlign = c % StreamAlign
  BY <1>1, <1>4, ModShift
<1>6. h - 1 + c = b + c
  BY <1>2
<1> QED BY <1>5, <1>6

LEMMA InFile ==
    ASSUME Undisturbed, step \in {"stream", "skip", "align", "pad"}, call = "header"
    PROVE  \E p \in 0 .. Size, h \in 1 .. Size :
              /\ Position = p /\ HeaderAt(h, p) /\ OfFile(h, p)
              /\ block = archive[h] /\ archive[h].k = "file" /\ BlockAt(h) /\ Found(h - 1)
              /\ h + counted = p + 1 /\ p \in h .. Size
<1>1. PICK p \in 0 .. Size : Position = p /\ Where(p)
  BY Peace DEF Reads
<1>2. PICK h \in 1 .. Size : HeaderAt(h, p)
  BY <1>1 DEF Where
<1>3. OfFile(h, p)
  BY <1>2 DEF HeaderAt
<1>4. block = archive[h] /\ archive[h].k = "file" /\ Found(h - 1) /\ h + counted = p + 1 /\ p \in h .. Size
  BY <1>3 DEF OfFile, OfBlock
<1>5. BlockAt(h)
  BY <1>4, Kind DEF BlockLaid, Blocks
<1> QED BY <1>1, <1>2, <1>3, <1>4, <1>5

LEMMA InNext ==
    ASSUME Undisturbed,
           step \in {"position", "first", "next"} \/ (step \in {"skip", "align", "pad"} /\ call # "header")
    PROVE  call \in {"read", "skip"} /\ \E p \in 0 .. Size : Position = p /\ NextAt(p)
<1>1. PICK p \in 0 .. Size : Position = p /\ Where(p)
  BY Peace DEF Reads
<1>2. call # "none"
  BY Peace
<1> QED BY <1>1, <1>2 DEF Where, HeaderAt

(* Further on in the streams of a file.                                     *)
LEMMA FileOn ==
    ASSUME Undisturbed, call = "header", NEW h \in 1 .. Size, NEW p \in h .. Size, OfFile(h, p),
           UNCHANGED <<call, answer, block, contentVars>>,
           NEW q \in p .. Size, Position' = q, h + counted' = q + 1,
           \A l \in p + 1 .. q : archive[l].k \notin Blocks \cup {"stan"},
           OfFile(h, q)' => HeaderAt(h, q)'
    PROVE  Reads'
<1>1. archive' = archive
  BY Peace
<1>2. Found(h - 1) /\ block = archive[h] /\ block.k = "file"
  BY DEF OfFile, OfBlock
<1>3. Found(h - 1)'
  BY <1>2, FoundStays DEF contentVars
<1>4. \A l \in h + 1 .. q : archive[l].k \notin Blocks \cup {"stan"}
  BY DEF OfFile
<1>5. OfFile(h, q)'
  BY <1>1, <1>2, <1>3, <1>4 DEF OfFile, OfBlock
<1>6. Where(q)'
  BY <1>5 DEF Where
<1>7. directories' \in [Directories -> Directories \cup {0}] /\ UNCHANGED <<headers, taken>>
  BY Peace DEF Reads, contentVars
<1> QED BY <1>6, <1>7, ReadsOn

(* Further on in next_header.                                               *)
LEMMA NextOn ==
    ASSUME Undisturbed, call \in {"read", "skip"}, NEW p \in 0 .. Size, NextAt(p),
           UNCHANGED <<call, answer, contentVars>>,
           NEW q \in p .. Size, Position' = q,
           \A l \in p + 1 .. q : archive[l].k \notin {"dirb", "file"},
           Found(q)' /\ (call' = "read" => file_offset' = file_size') => NextAt(q)'
    PROVE  Reads'
<1>1. Found(q)
  BY FoundOver DEF NextAt
<1>2. Found(q)'
  BY <1>1, FoundStays DEF contentVars
<1>3. call' = "read" => file_offset' = file_size'
  BY DEF NextAt, contentVars
<1>4. NextAt(q)'
  BY <1>2, <1>3
<1>5. Where(q)'
  BY <1>4 DEF Where
<1>6. directories' \in [Directories -> Directories \cup {0}] /\ UNCHANGED <<headers, taken>>
  BY Peace DEF Reads, contentVars
<1> QED BY <1>5, <1>6, ReadsOn

LEMMA StreamFinds == ASSUME Undisturbed, ReadStream PROVE Reads'
<1>1. step = "stream" /\ ReadOf(StreamHead) /\ detected
  BY Peace DEF ReadStream
<1>2. call = "header"
  BY <1>1, InHeader
<1>3. PICK p \in 0 .. Size, h \in 1 .. Size :
         /\ Position = p /\ HeaderAt(h, p) /\ OfFile(h, p)
         /\ block = archive[h] /\ archive[h].k = "file" /\ BlockAt(h) /\ Found(h - 1)
         /\ h + counted = p + 1 /\ p \in h .. Size
  BY <1>1, <1>2, InFile
<1>4. StreamAt(p + 1)
  BY <1>1, <1>3 DEF HeaderAt
<1>5. PICK i \in 1 .. Size, q \in 1 .. Size :
         /\ i = p + 1 /\ q >= i /\ q = i + StreamHead - 1 /\ q = p + StreamHead /\ archive[i].k \in Streams
         /\ Position' = q /\ out'.ret = StreamHead /\ ThisStream = {archive[i]}
         /\ \A l \in i + 1 .. q : archive[l].k = "data"
  BY <1>1, <1>3, <1>4, HeadRead
<1>6. StreamHead \in Nat
  BY Peace DEF MtfAssumption
<1>7. /\ strm' = archive[i] /\ counted' = counted + StreamHead /\ block' = block
      /\ IF strm'.k = "stan" THEN GivesHeader("file", strm'.len) /\ UNCHANGED directories
         ELSE Goes(IF strm'.k = "spad" THEN "pad" ELSE "skip") /\ UNCHANGED contentVars
  BY <1>5, <1>6 DEF ReadStream
<1>8. archive' = archive
  BY Peace
<1>9. CASE archive[i].k = "stan"
  <2>1. \A l \in h + 1 .. q : archive[l].k \notin Blocks
    BY <1>3, <1>5, <1>9 DEF OfFile, Blocks
  <2>2. i \in Content(h)
    BY <1>3, <1>5, <1>9, <2>1 DEF Content
  <2>3. \A n \in Content(h) : n = i
    BY <1>3, <2>2, FileStart
  <2>4. Expected(h).size = archive[i].len
    <3>1. (CHOOSE n \in Content(h) : TRUE) = i
      BY <2>2, <2>3
    <3> QED BY <2>2, <3>1 DEF Expected
  <2>5. archive[i].len \in 1 .. MaxAsk
    <3>1. archive[i].len \in 0 .. MaxAsk
      BY Kind DEF Units
    <3>2. archive[i].len > 0
      BY <1>9, Peace DEF NoEmptyContent
    <3> QED BY <3>1, <3>2
  <2>6. directories[block.id] = block.id
    <3>1. PICK d \in 1 .. h - 1 : archive[d].k = "dirb" /\ archive[d].id = archive[h].id
      BY <1>3, FileStart
    <3> QED BY <1>3, <3>1 DEF Found
  <2>7. GivesHeader(archive[h].k, archive[i].len) /\ UNCHANGED directories
    BY <1>3, <1>7, <1>9
  <2>8. \A l \in h + 1 .. q : archive[l].k \notin {"dirb", "file"}
    BY <2>1 DEF Blocks
  <2>9. q \in h .. Size /\ archive[i].len \in 0 .. MaxAsk /\ archive[i].len # 0
    BY <1>3, <1>5, <2>5
  <2> QED BY <1>3, <1>5, <2>2, <2>4, <2>6, <2>7, <2>8, <2>9, HeaderGiven
<1>10. CASE archive[i].k # "stan"
  <2>1. /\ UNCHANGED <<call, answer, block, contentVars>>
        /\ step' = IF archive[i].k = "spad" THEN "pad" ELSE "skip"
    BY <1>7, <1>10 DEF Goes
  <2>2. \A l \in p + 1 .. q : archive[l].k \notin Blocks \cup {"stan"}
    BY <1>5, <1>10 DEF Streams, Blocks
  <2>3. OfFile(h, q)' => HeaderAt(h, q)'
    <3>1. (archive[i].k = "spad" => OfStream(q, {"spad"})') /\ (archive[i].k # "spad" => OfStream(q, {"other"})')
      BY <1>5, <1>7, <1>8, <1>10 DEF OfStream, Streams
    <3> QED BY <1>8, <2>1, <3>1 DEF HeaderAt
  <2>4. h + counted' = q + 1 /\ q \in p .. Size
    <3>1. counted \in Nat
      BY Peace DEF MtfTypes
    <3> QED BY <1>3, <1>5, <1>6, <1>7, <3>1
  <2> QED BY <1>2, <1>3, <1>5, <2>1, <2>2, <2>3, <2>4, FileOn
<1> QED BY <1>9, <1>10

LEMMA SkipFinds == ASSUME Undisturbed, SkipStream PROVE Reads'
<1>1. step = "skip" /\ ForwardOf(strm.len) /\ detected
  BY Peace DEF SkipStream
<1>2. /\ UNCHANGED <<call, answer, block, contentVars>>
      /\ counted' = counted + strm.len
      /\ step' = IF counted' % StreamAlign # 0 THEN "align" ELSE LoopHead
  BY DEF SkipStream, Goes
<1>3. archive' = archive /\ StreamAlign \in Nat \ {0} /\ counted \in Nat
  BY Peace DEF MtfAssumption, MtfTypes
<1>4. ASSUME NEW p \in 0 .. Size, Position = p, OfStream(p, {"stan", "other"})
      PROVE  \E q \in p .. Size :
                /\ q = p + strm.len /\ strm.len \in Nat
                /\ \E i \in 1 .. p : p = i - 1 + StreamHead /\ (i - 1) % StreamAlign = 0
                /\ Position' = q
                /\ \A l \in p + 1 .. q : archive[l].k = "data"
                /\ IF q % StreamAlign = 0 THEN StreamAt(q + 1)' ELSE Unaligned(q)'
  <2>1. {"stan", "other"} \subseteq Streams
    BY DEF Streams
  <2>2. /\ strm.len \in Nat /\ p + strm.len < Size
        /\ \E i \in 1 .. p : p = i - 1 + StreamHead /\ (i - 1) % StreamAlign = 0
        /\ \A l \in p + 1 .. p + strm.len : archive[l].k = "data"
        /\ StreamFrom(p + strm.len + 1)
    BY <1>4, <2>1, StreamBehind
  <2>3. PICK q \in p .. Size : q = p + strm.len
    BY <2>2
  <2>4. Position' = q
    BY <1>1, <1>4, <2>2, <2>3, Peace, MoveExact
  <2>5. StreamFrom(q + 1)
    BY <2>2, <2>3
  <2>6. CASE q % StreamAlign = 0
    <3>1. StreamAt(q + 1)
      BY <2>5, <2>6, NextStream
    <3>2. StreamAt(q + 1)'
      BY <1>3, <3>1, Same
    <3> QED BY <2>2, <2>3, <2>4, <2>6, <3>2
  <2>7. CASE q % StreamAlign # 0
    <3>1. StreamFrom(q + 1)'
      BY <1>3, <2>5, Same
    <3> QED BY <2>2, <2>3, <2>4, <2>7, <3>1 DEF Unaligned
  <2> QED BY <2>6, <2>7
<1>5. CASE call = "header"
  <2>1. PICK p \in 0 .. Size, h \in 1 .. Size :
           /\ Position = p /\ HeaderAt(h, p) /\ OfFile(h, p)
           /\ block = archive[h] /\ archive[h].k = "file" /\ BlockAt(h) /\ Found(h - 1)
           /\ h + counted = p + 1 /\ p \in h .. Size
    BY <1>1, <1>5, InFile
  <2>2. OfStream(p, {"other"})
    BY <1>1, <2>1 DEF HeaderAt
  <2>3. PICK q \in p .. Size :
           /\ q = p + strm.len /\ strm.len \in Nat
           /\ Position' = q
           /\ \A l \in p + 1 .. q : archive[l].k = "data"
           /\ IF q % StreamAlign = 0 THEN StreamAt(q + 1)' ELSE Unaligned(q)'
    <3>1. OfStream(p, {"stan", "other"})
      BY <2>2 DEF OfStream
    <3> QED BY <1>4, <2>1, <3>1
  <2>4. counted' \in Nat /\ h + counted' = q + 1 /\ h - 1 + counted' = q
    <3>1. PICK n \in Nat : n = strm.len
      BY <2>3
    <3>2. counted' = counted + n /\ q = p + n
      BY <1>2, <2>3, <3>1
    <3> QED BY <1>3, <2>1, <3>1, <3>2
  <2>5. q % StreamAlign = counted' % StreamAlign
    BY <2>1, <2>4, AlignedBlock
  <2>6. step' = IF q % StreamAlign # 0 THEN "align" ELSE "stream"
    BY <1>2, <1>5, <2>5 DEF LoopHead
  <2>7. OfFile(h, q)' => HeaderAt(h, q)'
    BY <2>3, <2>6 DEF HeaderAt
  <2>8. \A l \in p + 1 .. q : archive[l].k \notin Blocks \cup {"stan"}
    BY <2>3 DEF Blocks
  <2> QED BY <1>2, <1>5, <2>1, <2>3, <2>4, <2>7, <2>8, FileOn
<1>6. CASE call # "header"
  <2>1. PICK p \in 0 .. Size : Position = p /\ NextAt(p)
    BY <1>1, <1>6, InNext
  <2>2. call \in {"read", "skip"}
    BY <1>1, <1>6, InNext
  <2>3. OfStream(p, {"stan", "other"}) /\ counted = StreamHead
    BY <1>1, <2>1 DEF NextAt
  <2>4. PICK q \in p .. Size :
           /\ q = p + strm.len /\ strm.len \in Nat
           /\ \E i \in 1 .. p : p = i - 1 + StreamHead /\ (i - 1) % StreamAlign = 0
           /\ Position' = q
           /\ \A l \in p + 1 .. q : archive[l].k = "data"
           /\ IF q % StreamAlign = 0 THEN StreamAt(q + 1)' ELSE Unaligned(q)'
    BY <1>4, <2>1, <2>3
  <2>5. PICK b \in Nat : p = b + StreamHead /\ b % StreamAlign = 0
    <3>1. PICK i \in 1 .. p : p = i - 1 + StreamHead /\ (i - 1) % StreamAlign = 0
      BY <2>4
    <3>2. i - 1 \in Nat
      OBVIOUS
    <3> QED BY <3>1, <3>2
  <2>6. counted' \in Nat /\ b + counted' = q
    <3>1. StreamHead \in Nat
      BY Peace DEF MtfAssumption
    <3> QED BY <1>2, <2>3, <2>4, <2>5, <3>1
  <2>7. q % StreamAlign = counted' % StreamAlign
    BY <1>3, <2>5, <2>6, ModShift
  <2>8. step' = IF q % StreamAlign # 0 THEN "align" ELSE "next"
    BY <1>2, <1>6, <2>7 DEF LoopHead
  <2>9. Found(q)' /\ (call' = "read" => file_offset' = file_size') => NextAt(q)'
    BY <1>3, <2>4, <2>7, <2>8 DEF NextAt
  <2>10. \A l \in p + 1 .. q : archive[l].k \notin {"dirb", "file"}
    BY <2>4
  <2> QED BY <1>2, <2>1, <2>2, <2>4, <2>9, <2>10, NextOn
<1> QED BY <1>5, <1>6

LEMMA AlignFinds == ASSUME Undisturbed, AlignStream PROVE Reads'
<1>1. step = "align" /\ ForwardOf(StreamAlign - (counted % StreamAlign)) /\ detected
  BY Peace DEF AlignStream
<1>2. /\ UNCHANGED <<call, answer, block, contentVars>>
      /\ counted' = counted + StreamAlign - (counted % StreamAlign)
      /\ step' = LoopHead
  BY DEF AlignStream, Goes
<1>3. archive' = archive /\ StreamAlign \in Nat \ {0} /\ counted \in Nat
  BY Peace DEF MtfAssumption, MtfTypes
<1>4. PICK n \in Nat : n = StreamAlign - (counted % StreamAlign)
  <2>1. PICK r \in 0 .. StreamAlign - 1 : r = counted % StreamAlign
    BY <1>3, ModRange
  <2> QED BY <1>3, <2>1
<1>5. ForwardOf(n) /\ counted' = counted + n
  <2>1. counted % StreamAlign \in 0 .. StreamAlign - 1
    BY <1>3, ModRange
  <2>2. counted + StreamAlign - (counted % StreamAlign) = counted + n
    BY <1>3, <1>4, <2>1
  <2> QED BY <1>1, <1>2, <1>4, <2>2
<1>6. ASSUME NEW p \in 0 .. Size, Position = p, Unaligned(p), counted % StreamAlign = p % StreamAlign
      PROVE  \E q \in p .. Size :
                /\ q = p + n /\ Position' = q
                /\ \A l \in p + 1 .. q : archive[l].k = "data"
                /\ StreamAt(q + 1)'
  <2>1. PICK q \in p .. Size :
           /\ StreamAt(q + 1)
           /\ q = p + (StreamAlign - (p % StreamAlign))
           /\ \A l \in p + 1 .. q : archive[l].k = "data"
    BY <1>6, NextStream DEF Unaligned
  <2>2. q = p + n
    BY <1>4, <1>6, <2>1
  <2>3. Position' = q
    BY <1>1, <1>5, <1>6, <2>2, Peace, MoveExact
  <2>4. StreamAt(q + 1)'
    BY <1>3, <2>1, Same
  <2> QED BY <2>1, <2>2, <2>3, <2>4
<1>7. CASE call = "header"
  <2>1. PICK p \in 0 .. Size, h \in 1 .. Size :
           /\ Position = p /\ HeaderAt(h, p) /\ OfFile(h, p)
           /\ block = archive[h] /\ archive[h].k = "file" /\ BlockAt(h) /\ Found(h - 1)
           /\ h + counted = p + 1 /\ p \in h .. Size
    BY <1>1, <1>7, InFile
  <2>2. Unaligned(p)
    BY <1>1, <2>1 DEF HeaderAt
  <2>3. h - 1 + counted = p
    BY <1>3, <2>1
  <2>4. counted % StreamAlign = p % StreamAlign
    BY <1>3, <2>1, <2>3, AlignedBlock
  <2>5. PICK q \in p .. Size :
           /\ q = p + n /\ Position' = q
           /\ \A l \in p + 1 .. q : archive[l].k = "data"
           /\ StreamAt(q + 1)'
    BY <1>6, <2>1, <2>2, <2>4
  <2>6. h + counted' = q + 1
    BY <1>3, <1>5, <2>1, <2>5
  <2>7. OfFile(h, q)' => HeaderAt(h, q)'
    BY <1>2, <1>7, <2>5 DEF HeaderAt, LoopHead
  <2>8. \A l \in p + 1 .. q : archive[l].k \notin Blocks \cup {"stan"}
    BY <2>5 DEF Blocks
  <2> QED BY <1>2, <1>7, <2>1, <2>5, <2>6, <2>7, <2>8, FileOn
<1>8. CASE call # "header"
  <2>1. PICK p \in 0 .. Size : Position = p /\ NextAt(p)
    BY <1>1, <1>8, InNext
  <2>2. call \in {"read", "skip"}
    BY <1>1, <1>8, InNext
  <2>3. Unaligned(p) /\ counted % StreamAlign = p % StreamAlign
    BY <1>1, <2>1 DEF NextAt
  <2>4. PICK q \in p .. Size :
           /\ q = p + n /\ Position' = q
           /\ \A l \in p + 1 .. q : archive[l].k = "data"
           /\ StreamAt(q + 1)'
    BY <1>6, <2>1, <2>3
  <2>5. Found(q)' /\ (call' = "read" => file_offset' = file_size') => NextAt(q)'
    BY <1>2, <1>8, <2>4 DEF NextAt, LoopHead
  <2>6. \A l \in p + 1 .. q : archive[l].k \notin {"dirb", "file"}
    BY <2>4
  <2> QED BY <1>2, <2>1, <2>2, <2>4, <2>5, <2>6, NextOn
<1> QED BY <1>7, <1>8

LEMMA PositionFinds == ASSUME Undisturbed, AlignPosition PROVE Reads'
<1>1. step = "position" /\ ForwardOf(StreamAlign - (Position % StreamAlign)) /\ detected
  BY Peace DEF AlignPosition
<1>2. UNCHANGED <<call, answer, contentVars>> /\ step' = "first"
  BY DEF AlignPosition, Goes
<1>3. archive' = archive /\ StreamAlign \in Nat \ {0}
  BY Peace DEF MtfAssumption
<1>4. call \in {"read", "skip"}
  BY <1>1, InNext
<1>5. PICK p \in 0 .. Size : Position = p /\ NextAt(p)
  BY <1>1, InNext
<1>6. Unaligned(p)
  BY <1>1, <1>5 DEF NextAt
<1>7. PICK q \in p .. Size :
         /\ StreamAt(q + 1)
         /\ q = p + (StreamAlign - (p % StreamAlign))
         /\ \A l \in p + 1 .. q : archive[l].k = "data"
  BY <1>6, NextStream DEF Unaligned
<1>8. PICK n \in Nat : n = StreamAlign - (p % StreamAlign)
  <2>1. p % StreamAlign \in 0 .. StreamAlign - 1
    BY <1>3, ModRange
  <2> QED BY <1>3, <2>1
<1>9. Position' = q
  BY <1>1, <1>5, <1>7, <1>8, Peace, MoveExact
<1>10. StreamAt(q + 1)'
  BY <1>3, <1>7, Same
<1>11. Found(q)' /\ (call' = "read" => file_offset' = file_size') => NextAt(q)'
  BY <1>2, <1>10 DEF NextAt
<1>12. \A l \in p + 1 .. q : archive[l].k \notin {"dirb", "file"}
  BY <1>7
<1> QED BY <1>2, <1>4, <1>5, <1>9, <1>11, <1>12, NextOn

LEMMA LoopFinds == ASSUME Undisturbed, ReadFirst \/ ReadNext PROVE Reads'
<1>1. step \in {"first", "next"} /\ ReadOf(StreamHead) /\ detected
  BY Peace DEF ReadFirst, ReadNext
<1>2. call \in {"read", "skip"}
  BY <1>1, InNext
<1>3. PICK p \in 0 .. Size : Position = p /\ NextAt(p)
  BY <1>1, InNext
<1>4. StreamAt(p + 1)
  BY <1>1, <1>3 DEF NextAt
<1>5. PICK i \in 1 .. Size, q \in 1 .. Size :
         /\ i = p + 1 /\ q >= i /\ q = i + StreamHead - 1 /\ q = p + StreamHead /\ archive[i].k \in Streams
         /\ Position' = q /\ out'.ret = StreamHead /\ ThisStream = {archive[i]}
         /\ \A l \in i + 1 .. q : archive[l].k = "data"
  BY <1>1, <1>3, <1>4, HeadRead
<1>6. TakesStream(ThisStream) /\ StreamHead \in Nat
  <2>1. StreamHead \in Nat
    BY Peace DEF MtfAssumption
  <2> QED BY <1>5, <2>1 DEF ReadFirst, ReadNext
<1>7. /\ strm' = archive[i] /\ counted' = StreamHead /\ UNCHANGED <<call, answer, contentVars>>
      /\ step' = IF archive[i].k = "spad" THEN "pad" ELSE "skip"
  BY <1>5, <1>6 DEF TakesStream, Goes, IsPad
<1>8. archive' = archive
  BY Peace
<1>9. Found(q)' /\ (call' = "read" => file_offset' = file_size') => NextAt(q)'
  <2>1. CASE archive[i].k = "spad"
    <3>1. OfStream(q, {"spad"})'
      BY <1>5, <1>7, <1>8, <2>1 DEF OfStream
    <3> QED BY <1>7, <2>1, <3>1 DEF NextAt
  <2>2. CASE archive[i].k # "spad"
    <3>1. OfStream(q, {"stan", "other"})'
      BY <1>5, <1>7, <1>8, <2>2 DEF OfStream, Streams
    <3> QED BY <1>7, <2>2, <3>1 DEF NextAt
  <2> QED BY <2>1, <2>2
<1>10. \A l \in p + 1 .. q : archive[l].k \notin {"dirb", "file"}
  BY <1>5 DEF Streams
<1>11. q \in p .. Size
  BY <1>5, <1>6
<1> QED BY <1>2, <1>3, <1>5, <1>7, <1>9, <1>10, <1>11, NextOn

(* What was taken stays what it is.                                         *)
LEMMA TakenStays ==
    ASSUME UNCHANGED <<archive, headers, taken>>, Taken
    PROVE  Taken'
<1>1. Listed' = Listed
  BY Same
<1>2. ASSUME NEW j PROVE Number(j)' = Number(j) /\ Content(j)' = Content(j)
  BY Same
<1> QED BY <1>1, <1>2 DEF Taken

LEMMA PadFinds == ASSUME Undisturbed, SkipPad PROVE Reads'
<1>1. step = "pad" /\ ForwardOf(strm.len) /\ detected
  BY Peace DEF SkipPad
<1>2. ASSUME NEW p \in 0 .. Size, Position = p, OfStream(p, {"spad"})
      PROVE  \E q \in p .. Size :
                /\ Position' = q /\ BlockAt(q + 1)
                /\ \A l \in p + 1 .. q : archive[l].k = "data"
  <2>1. {"spad"} \subseteq Streams
    BY DEF Streams
  <2>2. /\ strm.len \in Nat /\ p + strm.len < Size
        /\ \A l \in p + 1 .. p + strm.len : archive[l].k = "data"
        /\ BlockAt(p + strm.len + 1)
    BY <1>2, <2>1, StreamBehind
  <2>3. PICK q \in p .. Size : q = p + strm.len
    BY <2>2
  <2>4. Position' = q
    BY <1>1, <1>2, <2>2, <2>3, Peace, MoveExact
  <2>5. BlockAt(q + 1)
    BY <2>2, <2>3
  <2>6. \A l \in p + 1 .. q : archive[l].k = "data"
    BY <2>2, <2>3
  <2> QED BY <2>4, <2>5, <2>6
<1>3. CASE call = "header"
  <2>1. PICK p \in 0 .. Size, h \in 1 .. Size :
           /\ Position = p /\ HeaderAt(h, p) /\ OfFile(h, p)
           /\ block = archive[h] /\ archive[h].k = "file" /\ BlockAt(h) /\ Found(h - 1)
           /\ h + counted = p + 1 /\ p \in h .. Size
    BY <1>1, <1>3, InFile
  <2>2. OfStream(p, {"spad"})
    BY <1>1, <2>1 DEF HeaderAt
  <2>3. PICK q \in p .. Size :
           /\ Position' = q /\ BlockAt(q + 1)
           /\ \A l \in p + 1 .. q : archive[l].k = "data"
    BY <1>2, <2>1, <2>2
  <2>4. \A l \in h + 1 .. q : archive[l].k \notin Blocks \cup {"stan"}
    BY <2>1, <2>3 DEF OfFile, Blocks
  <2>5. Content(h) = {}
    <3>1. ASSUME NEW i \in Content(h) PROVE FALSE
      <4>1. i \in h + 1 .. Size /\ archive[i].k = "stan" /\ \A l \in h + 1 .. i : archive[l].k \notin Blocks
        BY DEF Content
      <4>2. i > q
        BY <2>1, <2>4, <4>1
      <4>3. q + 1 \in h + 1 .. i
        BY <2>1, <4>1, <4>2
      <4> QED BY <2>3, <4>1, <4>3 DEF BlockAt
    <3> QED BY <3>1
  <2>6. Expected(h).size = 0
    BY <2>5 DEF Expected
  <2>7. directories[block.id] = block.id
    <3>1. PICK d \in 1 .. h - 1 : archive[d].k = "dirb" /\ archive[d].id = archive[h].id
      BY <2>1, FileStart
    <3> QED BY <2>1, <3>1 DEF Found
  <2>8. GivesHeader(archive[h].k, 0) /\ UNCHANGED directories
    BY <1>3, <2>1 DEF SkipPad
  <2>9. q \in h .. Size /\ 0 \in 0 .. MaxAsk /\ \A l \in h + 1 .. q : archive[l].k \notin {"dirb", "file"}
    BY <2>1, <2>4 DEF Blocks
  <2> QED BY <2>1, <2>3, <2>6, <2>7, <2>8, <2>9, HeaderGiven
<1>4. CASE call # "header"
  <2>1. PICK p \in 0 .. Size : Position = p /\ NextAt(p)
    BY <1>1, <1>4, InNext
  <2>2. call \in {"read", "skip"}
    BY <1>1, <1>4, InNext
  <2>3. OfStream(p, {"spad"})
    BY <1>1, <2>1 DEF NextAt
  <2>4. PICK q \in p .. Size :
           /\ Position' = q /\ BlockAt(q + 1)
           /\ \A l \in p + 1 .. q : archive[l].k = "data"
    BY <1>2, <2>1, <2>3
  <2>5. /\ file_offset' = IF call = "skip" THEN file_size ELSE file_offset
        /\ call' = "none" /\ answer' = "ok"
        /\ UNCHANGED <<file_size, directories, headers, taken>>
    BY <1>4 DEF SkipPad, Ends, Returns
  <2>6. file_offset' = file_size'
    BY <2>1, <2>2, <2>5 DEF NextAt
  <2>7. archive' = archive /\ Reads
    BY Peace
  <2>8. Found(q)
    BY <2>1, <2>4, FoundOver DEF NextAt
  <2>9. OnBlock(q)'
    <3>1. BlockAt(q + 1)'
      BY <2>4, <2>7, Same
    <3>2. Found(q)'
      BY <2>5, <2>8, FoundStays
    <3> QED BY <3>1, <3>2 DEF OnBlock
  <2>10. CallAt(q)' /\ Going'
    BY <2>5, <2>6, <2>9 DEF CallAt, Going
  <2>11. Taken'
    BY <2>5, <2>7, TakenStays DEF Reads
  <2> QED BY <2>4, <2>5, <2>7, <2>10, <2>11 DEF Reads, Where
<1> QED BY <1>3, <1>4

(* Between two calls: what does not get on. *)
LEMMA CallStays ==
    ASSUME Undisturbed, call = "none", Going' \/ UNCHANGED answer, answer = "not_found" => UNCHANGED answer,
           UNCHANGED <<Position, call, step, file_offset, file_size, directories, headers, taken>>
    PROVE  Reads'
<1>1. archive' = archive /\ Reads /\ file_size \in Int /\ file_offset \in Int
  BY Peace DEF MtfTypes
<1>2. PICK p \in 0 .. Size : Position = p /\ CallAt(p)
  BY <1>1, Peace DEF Reads, Where
<1>3. Position' = p
  BY <1>2
<1>4. Taken'
  BY <1>1, TakenStays DEF Reads
<1>7. CASE answer = "not_found" /\ Found(Size)
  <2>1. Found(Size)'
    BY <1>7, FoundStays
  <2> QED BY <1>1, <1>3, <1>4, <1>7, <2>1 DEF Reads, Where, CallAt
<1>8. Going => Going'
  BY DEF Going
<1>5. CASE Going /\ file_offset = file_size /\ OnBlock(p)
  <2>1. BlockAt(p + 1)'
    BY <1>1, <1>5, Same DEF OnBlock
  <2>2. Found(p)'
    BY <1>5, FoundStays DEF OnBlock
  <2>3. CallAt(p)'
    BY <1>5, <1>8, <2>1, <2>2 DEF CallAt, OnBlock
  <2> QED BY <1>1, <1>3, <1>4, <1>5, <1>8, <2>3 DEF Reads, Where
<1>6. ASSUME Going, file_offset < file_size, NEW i \in 1 .. Size, ContentAt(i, p) PROVE Reads'
  <2>1. Found(p)'
    BY <1>6, FoundStays DEF ContentAt
  <2>2. ContentAt(i, p)'
    <3>1. Listed' = Listed
      BY <1>1, Same
    <3>2. ASSUME NEW j PROVE Number(j)' = Number(j) /\ Content(j)' = Content(j)
      BY <1>1, Same
    <3> QED BY <1>1, <1>6, <2>1, <3>1, <3>2 DEF ContentAt
  <2>3. CallAt(p)'
    BY <1>1, <1>6, <1>8, <2>2 DEF CallAt
  <2> QED BY <1>1, <1>3, <1>4, <1>6, <1>8, <2>3 DEF Reads, Where
<1> QED BY <1>2, <1>5, <1>6, <1>7 DEF CallAt

LEMMA SamePosition == ASSUME UNCHANGED vars PROVE UNCHANGED Position
BY DEF vars, streamVars, detectVars, Position

LEMMA HeaderFinds == ASSUME Undisturbed, format = "mtf", Going, GetHeader PROVE Reads'
<1>1. /\ call = "none" /\ UNCHANGED <<vars, file_offset, file_size, directories, headers, taken>>
      /\ IF file_offset < file_size THEN answer' = "rest" /\ UNCHANGED <<call, step>>
         ELSE call' = "header" /\ step' = "block" /\ UNCHANGED answer
  BY DEF GetHeader, contentVars
<1>2. archive' = archive /\ Reads /\ file_size \in Int /\ file_offset \in Int /\ file_offset <= file_size
  BY Peace DEF MtfTypes
<1>3. Going' /\ answer # "not_found"
  BY <1>1 DEF Going
<1>4. CASE file_offset < file_size
  BY <1>1, <1>3, <1>4, SamePosition, CallStays
<1>5. CASE ~(file_offset < file_size)
  <2>1. PICK p \in 0 .. Size : Position = p /\ OnBlock(p)
    BY <1>1, <1>2, <1>3, <1>5 DEF Reads, Where, CallAt
  <2>2. Position' = p
    BY <1>1, <2>1 DEF vars, streamVars, detectVars, Position
  <2>3. OnBlock(p)'
    <3>1. BlockAt(p + 1)'
      BY <1>2, <2>1, Same DEF OnBlock
    <3>2. Found(p)'
      BY <1>1, <2>1, FoundStays DEF OnBlock
    <3> QED BY <3>1, <3>2 DEF OnBlock
  <2>4. Taken'
    BY <1>1, <1>2, TakenStays DEF Reads
  <2> QED BY <1>1, <1>2, <1>3, <1>5, <2>2, <2>3, <2>4 DEF Reads, Where
<1> QED BY <1>4, <1>5

(* What follows the content of a file.                                      *)
LEMMA ContentEnd ==
    ASSUME Undisturbed, call = "none", answer # "not_found", file_offset < file_size
    PROVE  \E p \in 0 .. Size, i \in 1 .. Size, c \in 1 .. Size, q \in 1 .. Size :
              /\ Position = p /\ ContentAt(i, p) /\ Found(p) /\ p = c + file_offset
              /\ c = i + StreamHead - 1 /\ q = c + file_size /\ q < Size
              /\ \A l \in c + 1 .. q : archive[l].k = "data"
              /\ IF q % StreamAlign = 0 THEN StreamAt(q + 1) ELSE Unaligned(q)
<1>1. file_size \in Nat /\ file_offset \in Nat
  BY Peace DEF MtfTypes
<1>2. PICK p \in 0 .. Size, i \in 1 .. Size : Position = p /\ ContentAt(i, p)
  BY <1>1, Peace DEF Reads, Where, CallAt
<1>3. archive[i].k = "stan" /\ archive[i].len = file_size
  BY <1>2 DEF ContentAt, Content
<1>4. PICK c \in i .. Size :
         /\ c = i + StreamHead - 1 /\ c + file_size < Size
         /\ \A l \in i + 1 .. c + file_size : archive[l].k = "data"
         /\ StreamFrom(c + file_size + 1)
  BY <1>3, StreamEnd DEF Streams
<1>5. PICK q \in 1 .. Size : q = c + file_size
  BY <1>1, <1>4
<1>6. StreamFrom(q + 1)
  BY <1>4, <1>5
<1>7. q % StreamAlign = 0 => StreamAt(q + 1)
  BY <1>6, NextStream
<1>8. Found(p) /\ p = c + file_offset
  BY <1>2, <1>4 DEF ContentAt
<1>9. \A l \in c + 1 .. q : archive[l].k = "data"
  BY <1>4, <1>5
<1>10. c \in 1 .. Size /\ c = i + StreamHead - 1 /\ q = c + file_size /\ q < Size
  BY <1>4, <1>5
<1>11. IF q % StreamAlign = 0 THEN StreamAt(q + 1) ELSE Unaligned(q)
  BY <1>6, <1>7 DEF Unaligned
<1> QED BY <1>2, <1>8, <1>9, <1>10, <1>11

(* The content is behind the reader, and it goes on to the pad.             *)
LEMMA ContentLeft ==
    ASSUME Undisturbed, Going, call' \in {"read", "skip"}, step' = StartNextHeader,
           UNCHANGED <<answer, file_size, directories, headers>>, Taken', taken' \in Seq(Int),
           call' = "read" => file_offset' = file_size,
           NEW p \in 0 .. Size, Found(p), NEW q \in p .. Size, Position' = q,
           \A l \in p + 1 .. q : archive[l].k = "data",
           IF q % StreamAlign = 0 THEN StreamAt(q + 1) ELSE Unaligned(q)
    PROVE  Reads'
<1>1. archive' = archive /\ Reads
  BY Peace
<1>2. Found(q)
  <2>1. p \in Nat /\ q \in Nat /\ p <= q /\ q <= Size
    OBVIOUS
  <2>2. \A l \in p + 1 .. q : archive[l].k \notin {"dirb", "file"}
    OBVIOUS
  <2> QED BY <2>1, <2>2, FoundOver
<1>3. Found(q)'
  BY <1>2, FoundStays
<1>4. NextAt(q)'
  <2>1. CASE q % StreamAlign = 0
    <3>1. StreamAt(q + 1)'
      BY <1>1, <2>1, Same
    <3> QED BY <1>3, <2>1, <3>1 DEF NextAt, StartNextHeader
  <2>2. CASE q % StreamAlign # 0
    <3>1. StreamFrom(q + 1)'
      BY <1>1, <2>2, Same DEF Unaligned
    <3> QED BY <1>3, <2>2, <3>1 DEF NextAt, StartNextHeader, Unaligned
  <2> QED BY <2>1, <2>2
<1> QED BY <1>1, <1>4 DEF Reads, Where, Going

(* More of what is taken in order.                                          *)
LEMMA TakenJoin ==
    ASSUME NEW s \in Seq(Int), NEW t \in Seq(Int), NEW i \in Int,
           \A m \in 1 .. Len(s) : s[m] = i + m - 1,
           \A m \in 1 .. Len(t) : t[m] = i + Len(s) + m - 1
    PROVE  /\ s \o t \in Seq(Int) /\ Len(s \o t) = Len(s) + Len(t)
           /\ \A m \in DOMAIN (s \o t) : (s \o t)[m] = i + m - 1
<1>1. s \o t \in Seq(Int) /\ Len(s \o t) = Len(s) + Len(t) /\ DOMAIN (s \o t) = 1 .. Len(s) + Len(t)
  OBVIOUS
<1>2. PICK a \in Nat, b \in Nat : a = Len(s) /\ b = Len(t)
  OBVIOUS
<1>3. ASSUME NEW m \in 1 .. a + b PROVE (s \o t)[m] = i + m - 1
  <2>1. CASE m <= a
    <3>1. (s \o t)[m] = s[m] /\ m \in 1 .. Len(s)
      BY <1>2, <2>1
    <3> QED BY <3>1
  <2>2. CASE m > a
    <3>1. PICK e \in 1 .. b : e = m - a
      BY <2>2
    <3>2. (s \o t)[m] = t[e] /\ e \in 1 .. Len(t)
      BY <1>2, <2>2, <3>1
    <3>3. t[e] = i + a + e - 1
      BY <1>2, <3>2
    <3> QED BY <3>1, <3>2, <3>3
  <2>3. m <= a \/ m > a
    OBVIOUS
  <2> QED BY <2>1, <2>2, <2>3, Zenon
<1> QED BY <1>1, <1>2, <1>3

LEMMA ReadFileFinds == ASSUME Undisturbed, format = "mtf", Going, ReadFile PROVE Reads'
<1>1. call = "none" /\ answer # "not_found" /\ detected /\ step = "none"
  BY Peace DEF ReadFile, Going
<1>2. archive' = archive /\ Reads /\ file_size \in 0 .. MaxAsk /\ file_offset \in 0 .. file_size
  BY Peace DEF MtfTypes
<1>3. PICK length \in 1 .. MaxAsk :
         IF Clamp(length) < 1 THEN answer' = "ok" /\ UNCHANGED <<vars, call, step, contentVars>>
         ELSE /\ ReadOf(Clamp(length))
              /\ file_offset' = IF out'.ret > 0 THEN file_offset + out'.ret ELSE file_offset
              /\ taken' = taken \o out'.data
              /\ IF file_offset' = file_size
                 THEN call' = "read" /\ step' = StartNextHeader /\ UNCHANGED answer
                 ELSE Returns(IF out'.ret < 0 THEN "error" ELSE "ok")
              /\ UNCHANGED <<file_size, directories, headers>>
  BY DEF ReadFile
<1>4. CASE Clamp(length) < 1
  <2>1. answer' = "ok" /\ UNCHANGED <<vars, call, step, file_offset, file_size, directories, headers, taken>>
    BY <1>3, <1>4 DEF contentVars
  <2> QED BY <1>1, <2>1, SamePosition, CallStays DEF Going
<1>5. CASE ~(Clamp(length) < 1)
  <2>1. PICK n \in Nat \ {0} : n = Clamp(length)
    BY <1>2, <1>5 DEF Clamp
  <2>2. file_offset + n <= file_size /\ file_offset < file_size
    BY <1>2, <2>1 DEF Clamp
  <2>3. PICK p \in 0 .. Size, i \in 1 .. Size, c \in 1 .. Size, e \in 1 .. Size :
           /\ Position = p /\ ContentAt(i, p) /\ Found(p) /\ p = c + file_offset
           /\ c = i + StreamHead - 1 /\ e = c + file_size /\ e < Size
           /\ \A l \in c + 1 .. e : archive[l].k = "data"
           /\ IF e % StreamAlign = 0 THEN StreamAt(e + 1) ELSE Unaligned(e)
    BY <1>1, <2>2, ContentEnd
  <2>4. PICK q \in p .. Size : q = p + n /\ q <= e
    BY <1>2, <2>2, <2>3
  <2>5. ReadOf(n)
    BY <1>3, <1>5, <2>1
  <2>6. Position' = q /\ out' = [ret |-> n, data |-> Stream!Bytes(p, n)]
    <3>1. IInv /\ detected /\ ~pipe /\ faults' = faults
      BY <1>1, Peace
    <3>2. p \in Nat /\ p + n <= Size /\ Position = p
      BY <2>3, <2>4
    <3>3. Position' = p + n /\ out' = [ret |-> n, data |-> Stream!Bytes(p, n)]
      BY <2>5, <3>1, <3>2, ReadExact
    <3> QED BY <2>4, <3>3
  <2>7. out'.ret = n /\ out'.data = Stream!Bytes(p, n)
    BY <2>6
  <2>8. /\ file_offset' = file_offset + n
        /\ taken' = taken \o Stream!Bytes(p, n)
        /\ IF file_offset' = file_size
           THEN call' = "read" /\ step' = StartNextHeader /\ UNCHANGED answer
           ELSE call' = "none" /\ step' = "none" /\ answer' = "ok"
        /\ UNCHANGED <<file_size, directories, headers>>
    BY <1>3, <1>5, <2>7 DEF Returns
  <2>9. PICK o \in Nat, z \in Nat : o = file_offset /\ z = file_size /\ file_offset' = o + n
    BY <1>2, <2>8
  <2>10. taken \in Seq(Int) /\ Len(taken) = o /\ \A m \in 1 .. Len(taken) : taken[m] = c + m - 1
    <3>1. taken \in Seq(Int)
      BY <1>2 DEF Reads
    <3>2. DOMAIN taken = 1 .. Len(taken)
      BY <3>1
    <3>3. Len(taken) = o /\ \A m \in DOMAIN taken : taken[m] = c + m - 1
      BY <2>3, <2>9 DEF ContentAt
    <3> QED BY <3>1, <3>2, <3>3
  <2>11. /\ taken' \in Seq(Int) /\ Len(taken') = o + n
         /\ \A m \in DOMAIN taken' : taken'[m] = c + m - 1
    <3> DEFINE more == Stream!Bytes(p, n)
    <3>1. more \in Seq(Int) /\ Len(more) = n /\ \A m \in 1 .. n : more[m] = p + m - 1
      BY DEF Stream!Bytes
    <3> HIDE DEF more
    <3>2. taken' = taken \o more
      BY <2>8 DEF more
    <3>3. PICK s \in Seq(Int) : s = taken
      BY <2>10
    <3>4. p = c + Len(s) /\ Len(s) = o /\ \A m \in 1 .. Len(s) : s[m] = c + m - 1
      BY <2>3, <2>9, <2>10, <3>3
    <3>5. \A m \in 1 .. Len(more) : more[m] = c + Len(s) + m - 1
      BY <3>1, <3>4
    <3>6. c \in Int
      OBVIOUS
    <3>7. /\ s \o more \in Seq(Int) /\ Len(s \o more) = Len(s) + Len(more)
          /\ \A m \in DOMAIN (s \o more) : (s \o more)[m] = c + m - 1
      BY <3>1, <3>4, <3>5, <3>6, TakenJoin
    <3> QED BY <3>1, <3>2, <3>3, <3>4, <3>7
  <2>12. \E j \in Listed' : Number(j)' = Len(headers') /\ i \in Content(j)'
    <3>1. PICK j \in Listed : Number(j) = Len(headers) /\ i \in Content(j)
      BY <2>3 DEF ContentAt
    <3>2. Listed' = Listed /\ Number(j)' = Number(j) /\ Content(j)' = Content(j)
      BY <1>2, Same
    <3> QED BY <2>8, <3>1, <3>2
  <2>13. Taken'
    BY <2>3, <2>11, <2>12 DEF Taken
  <2>14. \A l \in p + 1 .. q : archive[l].k = "data"
    BY <1>2, <2>3, <2>4
  <2>15. CASE file_offset' = file_size
    <3>1. q = e
      BY <2>3, <2>4, <2>9, <2>15
    <3> QED BY <2>3, <2>6, <2>8, <2>11, <2>13, <2>14, <2>15, <3>1, ContentLeft
  <2>16. CASE file_offset' # file_size
    <3>1. Found(q)
      BY <2>3, <2>14, FoundOver
    <3>2. Found(q)'
      BY <2>8, <3>1, FoundStays
    <3>3. q = c + file_offset' /\ file_offset' < file_size'
      <4>1. q = c + (o + n) /\ o + n < z
        BY <2>2, <2>3, <2>4, <2>9, <2>16
      <4> QED BY <2>8, <2>9, <4>1
    <3>4. archive'[i].len = file_size'
      BY <1>2, <2>3, <2>8 DEF ContentAt
    <3>5. ContentAt(i, q)'
      BY <2>3, <2>9, <2>11, <2>12, <3>2, <3>3, <3>4 DEF ContentAt
    <3>6. CallAt(q)' /\ Going'
      BY <2>8, <2>16, <3>3, <3>5 DEF CallAt, Going
    <3> QED BY <1>2, <2>6, <2>8, <2>11, <2>13, <2>16, <3>6 DEF Reads, Where
  <2> QED BY <2>15, <2>16
<1> QED BY <1>4, <1>5

LEMMA SkipFileFinds == ASSUME Undisturbed, format = "mtf", Going, SkipFile PROVE Reads'
<1>1. call = "none" /\ answer # "not_found" /\ detected
  BY Peace DEF SkipFile, Going
<1>2. archive' = archive /\ Reads /\ file_size \in 0 .. MaxAsk /\ file_offset \in 0 .. file_size
  BY Peace DEF MtfTypes
<1>3. UNCHANGED <<file_size, directories, headers, taken>>
  BY DEF SkipFile
<1>4. CASE file_size = file_offset
  <2>1. answer' = "ok" /\ UNCHANGED <<vars, call, step, file_offset>>
    BY <1>4 DEF SkipFile
  <2> QED BY <1>1, <1>3, <2>1, SamePosition, CallStays DEF Going
<1>5. CASE file_size # file_offset
  <2>1. file_offset < file_size
    BY <1>2, <1>5
  <2>2. PICK p \in 0 .. Size, i \in 1 .. Size, c \in 1 .. Size, e \in 1 .. Size :
           /\ Position = p /\ ContentAt(i, p) /\ Found(p) /\ p = c + file_offset
           /\ c = i + StreamHead - 1 /\ e = c + file_size /\ e < Size
           /\ \A l \in c + 1 .. e : archive[l].k = "data"
           /\ IF e % StreamAlign = 0 THEN StreamAt(e + 1) ELSE Unaligned(e)
    BY <1>1, <2>1, ContentEnd
  <2>3. PICK n \in Nat : n = file_size - file_offset
    BY <1>2
  <2>4. p + n = e /\ e \in p .. Size
    BY <1>2, <2>2, <2>3
  <2>5. Position' = e /\ out'.ret = e
    <3>1. ForwardOf(n)
      BY <1>5, <2>3 DEF SkipFile
    <3> QED BY <1>1, <2>2, <2>3, <2>4, <3>1, Peace, MoveExact
  <2>6. out'.ret # -1 /\ ~(Position + file_size - file_offset > out'.ret)
    BY <1>2, <2>2, <2>3, <2>4, <2>5
  <2>7. call' = "skip" /\ step' = StartNextHeader /\ UNCHANGED <<answer, file_offset>>
    BY <1>5, <2>6 DEF SkipFile
  <2>8. \A l \in p + 1 .. e : archive[l].k = "data"
    BY <1>2, <2>2
  <2>9. Taken' /\ taken' \in Seq(Int)
    BY <1>2, <1>3, TakenStays DEF Reads
  <2> QED BY <1>3, <2>2, <2>4, <2>5, <2>7, <2>8, <2>9, ContentLeft
<1> QED BY <1>4, <1>5

----------------------------------------------------------------------------
(* Every step. *)

LEMMA StepFinds == ASSUME Undisturbed, MtfStep PROVE Reads'
BY BlockFinds, SkipBlockFinds, PartFinds, DirectoryFinds, EventFinds, StreamFinds, SkipFinds,
   AlignFinds, PadFinds, PositionFinds, LoopFinds DEF MtfStep

LEMMA CallFinds == ASSUME Undisturbed, MtfCall PROVE Reads'
BY HeaderFinds, ReadFileFinds, SkipFileFinds DEF MtfCall

LEMMA DetectFinds == ASSUME Undisturbed, AutoDetect PROVE Reads'
<1>1. Detect /\ UNCHANGED <<call, step, answer, file_offset, file_size, directories, headers, taken>>
  BY DEF AutoDetect, contentVars
<1>2. ~detected
  BY <1>1 DEF Detect
<1>3. call = "none"
  BY <1>2, Peace
<1>4. UNCHANGED Position
  BY <1>1, DetectRefines, Peace
<1> QED BY <1>1, <1>3, <1>4, CallStays

(* Nothing changes: a file that is whole has a stream where the reader      *)
(* looks for one.                                                           *)
LEMMA StandsStill == ASSUME Undisturbed, UNCHANGED <<vars, mtfVars>> PROVE Reads'
<1>1. /\ UNCHANGED <<format, call, step, answer, block, strm, counted>>
      /\ UNCHANGED <<file_offset, file_size, directories, headers, taken>>
      /\ archive' = archive /\ Position' = Position
  BY SamePosition DEF mtfVars, readerVars, contentVars
<1>2. Reads
  BY Peace
<1>3. ASSUME NEW p \in Nat, Found(p) PROVE Found(p)'
  BY <1>1, <1>3, FoundStays
<1>4. ASSUME NEW j PROVE /\ BlockAt(j)' <=> BlockAt(j)
                         /\ StreamAt(j)' <=> StreamAt(j)
                         /\ StreamFrom(j)' <=> StreamFrom(j)
  BY <1>1, Same
<1>5. PICK p \in 0 .. Size : Position = p /\ Where(p)
  BY <1>2 DEF Reads
<1>6. Unaligned(p) => Unaligned(p)'
  BY <1>1, <1>4 DEF Unaligned
<1>7. CASE call = "none"
  BY <1>1, <1>7, CallStays
<1>8. CASE call = "header" /\ step = "block" /\ OnBlock(p)
  <2>1. OnBlock(p)'
    BY <1>3, <1>4, <1>8 DEF OnBlock
  <2> QED BY <1>1, <1>2, <1>5, <1>8, <2>1, ReadsOn DEF Reads, Where
<1>9. ASSUME call = "header", NEW h \in 1 .. Size, HeaderAt(h, p) PROVE Reads'
  <2>1. ASSUME NEW kinds, OfBlock(h, p, kinds) PROVE OfBlock(h, p, kinds)'
    <3>1. h - 1 \in Nat
      OBVIOUS
    <3> QED BY <1>1, <1>3, <2>1, <3>1 DEF OfBlock
  <2>2. OfFile(h, p) => OfFile(h, p)'
    BY <1>1, <2>1 DEF OfFile
  <2>3. HeaderAt(h, p)'
    BY <1>1, <1>4, <1>6, <1>9, <2>1, <2>2 DEF HeaderAt, OfStream
  <2> QED BY <1>1, <1>2, <1>5, <1>9, <2>3, ReadsOn DEF Reads, Where
<1>10. CASE call \in {"read", "skip"} /\ NextAt(p)
  <2>1. NextAt(p)'
    BY <1>1, <1>3, <1>4, <1>6, <1>10 DEF NextAt, OfStream
  <2> QED BY <1>1, <1>2, <1>5, <1>10, <2>1, ReadsOn DEF Reads, Where
<1> QED BY <1>5, <1>7, <1>8, <1>9, <1>10 DEF Where

LEMMA OtherFinds == ASSUME Undisturbed, OtherFormat PROVE Reads'
<1>1. format = "other" => archive[1].k \notin Blocks
  BY DEF Undisturbed, Finds
<1>2. archive[1].k \in Blocks
  BY Peace DEF IsWhole, BlockAt
<1> QED BY <1>1, <1>2 DEF OtherFormat

LEMMA QuietFinds == ASSUME Undisturbed, [MtfNext]_<<vars, mtfVars>> PROVE Reads'
<1>1. CASE UNCHANGED <<vars, mtfVars>>
  BY <1>1, StandsStill
<1>2. CASE Stopped
  BY <1>2, StandsStill DEF Stopped
<1> QED BY <1>1, <1>2, DetectFinds, CallFinds, StepFinds, OtherFinds DEF MtfNext

(* Calls that fail are not forgotten, and a file stays one.                 *)
LEMMA FaultsStay ==
    ASSUME IInv, Detect \/ UNCHANGED vars \/ (detected /\ Asks)
    PROVE  faults' >= faults /\ pipe' = pipe /\ faults \in Nat /\ faults' \in Nat
<1>1. faults \in Nat
  BY DEF IInv, TypeOK
<1>2. ASSUME NEW n, StreamRead(n) PROVE faults' \in {faults, faults + 1} /\ pipe' = pipe
  BY <1>2 DEF StreamRead
<1>3. ASSUME NEW r, StreamForward(r) PROVE faults' \in {faults, faults + 1} /\ pipe' = pipe
  BY <1>3 DEF StreamForward
<1>4. CASE Detect
  BY <1>1, <1>2, <1>4 DEF Detect
<1>5. CASE UNCHANGED vars
  BY <1>1, <1>5 DEF vars, streamVars
<1>6. ASSUME NEW length, ReadOf(length) PROVE faults' \in {faults, faults + 1} /\ pipe' = pipe
  BY <1>2, <1>6 DEF ReadOf, ReadBuffer, ReadBoth, ReadThrough, streamVars
<1>7. ASSUME NEW offset, ForwardOf(offset) PROVE faults' \in {faults, faults + 1} /\ pipe' = pipe
  BY <1>3, <1>7 DEF ForwardOf, streamVars
<1> QED BY <1>1, <1>4, <1>5, <1>6, <1>7 DEF Asks

LEMMA CallSteps ==
    ASSUME call = "none" <=> step = "none", [MtfNext]_<<vars, mtfVars>>
    PROVE  call' = "none" <=> step' = "none"
<1>1. CASE UNCHANGED <<call, step>>
  BY <1>1
<1>2. ASSUME NEW s, step # "none", Returns(s) PROVE call' = "none" <=> step' = "none"
  BY <1>2 DEF Returns
<1>3. ASSUME NEW s, step # "none", Goes(s), s # "none" PROVE call' = "none" <=> step' = "none"
  BY <1>3 DEF Goes
<1>4. ASSUME NEW k, NEW n, GivesHeader(k, n), step # "none" PROVE call' = "none" <=> step' = "none"
  BY <1>2, <1>4 DEF GivesHeader
<1>5. StartNextHeader \in {"position", "first"} /\ LoopHead \in {"stream", "next"}
  BY DEF StartNextHeader, LoopHead
<1>6. CASE AutoDetect \/ OtherFormat \/ Stopped \/ UNCHANGED <<vars, mtfVars>>
  BY <1>1, <1>6 DEF AutoDetect, OtherFormat, Stopped, mtfVars
<1>7. CASE MtfCall
  <2>1. CASE GetHeader
    BY <2>1 DEF GetHeader
  <2>2. CASE ReadFile
    BY <1>5, <2>2 DEF ReadFile, Returns
  <2>3. CASE SkipFile
    BY <1>5, <2>3 DEF SkipFile, Returns
  <2> QED BY <1>7, <2>1, <2>2, <2>3 DEF MtfCall
<1>8. CASE MtfStep
  <2>1. CASE ReadBlock
    BY <1>2, <1>3, <2>1 DEF ReadBlock
  <2>2. CASE SkipBlock \/ SkipToEvent \/ AlignPosition
    BY <1>3, <2>2 DEF SkipBlock, SkipToEvent, AlignPosition
  <2>3. CASE ReadPart
    BY <1>2, <1>3, <2>3 DEF ReadPart
  <2>4. CASE SkipDirectory
    BY <1>4, <2>4 DEF SkipDirectory
  <2>5. CASE ReadStream
    BY <1>2, <1>3, <1>4, <2>5 DEF ReadStream
  <2>6. CASE SkipStream \/ AlignStream
    BY <1>3, <1>5, <2>6 DEF SkipStream, AlignStream
  <2>7. CASE SkipPad
    BY <1>2, <1>4, <2>7 DEF SkipPad, Ends
  <2>8. CASE ReadFirst \/ ReadNext
    BY <1>2, <1>3, <2>8 DEF ReadFirst, ReadNext, Ends, TakesStream
  <2> QED BY <1>8, <2>1, <2>2, <2>3, <2>4, <2>5, <2>6, <2>7, <2>8 DEF MtfStep
<1> QED BY <1>6, <1>7, <1>8 DEF MtfNext

LEMMA FormatStays ==
    ASSUME format = "other" => archive[1].k \notin Blocks, [MtfNext]_<<vars, mtfVars>>
    PROVE  archive' = archive /\ (format' = "other" => archive'[1].k \notin Blocks)
<1>1. CASE AutoDetect
  BY <1>1 DEF AutoDetect
<1>2. CASE UNCHANGED <<archive, format>>
  BY <1>2
<1> QED BY <1>1, <1>2 DEF MtfNext, MtfCall, MtfStep, OtherFormat, Stopped, mtfVars

LEMMA FindsKept ==
    ASSUME MtfAssumption, AsksFit, MtfInv, Finds, [MtfNext]_<<vars, mtfVars>>
    PROVE  Finds'
<1>1. archive' = archive /\ (format' = "other" => archive'[1].k \notin Blocks)
  BY FormatStays DEF Finds
<1>2. call' = "none" <=> step' = "none"
  BY CallSteps DEF Finds
<1>3. ASSUME Quiet' PROVE Reads'
  <2>1. IsWhole' /\ NoEmptyContent' /\ faults' = 0 /\ ~pipe'
    BY <1>3, Zenon DEF Quiet
  <2>2. faults' >= faults /\ pipe' = pipe /\ faults \in Nat
    BY MtfStepIs, FaultsStay DEF MtfInv
  <2>3. IsWhole /\ NoEmptyContent
    <3>1. (IsWhole' <=> IsWhole) /\ (NoEmptyContent' <=> NoEmptyContent)
      <4>1. UNCHANGED archive
        BY <1>1
      <4> QED BY <4>1, WholeSame, Zenon
    <3> QED BY <2>1, <3>1, Zenon
  <2>4. faults = 0
    BY <2>1, <2>2
  <2>5. ~pipe
    BY <2>1, <2>2
  <2>6. Undisturbed
    BY <1>1, <2>1, <2>3, <2>4, <2>5 DEF Undisturbed, Quiet
  <2> QED BY <2>6, QuietFinds
<1> QED BY <1>1, <1>2, <1>3 DEF Finds

LEMMA FindsFirst == ASSUME MtfAssumption, AsksFit, MtfInit PROVE Finds
<1>1. /\ format = "none" /\ call = "none" /\ step = "none" /\ answer = "none"
      /\ file_offset = 0 /\ file_size = 0 /\ directories = [d \in Directories |-> 0]
      /\ headers = <<>> /\ taken = <<>> /\ Position = 0
  BY DEF MtfInit, Init, Position
<1>2. Number(0) = 0
  <2>1. {l \in Listed : l <= 0} = {}
    BY DEF Listed
  <2> QED BY <2>1, FS_EmptySet DEF Number
<1>3. Found(0)
  <2>1. \A j \in Listed : ~(j <= 0)
    BY DEF Listed
  <2> QED BY <1>1, <1>2, <2>1 DEF Found
<1>4. ASSUME IsWhole PROVE Reads
  <2>1. OnBlock(0)
    BY <1>3, <1>4 DEF IsWhole, OnBlock
  <2>2. headers \in Seq(HeaderType) /\ taken \in Seq(Int)
    BY <1>1
  <2> QED BY <1>1, <2>1, <2>2 DEF Reads, Where, CallAt, Taken, Going
<1> QED BY <1>1, <1>4 DEF Finds, Quiet

LEMMA FindsAll == ASSUME Finds PROVE AllFound
<1> SUFFICES ASSUME IsWhole, NoEmptyContent, faults = 0, ~pipe
             PROVE  /\ Going \/ answer = "not_found"
                    /\ Len(headers) <= Cardinality(Listed)
                    /\ \A j \in Listed : Number(j) <= Len(headers) => headers[Number(j)] = Expected(j)
                    /\ answer = "not_found" => Len(headers) = Cardinality(Listed)
                    /\ Taken
  BY DEF AllFound, Taken
<1>1. Reads
  BY DEF Finds, Quiet
<1>2. PICK p \in 0 .. Size : Where(p)
  BY <1>1 DEF Reads
<1>3. PICK q \in Nat : Found(q)
  <2>1. ASSUME NEW h \in 1 .. Size, HeaderAt(h, p) PROVE \E q \in Nat : Found(q)
    <3>1. h - 1 \in Nat
      OBVIOUS
    <3> QED BY <2>1, <3>1 DEF HeaderAt, OfFile, OfBlock
  <2>2. CASE CallAt(p)
    BY <2>2 DEF CallAt, OnBlock, ContentAt
  <2> QED BY <1>2, <2>1, <2>2 DEF Where, OnBlock, NextAt
<1>4. Len(headers) = Number(q) /\ Number(q) <= Cardinality(Listed)
  BY <1>3, NumberType DEF Found
<1>5. ASSUME NEW j \in Listed, Number(j) <= Len(headers) PROVE headers[Number(j)] = Expected(j)
  <2>1. j <= q
    <3>1. (j > q => Number(j) > Number(q)) /\ Number(j) \in Nat /\ Number(q) \in Nat
      BY NumberBelow, NumberType
    <3>2. j \in Int
      BY DEF Listed
    <3> QED BY <1>4, <1>5, <3>1, <3>2
  <2> QED BY <1>3, <2>1 DEF Found
<1>6. ASSUME answer = "not_found" PROVE Len(headers) = Cardinality(Listed)
  <2>1. Found(Size)
    BY <1>1, <1>2, <1>6 DEF Reads, Going, Where, CallAt
  <2>2. {l \in Listed : l <= Size} = Listed
    BY DEF Listed
  <2> QED BY <2>1, <2>2 DEF Found, Number
<1> QED BY <1>1, <1>4, <1>5, <1>6 DEF Reads

(* AllFound of MtfReader: on an archive that is whole the reader is always  *)
(* where the format says a block or a stream is, whatever lies between, and *)
(* each directory and file is found once, in order, with its own content    *)
(* (reader.c:128-628).                                                      *)
THEOREM WholeArchivesFound == AsksFit => (MtfSpec => []AllFound)
<1>1. MtfAssumption /\ AsksFit /\ MtfInit => MtfInv /\ Finds
  BY MtfStart, FindsFirst
<1>2. MtfAssumption /\ AsksFit /\ MtfInv /\ Finds /\ [MtfNext]_<<vars, mtfVars>> => MtfInv' /\ Finds'
  BY MtfKeeps, FindsKept
<1>3. Finds => AllFound
  BY FindsAll
<1> SUFFICES ASSUME AsksFit PROVE MtfSpec => []AllFound
  OBVIOUS
<1> QED BY <1>1, <1>2, <1>3, MtfAssumption, PTL DEF MtfSpec
=============================================================================
