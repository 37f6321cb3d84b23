----------------------------- MODULE TapeReader -----------------------------
(***************************************************************************)
(* The reader of tapes, src/src/module/io/tape/reader.c.  A tape is read a  *)
(* record at a time: what a client asks for is copied out of the record in  *)
(* the buffer, whole records in the middle are read into place, and the     *)
(* rest comes from the next record, which stays in the buffer.              *)
(*                                                                          *)
(* A byte is its offset in the archive.  The records are those the writer   *)
(* makes, all of block_size, but for the last one, of LastRecord bytes.     *)
(***************************************************************************)
EXTENDS Integers, Sequences

CONSTANTS
    BlockSize,    \* block_factor << 9
    Records,      \* records on the tape
    LastRecord,   \* bytes in the last one
    MaxAsk,       \* bound: largest length a client asks for
    MaxSpace,     \* 8388607: how many records a tape is spaced at a time
    MaxFaults     \* bound: system calls that fail

ASSUME TapeAssumption ==
    /\ BlockSize \in Nat \ {0}
    /\ Records \in Nat \ {0}
    /\ LastRecord \in 1 .. BlockSize
    /\ MaxAsk \in Nat \ {0}
    /\ MaxSpace \in Nat \ {0}
    /\ MaxFaults \in Nat

VARIABLES
    record,       \* records the drive has passed
    position,
    buffer,       \* the bytes in the buffer
    buffer_pos,   \* buffer_pos - buffer
    out,          \* the last call: what it returned, and the data, <<-1>> for a forward
    faults

vars == <<record, position, buffer, buffer_pos, out, faults>>

Size == (Records - 1) * BlockSize + LastRecord

Lesser(a, b) == IF a < b THEN a ELSE b

(* The bytes of record r, and of the records from r on. *)
Length(r) == IF r = Records THEN LastRecord ELSE BlockSize
Record(r) == [j \in 1 .. Length(r) |-> (r - 1) * BlockSize + j - 1]

Init ==
    /\ record = 0
    /\ position = 0
    /\ buffer = [j \in 1 .. BlockSize |-> -1]
    /\ buffer_pos = BlockSize
    /\ out = [ret |-> -2, data |-> <<>>]
    /\ faults = 0

(* What the buffer holds that was not asked for yet. *)
InBuffer == BlockSize - buffer_pos

(* read(2) of a record into the buffer: the bytes past a short record stay. *)
Load(r) ==
    [j \in 1 .. BlockSize |-> IF j \in DOMAIN Record(r) THEN Record(r)[j] ELSE buffer[j]]

Front(n) == [j \in 1 .. n |-> buffer[buffer_pos + j]]

(* Clients stop at an error. *)
Ready == out.ret # -1

Fails(consumed) ==
    /\ faults < MaxFaults
    /\ faults' = faults + 1
    /\ out' = [ret |-> -1, data |-> <<>>]
    /\ position' = position + consumed

(* The answer is in the buffer. *)
ReadBuffer(length) ==
    /\ length <= InBuffer
    /\ out' = [ret |-> length, data |-> Front(length)]
    /\ buffer_pos' = buffer_pos + length
    /\ position' = position + length
    /\ UNCHANGED <<record, buffer, faults>>

(* The loop reads whole records as long as they are asked for; at the end   *)
(* of the tape it reads nothing and the call returns what there is.         *)
Wanted(length) == (length - InBuffer) \div BlockSize

Middle(n) == [j \in 1 .. n |-> record * BlockSize + j - 1]

(* Mutant: the record in the buffer is used from its start next time. *)
BadAfter(rest) == 0

(* Where buffer_pos is once `rest' bytes of a new record are given out. *)
After(rest) == rest

ReadRecords(length) ==
    /\ length > InBuffer
    /\ LET whole == Lesser(Wanted(length), Records - record)
           middle == Lesser(whole * BlockSize, Size - record * BlockSize)
           got == InBuffer + middle
           rest == length - got
       IN  \/ /\ rest = 0
              /\ out' = [ret |-> length, data |-> Front(InBuffer) \o Middle(middle)]
              /\ record' = record + whole
              /\ position' = position + got
              /\ buffer_pos' = BlockSize
              /\ UNCHANGED <<buffer, faults>>
           \/ /\ rest > 0 /\ record + whole = Records
              /\ out' = [ret |-> got, data |-> Front(InBuffer) \o Middle(middle)]
              /\ record' = Records
              /\ position' = position + got
              /\ buffer_pos' = BlockSize
              /\ UNCHANGED <<buffer, faults>>
           \/ /\ rest > 0 /\ record + whole < Records
              /\ buffer' = Load(record + whole + 1)
              /\ out' = [ret |-> length,
                         data |-> Front(InBuffer) \o Middle(middle) \o SubSeq(buffer', 1, rest)]
              /\ record' = record + whole + 1
              /\ position' = position + length
              /\ buffer_pos' = After(rest)
              /\ UNCHANGED faults
           \/ \E done \in 0 .. whole :
                /\ done < whole \/ rest > 0
                /\ Fails(InBuffer + done * BlockSize)
                /\ record' = record + done
                /\ buffer_pos' = BlockSize
                /\ UNCHANGED buffer

Read == Ready /\ \E length \in 1 .. MaxAsk : ReadBuffer(length) \/ ReadRecords(length)

SkipBuffer(offset) ==
    /\ offset <= InBuffer
    /\ buffer_pos' = buffer_pos + offset
    /\ position' = position + offset
    /\ out' = [ret |-> position', data |-> <<-1>>]
    /\ UNCHANGED <<record, buffer, faults>>

(* The drive spaces over the records that are skipped whole, MaxSpace at a  *)
(* time, and the one that is skipped in part is read.                       *)
SkipRecords(offset) ==
    /\ offset > InBuffer
    /\ LET whole == Wanted(offset)
           got == InBuffer + whole * BlockSize
           rest == offset - got
       IN  \/ /\ record + whole <= Records
              /\ record' = record + whole + (IF rest > 0 /\ record + whole < Records THEN 1 ELSE 0)
              /\ IF rest > 0 /\ record + whole < Records
                 THEN /\ buffer' = Load(record')
                      /\ buffer_pos' = rest
                      /\ position' = position + offset
                 ELSE /\ buffer_pos' = BlockSize
                      /\ position' = position + got
                      /\ UNCHANGED buffer
              /\ out' = [ret |-> position', data |-> <<-1>>]
              /\ UNCHANGED faults
           \/ (* There are not as many records: the drive is at the end.    *)
              /\ record + whole > Records
              /\ record' = Records
              /\ buffer_pos' = BlockSize
              /\ position' = position + InBuffer
                             + ((Records - record) \div MaxSpace) * MaxSpace * BlockSize
              /\ out' = [ret |-> -1, data |-> <<>>]
              /\ UNCHANGED <<buffer, faults>>
           \/ \E done \in 0 .. whole :
                /\ IF done = whole THEN rest > 0 ELSE done % MaxSpace = 0
                /\ record + done <= Records
                /\ Fails(InBuffer + done * BlockSize)
                /\ record' = record + done
                /\ buffer_pos' = BlockSize
                /\ UNCHANGED buffer

Forward == Ready /\ \E offset \in 0 .. MaxAsk : SkipBuffer(offset) \/ SkipRecords(offset)

Stopped == out.ret = -1 /\ UNCHANGED vars

Next == Read \/ Forward \/ Stopped

Spec == Init /\ [][Next]_vars

----------------------------------------------------------------------------
(* The offset of the next byte a client gets. *)
At == Lesser(record * BlockSize, Size) - InBuffer

TypeOK ==
    /\ record \in 0 .. Records
    /\ position \in Nat
    /\ buffer \in [1 .. BlockSize -> Int]
    /\ buffer_pos \in 0 .. BlockSize
    /\ out.ret \in Nat \cup {-2, -1}
    /\ faults \in 0 .. MaxFaults

(* A client of the tape sees the archive byte by byte, however its requests *)
(* fall on the records.  As long as no call failed, the next byte is the    *)
(* one at the position that is reported, through any mix of reading and     *)
(* spacing.                                                                 *)
Stream == INSTANCE ByteStream WITH pos <- IF Ready THEN position ELSE At, short <- FALSE

IsStream == Stream!Spec
=============================================================================
