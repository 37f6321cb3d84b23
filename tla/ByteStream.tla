----------------------------- MODULE ByteStream -----------------------------
(* What every reader of the io layer promises (struct mtar_io_reader_ops in *)
(* include/mtar/io.h): a stream of Size bytes that is read in order.  A     *)
(* byte is its offset, so that what a call returns shows where it was.      *)
EXTENDS Integers

CONSTANTS
    Size,      \* length of the stream
    MaxAsk     \* bound: largest length a client asks for

VARIABLES
    short,     \* TRUE if a read of the stream may return less before its end
    pos,       \* position of the stream
    out        \* the last call: what it returned, and the data; no answer yet

Bytes(from, n) == [j \in 1 .. n |-> from + j - 1]

NoAnswer == [ret |-> -2, data |-> <<>>]

(* In place of data when the stream was moved. *)
Skipped == <<-1>>

Init == short \in BOOLEAN /\ pos = 0 /\ out = NoAnswer

(* A call that takes more than a step begins. *)
Call == out' = NoAnswer /\ UNCHANGED pos

Read ==
    \E length \in 1 .. MaxAsk : \E n \in 0 .. length :
        /\ n > 0 => pos + n <= Size
        /\ n < length => pos + n >= Size \/ (short /\ n > 0)
        /\ out' = [ret |-> n, data |-> Bytes(pos, n)]
        /\ pos' = pos + n

(* A file can be moved past its end. *)
Forward ==
    \E offset \in 0 .. MaxAsk :
        /\ pos' \in pos .. pos + offset
        /\ pos' < pos + offset => pos' >= Size
        /\ out' = [ret |-> pos', data |-> Skipped]

(* A call that fails may have consumed some of the stream, never gives any  *)
(* of it back.                                                              *)
Fail ==
    /\ pos' = pos \/ pos' \in pos .. Size
    /\ out' \in [ret : {-1}, data : {<<>>, Skipped}]

Next == (Call \/ Read \/ Forward \/ Fail) /\ UNCHANGED short

Spec == Init /\ [][Next]_<<short, pos, out>>
=============================================================================
