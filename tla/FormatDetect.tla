---------------------------- MODULE FormatDetect ----------------------------
(***************************************************************************)
(* The reader that finds out the format of an archive,                      *)
(* src/src/mtar/format_detect.c.  It reads a block, shows it to the         *)
(* formats, and from then on stands between the format and the real reader: *)
(* it gives out the block it has before it asks for more.                   *)
(***************************************************************************)
EXTENDS StreamReader

CONSTANT
    BlockSize     \* block_size of the reader

ASSUME DetectAssumption == BlockSize \in Nat \ {0}

VARIABLES
    detected,     \* TRUE once a format is found
    buffered,     \* buffer # NULL
    buffer_size,
    buffer_pos,   \* buffer_pos - buffer
    out           \* the last call: what it returned, and the data, <<-1>> for a forward

detectVars == <<detected, buffered, buffer_size, buffer_pos>>
vars == <<streamVars, detectVars, out>>

Nothing == [ret |-> -2, data |-> <<>>]

Init ==
    /\ StreamInit
    /\ detected = FALSE
    /\ buffered = FALSE
    /\ buffer_size = 0
    /\ buffer_pos = 0
    /\ out = Nothing

(* mtar_format_auto_detect: no block, or no format that knows it, and there *)
(* is no reader.                                                            *)
Detect ==
    /\ ~detected
    /\ \E n \in StreamReads(BlockSize) :
         /\ n > 0
         /\ StreamRead(n)
         /\ buffer_size' = n
    /\ detected' = TRUE
    /\ buffered' = TRUE
    /\ UNCHANGED <<buffer_pos, out>>

(* buffer_available *)
Available == buffer_size - buffer_pos

Drop ==
    /\ buffered' = FALSE
    /\ UNCHANGED <<detected, buffer_size, buffer_pos>>

Take(n) ==
    /\ buffer_pos' = buffer_pos + n
    /\ UNCHANGED <<detected, buffered, buffer_size>>

(* What is left of the buffer. *)
Buffered(n) == [j \in 1 .. n |-> buffer_pos + j - 1]

(* Out of the buffer alone. *)
ReadBuffer(length) ==
    /\ buffered /\ length <= Available
    /\ out' = [ret |-> length, data |-> Buffered(length)]
    /\ IF length = Available THEN Drop ELSE Take(length)
    /\ UNCHANGED streamVars

(* The end of the buffer, then what the reader has.  When the reader fails  *)
(* the buffer is kept.                                                      *)
ReadBoth(length) ==
    /\ buffered /\ length > Available
    /\ \E n \in StreamReads(length - Available) :
         /\ StreamRead(n)
         /\ IF n < 0
            THEN out' = [ret |-> n, data |-> <<>>] /\ UNCHANGED detectVars
            ELSE /\ out' = [ret |-> n + Available,
                            data |-> Buffered(Available) \o StreamBytes(n)]
                 /\ Drop

ReadThrough(length) ==
    /\ ~buffered
    /\ \E n \in StreamReads(length) :
         /\ StreamRead(n)
         /\ out' = [ret |-> n, data |-> StreamBytes(n)]
    /\ UNCHANGED detectVars

ReadOf(length) == ReadBuffer(length) \/ ReadBoth(length) \/ ReadThrough(length)

Read == detected /\ \E length \in 1 .. MaxAsk : ReadOf(length)

(* Mutant: what is left of the buffer is skipped twice. *)
BadBeyond(offset) == offset

(* How far the reader has to go once the buffer is passed. *)
Beyond(offset) == IF buffered THEN offset - Available ELSE offset

ForwardOf(offset) ==
    \/ /\ buffered /\ offset < Available
       /\ Take(offset)
       /\ out' = [ret |-> buffer_pos + offset, data |-> <<-1>>]
       /\ UNCHANGED streamVars
    \/ /\ ~buffered \/ offset >= Available
       /\ \E r \in StreamForwards(Beyond(offset)) :
            /\ StreamForward(r)
            /\ out' = [ret |-> r.ret, data |-> <<-1>>]
       /\ IF buffered THEN Drop ELSE UNCHANGED detectVars

(* Bound: who is past the end of a file does not go on. *)
Forward == detected /\ position <= Size /\ \E offset \in 0 .. MaxAsk : ForwardOf(offset)

Next == Detect \/ Read \/ Forward

Spec == Init /\ [][Next]_vars

----------------------------------------------------------------------------
(* position *)
Position == IF ~detected THEN 0 ELSE IF buffered THEN buffer_pos ELSE position

TypeOK ==
    /\ pipe \in BOOLEAN
    /\ position \in Nat
    /\ volume_size \in {0, Size}
    /\ faults \in 0 .. MaxFaults
    /\ detected \in BOOLEAN
    /\ buffered \in BOOLEAN
    /\ buffer_size \in 0 .. BlockSize
    /\ buffer_pos \in 0 .. buffer_size
    /\ out.ret \in Nat \cup {-2, -1}

(* The buffer is the bytes in front of the reader, and never empty. *)
BufferOK ==
    /\ ~detected => position = 0 /\ buffer_pos = 0 /\ ~buffered
    /\ buffered => detected /\ position = buffer_size /\ buffer_pos < buffer_size

(* A format that reads through the detection sees the bytes of the archive  *)
(* from its first one, in order and at the position it is told, as if there *)
(* were no detection: format_detect.c:109-183.                              *)
Stream == INSTANCE ByteStream WITH pos <- Position, short <- pipe

IsStream == Stream!Spec
=============================================================================
