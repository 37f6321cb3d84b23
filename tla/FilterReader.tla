---------------------------- MODULE FilterReader ----------------------------
(***************************************************************************)
(* The readers that decompress, src/src/module/filter/{gzip,bzip2,xz}/      *)
(* reader.c.  Below them is a file, a run of the units of FilterWriter; the *)
(* bytes a reader gives out are their offsets in what was compressed.       *)
(* One iteration of the loops of read and forward is two steps here, the    *)
(* call of the library and the read below.  The pieces of 1024 bytes in     *)
(* which forward throws away what comes out are left out.                   *)
(***************************************************************************)
EXTENDS Integers, Sequences, SequencesExt

CONSTANTS
    Window,      \* 1024: units in buffer_in
    MaxAsk,      \* bound: largest length a client asks for
    MaxReadFaults  \* bound: calls below that fail

ASSUME ReaderAssumption ==
    /\ Window \in Nat \ {0}
    /\ MaxAsk \in Nat
    /\ MaxReadFaults \in Nat

VARIABLES
    filter,      \* which of the filters
    archive,     \* the units of the file
    in_pos,      \* units read from it
    in_buffer,   \* avail_in: units read and not decoded
    pending,     \* bytes decoded that there was no room for
    decoder,     \* "run", "end" once the mark was met, "error" after damage
    total_out,   \* bytes given out
    call,        \* the call in progress: its name, avail_out, the data so far
    stage,       \* "decode" or "fill"
    out,         \* the last call: what it returned, and the data, <<-1>> for a forward
    shut,        \* closed
    in_faults

readerVars == <<filter, archive, in_pos, in_buffer, pending, decoder, total_out, call, stage, out,
                shut, in_faults>>

Idle == [op |-> "none", left |-> 0, got |-> <<>>]
Silent == [ret |-> -2, data |-> <<>>]

(* Mutant: the optional fields of the header are not looked for. *)
BadPastHeader(units, flags) == 1

(* The units up to the end of a string of a gzip header.                    *)
PastString(units, at) ==
    LET ends == {j \in at + 1 .. Len(units) : units[j].k = "nul"}
    IN  IF ends = {} THEN Len(units) ELSE CHOOSE j \in ends : \A l \in ends : j <= l

(* gzip's new_reader goes over the header: ten bytes, then the fields the   *)
(* flags say there are, in this order.                                      *)
PastHeader(units, flags) ==
    LET extra == IF "extra" \in flags THEN 1 + 1 + units[2].s ELSE 1
        name == IF "name" \in flags THEN PastString(units, extra) ELSE extra
        comment == IF "comment" \in flags THEN PastString(units, name) ELSE name
    IN  IF "crc16" \in flags THEN comment + 1 ELSE comment

(* Where new_reader leaves the file below; no position when there is no      *)
(* reader.  Only gzip looks at the file here.  Behind the end of the file it *)
(* is as at its end: there is nothing to read.                               *)
GzipNewReader(units, flags) ==
    IF units[1].k # "head" \/ ("extra" \in flags /\ Len(units) = 1) THEN {}
    ELSE LET at == PastHeader(units, flags)
         IN  {IF at > Len(units) THEN Len(units) ELSE at}

Bzip2NewReader == {0}
XzNewReader == {0}

----------------------------------------------------------------------------
Buffered == SubSeq(archive, in_pos - in_buffer + 1, in_pos)

BytesOf(units) ==
    FlattenSeq([j \in DOMAIN units |-> [l \in 1 .. units[j].s |-> units[j].o + l - 1]])

(* A call of the library with room for `left' bytes: it takes units until   *)
(* the room is used up, and stops at the end mark and at what it cannot     *)
(* decode.                                                                  *)
Decode(left) ==
    LET units == Buffered
        stop == {j \in DOMAIN units : units[j].k # "data"}
        good == IF stop = {} THEN Len(units) ELSE (CHOOSE j \in stop : \A l \in stop : j <= l) - 1
        bytes == [k \in 0 .. good |-> pending \o BytesOf(SubSeq(units, 1, k))]
        enough == {k \in 0 .. good : Len(bytes[k]) >= left}
        k == IF enough = {} THEN good ELSE CHOOSE m \in enough : \A l \in enough : m <= l
        n == IF enough = {} THEN Len(bytes[k]) ELSE left
        met == enough = {} /\ good < Len(units)
    IN  [data |-> SubSeq(bytes[k], 1, n),
         pending |-> SubSeq(bytes[k], n + 1, Len(bytes[k])),
         taken |-> IF met /\ units[good + 1].k = "end" THEN k + 1 ELSE k,
         state |-> IF ~met THEN "run" ELSE IF units[good + 1].k = "end" THEN "end" ELSE "error"]

Nothing(state) == [data |-> <<>>, pending |-> pending, taken |-> 0, state |-> state]

(* Mutant: behind the end mark zlib has an error, too. *)
BadInflate(left) == IF decoder = "run" THEN Decode(left) ELSE Nothing("error")

(* Called again behind the end mark zlib and lzma say so again, bzip2 says  *)
(* that this is no time to call it.                                         *)
Inflate(left) == IF decoder = "run" THEN Decode(left) ELSE Nothing(decoder)

BzDecompress(left) ==
    IF decoder = "run" THEN Decode(left) ELSE Nothing("error")

LzmaDecode(left) == IF decoder = "run" THEN Decode(left) ELSE Nothing(decoder)

Returns(ret, data) ==
    /\ out' = [ret |-> ret, data |-> data]
    /\ call' = Idle
    /\ stage' = "decode"

(* The library is called when there is something for it, and gives d.  A    *)
(* read returns when it is through, forward goes on as long as there is     *)
(* input: not even an error stops it.                                       *)
DecodeStep(d) ==
    /\ call.op # "none" /\ stage = "decode" /\ in_buffer > 0
    /\ LET left == call.left - Len(d.data)
           got == call.got \o d.data
       IN  /\ pending' = d.pending
           /\ decoder' = d.state
           /\ in_buffer' = in_buffer - d.taken
           /\ total_out' = total_out + Len(d.data)
           /\ IF d.state = "end" \/ left = 0
              THEN IF call.op = "read" THEN Returns(Len(got), got) ELSE Returns(total_out', <<-1>>)
              ELSE /\ call' = [call EXCEPT !.left = left, !.got = got]
                   /\ stage' = IF call.op = "read" THEN "fill" ELSE "decode"
                   /\ UNCHANGED out
    /\ UNCHANGED <<filter, archive, in_pos, shut, in_faults>>

(* Where there is room in buffer_in.                                        *)
Room == Window - in_buffer

(* Mutant: at the end of the file the call goes on. *)
BadAtEnd == UNCHANGED <<call, stage, out>>

(* At the end of the file the call returns what it has.                     *)
AtEnd == IF call.op = "read" THEN Returns(Len(call.got), call.got) ELSE Returns(total_out, <<-1>>)

(* The read below; what comes is put behind what is there.  When it     *)
(* fails, what the call has is lost.                                        *)
Fill ==
    /\ call.op # "none"
    /\ stage = "fill" \/ in_buffer = 0
    /\ LET rest == Len(archive) - in_pos
           n == IF Room < rest THEN Room ELSE rest
       IN  \/ /\ n > 0
              /\ in_pos' = in_pos + n
              /\ in_buffer' = in_buffer + n
              /\ stage' = "decode"
              /\ UNCHANGED <<call, out, in_faults>>
           \/ /\ n = 0
              /\ AtEnd
              /\ UNCHANGED <<in_pos, in_buffer, in_faults>>
           \/ /\ in_faults < MaxReadFaults
              /\ in_faults' = in_faults + 1
              /\ Returns(-1, <<>>)
              /\ UNCHANGED <<in_pos, in_buffer>>
    /\ UNCHANGED <<filter, archive, pending, decoder, total_out, shut>>

GzipRead == filter = "gzip" /\ call.op = "read" /\ (DecodeStep(Inflate(call.left)) \/ Fill)
GzipForward == filter = "gzip" /\ call.op = "forward" /\ (DecodeStep(Inflate(call.left)) \/ Fill)
Bzip2Read == filter = "bzip2" /\ call.op = "read" /\ (DecodeStep(BzDecompress(call.left)) \/ Fill)
Bzip2Forward == filter = "bzip2" /\ call.op = "forward" /\ (DecodeStep(BzDecompress(call.left)) \/ Fill)
XzRead == filter = "xz" /\ call.op = "read" /\ (DecodeStep(LzmaDecode(call.left)) \/ Fill)
XzForward == filter = "xz" /\ call.op = "forward" /\ (DecodeStep(LzmaDecode(call.left)) \/ Fill)

ReaderStep ==
    GzipRead \/ GzipForward \/ Bzip2Read \/ Bzip2Forward \/ XzRead \/ XzForward

----------------------------------------------------------------------------
(* The calls.                                                               *)
Start(op, length) ==
    /\ call.op = "none"
    /\ call' = [op |-> op, left |-> length, got |-> <<>>]
    /\ stage' = "decode"
    /\ out' = Silent
    /\ UNCHANGED <<filter, archive, in_pos, in_buffer, pending, decoder, total_out, shut,
                   in_faults>>

Answer(ret) ==
    /\ call.op = "none"
    /\ out' = [ret |-> ret, data |-> <<-1>>]
    /\ UNCHANGED <<filter, archive, in_pos, in_buffer, pending, decoder, total_out, call, stage,
                   shut, in_faults>>

Read == \E length \in 1 .. MaxAsk : IF shut THEN Answer(-1) ELSE Start("read", length)

Forward ==
    \E offset \in 0 .. MaxAsk :
        IF shut \/ offset = 0 THEN Answer(total_out) ELSE Start("forward", offset)

(* close is refused when the io below does not close, and can be repeated.  *)
CloseReader ==
    /\ call.op = "none" /\ ~shut
    /\ \/ shut' = TRUE /\ UNCHANGED <<out, in_faults>>
       \/ /\ in_faults < MaxReadFaults
          /\ in_faults' = in_faults + 1
          /\ out' = [ret |-> -1, data |-> <<>>]
          /\ UNCHANGED shut
    /\ UNCHANGED <<filter, archive, in_pos, in_buffer, pending, decoder, total_out, call, stage>>

ReaderCall == Read \/ Forward \/ CloseReader
=============================================================================
