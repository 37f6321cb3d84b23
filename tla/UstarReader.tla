---------------------------- MODULE UstarReader ----------------------------
(***************************************************************************)
(* The tar format reader, src/src/module/format/ustar/reader.c, on a plain  *)
(* file (src/src/module/io/file/reader.c).  A volume is the sequence of     *)
(* units FileWriter put on it: see there for what a unit carries.           *)
(*                                                                          *)
(* As in UstarWriter an operation is given as the outcomes it can have, of  *)
(* which the caller picks one.                                              *)
(***************************************************************************)
EXTENDS Integers, Sequences

CONSTANTS
    Block,       \* units in a 512-byte block
    Entries,     \* what was archived: see Create
    Multi,       \* TRUE with --multi-volume: the io reader knows its size
    MaxFaults    \* bound: system calls that fail

VARIABLES
    archive,     \* the volumes
    io,          \* the number of the one that is open
    position,    \* where in it the descriptor is
    file_size,   \* what is left of the content of the current file
    skip_size,   \* the same and its padding
    faults

readerVars == <<io, position, file_size, skip_size, faults>>

Fewer(a, b) == IF a < b THEN a ELSE b

Volume == archive[io]
Left == IF position < Len(Volume) THEN Len(Volume) - position ELSE 0

(* The unit at hand; of a header, the one that stands for its fields.       *)
Here == Volume[position + 1]

IsHeader(u) == u.k \in {"hdr", "cont", "link", "label"} /\ u.o = 0

(* A long name comes in front of its header. *)
HeaderLength(u) == IF u.k = "hdr" THEN Entries[u.f].blocks * Block ELSE Block

(* Only the header that begins an entry has all of a long name, the others  *)
(* have its first 100 characters.                                           *)
Short(u) == u.k \in {"cont", "link"} /\ Entries[u.f].blocks > 1

ReaderInit ==
    /\ io = 1
    /\ position = 0
    /\ file_size = 0
    /\ skip_size = 0
    /\ faults = 0

Fault == faults < MaxFaults

(* What get_header can return.  The end of the volume is no header, and so  *)
(* is a block that starts with a zero, which the content of a file may do.  *)
(* No content is taken to be a header itself.                               *)
HeaderResults ==
    (IF Left = 0 THEN {"not_found"}
     ELSE IF IsHeader(Here)
     THEN {IF HeaderLength(Here) <= Left THEN "ok" ELSE "bad_header"}
     ELSE IF Here.k = "pad" THEN {"not_found"}
     ELSE {"not_found", "bad_checksum"})
    \cup (IF Fault THEN {"fault"} ELSE {})

(* Mutant: a file that ends on a block is taken to be padded with a block.  *)
BadSkipSize(size) == IF size > 0 THEN Block + size - (size % Block) ELSE size

SkipSize(size) ==
    IF size > 0 /\ size % Block # 0 THEN Block + size - (size % Block) ELSE size

(* Mutant: the padding is taken for content. *)
BadContentSize(u) == SkipSize(u.s)

ContentSize(u) == u.s

(* Every status but ok ends the program: where it leaves the descriptor     *)
(* does not matter.                                                         *)
GetHeader(status) ==
    /\ IF status = "ok"
       THEN /\ position' = position + HeaderLength(Here)
            /\ file_size' = ContentSize(Here)
            /\ skip_size' = SkipSize(Here.s)
       ELSE UNCHANGED <<position, file_size, skip_size>>
    /\ faults' = IF status = "fault" THEN faults + 1 ELSE faults
    /\ UNCHANGED io

(* Where forward(io, offset) goes: to the end of a volume whose size it     *)
(* knows, and past the end of any other.                                    *)
ForwardTo(from, offset) ==
    IF Multi /\ Len(Volume) > 0 /\ Len(Volume) < from + offset
    THEN Len(Volume) ELSE from + offset

SkipResults ==
    (IF skip_size = 0 \/ ForwardTo(position, skip_size) = position + skip_size
     THEN {"ok"} ELSE {"end_of_tape"})
    \cup (IF Fault /\ skip_size > 0 THEN {"error"} ELSE {})

(* Only an ok ends the file: at the end of the tape its sizes stay.         *)
SkipFile(status) ==
    /\ position' = IF status = "error" THEN position
                   ELSE ForwardTo(position, skip_size)
    /\ IF status = "ok"
       THEN file_size' = 0 /\ skip_size' = 0
       ELSE UNCHANGED <<file_size, skip_size>>
    /\ faults' = IF status = "error" THEN faults + 1 ELSE faults
    /\ UNCHANGED io

(* A read is cut at the end of the file, and the descriptor cuts it at the  *)
(* end of the volume.                                                       *)
AtMost(length) == Fewer(Fewer(length, file_size), Left)

(* What read(f, data, length) can return.  Behind the last unit it skips    *)
(* the padding, which can fail without anybody asking.                      *)
ReadResults(length) ==
    IF file_size = 0 THEN {[n |-> 0, fault |-> "none"]}
    ELSE {[n |-> AtMost(length), fault |-> "none"]}
         \cup (IF Fault THEN {[n |-> -1, fault |-> "read"]} ELSE {})
         \cup (IF Fault /\ AtMost(length) = file_size /\ skip_size > file_size
               THEN {[n |-> file_size, fault |-> "skip"]} ELSE {})

(* The units it gives. *)
Content(n) == [j \in 1 .. n |-> [f |-> Volume[position + j].f, o |-> Volume[position + j].o]]

Taken(r) == IF r.n > 0 THEN r.n ELSE 0

(* Mutant: the padding stays. *)
BadHasPadding(left) == FALSE

HasPadding(left) == left > 0

Read(r) ==
    /\ LET end == position + Taken(r)
           left == skip_size - Taken(r)
           skip == file_size > 0 /\ file_size' = 0 /\ HasPadding(left) /\ r.fault = "none"
           to == IF skip THEN ForwardTo(end, left) ELSE end
       IN  /\ file_size' = file_size - Taken(r)
           /\ position' = to
           /\ skip_size' = IF skip /\ to = end + left THEN 0 ELSE left
    /\ faults' = IF r.fault # "none" THEN faults + 1 ELSE faults
    /\ UNCHANGED io

(* The reader on the next volume; the sizes stay. *)
NextVolume(v) ==
    /\ io' = v
    /\ position' = 0
    /\ UNCHANGED <<file_size, skip_size, faults>>
=============================================================================
