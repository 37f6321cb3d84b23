---------------------------- MODULE UstarWriter ----------------------------
(***************************************************************************)
(* The tar format writer, src/src/module/format/ustar/writer.c, on top of   *)
(* the file writer.  A header is a run of units whose content is abstracted *)
(* to what the archive's structure depends on: the entry, the size field    *)
(* and, in an 'M' header, the position field.  A name or a link longer than *)
(* 100 characters puts an 'L' or 'K' header and a block of text in front,   *)
(* so a header takes `blocks' blocks.                                       *)
(*                                                                          *)
(* As in FileWriter the caller chooses the outcome r of the system call,    *)
(* from HeaderResults, RestartResults or FormatResults.                     *)
(***************************************************************************)
EXTENDS FileWriter

VARIABLES
    format_position,  \* units of the current file written since its header
    format_size,      \* size the writer believes the current file has
    remain_header     \* what write_header kept for the next volume

formatVars == <<format_position, format_size, remain_header>>

FormatInit ==
    /\ format_position = 0
    /\ format_size = 0
    /\ remain_header = <<>>

HeaderUnits(k, f, blocks, p, s) ==
    [j \in 1 .. blocks * Block |-> Unit(k, f, j - 1, p, s)]

(* write_header asks for the space first and does not write without any. *)
HeaderResults(length) ==
    UNION {IF a > 0 THEN WriteResults(length)
           ELSE {[n |-> 0, err |-> last_errno,
                  fault |-> IF VolumeSize > 0 THEN 0 ELSE 1]} : a \in AvailableSpace}

(* The mtar_format_writer_status that write_header returns for outcome r. *)
HeaderStatus(length, r) ==
    IF r.n < 0 /\ r.err # "ENOSPC" THEN "error"
    ELSE IF r.n < length THEN "end_of_tape"
    ELSE "ok"

(* At the end of the volume the writer closes it and keeps the header, or   *)
(* as many units from the front of it as were not written.                  *)
WriteHeader(units, r) ==
    LET end == HeaderStatus(Len(units), r) = "end_of_tape"
        left == IF r.n > 0 THEN Len(units) - r.n ELSE Len(units)
    IN  /\ Write(units, r)
        /\ fd' = (fd /\ ~end)
        /\ remain_header' = IF end THEN SubSeq(units, 1, left) ELSE remain_header

AddLabel(r) ==
    /\ WriteHeader(HeaderUnits("label", 0, 1, 0, 0), r)
    /\ format_position' = 0
    /\ format_size' = 0

AddLink(f, r) ==
    /\ WriteHeader(HeaderUnits("link", f, 1, 0, 0), r)
    /\ format_position' = 0
    /\ format_size' = 0

(* Mutant: the size of the file is not remembered. *)
BadAddFile(f, blocks, st_size, r) ==
    /\ WriteHeader(HeaderUnits("hdr", f, blocks, 0, st_size), r)
    /\ format_position' = 0
    /\ UNCHANGED format_size

(* st_size is 0 for what is not a regular file. *)
AddFile(f, blocks, st_size, r) ==
    /\ WriteHeader(HeaderUnits("hdr", f, blocks, 0, st_size), r)
    /\ format_position' = 0
    /\ format_size' = st_size

(* new_volume swaps the io writer and touches nothing else. *)
NewVolume ==
    /\ NewWriter
    /\ UNCHANGED formatVars

(* Mutant: the 'M' header says that the file starts anew. *)
BadRestartUnits(f, pos, st_size) ==
    IF remain_header # <<>> THEN remain_header
    ELSE HeaderUnits("cont", f, 1, 0, st_size - pos)

(* restart_file writes what is left of a header if there is any, and only   *)
(* else the 'M' header of the file.                                         *)
RestartUnits(f, pos, st_size) ==
    IF remain_header # <<>> THEN remain_header
    ELSE HeaderUnits("cont", f, 1, pos, st_size - pos)

RestartFile(f, pos, st_size, r) ==
    /\ Write(RestartUnits(f, pos, st_size), r)
    /\ IF remain_header # <<>>
       THEN UNCHANGED <<format_position, format_size>>
       ELSE /\ format_position' = 0
            /\ format_size' = st_size
    /\ remain_header' = <<>>
    /\ UNCHANGED fd

(* fstatat fails in restart_file: it returns before it does anything. *)
RestartFails ==
    /\ faults < MaxFaults
    /\ faults' = faults + 1
    /\ UNCHANGED <<fd, position, last_errno, volume, log, formatVars>>

(* write never goes past the size of the file. *)
FormatResults(length) ==
    IF format_position >= format_size
    THEN {[n |-> 0, err |-> last_errno, fault |-> 0]}
    ELSE WriteResults(Least(length, format_size - format_position))

FormatWrite(units, r) ==
    /\ Write(units, r)
    /\ format_position' = IF r.n > 0 THEN format_position + r.n ELSE format_position
    /\ UNCHANGED <<fd, format_size, remain_header>>

(* Mutant: a file that ends on a block is padded with a block. *)
BadPadLength == Block - (format_position % Block)

(* end_of_file pads to a block; what the io writer makes of it is ignored. *)
PadLength == (Block - (format_position % Block)) % Block

EndOfFileResults ==
    IF PadLength = 0 THEN {[n |-> 0, err |-> last_errno, fault |-> 0]}
    ELSE WriteResults(PadLength)

EndOfFile(r) ==
    /\ Write([j \in 1 .. PadLength |-> Unit("pad", 0, 0, 0, 0)], r)
    /\ UNCHANGED <<fd, formatVars>>

FormatTypeOK ==
    /\ FileTypeOK
    /\ format_position \in Nat
    /\ format_size \in Nat
    /\ remain_header \in Seq(Units)
=============================================================================
