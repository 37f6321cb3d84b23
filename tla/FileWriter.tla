----------------------------- MODULE FileWriter -----------------------------
(***************************************************************************)
(* The io writer on a plain file: src/src/module/io/file/writer.c and       *)
(* common.c.  One writer is one volume of the archive.  The module keeps    *)
(* the state of the writer that is open now (struct mtar_io_file) and a     *)
(* log of every unit that reached a volume, in the order it was written.    *)
(*                                                                          *)
(* Sizes are counted in units, Block units to a 512-byte tar block.  A unit *)
(* carries what a reader of the archive could tell about it:                *)
(*   v  the volume it was written on                                        *)
(*   k  "hdr", "cont" (an 'M' header), "link", "label", "data", "pad", or   *)
(*      "junk" for a byte that belongs to no file                           *)
(*   f  the entry it belongs to, 0 for none                                 *)
(*   o  its offset in the file (data) or in its header                      *)
(*   p  the position field of the header, 0 elsewhere                       *)
(*   s  the size field of the header, 0 elsewhere                           *)
(*                                                                          *)
(* The operations are operators on primed variables; the module that calls  *)
(* them picks the outcome of the system call from WriteResults.             *)
(***************************************************************************)
EXTENDS Integers, Sequences

CONSTANTS
    Block,       \* units in a 512-byte block
    VolumeSize,  \* tape_length << 10 with --multi-volume, 0 without
    IoBlock,     \* st_blksize << 8, the block size of the file
    MaxFaults    \* bound: system calls that fail or write short

ASSUME FileAssumption ==
    /\ Block \in Nat \ {0}
    /\ IoBlock \in Nat \ {0}
    /\ VolumeSize \in Nat
    /\ VolumeSize % (2 * Block) = 0
    /\ MaxFaults \in Nat

VARIABLES
    fd,          \* TRUE while the descriptor is open (fd >= 0)
    position,    \* units written on the current volume
    last_errno,  \* "none", "ENOSPC" or "EIO"
    volume,      \* number of the current volume
    log,         \* every unit written so far
    faults       \* system calls that have gone wrong

fileVars == <<fd, position, last_errno, volume, log, faults>>

Errno == {"none", "ENOSPC", "EIO"}

Unit(k, f, o, p, s) == [v |-> 0, k |-> k, f |-> f, o |-> o, p |-> p, s |-> s]

Kind == {"hdr", "cont", "link", "label", "data", "pad", "junk"}
Units == [v : Nat, k : Kind, f : Nat, o : Int, p : Int, s : Int]

Least(a, b) == IF a < b THEN a ELSE b

FileInit ==
    /\ fd = TRUE
    /\ position = 0
    /\ last_errno = "none"
    /\ volume = 1
    /\ log = <<>>
    /\ faults = 0

(* available_space: what is left of the volume.  Without a volume size the  *)
(* answer is the room of the file system, which may be nothing at all.      *)
AvailableSpace ==
    IF VolumeSize > 0 THEN {VolumeSize - position}
    ELSE {1} \cup (IF faults < MaxFaults THEN {0} ELSE {})

(* next_prefered_size: how much the client should write next.  A closed     *)
(* writer has a block size of 0 and is never asked.                         *)
NextPreferedSize ==
    IF VolumeSize > 0 /\ position + IoBlock > VolumeSize THEN VolumeSize - position
    ELSE IF position % IoBlock = 0 THEN IoBlock
    ELSE position % IoBlock

(* Mutant: a write that does not fit goes through as a whole. *)
BadWriteResults(length) ==
    IF ~fd THEN {[n |-> 0, err |-> last_errno, fault |-> 0]}
    ELSE IF length < 1 THEN {[n |-> 0, err |-> "none", fault |-> 0]}
    ELSE IF VolumeSize > 0 /\ position = VolumeSize
    THEN {[n |-> -1, err |-> "ENOSPC", fault |-> 0]}
    ELSE LET room == length
         IN {[n |-> room, err |-> "none", fault |-> 0]}
            \cup IF faults < MaxFaults
                 THEN [n : 1 .. room - 1, err : {"none"}, fault : {1}]
                      \cup [n : {-1}, err : {"ENOSPC", "EIO"}, fault : {1}]
                 ELSE {}

(* The return values of write(io, data, length), each with the errno it     *)
(* leaves: nothing on a closed writer or for nothing, ENOSPC at the end of  *)
(* the volume, else as much as the volume takes.  The system call itself    *)
(* may write less, or fail because the disk is full or broken.              *)
WriteResults(length) ==
    IF ~fd THEN {[n |-> 0, err |-> last_errno, fault |-> 0]}
    ELSE IF length < 1 THEN {[n |-> 0, err |-> "none", fault |-> 0]}
    ELSE IF VolumeSize > 0 /\ position = VolumeSize
    THEN {[n |-> -1, err |-> "ENOSPC", fault |-> 0]}
    ELSE LET room == IF VolumeSize > 0 THEN Least(length, VolumeSize - position)
                     ELSE length
         IN {[n |-> room, err |-> "none", fault |-> 0]}
            \cup IF faults < MaxFaults
                 THEN [n : 1 .. room - 1, err : {"none"}, fault : {1}]
                      \cup [n : {-1}, err : {"ENOSPC", "EIO"}, fault : {1}]
                 ELSE {}

(* The first n units, stamped with the volume they are written on. *)
Stamped(units, n) == [j \in 1 .. n |-> [units[j] EXCEPT !.v = volume]]

(* Mutant: a failed system call moves the position too. *)
BadWrite(units, r) ==
    /\ log' = IF r.n > 0 THEN log \o Stamped(units, r.n) ELSE log
    /\ position' = position + r.n
    /\ last_errno' = r.err
    /\ faults' = faults + r.fault
    /\ volume' = volume

(* What write(io, units, Len(units)) does to the writer when it returns r.n *)
Write(units, r) ==
    /\ log' = IF r.n > 0 THEN log \o Stamped(units, r.n) ELSE log
    /\ position' = IF r.n > 0 THEN position + r.n ELSE position
    /\ last_errno' = r.err
    /\ faults' = faults + r.fault
    /\ volume' = volume

(* new_writer on the file the operator names: a fresh, empty volume. *)
NewWriter ==
    /\ fd' = TRUE
    /\ position' = 0
    /\ last_errno' = "none"
    /\ volume' = volume + 1
    /\ UNCHANGED <<log, faults>>

(* close, and free, which closes. *)
Close ==
    /\ fd' = FALSE
    /\ UNCHANGED <<position, last_errno, volume, log, faults>>

FileTypeOK ==
    /\ fd \in BOOLEAN
    /\ position \in Nat
    /\ last_errno \in Errno
    /\ volume \in Nat \ {0}
    /\ log \in Seq(Units)
    /\ faults \in 0 .. MaxFaults
=============================================================================
