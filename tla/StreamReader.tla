---------------------------- MODULE StreamReader ----------------------------
(***************************************************************************)
(* The readers of plain files and of pipes: src/src/module/io/file/reader.c *)
(* and src/src/module/io/pipe/reader.c.  Both count the bytes read in       *)
(* position, which is where the kernel's file offset is, too.               *)
(*                                                                          *)
(* The operations are given as what they can return; a client makes them    *)
(* steps.  See FormatDetect.                                                *)
(***************************************************************************)
EXTENDS Integers, Sequences

CONSTANTS
    Size,         \* bytes in the file, or that come through the pipe
    MaxAsk,       \* bound: largest length a client asks for
    PipeBuffer,   \* 4096: how much a pipe's forward reads at a time
    MaxFaults     \* bound: system calls that fail

ASSUME StreamAssumption ==
    /\ Size \in Nat
    /\ MaxAsk \in Nat \ {0}
    /\ PipeBuffer \in Nat \ {0}
    /\ MaxFaults \in Nat

VARIABLES
    pipe,         \* TRUE for a pipe, FALSE for a file
    position,
    volume_size,  \* the size of a file read with --multi-volume, else 0
    faults

streamVars == <<pipe, position, volume_size, faults>>

Lesser(a, b) == IF a < b THEN a ELSE b

StreamInit ==
    /\ pipe \in BOOLEAN
    /\ position = 0
    /\ volume_size \in IF pipe THEN {0} ELSE {0, Size}
    /\ faults = 0

Rest == IF position < Size THEN Size - position ELSE 0

Failing == faults < MaxFaults

(* What read(io, data, length) can return.  read(2) on a pipe returns what  *)
(* is there, and nothing only at the end.                                   *)
StreamReads(length) ==
    (IF pipe /\ Rest > 0 THEN 1 .. Lesser(length, Rest) ELSE {Lesser(length, Rest)})
    \cup (IF Failing THEN {-1} ELSE {})

(* The bytes it puts into data. *)
StreamBytes(n) == [j \in 1 .. n |-> position + j - 1]

StreamRead(n) ==
    /\ position' = IF n > 0 THEN position + n ELSE position
    /\ faults' = IF n < 0 THEN faults + 1 ELSE faults
    /\ UNCHANGED <<pipe, volume_size>>

(* Where forward can end, with what it returns.  lseek goes past the end of *)
(* a file, unless the reader knows its size; a pipe is read, at most        *)
(* PipeBuffer bytes at a time, until there is no more.  A read that fails   *)
(* leaves the position behind what was read before it.                      *)
StreamForwards(offset) ==
    IF pipe
    THEN {[to |-> position + Lesser(offset, Rest), ret |-> position + Lesser(offset, Rest)]}
         \cup IF Failing /\ offset > 0
              THEN [to : position .. position + Lesser(offset - 1, Rest), ret : {-1}]
              ELSE {}
    ELSE {[to |-> e, ret |-> e] :
             e \in {IF volume_size > 0 /\ volume_size < position + offset THEN Size
                    ELSE position + offset}}
         \cup IF Failing THEN {[to |-> position, ret |-> -1]} ELSE {}

StreamForward(r) ==
    /\ position' = r.to
    /\ faults' = IF r.ret < 0 THEN faults + 1 ELSE faults
    /\ UNCHANGED <<pipe, volume_size>>
=============================================================================
