---------------------------- MODULE FilterWriter ----------------------------
(***************************************************************************)
(* The writers that compress, src/src/module/filter/{gzip,bzip2,xz}/        *)
(* writer.c, on top of the file writer.  The three differ in the library    *)
(* they call, in what they take its results for, and in who flushes.        *)
(*                                                                          *)
(* A library takes bytes in, keeps some, and puts out units.  What shrinks  *)
(* comes in units of Ratio bytes each (fewer only when it is made to put    *)
(* out all it has).  What does not is stored: a unit without any byte of    *)
(* it, and then a unit for each byte, so that it grows.  A unit is          *)
(*   "data"  s bytes, the first of them at offset o of what was written     *)
(*   "head"  the header of a gzip file                                      *)
(*   "end"   the mark that ends the compressed stream                       *)
(*   "crc"   one of the two numbers behind the stream of a gzip file        *)
(* One loop iteration of the code is one step here.                         *)
(***************************************************************************)
EXTENDS FileWriter

CONSTANTS
    Ratio,         \* bytes in a full unit of what shrinks
    Hold,          \* bytes a library keeps back at most
    GzipReserve,   \* (1 << 17) + (1 << (compress_level + 2))
    LevelReserve,  \* 100 << 10, times the level
    Levels,        \* values of --compression-level
    Parameters,    \* values of compression-level in --filter-option, -1 for none
    Size,          \* bytes a client has to write
    MaxHeader,     \* bound: bytes of a header
    MaxPad         \* bytes of padding a client writes without asking, at most

ASSUME FilterAssumption ==
    /\ Ratio \in Nat \ {0}
    /\ Hold \in Nat
    /\ Hold >= Ratio
    /\ GzipReserve \in Nat /\ LevelReserve \in Nat
    /\ Levels \subseteq Nat
    /\ Parameters \subseteq Int
    /\ Size \in Nat
    /\ MaxHeader \in Nat /\ MaxPad \in Nat

VARIABLES
    kind,      \* which of the filters
    level,     \* the level of compression
    reserve,   \* block_size: the space that is kept for what is still held
    op,        \* the call in progress
    avail_in,  \* bytes of the call that the library did not take yet
    total_in,  \* bytes it took so far
    held,      \* bytes it took and did not put out
    ended,     \* it put out its end mark
    closed,
    padded,    \* the client wrote padding since it last asked for the space
    kept       \* every unit that was put out reached the volume

filterVars == <<kind, level, reserve, op, avail_in, total_in, held, ended, closed, padded, kept>>

Filters == {"gzip", "bzip2", "xz"}

(* The parameter of a filter wins over the option; one out of range is 6.   *)
Level(option, parameter) ==
    IF parameter = -1 THEN option
    ELSE IF parameter \in 0 .. 9 THEN parameter ELSE 6

Header == Unit("head", 0, 0, 0, 0)

(* new_writer: zlib and lzma refuse a level they do not know, and there is  *)
(* no writer; bzip2 refuses level 0, which nobody looks at.  Only gzip      *)
(* writes something at once.  The level that counts for the reserve is not  *)
(* the parameter's, but for bzip2.                                          *)
GzipNewWriter(option, parameter) ==
    /\ kind = "gzip"
    /\ level = Level(option, parameter)
    /\ reserve = GzipReserve
    /\ op = IF option \in 1 .. 9 THEN "none" ELSE "null"
    /\ log = IF op = "none" THEN <<[Header EXCEPT !.v = 1]>> ELSE <<>>

Bzip2NewWriter(option, parameter) ==
    /\ kind = "bzip2"
    /\ level = Level(option, parameter)
    /\ reserve = level * LevelReserve
    /\ op = "none"
    /\ log = <<>>

XzNewWriter(option, parameter) ==
    /\ kind = "xz"
    /\ level = Level(option, parameter)
    /\ reserve = option * LevelReserve
    /\ op = IF level \in 0 .. 9 THEN "none" ELSE "null"
    /\ log = <<>>

FilterInit ==
    /\ fd = TRUE
    /\ last_errno = "none"
    /\ volume = 1
    /\ faults = 0
    /\ \E option \in Levels, parameter \in Parameters :
          GzipNewWriter(option, parameter) \/ Bzip2NewWriter(option, parameter)
            \/ XzNewWriter(option, parameter)
    /\ position = Len(log)
    /\ avail_in = 0 /\ total_in = 0 /\ held = 0
    /\ ended = FALSE /\ closed = FALSE /\ padded = FALSE /\ kept = TRUE

(* Without a valid level the library of bzip2 does nothing but fail.        *)
Broken == kind = "bzip2" /\ level \notin 1 .. 9

----------------------------------------------------------------------------
(* available_space: what does not exceed the reserve is not there.          *)
FilterAvailableSpace == {IF a > reserve THEN a ELSE 0 : a \in AvailableSpace}

(* next_prefered_size.                                                      *)
FilterNextSize ==
    {IF NextPreferedSize < reserve /\ a < reserve THEN 0 ELSE reserve : a \in AvailableSpace}

(* The bytes that n full units carry, and the units for n bytes.            *)
Carries(n, stored) == IF ~stored THEN n * Ratio ELSE IF n = 0 THEN 0 ELSE n - 1

UnitsFor(n, stored) ==
    IF n = 0 THEN 0 ELSE IF stored THEN n + 1 ELSE (n + Ratio - 1) \div Ratio

(* The libraries, from how they are called: with `a' units of room they     *)
(* take the input until it is used up or the room is, and what they put out *)
(* has shrunk or grown.                                                     *)
Moves(a) ==
    {m \in [in : 0 .. avail_in, out : 0 .. a, stored : BOOLEAN] :
        /\ Carries(m.out, m.stored) <= held + m.in
        /\ held + m.in - Carries(m.out, m.stored) <= Hold
        /\ m.in = avail_in \/ m.out = a}

(* Without room, or a level, a library does nothing. *)
NoMove == [in |-> 0, out |-> 0, stored |-> FALSE]

(* deflate does not start without room, bzip2 and lzma take what they hold. *)
Deflate(a) == IF a = 0 THEN {NoMove} ELSE Moves(a)

BzCompress(a) == IF Broken THEN {NoMove} ELSE Moves(a)

LzmaCode(a) == Moves(a)

(* n units of what is held, the first ones. *)
DataUnits(n, stored, all) ==
    LET carried(j) == Least(Carries(j, stored), all)
    IN  [j \in 1 .. n |->
            Unit("data", 0, total_in - held + carried(j - 1), 0, carried(j) - carried(j - 1))]

(* What the loops of write, flush and finish do with the units the library  *)
(* put out: a write of the io below that takes only some of them is not     *)
(* noticed.                                                                 *)
Emit(units, r) ==
    /\ Write(units, r)
    /\ kept' = (kept /\ r.n = Len(units))
    /\ UNCHANGED fd

Emits(units) ==
    IF units = <<>> THEN {[n |-> 0, err |-> last_errno, fault |-> 0]}
    ELSE WriteResults(Len(units))

(* The loop of write, for what a call of the library can take and give: a   *)
(* failure of the library is ignored, and so is one that it has no room.    *)
WriteLoop(moves) ==
    /\ op = "write" /\ avail_in > 0
    /\ \E m \in moves :
         LET units == DataUnits(m.out, m.stored, held + m.in)
         IN  \E r \in Emits(units) :
               /\ Emit(units, r)
               /\ op' = IF r.n < 0 THEN "failed" ELSE op
         /\ avail_in' = avail_in - m.in
         /\ total_in' = total_in + m.in
         /\ held' = held + m.in - Carries(m.out, m.stored)
    /\ UNCHANGED <<kind, level, reserve, ended, closed, padded>>

WriteReturns(next) ==
    /\ op = "write" /\ avail_in = 0
    /\ op' \in next
    /\ UNCHANGED <<fileVars, kind, level, reserve, avail_in, total_in, held, ended, closed,
                   padded, kept>>

(* bzip2 and xz flush when the end of the volume comes near.                *)
Near == {IF a < 2 * reserve THEN "flush" ELSE "none" : a \in AvailableSpace}

GzipWrite == kind = "gzip" /\ (WriteLoop(Deflate(NextPreferedSize)) \/ WriteReturns({"none"}))
Bzip2Write == kind = "bzip2" /\ (WriteLoop(BzCompress(NextPreferedSize)) \/ WriteReturns(Near))
XzWrite == kind = "xz" /\ (WriteLoop(LzmaCode(NextPreferedSize)) \/ WriteReturns(Near))

(* All that is held, as units, and behind it `mark'.                        *)
Remaining(stored, mark) == DataUnits(UnitsFor(held, stored), stored, held) \o mark

(* The result of the flush is not looked at: an error below ends it, and    *)
(* when bzip2 has no room it is called again and again.                     *)
FlushThen(result, r) ==
    /\ op' = IF r.n < 0 \/ result = "end" \/ (result = "error" /\ kind = "xz") THEN "none" ELSE op
    /\ UNCHANGED <<kind, level, reserve, avail_in, total_in, ended, closed, padded>>

(* finish does look at it. *)
FinishThen(result, r) ==
    /\ ended' = (result = "end")
    /\ closed' = (result = "end" /\ r.n >= 0)
    /\ op' = IF r.n < 0 \/ result = "error" THEN "failed"
             ELSE IF result = "end" THEN "finished" ELSE op
    /\ UNCHANGED <<kind, level, reserve, avail_in, total_in, padded>>

(* For gzip the check sum and the length follow, whatever becomes of them.  *)
GzipThen(result, r) ==
    /\ ended' = (result = "end")
    /\ closed' = FALSE
    /\ op' = IF r.n < 0 \/ result = "error" THEN "failed"
             ELSE IF result = "end" THEN "numbers" ELSE op
    /\ UNCHANGED <<kind, level, reserve, avail_in, total_in, padded>>

Then(result, r) ==
    IF op = "flush" THEN FlushThen(result, r)
    ELSE IF kind = "gzip" THEN GzipThen(result, r) ELSE FinishThen(result, r)

(* A pass of the loops of flush and finish.  The result of the library is   *)
(* "ok" when there is more to come, "end" when not, and "error" when it     *)
(* made no progress.                                                        *)
Pass(mark) ==
    \E stored \in BOOLEAN :
      LET all == Remaining(stored, mark)
          n == Least(NextPreferedSize, Len(all))
          result == IF n = Len(all) THEN "end" ELSE IF n = 0 THEN "error" ELSE "ok"
          units == SubSeq(all, 1, n)
      IN  \E r \in Emits(units) :
            /\ Emit(units, r)
            /\ held' = held - Least(Carries(n, stored), held)
            /\ Then(result, r)

Bzip2Flush ==
    /\ kind = "bzip2" /\ op = "flush"
    /\ IF Broken THEN op' = "none" /\ UNCHANGED <<fileVars, kind, level, reserve, avail_in, total_in,
                                                  held, ended, closed, padded, kept>>
       ELSE Pass(<<>>)

XzFlush == kind = "xz" /\ op = "flush" /\ Pass(<<>>)

(* finish, which close and reopen_for_reading call.                         *)
End == Unit("end", 0, 0, 0, 0)

GzipNumbers ==
    /\ op = "numbers"
    /\ LET units == <<Unit("crc", 0, 0, 0, 0), Unit("crc", 0, 1, 0, 0)>>
       IN  \E r \in Emits(units) : Emit(units, r)
    /\ closed' = TRUE
    /\ op' = "finished"
    /\ UNCHANGED <<kind, level, reserve, avail_in, total_in, held, ended, padded>>

GzipFinish == kind = "gzip" /\ ((op = "finish" /\ Pass(<<End>>)) \/ GzipNumbers)

Bzip2Finish ==
    /\ kind = "bzip2" /\ op = "finish"
    /\ IF Broken THEN op' = "failed" /\ UNCHANGED <<fileVars, kind, level, reserve, avail_in, total_in,
                                                    held, ended, closed, padded, kept>>
       ELSE Pass(<<End>>)

XzFinish == kind = "xz" /\ op = "finish" /\ Pass(<<End>>)

----------------------------------------------------------------------------
(* The client, the writer of the tar format: content as much as it is told, *)
(* a header when there is space, and the padding behind the content without *)
(* asking (ustar/writer.c:396, 425-428, 537-560).                            *)
StartWrite(length) ==
    /\ op = "none" /\ ~closed
    /\ length \in 1 .. Size - (total_in + avail_in)
    /\ avail_in' = length
    /\ op' = "write"
    /\ UNCHANGED <<fileVars, kind, level, reserve, total_in, held, ended, closed, kept>>

WriteContent ==
    \E next \in FilterNextSize, length \in 1 .. reserve :
        /\ length <= next
        /\ StartWrite(length)
        /\ padded' = FALSE

WriteHeader ==
    \E a \in FilterAvailableSpace, length \in 1 .. MaxHeader :
        /\ a > 0
        /\ StartWrite(length)
        /\ padded' = FALSE

WritePadding ==
    /\ ~padded
    /\ total_in > 0
    /\ \E length \in 1 .. MaxPad : StartWrite(length)
    /\ padded' = TRUE

(* close and reopen_for_reading both finish the stream. *)
StartFinish ==
    /\ op = "none" /\ ~closed
    /\ op' = "finish"
    /\ UNCHANGED <<fileVars, kind, level, reserve, avail_in, total_in, held, ended, closed,
                   padded, kept>>

FilterWrite ==
    \/ GzipWrite \/ Bzip2Write \/ XzWrite
    \/ Bzip2Flush \/ XzFlush
    \/ GzipFinish \/ Bzip2Finish \/ XzFinish

FilterClient == WriteContent \/ WriteHeader \/ WritePadding \/ StartFinish
=============================================================================
