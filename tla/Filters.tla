------------------------------ MODULE Filters ------------------------------
(***************************************************************************)
(* An archive is compressed onto a volume and read again.  What is read is  *)
(* what was written, or what another program made of it: a gzip file with   *)
(* more in its header, a tape, which is padded, a file that is damaged.     *)
(***************************************************************************)
EXTENDS FilterWriter, FilterReader

CONSTANTS
    HeaderFlags,   \* sets of optional fields a gzip file can have
    ReadSize,      \* bound: bytes of an archive that is read again
    MaxDamages     \* bound: 1 if archives may be damaged or cut, else 0

VARIABLES
    reading,       \* TRUE once the archive is read
    damaged,       \* the archive is not what was written
    whole,         \* it is, and all the client had to write
    behind         \* there is something behind the end of the archive

filtersVars == <<fileVars, filterVars, readerVars, reading, damaged, whole, behind>>

Init ==
    /\ FilterInit
    /\ filter = kind
    /\ archive = <<>> /\ in_pos = 0 /\ in_buffer = 0
    /\ pending = <<>> /\ decoder = "run" /\ total_out = 0
    /\ call = Idle /\ stage = "decode" /\ out = Silent
    /\ shut = FALSE /\ in_faults = 0
    /\ reading = FALSE /\ damaged = FALSE /\ whole = FALSE /\ behind = FALSE

(* The fields of a header, as they follow its first ten bytes.              *)
Fields(flags) ==
    LET field(k, o, s) == Unit(k, 0, o, 0, s)
    IN  <<field("head", 0, 0)>>
        \o (IF "extra" \in flags THEN <<field("size", 0, 1), field("nul", 0, 0)>> ELSE <<>>)
        \o (IF "name" \in flags THEN <<field("char", 0, 0), field("nul", 0, 0)>> ELSE <<>>)
        \o (IF "comment" \in flags THEN <<field("nul", 0, 0)>> ELSE <<>>)
        \o (IF "crc16" \in flags THEN <<field("char", 0, 0)>> ELSE <<>>)

(* The archives that can come out of what is on the volume.                 *)
Cut(units) == {SubSeq(units, 1, n) : n \in 1 .. Len(units) - 1}
Spoilt(units) == {[units EXCEPT ![j] = Unit("char", 0, 0, 0, 0)] : j \in DOMAIN units}
Padded(units) == {units, units \o <<Unit("char", 0, 0, 0, 0)>>}

(* The descriptor goes to the reader and the writer is freed.               *)
Free ==
    /\ op' = "freed" /\ fd' = FALSE /\ closed' = TRUE
    /\ position' = 0 /\ log' = <<>> /\ last_errno' = "none" /\ faults' = 0
    /\ level' = 0 /\ reserve' = 0 /\ avail_in' = 0 /\ total_in' = 0 /\ held' = 0
    /\ ended' = FALSE /\ padded' = FALSE /\ kept' = TRUE
    /\ UNCHANGED <<volume, kind>>

(* The volume is read with the filter it was written with.                  *)
Reopen ==
    /\ op = "finished" /\ ~reading /\ total_in <= ReadSize
    /\ \E flags \in (IF kind = "gzip" THEN HeaderFlags ELSE {{}}) :
         LET made == IF kind = "gzip" THEN Fields(flags) \o Tail(log) ELSE log
         IN  /\ \/ archive' \in Padded(made) /\ damaged' = ~kept
                \/ MaxDamages > 0 /\ archive' \in Cut(made) \cup Spoilt(made) /\ damaged' = TRUE
             /\ behind' = (Len(archive') > Len(made))
             /\ in_pos' \in CASE kind = "gzip" -> GzipNewReader(archive', flags)
                              [] kind = "bzip2" -> Bzip2NewReader
                              [] kind = "xz" -> XzNewReader
    /\ whole' = (~damaged' /\ total_in = ReadSize)
    /\ reading' = TRUE
    /\ Free
    /\ UNCHANGED <<filter, in_buffer, pending, decoder, total_out, call,
                   stage, out, shut, in_faults>>

WriteCall == FilterClient /\ UNCHANGED <<readerVars, reading, damaged, whole, behind>>

WriteStep == FilterWrite /\ UNCHANGED <<readerVars, reading, damaged, whole, behind>>

ReadCall == reading /\ ReaderCall /\ UNCHANGED <<fileVars, filterVars, reading, damaged, whole, behind>>

ReadStep == reading /\ ReaderStep /\ UNCHANGED <<fileVars, filterVars, reading, damaged, whole, behind>>

Stopped == op \in {"null", "failed", "finished", "freed"} /\ UNCHANGED filtersVars

Next == WriteCall \/ WriteStep \/ Reopen \/ ReadCall \/ ReadStep \/ Stopped

(* Who calls a filter waits for it; nobody has to call it.                  *)
Fairness == WF_filtersVars(WriteStep) /\ WF_filtersVars(ReadStep)

Spec == Init /\ [][Next]_filtersVars /\ Fairness

----------------------------------------------------------------------------
(* The loops that do not end: a write or a flush without room for what comes *)
(* out, and forward on what cannot be decoded.                              *)
WriteSpins ==
    \/ op = "write" /\ avail_in > 0 /\ (Broken \/ NextPreferedSize = 0)
    \/ op = "flush" /\ NextPreferedSize = 0

ReadSpins == call.op = "forward" /\ stage = "decode" /\ in_buffer > 0 /\ decoder = "error"

(* forward goes on for ever (reader.c, the inner loop) on a damaged archive, *)
(* and with bzip2 also on what follows the end of an archive on a tape, but  *)
(* never on an archive as it was written.                                    *)
SpinsOnDamage == ReadSpins => damaged \/ (filter = "bzip2" /\ behind)

(* Every call returns, or is in one of the loops that do not end.           *)
Returned ==
    /\ op \in {"write", "flush", "finish", "numbers"} ~>
          op \in {"none", "failed", "finished", "freed"} \/ WriteSpins
    /\ call.op # "none" ~> call.op = "none" \/ ReadSpins

(* Reading through a filter is reading what was written through one, in any  *)
(* pieces and with any skips, whatever the other program put into the header *)
(* and whatever follows the end of the archive.                              *)
Plain == INSTANCE ByteStream WITH
            Size <- ReadSize,
            short <- FALSE,
            pos <- IF whole THEN total_out - Len(call.got) ELSE 0,
            out <- IF whole THEN out ELSE Silent

IsPlain == Plain!Spec
=============================================================================
