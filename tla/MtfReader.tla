------------------------------ MODULE MtfReader ------------------------------
(***************************************************************************)
(* The reader of the Microsoft tape format,                                 *)
(* src/src/module/format/mtf/reader.c, on a plain file or a pipe behind the *)
(* format detection.  A volume is a run of descriptor blocks, each on a     *)
(* boundary; behind the block of a file come its streams, each on a smaller *)
(* boundary, one of them the content, the last one a pad up to the next     *)
(* block.                                                                   *)
(*                                                                          *)
(* A block or a stream begins with a unit that says what it is and goes on  *)
(* in units of "data", which its header ends in and its content consists    *)
(* of.                                                                      *)
(* A call of the format is unfolded into steps of one call of the io layer: *)
(*   get_header  block -> boundary -> block                                 *)
(*               block -> part -> name -> rest                              *)
(*                                name -> (event) -> stream -> (pad)        *)
(*                                        stream -> skip -> (align) -> stream *)
(*   next_header, which read and skip_file end with                         *)
(*               (position) -> first -> skip -> (align) -> next -> skip ... *)
(*                                                        (first, next) -> pad *)
(* Strings, times and owners are left out, and so are the volumes behind    *)
(* the first one.                                                           *)
(***************************************************************************)
EXTENDS FormatDetect, FiniteSets

CONSTANTS
    Archives,     \* sequences of Size units: see Unit
    Directories,  \* numbers of directories
    Boundary,     \* 1024
    StreamAlign,  \* 4
    BlockHead, DirbHead, FileHead, StreamHead,  \* sizes of the structures
    NameLength    \* of names of files and directories

ASSUME MtfAssumption ==
    /\ \A a \in Archives : Len(a) = Size
    /\ Boundary \in Nat \ {0} /\ StreamAlign \in Nat \ {0}
    /\ BlockHead \in Nat \ {0} /\ DirbHead \in Nat /\ FileHead \in Nat /\ NameLength \in Nat
    /\ StreamHead \in Nat \ {0}
    /\ BlockHead + DirbHead + NameLength <= Boundary
    /\ Boundary % StreamAlign = 0

VARIABLES
    archive,
    format,       \* "none", "mtf", or "other" with a client that does anything
    call,         \* "none", "header", "read" or "skip"
    step,         \* where in the call
    block,        \* the block at hand
    strm,         \* the stream at hand
    counted,      \* stream_offset, and nb_read in next_header
    file_offset, file_size,
    directories,
    answer,       \* what the last call returned
    headers,      \* history: the headers that were returned
    taken,        \* history: what was read of the file at hand
    torn          \* history: a stream was taken from a part of its header

readerVars == <<block, strm, counted, torn>>
contentVars == <<file_offset, file_size, directories, headers, taken>>
mtfVars == <<archive, format, call, step, answer, readerVars, contentVars>>

(* id: the directory of a block.  len: the length of a stream, or           *)
(* offset_to_first_event of a file.                                         *)
Unit(k, id, len) == [k |-> k, id |-> id, len |-> len]
Data == Unit("data", 0, 0)

Blocks == {"tape", "dirb", "file", "espb"}
Streams == {"stan", "spad", "other"}

MtfInit ==
    /\ Init
    /\ archive \in Archives
    /\ format = "none" /\ call = "none" /\ step = "none" /\ answer = "none"
    /\ block = Data /\ strm = Data /\ counted = 0 /\ torn = FALSE
    /\ file_offset = 0 /\ file_size = 0
    /\ directories = [d \in Directories |-> 0]
    /\ headers = <<>> /\ taken = <<>>

(* mtar_format_mtf_auto_detect: it takes the first block as a whole.        *)
AutoDetect ==
    /\ Detect
    /\ archive[1].k \in Blocks => buffer_size' >= Boundary
    /\ format' = IF archive[1].k \in Blocks THEN "mtf" ELSE "other"
    /\ UNCHANGED <<archive, call, step, answer, readerVars, contentVars>>

----------------------------------------------------------------------------
Goes(next) == step' = next /\ UNCHANGED <<call, answer>>
Returns(status) == call' = "none" /\ step' = "none" /\ answer' = status

(* What the last read of the io layer gave, as the header it is taken for.  *)
ThisUnit == archive[out'.data[1] + 1]

(* Where no stream begins anything can be there.                            *)
Garbage == {Unit(k, 0, n) : k \in Streams, n \in {0, 1}}
ThisStream == IF ThisUnit.k \in Streams THEN {ThisUnit} ELSE Garbage

(* A read that ends within the header leaves the rest of the structure as   *)
(* it was: type and length are each the old one, the new one or, in between *)
(* the two, another one.                                                    *)
PartStream ==
    UNION {{strm, Unit(new.k, 0, strm.len), Unit(strm.k, 0, new.len), Unit("other", 0, new.len),
            Unit("other", 0, strm.len)} : new \in ThisStream}

(* get_header: what is left of a file is told as it is.                     *)
GetHeader ==
    /\ call = "none"
    /\ IF file_offset < file_size
       THEN answer' = "rest" /\ UNCHANGED <<call, step>>
       ELSE call' = "header" /\ step' = "block" /\ UNCHANGED answer
    /\ UNCHANGED <<vars, readerVars, contentVars>>

BlockResult(n) ==
    IF n < 0 THEN "error" ELSE IF n = 0 THEN "not_found" ELSE IF n < BlockHead THEN "bad_header"
    ELSE IF ThisUnit.k \notin Blocks THEN "bad_checksum"
    ELSE IF ThisUnit.k = "espb" THEN "not_found" ELSE "ok"

ReadBlock ==
    /\ step = "block"
    /\ ReadOf(BlockHead)
    /\ IF BlockResult(out'.ret) # "ok" THEN Returns(BlockResult(out'.ret)) /\ UNCHANGED readerVars
       ELSE /\ block' = ThisUnit
            /\ counted' = BlockHead
            /\ Goes(IF ThisUnit.k \in {"dirb", "file"} THEN "part" ELSE "boundary")
            /\ UNCHANGED <<strm, torn>>
    /\ UNCHANGED contentVars

(* Blocks without files are passed.                                         *)
SkipBlock ==
    /\ step = "boundary"
    /\ IF Position % Boundary > 0 THEN ForwardOf(Boundary - (Position % Boundary)) ELSE UNCHANGED vars
    /\ Goes("block")
    /\ UNCHANGED <<readerVars, contentVars>>

PartLength ==
    IF step = "name" THEN NameLength ELSE IF block.k = "dirb" THEN DirbHead ELSE FileHead

(* The rest of the structure, then the name.                                *)
ReadPart ==
    /\ step \in {"part", "name"}
    /\ ReadOf(PartLength)
    /\ IF out'.ret < PartLength
       THEN Returns(IF out'.ret < 0 THEN "error" ELSE "bad_header") /\ UNCHANGED <<readerVars, directories>>
       ELSE /\ counted' = counted + PartLength
            /\ Goes(IF step = "part" THEN "name" ELSE IF block.k = "dirb" THEN "rest"
                    ELSE IF counted' < block.len THEN "event" ELSE "stream")
            /\ directories' = IF step = "name" /\ block.k = "dirb"
                              THEN [directories EXCEPT ![block.id] = block.id] ELSE directories
            /\ UNCHANGED <<block, strm, torn>>
    /\ UNCHANGED <<file_offset, file_size, headers, taken>>

Header(k, size) == [k |-> k, dir |-> directories[block.id], size |-> size]

GivesHeader(k, size) ==
    /\ headers' = Append(headers, Header(k, size))
    /\ file_offset' = 0
    /\ file_size' = size
    /\ taken' = <<>>
    /\ Returns("ok")

(* The result of this skip, as of the others here, is not looked at.        *)
SkipDirectory ==
    /\ step = "rest"
    /\ ForwardOf(Boundary - BlockHead - DirbHead - NameLength)
    /\ GivesHeader("dirb", 0)
    /\ UNCHANGED <<readerVars, directories>>

SkipToEvent ==
    /\ step = "event"
    /\ ForwardOf(block.len - counted)
    /\ counted' = block.len
    /\ Goes("stream")
    /\ UNCHANGED <<block, strm, torn, contentVars>>

(* The streams up to the content or, when there is none, the pad.           *)
ReadStream ==
    /\ step = "stream"
    /\ ReadOf(StreamHead)
    /\ IF out'.ret < StreamHead
       THEN Returns(IF out'.ret < 0 THEN "error" ELSE "bad_header") /\ UNCHANGED <<readerVars, contentVars>>
       ELSE /\ strm' \in ThisStream
            /\ counted' = counted + StreamHead
            /\ IF strm'.k = "stan" THEN GivesHeader("file", strm'.len) /\ UNCHANGED directories
               ELSE Goes(IF strm'.k = "spad" THEN "pad" ELSE "skip") /\ UNCHANGED contentVars
            /\ UNCHANGED <<block, torn>>

LoopHead == IF call = "header" THEN "stream" ELSE "next"

SkipStream ==
    /\ step = "skip"
    /\ ForwardOf(strm.len)
    /\ counted' = counted + strm.len
    /\ Goes(IF counted' % StreamAlign # 0 THEN "align" ELSE LoopHead)
    /\ UNCHANGED <<block, strm, torn, contentVars>>

AlignStream ==
    /\ step = "align"
    /\ ForwardOf(StreamAlign - (counted % StreamAlign))
    /\ counted' = counted + StreamAlign - (counted % StreamAlign)
    /\ Goes(LoopHead)
    /\ UNCHANGED <<block, strm, torn, contentVars>>

----------------------------------------------------------------------------
(* read and skip_file end with next_header.                                 *)
Ends ==
    /\ file_offset' = IF call = "skip" THEN file_size ELSE file_offset
    /\ Returns("ok")
    /\ UNCHANGED <<file_size, directories, headers, taken>>

SkipPad ==
    /\ step = "pad"
    /\ ForwardOf(strm.len)
    /\ IF call = "header" THEN GivesHeader("file", 0) /\ UNCHANGED directories ELSE Ends
    /\ UNCHANGED readerVars

(* Mutant: the streams behind the content end with another one. *)
BadIsPad(unit) == unit.k = "stan"

IsPad(unit) == unit.k = "spad"

StartNextHeader == IF Position' % StreamAlign # 0 THEN "position" ELSE "first"

AlignPosition ==
    /\ step = "position"
    /\ ForwardOf(StreamAlign - (Position % StreamAlign))
    /\ Goes("first")
    /\ UNCHANGED <<readerVars, contentVars>>

TakesStream(streams) ==
    /\ strm' \in streams
    /\ counted' = out'.ret
    /\ Goes(IF IsPad(strm') THEN "pad" ELSE "skip")
    /\ UNCHANGED <<block, contentVars>>

ReadFirst ==
    /\ step = "first"
    /\ ReadOf(StreamHead)
    /\ IF out'.ret < StreamHead THEN Ends /\ UNCHANGED readerVars
       ELSE TakesStream(ThisStream) /\ UNCHANGED torn

(* At the end of the archive nothing is read, and the stream before is      *)
(* skipped once more: the loop does not end.  Bound: it is not followed.    *)
Spins == step = "next" /\ Position >= Size

(* The reads of the loop are only asked whether they failed: one that gives *)
(* a part of a header is taken for a whole one.                             *)
ReadNext ==
    /\ step = "next" /\ ~Spins
    /\ ReadOf(StreamHead)
    /\ IF out'.ret < 0 THEN Ends /\ UNCHANGED readerVars
       ELSE /\ TakesStream(IF out'.ret = StreamHead THEN ThisStream ELSE PartStream)
            /\ torn' = (torn \/ out'.ret < StreamHead)

----------------------------------------------------------------------------
(* Mutant: a read goes on behind the end of the file. *)
BadClamp(length) == length

Clamp(length) ==
    IF file_offset + length > file_size THEN file_size - file_offset ELSE length

ReadFile ==
    /\ call = "none"
    /\ \E length \in 1 .. MaxAsk :
         IF Clamp(length) < 1 THEN answer' = "ok" /\ UNCHANGED <<vars, call, step, contentVars>>
         ELSE /\ ReadOf(Clamp(length))
              /\ file_offset' = IF out'.ret > 0 THEN file_offset + out'.ret ELSE file_offset
              /\ taken' = taken \o out'.data
              /\ IF file_offset' = file_size
                 THEN call' = "read" /\ step' = StartNextHeader /\ UNCHANGED answer
                 ELSE Returns(IF out'.ret < 0 THEN "error" ELSE "ok")
              /\ UNCHANGED <<file_size, directories, headers>>
    /\ UNCHANGED readerVars

SkipFile ==
    /\ call = "none"
    /\ IF file_size = file_offset
       THEN answer' = "ok" /\ UNCHANGED <<vars, call, step, file_offset>>
       ELSE /\ ForwardOf(file_size - file_offset)
            /\ IF out'.ret = -1 THEN Returns("error") /\ UNCHANGED file_offset
               ELSE IF Position + file_size - file_offset > out'.ret
               THEN Returns("end_of_tape") /\ file_offset' = file_offset + out'.ret - Position
               ELSE call' = "skip" /\ step' = StartNextHeader /\ UNCHANGED <<answer, file_offset>>
    /\ UNCHANGED <<readerVars, file_size, directories, headers, taken>>

----------------------------------------------------------------------------
(* Who uses the format stops at the end and at what is bad.                 *)
Going == answer \in {"none", "ok", "rest"}

MtfCall == format = "mtf" /\ Going /\ (GetHeader \/ ReadFile \/ SkipFile) /\ UNCHANGED <<archive, format>>

MtfStep ==
    /\ \/ ReadBlock \/ SkipBlock \/ ReadPart \/ SkipDirectory \/ SkipToEvent
       \/ ReadStream \/ SkipStream \/ AlignStream \/ SkipPad
       \/ AlignPosition \/ ReadFirst \/ ReadNext
    /\ UNCHANGED <<archive, format>>

(* Of the other formats it matters only that they read and skip.            *)
OtherFormat == format = "other" /\ (Read \/ Forward) /\ UNCHANGED mtfVars

Stopped == ((call = "none" /\ ~Going) \/ Spins) /\ UNCHANGED <<vars, mtfVars>>

MtfNext == AutoDetect \/ MtfCall \/ MtfStep \/ OtherFormat \/ Stopped

(* Who is inside a call goes on; nobody has to make one. *)
MtfSpec == MtfInit /\ [][MtfNext]_<<vars, mtfVars>> /\ WF_<<vars, mtfVars>>(MtfStep)

----------------------------------------------------------------------------
(* The content of the file whose block is at j: the place of its stream.    *)
Content(j) ==
    {i \in j + 1 .. Size : archive[i].k = "stan" /\ \A l \in j + 1 .. i : archive[l].k \notin Blocks}

Expected(j) ==
    [k    |-> archive[j].k,
     dir  |-> archive[j].id,
     size |-> IF Content(j) = {} THEN 0 ELSE archive[CHOOSE i \in Content(j) : TRUE].len]

(* The blocks that get a header, and their numbers.                         *)
Listed == {j \in 1 .. Size : archive[j].k \in {"dirb", "file"}}
Number(j) == Cardinality({l \in Listed : l <= j})

(* What the format is: where blocks and streams lie, and what follows one.  *)
Bare(from, to) == \A l \in from .. to : archive[l].k = "data"

BlockAt(j) == j <= Size /\ archive[j].k \in Blocks /\ (j - 1) % Boundary = 0
StreamAt(j) == j <= Size /\ archive[j].k \in Streams /\ (j - 1) % StreamAlign = 0

(* Behind a stream that ends in front of `from', the next one is on the     *)
(* next of their boundaries.                                                *)
StreamFrom(from) ==
    \E s \in from .. Size : StreamAt(s) /\ s < from + StreamAlign /\ Bare(from, s - 1)

(* The directory of a file comes first, and it has one content.             *)
FileLaid(j, first) ==
    /\ archive[j].len >= BlockHead + FileHead + NameLength
    /\ StreamAt(first) /\ Bare(j + 1, first - 1)
    /\ \E d \in 1 .. j - 1 : archive[d].k = "dirb" /\ archive[d].id = archive[j].id
    /\ \A i, n \in Content(j) : i = n

BlockLaid(j) ==
    /\ BlockAt(j)
    /\ archive[j].k \in {"tape", "dirb"} => BlockAt(j + Boundary) /\ Bare(j + 1, j + Boundary - 1)
    /\ archive[j].k = "dirb" => archive[j].id \in Directories
    /\ archive[j].k = "file" => FileLaid(j, j + archive[j].len)
    /\ archive[j].k = "espb" => j + BlockHead <= Size + 1 /\ Bare(j + 1, Size)

StreamLaid(i, end) ==
    /\ StreamAt(i) /\ end < Size /\ Bare(i + 1, end)
    /\ IF archive[i].k = "spad" THEN BlockAt(end + 1) ELSE StreamFrom(end + 1)

(* An archive that is whole begins with a block, and each block and stream  *)
(* is followed by the next: the end is a block "espb".                      *)
IsWhole ==
    /\ BlockAt(1)
    /\ \A j \in 1 .. Size :
         /\ archive[j].k \in Blocks => BlockLaid(j)
         /\ archive[j].k \in Streams => StreamLaid(j, j + StreamHead - 1 + archive[j].len)

(* A stream of content without content is not passed: its file is taken for *)
(* one whose streams were all seen.                                         *)
NoEmptyContent == \A j \in 1 .. Size : archive[j].k = "stan" => archive[j].len > 0

(* An archive that is whole is read as it is: each directory and file once, *)
(* in order, with its directory and its size, and of each file its content  *)
(* from the start, however it is read and skipped.  The streams before and  *)
(* behind the content, the gaps between them and the buffer of the          *)
(* detection never make the reader miss the next block (reader.c:258-283,   *)
(* 516-542).                                                                *)
AllFound ==
    IsWhole /\ NoEmptyContent /\ faults = 0 /\ ~pipe =>
        /\ Going \/ answer = "not_found"
        /\ Len(headers) <= Cardinality(Listed)
        /\ \A j \in Listed : Number(j) <= Len(headers) => headers[Number(j)] = Expected(j)
        /\ answer = "not_found" => Len(headers) = Cardinality(Listed)
        /\ taken # <<>> => \E j \in Listed : Number(j) = Len(headers) /\
             \E i \in Content(j) : \A n \in DOMAIN taken : taken[n] = i + StreamHead - 1 + n - 1

(* Every call returns, but for one that looks for the pad behind the        *)
(* content of a file in an archive that is cut or cannot be read, or after  *)
(* a read that gave a part of the header of a stream, as a pipe may: the    *)
(* loop does not ask how much it was given (reader.c:528-538).              *)
Answered ==
    call # "none" ~> call = "none" \/ (Spins /\ (~IsWhole \/ faults > 0 \/ torn))
=============================================================================
