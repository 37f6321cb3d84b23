-------------------------------- MODULE Chain --------------------------------
(***************************************************************************)
(* What stands between a format and a file: src/src/mtar/io.c, filter.c and *)
(* format.c.  The io driver is chosen by the kind of the file, filters are  *)
(* stacked on it, those of --filter first, from the last one given to the   *)
(* first, and then the one for the compression, which the name of the file  *)
(* or an option asks for.                                                   *)
(*                                                                          *)
(* A file holds data under layers, the one next to the file first: what     *)
(* writers put around it and readers have to take off again.  A stack is    *)
(* the file it stands on, its layers (those written, or those not yet taken *)
(* off), and whether what comes out of it, or goes into it, makes sense.    *)
(*                                                                          *)
(* The operators work on the state of Registry with a field `disk' and      *)
(* return it with the stack they made, or NoStack for NULL.                 *)
(***************************************************************************)
EXTENDS Registry

CONSTANTS
    Files,      \* names of files; "-" is standard input and output
    FileKind,   \* FileKind[f]: the io driver for it
    Extension,  \* Extension[f]: what follows the last dot of the name
    Locked,     \* the files that cannot be opened
    FilterLevel \* FilterLevel[text]: the level that the option of a filter names

(* Standard input and output are open already, and a level that is out of   *)
(* range is 6 when it is an option of a filter (gzip/writer.c:236-245).     *)
ASSUME ChainAssumption ==
    /\ "-" \notin Locked
    /\ \A text \in DOMAIN FilterLevel : FilterLevel[text] \in 0 .. 9

Nothing == [exists |-> FALSE, layers |-> <<>>, data |-> ""]

NoStack == [on |-> "none", layers |-> <<>>, good |-> FALSE, data |-> ""]

With(s, stack) == [state |-> s, stack |-> stack]

----------------------------------------------------------------------------
(* The io layer. *)

(* Mutant: a file is truncated whenever it is opened. *)
BadIoOpen(s, f, writing) ==
    [s EXCEPT !.disk[f] = [@ EXCEPT !.exists = TRUE, !.layers = <<>>, !.data = ""]]

(* mtar_io_open.  O_RDONLY is 0, so that no flag is found to be it, and     *)
(* what does not exist is created when it is to be read, too.               *)
IoOpen(s, f, writing) ==
    IF f = "-" THEN s
    ELSE [s EXCEPT !.disk[f] =
            IF writing THEN [exists |-> TRUE, layers |-> <<>>, data |-> ""]
            ELSE [@ EXCEPT !.exists = TRUE]]

IoReaderGetFd(s, f) ==
    LET found == IoGet(s, FileKind[f])
    IN  With(found, IF Known(found, "io", FileKind[f])
                    THEN [on |-> f, layers |-> found.disk[f].layers, good |-> TRUE,
                          data |-> found.disk[f].data]
                    ELSE NoStack)

IoWriterGetFd(s, f) ==
    LET found == IoGet(s, FileKind[f])
    IN  With(found, IF Known(found, "io", FileKind[f])
                    THEN [on |-> f, layers |-> <<>>, good |-> TRUE, data |-> ""]
                    ELSE NoStack)

IoReaderGetFile(s, f) ==
    IF f \in Locked THEN With(s, NoStack) ELSE IoReaderGetFd(IoOpen(s, f, FALSE), f)

IoWriterGetFile(s, f) ==
    IF f \in Locked THEN With(s, NoStack) ELSE IoWriterGetFd(IoOpen(s, f, TRUE), f)

----------------------------------------------------------------------------
(* Filters. *)

(* mtar_filter_get_module. *)
FilterGetModule(f) ==
    CASE Extension[f] \in {".bz2", ".tz2", ".tbz2", ".tbz"} -> "bzip2"
      [] Extension[f] \in {".gz", ".tgz", ".taz"} -> "gzip"
      [] Extension[f] \in {".xz", ".txz"} -> "xz"
      [] OTHER -> "none"

(* new_reader of a filter.  gzip looks for its header at once and gives up  *)
(* without one, the others find out when they are read.                     *)
NewReader(filter, stack) ==
    IF stack.good /\ stack.layers # <<>> /\ Head(stack.layers) = filter
    THEN [stack EXCEPT !.layers = Tail(@)]
    ELSE IF filter = "gzip" THEN NoStack ELSE [stack EXCEPT !.good = FALSE]

(* The option of a filter wins over --compression-level. *)
LevelOf(option, parameters) ==
    IF parameters \in DOMAIN FilterLevel THEN FilterLevel[parameters] ELSE option.compress_level

(* Levels that the libraries take; that of the option is also how much      *)
(* memory gzip asks for.                                                    *)
LevelRefused(filter, level, memory) ==
    \/ filter = "gzip" /\ (level \notin 0 .. 9 \/ memory \notin 1 .. 9)
    \/ filter = "xz" /\ level \notin 0 .. 9

(* new_writer of a filter: NULL for a level that is refused, but bzip2 does *)
(* not look at what its library says, and has a writer that cannot write.   *)
NewWriter(filter, stack, option, parameters) ==
    LET level == LevelOf(option, parameters)
    IN  IF LevelRefused(filter, level, option.compress_level) THEN NoStack
        ELSE [stack EXCEPT !.layers = Append(@, filter),
                           !.good = @ /\ (filter = "bzip2" => level \in 1 .. 9)]

(* The nth filter from the end, and its option. *)
FromEnd(filters, n) == filters[Len(filters) + 1 - n].name
OptionFromEnd(filters, n) == filters[Len(filters) + 1 - n].option

(* A filter without a driver is left out, and so is one that gives up: it   *)
(* has read from the stack by then, which is not at its start any more.     *)
PutReader(filter, below) ==
    LET s == FilterGet(below.state, filter)
        new == NewReader(filter, below.stack)
    IN  IF ~Known(s, "filter", filter) THEN With(s, below.stack)
        ELSE IF new = NoStack THEN With(s, [below.stack EXCEPT !.good = FALSE])
        ELSE With(s, new)

(* new_writer of the nth filter from the end. *)
PutWriter(n, below, option) ==
    LET filter == FromEnd(option.filters, n)
        s == FilterGet(below.state, filter)
        new == NewWriter(filter, below.stack, option, OptionFromEnd(option.filters, n))
    IN  With(s, IF Known(s, "filter", filter) /\ new # NoStack THEN new ELSE below.stack)

(* Mutant: the filters are put on in the order they were given. *)
BadFilterGetReaders(io, option) ==
    LET put[n \in 0 .. Len(option.filters)] ==
            IF n = 0 THEN io ELSE PutReader(option.filters[n].name, put[n - 1])
    IN  put[Len(option.filters)]

(* The last filter goes on first. *)
FilterGetReaders(io, option) ==
    LET put[n \in 0 .. Len(option.filters)] ==
            IF n = 0 THEN io ELSE PutReader(FromEnd(option.filters, n), put[n - 1])
    IN  put[Len(option.filters)]

FilterGetWriters(io, option) ==
    LET put[n \in 0 .. Len(option.filters)] ==
            IF n = 0 THEN io ELSE PutWriter(n, put[n - 1], option)
    IN  put[Len(option.filters)]

(* The compression: NULL when there is no driver for it, or when it gives   *)
(* up.                                                                      *)
Uncompress(io, module) ==
    LET s == FilterGet(io.state, module)
    IN  IF module = "none" THEN io
        ELSE With(s, IF Known(s, "filter", module) THEN NewReader(module, io.stack) ELSE NoStack)

Compress(io, module, option) ==
    LET s == FilterGet(io.state, module)
    IN  IF module = "none" THEN io
        ELSE With(s, IF Known(s, "filter", module)
                     THEN NewWriter(module, io.stack, option, "none") ELSE NoStack)

FilterGetReader2(io, option) ==
    IF io.stack = NoStack THEN io
    ELSE Uncompress(FilterGetReaders(io, option), option.compress_module)

FilterGetReader3(s, f, option) ==
    LET io == IoReaderGetFile(s, f)
    IN  IF io.stack = NoStack THEN io
        ELSE Uncompress(FilterGetReaders(io, option), FilterGetModule(f))

FilterGetWriter2(io, option) ==
    IF io.stack = NoStack THEN io
    ELSE Compress(FilterGetWriters(io, option), option.compress_module, option)

(* Also what change_volume of create opens a volume with. *)
FilterGetWriter3(s, f, option) ==
    LET io == IoWriterGetFile(s, f)
    IN  IF io.stack = NoStack THEN io
        ELSE Compress(FilterGetWriters(io, option), FilterGetModule(f), option)

(* With a name and --auto-compress, which is the default, -j, -J and -z     *)
(* are not looked at.                                                       *)
FilterGetReader(s, option) ==
    IF option.auto_compress /\ option.filename # "none"
    THEN FilterGetReader3(s, option.filename, option)
    ELSE FilterGetReader2(IF option.filename # "none" THEN IoReaderGetFile(s, option.filename)
                          ELSE IoReaderGetFd(s, "-"), option)

FilterGetWriter(s, option) ==
    IF option.auto_compress /\ option.filename # "none"
    THEN FilterGetWriter3(s, option.filename, option)
    ELSE FilterGetWriter2(IF option.filename # "none" THEN IoWriterGetFile(s, option.filename)
                          ELSE IoWriterGetFd(s, "-"), option)

----------------------------------------------------------------------------
(* Formats.  That of mtf has no writer. *)

(* mtar_format_auto_detect2: what the first driver says it knows. *)
AutoDetect(s, stack) ==
    \E i \in DOMAIN s.drivers["format"] :
        stack.good /\ stack.layers = <<>> /\ stack.data = s.drivers["format"][i].name

FormatGetReader2(io, option) ==
    LET detecting == LoadAll(io.state, "format")
        named == FormatGet(io.state, option.format)
    IN  IF io.stack = NoStack THEN io
        ELSE IF option.auto_detect_format
        THEN With(detecting, IF AutoDetect(detecting, io.stack) THEN io.stack ELSE NoStack)
        ELSE With(named, IF Known(named, "format", option.format) THEN io.stack ELSE NoStack)

FormatGetReader(s, option) == FormatGetReader2(FilterGetReader(s, option), option)

FormatGetWriter2(io, option) ==
    LET named == FormatGet(io.state, option.format)
    IN  IF io.stack = NoStack THEN io
        ELSE With(named, IF /\ Known(named, "format", option.format)
                            /\ Driver(named, "format", option.format).writes
                         THEN io.stack ELSE NoStack)

FormatGetWriter(s, option) == FormatGetWriter2(FilterGetWriter(s, option), option)
=============================================================================
