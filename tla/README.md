# A verification project for mTar

mTar is a modular `tar` in C. It creates, lists, extracts and compares archives
that may span several volumes (files or tapes), through stackable compression
filters and loadable modules. This directory holds TLA+ models of the program,
the TLC configurations that check them on small instances, and proofs, checked
by TLAPS, that some of what TLC finds on those instances holds for all of them.

Paths are relative to the repository: `src/` is the program, `include/` its
headers, `test/` its tests. `PROJECT.json` maps each definition to the lines it
models and lists the hazards of the code with the properties that would catch
each.

## 1. Inventory

The program is single-threaded. Nothing in it runs in parallel, so what is hard
is not its own concurrency but what happens between two of its calls: the files
it archives change, a device refuses or shortens a write, a volume is full in
the middle of something, and a human is asked for the next one.

### The layers

    function   create  extract  list  diff  mtf-*      one call per invocation
       |       pattern iterators: what to archive
    format     ustar writer / reader, mtf reader       headers, content, padding
       |       format detection (readers only)
    filter     gzip, bzip2, xz                         zero or more, stacked
       |
    io         file, pipe, tape                        one object per volume

A layer calls only the one below it, through a table of function pointers. An
io object is one volume. At its end the function asks the operator and hands the
format a new one (`new_volume` / `next_volume`).

| component | state | operations | what makes it correct |
|---|---|---|---|
| create (`function/create`) | entry at hand, inode table, three counters of the copy loop, `failed`, volumes used | one loop over the entries; `change_volume`; verify with its own loop and `select_volume` | every file in the archive once, in order, however it is cut; exit status tells the truth; the operator is asked only at the end of a volume; a good archive verifies; it ends |
| ustar writer (`format/ustar/writer.c`) | position in and size of the current file, header kept for the next volume | `add_file`, `add_link`, `add_label`, `restart_file`, `write`, `end_of_file`, `new_volume` | a reader that goes from header to header lands on headers; an `M` header says where its content goes on |
| ustar reader (`format/ustar/reader.c`) | what is left of the file and of its padding | `get_header`, `read`, `skip_file`, `next_volume` | inverse of the writer, over volumes |
| mtf reader (`format/mtf`) | current file, directory table | the same | blocks are found again after each file and volume |
| format detection (`mtar/format_detect.c`) | the first block, until it is used up | `read`, `forward`, `position` | invisible to the format |
| file io | position, size of the volume, errno | `read`, `forward`, `write`, `available_space`, `next_prefered_size` | never past the volume; short writes are reported |
| pipe io | position | the same, `forward` reads | a stream with short reads |
| tape io | record buffer, records on the tape, end-of-data flag | the same, in records | no byte lost or doubled by the buffering, by a second attempt or by closing |
| filters | codec stream, space kept back, CRC, closed flag | the io interface | inverse pairs; what is held back fits the volume; every call returns |
| filter chain (`mtar/filter.c`) | none | stacks readers and writers | same order on both sides, same on every volume |
| hashtable | chains, their number, element count | `put`, `has_key`, `value`, `keys`, `values`, `remove` | a map |
| patterns | stack of directory listings, the directory and the file in mind | `has_next`, `next`, `match` | every entry below the root once, behind its directory; excluded ones never; what is archived is found again |
| file helpers | name caches | `mkdirat`, `rmdir`, lookups | a directory is made with its ancestors; a cached name is the name of its number |
| readline | line buffer | `getline` | each line once |
| loader, registries | lists of drivers, handles, one shared flag | lookup, load, register | a driver is found whether or not it was loaded before; the library of a driver stays open |
| options | the option at hand, what is in force for names | one argument at a time | a name is looked for with what was said before it; what cannot be is refused |
| verbose, util, scsi, tests | - | output, strings, ioctl | not modelled (see 7) |

### Where it is hard

* **The end of a volume** can meet a label, a link header, a long header in its
  middle, the content of a file, the padding, or nothing at all. Each has its
  own path in `create.c:144-301`, with its own assumption about what was written.
* **Partial writes and failures** inside those paths: `nb_write` is used as a
  count and as an error, `failed` is assigned by several calls.
* **Files that change** between `fstatat` (the header) and `read` (the content).
* **Tapes**: the first write past the early warning fails and is tried again;
  the last record is padded when the tape is closed, and closing can fail.
* **Operator**: may give a volume, give up, close the terminal, or name a
  file that cannot be opened.
* **Codecs** hold data back, so that the end of a volume must be foreseen, and may
  make no progress, which the loops around them take for more to do.
* **Trees that change** between `scandir` and `lstat`, with several levels read ahead.
* **Spellings**: a bundle, long options and names are read in different ways, and
  what an option means for a name depends on what stands before it.
* **Reading back**: requests do not coincide with blocks, records or volumes.

## 2. Modules

| module | models | kind |
|---|---|---|
| `FileWriter` | `io/file/writer.c`, `common.c` | the volume that is open and a log of all units written, as operators that `UstarWriter` and `FilterWriter` call |
| `UstarWriter` | `format/ustar/writer.c` | extends `FileWriter`; headers, continuation, padding |
| `Create` | `function/create/create.c` up to the end of the writing | extends `UstarWriter`; the actions, the operator, changing files, the specification |
| `MCCreate` | - | lists of entries and sizes for TLC |
| `CreateProofs` | - | the inductive invariant of `Create` and the theorems that follow from it; when the operator is asked, and what the headers behind a prompt say; hard links, what a run that ends well has written, and that an archive can be read back from header to header |
| `UstarReader` | `format/ustar/reader.c` on `io/file/reader.c` | operators over the volumes, as `UstarWriter` |
| `Restore` | `function/extract/extract.c`, `list/list.c`, `diff/diff.c` | extends `UstarReader`; the loop over headers and volumes, the prompt, the file system |
| `Verify` | `function/create/create.c:342-462, 552-635` | extends `UstarReader`; the loop of `--verify` and its prompt |
| `RoundTrip` | - | extends `Create`, instantiates `Restore` and `Verify` on the volumes it made |
| `RoundTripProofs` | - | extends that and `CreateProofs`: what the headers of one file say, what extract makes of it and puts into the files, and what `-t` and `--verify` find |
| `MCRoundTrip` | - | entries, sizes, patterns and file systems for TLC |
| `ByteStream` | the read half of `include/mtar/io.h` | abstract specification: a stream read in order |
| `StreamReader` | `io/file/reader.c`, `io/pipe/reader.c` | what read and forward can return |
| `FormatDetect` | `mtar/format_detect.c` | extends `StreamReader`; implements `ByteStream` |
| `MtfReader` | `format/mtf/reader.c` | extends `FormatDetect`; blocks, streams and the content between them |
| `FormatDetectProofs` | - | extends `MtfReader`: the invariant of the detection and its refinement, the same for the reader behind it, and what that reader finds |
| `MCMtfReader` | - | archives of that format, whole and cut |
| `TapeReader` | `io/tape/reader.c` | implements `ByteStream` |
| `TapeReaderProofs` | - | its inductive invariant, and the refinement as a theorem |
| `TapeWriter` | `io/tape/writer.c` | buffer, records, retry, close, reopening |
| `TapeWriterProofs` | - | its inductive invariant and the three properties as theorems |
| `FilterWriter` | `filter/{gzip,bzip2,xz}/writer.c` | extends `FileWriter`; the loops around a codec, the space kept back, the client |
| `FilterReader` | `filter/{gzip,bzip2,xz}/reader.c` | the loops of read and forward, the header of gzip |
| `Filters` | - | composes the two: what was written is cut, spoilt, padded or left, and read; implements `ByteStream` |
| `FiltersProofs` | - | what is on the volume and what the decoder has met of it, the refinement and the two invariants as theorems |
| `Walk` | `mtar/default_pattern.c`, the excludes of `mtar/pattern.c` and of the engines | a walk over a tree that changes |
| `Patterns` | includes: `mtar/pattern.c`, `pattern/{fnmatch,pcre}/include.c` | extends `Walk`; the includes of names and of engines, and the loop of create that asks them |
| `Registry` | `loader.c`, `plugin.c`, the registries in `function.c`, `filter.c`, `format.c`, `io.c`, `pattern.c` | operators on the state of a process |
| `Chain` | `filter.c`, `io.c`, `format.c` | extends `Registry`; stacks of filters on files |
| `Names` | the lookups of `file.c` | users, groups and their caches |
| `Options` | `option.c`, `readline.c` as it is called, `mtar.c` | extends `Chain` and `Names`; an action for each kind of argument |
| `Session` | `mtar.c`, the beginnings of the functions | extends `Options`; runs of the program on one file system |
| `SessionProofs` | - | what holds of drivers, files, names and numbers through every command line: four invariants and an action property as theorems |
| `PatternsHashtableProofs` | - | extends `Patterns` and `Hashtable`, what create takes its entries from and where it looks up those it had. Of the walk: what of the tree waits, is in hand and was given out, and the three invariants as theorems. Of the table: where nodes are, that `keys` fits, and the refinement |
| `MCFilters`, `MCPatterns`, `MCSession` | - | header fields; a tree, excludes and names; libraries, databases and command lines |
| `HashMap` | what clients of `hashtable.h` rely on | abstract specification: a map and its size |
| `Hashtable` | `mtar/hashtable.c` | chains and rehash; implements `HashMap` |

### How they correspond to the code

**Create.** The loop of `mtar_function_create` is unfolded into `pc`; an action is
one call on the writer, the file system or the terminal, so that the environment
can act between any two calls:

    label -> next -> add  -> read <-> write -> eof -> next ... exit -> done
                  -> link -> next
    label, link, add, read, write, rest -> prompt -> (label, link, add: go on)
                                                  -> restart -> write | rest | read

`back` is the call of `change_volume` that is waiting (lines 153, 195, 223 for
headers; 262 `enospc`; 279 `split`). The two `while` loops at 257 and 277 keep
their order: when the operator gives up in the first one, the second one is still
entered, because its condition holds with `nb_write = -1`.
Variables have the names of the code; `roff` is the offset of the descriptor the
file is read from, `i` the index in the list of entries, `inode` the hashtable.
`size`, `resizes` belong to the environment, `cuts` counts headers that met the
end of a volume, and `named` says that a volume was named at the prompt: the name
is kept as a pointer into the answer, which is freed on the way out (lines 332, 458),
where the program may be aborted (`Exit`).

An archive is a sequence of *units*, `Block` of them to 512 bytes. A unit carries
its volume, its kind, its entry, its offset in the file or header and, for
headers, the size and position fields: what a reader could use, and nothing else.

The io operations are operators on primed variables. `WriteResults(length)` is
the set of outcomes of a `write`, including short writes and errors as long as
`MaxFaults` allows; the calling action chooses one and passes it to `Write`. That
keeps each handler in one action with everything it calls.

**Restore, Verify and RoundTrip.** The three functions that read an archive have
one loop; list and diff skip every file (`function = "list"`), extract skips what
the patterns do not select (`wanted`). It is unfolded like that of `Create`:

    header -> skip -> header                           (skip, data) -> prompt
           -> (unlink) -> restore -> data <-> write      prompt -> header
                       data -> header                    prompt -> sub -> data
    header -> done

`back` tells whether `select_volume` was called for a file that is skipped
(line 155) or copied (255). Its results are kept apart as in the code: -1 goes
back to the loop over the headers, 0 to the check of the continuation (`sub`) or
to the end, 1 to the end. `total` is `nb_total_read`, `files` the file system,
`shown` and `replies` are histories. The loop of `--verify` is a fourth, with
another `select_volume` that counts volumes (`i_files`); of its comparisons the
model keeps the one of the sizes. `RoundTrip` makes an archive with `Create`,
splits its log into volumes and reads those, from the first one on, when none of
its headers was lost (`cuts = 0`); before a verification a file may change
(`Touch`). A name that needs a long header is cut to 100 characters in the
headers that follow it on other volumes: that name is written as the negative of
the whole one. Which path begins which is the constant `Begins`: the check of a
continuation is `strncmp` over the length of the path in its header
(`extract.c:266-267`), so that the volume of another file passes when its path is a
beginning of that of the file at hand and its position is the one reached. `misled`
is a history of that. `--verify` looks a file up under the name the header gives, so
that one with a name that was cut is said to be missing (`Short`, `StatFails`).

**Readers.** `ByteStream` says what a client may rely on: reads give consecutive
bytes from the position, are short only at the end (or on a pipe), a skip ends
where it says, a failure may lose bytes but gives none back. `FormatDetect`,
`TapeReader` and `Filters` are shown to implement it with a refinement mapping for
the position: the buffer position or the reader's (`Position`), the position that is
reported, and after a failure the records passed less what is still in the buffer
(`At`), the bytes decoded less those of the call
in progress.

**MtfReader.** An archive of the Microsoft tape format is a sequence of units: the
header of a block, the header of a stream, or data. A call of the format is
unfolded into steps of one call of the io layer (`call`, `step`), so that each of
them can be short or fail. Both loops over streams share `SkipStream` and
`AlignStream`, and `counted` is `stream_offset` in the one, `nb_read` in the other.
Where the reader comes upon data it takes anything for a stream (`Garbage`), and at
the end of the archive the stream before stays in place. The header of a stream is
`StreamHead` units: a read in `next_header` that gives some of them only leaves the rest
of the header before (`PartStream`), and the model remembers that it happened (`torn`). `headers` and `taken` are
histories of what the calls gave. An archive of another format gets a client that
reads and skips as it likes, under which `IsStream` is checked.

`IsWhole` says what the format is, as far as the reader relies on it: a block on each
boundary that is looked at, behind the structure of a file its first stream, behind a
stream the next one on the next boundary of streams, behind the pad a block, between
them data, and a last block `espb`; a directory before its files, and no more than one
content for a file. On the instance that TLC checks exactly the three archives that
`MCMtfReader` writes are whole.

**TapeWriter.** A client (the format writer) writes consecutive units; `sent`
counts those it was told are written. `WriteHeader` asks for space before;
`WriteData` does not, as in the code. A failed record leaves the buffer's content
overwritten but its length unchanged, as in the code. The last record is written by
`close` and by `reopen_for_reading`, and can fail in both (`LastRecordFails`).

**Filters.** The libraries are external: they take some of the input, hold back at
most `Hold`, and put out units as far as there is room. Each call may shrink what it
takes, `Ratio` bytes to a unit, or store it, with one unit more than there are bytes
(`stored`, `Carries`, `UnitsFor`): data that does not shrink grows. One
iteration of a loop of the code is one step, so that loops that do not end show
up as such. The three filters share the loops (`WriteLoop`, `Pass`, `DecodeStep`);
what each makes of results, of errors and of room is its own operator
(`GzipThen`, `FinishThen`, `FlushThen`, `Inflate`, `BzDecompress`, `LzmaDecode`).
The client asks for space before headers and content and not before padding, as
the tar writer does.

**Walk and Patterns.** A path is a sequence of names that are numbered in the order
of `versionsort`. `stack` is the list of nodes with the entries each has left, one
iteration of the loop of `has_next` a step, and `Change` lets a file or an empty
directory come or go between any two. `Matches` is `mtar_pattern_match` with the
engines' tests as they are written: the set of the results it can have, since its
tests of tags (`stat`, `access`) go by the directory mtar was started in and follow
links, and an `stat` that fails leaves its result unset (`Exists`, `StatDirectory`;
`Links` are the files that are links). `Listing` is what `scandir` gives. An engine's
include asks its walk and keeps the directories that lead to a file in mind
(`current_dir`, `next_dir`); `matched` is a history, which of the paths in `given` it
gave out as files.

**Registry, Chain, Names, Options, Session.** These parts are sequential, and what
is hard is how they meet. Their functions are operators that take the state of a
process and return it changed. `Options` has an action for a letter, an option, a
word and the end of the arguments, with `optind` as in getopt; `Session` starts
where `option_parse` returns: it opens the archive, takes the volumes of the
operator, makes headers with owner and group, and lets another run of the program
find the files as they were left. `made` is a history: how the stack of a file was
asked for when it was written, and with which level. A filter takes its level from its own option
(`FilterLevel`) or from `--compression-level`, and its `new_writer` may refuse it
(`LevelRefused`): a layer of `--filter` is then left out, and a compression gives no
writer at all. An option is named, not spelled; that long and
short options are the same is external (getopt).

**Hashtable.** A key is its hash, because the code compares hashes only. `put`,
`put2` and the rehash it may start are one action. `remove` includes the loop
that unlinks what it passes; the program never calls it.

## 3. Runs

| run | instance | shows |
|---|---|---|
| `create` | six entries (file, long name, directory, link, socket, repeated name), volumes of 4 blocks, label, no faults, liveness | `ExitComplete`, `Framed`, `Addressed`, `UndisturbedPrompt`, `LinksResolve`, `Termination` |
| `create_faults` | two files, up to two faults and one resize, every answer of the operator | `TypeOK`, `VolumeOK`, `DataInOrder`, `ContinuationPosition` |
| `create_header_lost` | no faults | *violated*: `HeaderKept` |
| `round_trip` | four entries (file, long name, directory, link) with 28 pairs of sizes on volumes of 10 blocks; two names that begin another one; every reply at the prompts; all names selected or half of them; an old file or a directory in the way; one fault; one file changed before a verification | `Verified`, `Prefix`, `Whole`, `Agreed`, `NotMisled`, `ListComplete`, `OneVolumeRestored` |
| `extract_continue` | the same, every prompt answered with return, no faults | *violated*: `AllRestored` |
| `hashtable` | six hashes that collide in tables of 2, 4 and 8; chains of 1; with and without remove | `ChainsSound`, `IsMap` |
| `formats` | a file and a pipe of 55 units, a detection block of 8, requests up to 6, one fault; three whole mtf archives and five that are cut, another format; descriptor blocks of 6, headers of streams of 3, on even units | `IsStream`, `AllFound`, `Answered` |
| `tape_reader` | four records of 3, requests up to 9, spacing 2 records at a time, one fault | `IsStream` |
| `tape_writer` | records of 4, headers of half a record and of two and a half, two faults, in close and in reopening as well | `TapeOrder`, `SentKept`, `PositionTrue` |
| `filters` | 6 bytes through each filter, shrunk or stored, at levels that are taken, refused and overridden, on a volume of 8; then 3 of them read in pieces up to 2: whole, cut, spoilt or padded, with three kinds of gzip header, one fault | `SpinsOnDamage`, `IsPlain`, `Returned` |
| `patterns` | every tree of seven paths, one of which is a link when it is a file, seven settings of excludes, six names, with and without `-C`, one change of the tree | `AllGiven`, `GivenInOrder`, `DirectoryFirst`, `Ends` |
| `session` | two runs of the program with 46 command lines each, on six files, twelve libraries and databases with colliding entries; two volumes, two headers | `LibrariesHeld`, `ReadsBack`, `InForce`, `OwnNumbers`, `OthersKept` |

The `TypeOK` of `FormatDetect`, `TapeReader`, `TapeWriter` and `Hashtable` is part of
the invariants that are proved (section 5) and not checked by a run of its own.

### Why the bounds are enough

* `Block = 2` distinguishes the start, the middle and the end of a block. With
  `VolumeSize = 8` and sizes from 0 to 7 a volume ends in every place: between
  files, before and in a long header (3 blocks), in the content at every offset,
  before and in the padding. A file of 7 spans three volumes behind other files.
  `IoBlock = 4` makes reads end inside a volume and at its end. `VolumeSize` is a
  multiple of two blocks, as `tape_length << 10` is.
* Two faults are enough for a failure inside the handling of another (an ENOSPC
  and a short write after it, say). `MaxVolumes` in `create` is never reached.
* A table of chains of 1 rehashes twice with six hashes. The real chain limit, 4,
  only makes the same thing rarer.
* In `round_trip` a buffer of 3 units ends inside a block, on its end and on the
  end of the file; the sizes put the end of a volume into a file, on its end and
  behind the padding, and spread the largest over three volumes. Four replies
  are one more than the volumes need. The first file and the label have names that
  the second file's begins with, and the largest sizes of the first put its rest
  and that of the second at one position, so that a volume of the wrong file is
  taken. A label alone is a volume that passes for the rest of a file with nothing
  in front of it.
* Requests up to 9 with records of 3 fall before, on and past the end of up to
  three records, whatever is in the buffer.
* In `formats` the block of the detection, 8, ends in the second descriptor block, in
  its middle. Files have no stream, one, or several before and behind the content,
  with and without a gap in front of the first and behind each, and a pad. The header
  of a stream is 3 units, more than a pipe may give at once. The cut archives end in the content, in a stream behind it, on the
  end of one, and behind a block.
* Headers of 10 units in records of 4 fill the buffer, write a whole record from
  the client's data and leave a rest.
* In `filters` a reserve of 3 on a volume of 8 is reached after any number of
  writes; 6 bytes fit when they shrink and do not when they are stored (each call
  adds a unit), so that a client that asked for space is refused later; a codec that
  holds 2 and puts out units of 2 has a rest of one byte or none; requests of 1 and
  2 units end before, in and behind a unit; `Window = 2` makes every archive take
  more than one filling of the buffer.
* In `patterns` the tree has a directory that is the last of its parent, one that
  is not, an empty one, names that begin with others, and three levels, so that
  leaving one directory may leave two. One change between any two steps makes an
  entry vanish or appear in every state of the walk.
* In `session` each command line is there for a path of the parser or of a lookup:
  every stack with its spellings, missing drivers, refused lines, lists, numbers,
  owners. Two runs are what it takes to read what was written; two volumes tell
  the first from the next; two headers meet a filled cache.

### The findings

* **A header that meets the end of a volume is lost.** `write_header` keeps it
  in `remain_header` (and, when a part was written, the wrong part);
  `new_volume` does not write it and `create.c` goes on with the content. Only
  `restart_file` would write it, in place of an `M` header. This is why `Framed`,
  `Addressed` and `LinksResolve` are conditional on `cuts = 0`.
* **Extract stops at the first continuation.** For return or `y` its
  `select_volume` returns 0 (that of list and diff returns -1), and accepting the
  continuation sets `failed` to 0 as well: the loop over the headers ends. The
  file at hand is complete, nothing behind it is extracted, the status is 0.

### Behaviours the models contain that are not listed as findings

*Create and tar.* A failure is forgotten when the next header asks for a volume
(`create.c:223`). A file that grows while it is archived causes a prompt in the
middle of a volume, since the clamp to the size in its header is taken for the end
of the volume; one that shrinks is followed by less than its header says. After an
error other than ENOSPC one stray unit is written (`junk`). A volume that cannot
be opened is a NULL writer that is used (`BadVolume`). A hard link is extracted as
an empty file, since the reader gives it the type of a regular file
(`ustar/reader.c:293`). A volume that ends where a file does is taken for the end
of the archive. `n NAME` at the prompt of extract goes back to the loop over the
headers, where the continuation is opened as a file of its own, under a name cut
to 100 characters and, with `--unlink-first`, after its first part was removed. A
write that fails while extracting is reported and nothing else. A volume of another
file is taken for the next one when its name is the beginning of the file's and its
position fits (`extract.c:266-267`); its content is appended. A name given at the
prompt of create is freed in its middle when the program ends (`create.c:482`, 332,
458): with the GNU library that aborts it.

*Verify* returns `failed` and not `ok`, so that an archive that does not verify
ends with status 0. A size that differs takes the link of a path that is none
(`create.c:398`). The loop's bound lets a volume past the last be asked for when
wrong ones were given. At the first prompt a name that cannot be opened, or the
end of the terminal, leaves no reader, and the next header is asked of NULL; at a
later one the old reader is at its end and the archive verifies. A file whose name was
cut in its header, as that of a link with a long name is, is said to be missing.

*Tapes.* `--tape-length` is compared before headers only (`tape/writer.c:207`). The
reader reports a record that is shorter than its buffer in full. The second
attempt at a record in the middle of a long write writes the record before
(`doubled`).

*The mtf reader.* A stream of content that is empty is not passed, and the next
header is looked for right behind it: its checksum is bad (`NoEmptyContent`). In a
cut archive the loop that looks for the pad never ends (`Spins`), since a read of 0
is no error to it. The header of a block that a pipe gives in two pieces is a bad
header. That of a stream is taken for a whole one by that loop, which only asks
whether the read failed (`reader.c:535-537`), with what it does not give left as it
was: the reader goes on anywhere, or never ends, on an archive that is whole and
without a call that failed.

*Filters.* The reserves are fixed numbers, and a client may write as much as the
reserve when a unit more than the reserve is left (`gzip/writer.c:172-178`). Data that
shrinks fits, data that does not needs more room than is kept, and the end of the
archive is lost: no property says otherwise. Without room deflate's
loop turns for ever, and so does `forward` on what cannot be decoded. A gzip reader
that gives up on a header has consumed it.

*Patterns.* An engine takes an entry that vanished after the walk found it for a
file, whose directory it does not name again, and a directory that is removed and
made again may be given out a second time; hence what `DirectoryFirst` and
`GivenInOrder` ask of an engine. The help says (`option.c:783-791`) that `--exclude`
leaves out the files given by a pattern, and a tag option the directories that contain
the file. An anchored exclude of fnmatch leaves out all others (`fnmatch/exclude.c:69`),
and any tag leaves out every directory (`pattern.c:248`). `AllGiven` is stated with what
the help says and claimed where the code does not differ from it (`Documented`). The
tests of tags are made in the directory mtar was started in, even behind `-C`, and take
what `stat` left behind when it fails. An entry that vanishes ends the whole walk. A wildcard that is an
absolute path gives an empty name out first. The tests of `-C dir` names are made
in the directory mtar was started in: a name that is not there too becomes a
wildcard, and nothing is archived; all files are read relative to the last `-C`.

*Sessions.* With a name of an archive `-z`, `-j` and `-J` are ignored unless
`--no-auto-compress` is given, for later volumes in any case. An archive that is
missing is created when it is opened for reading, `O_RDONLY` being 0
(`io.c:137-143`); the writer truncates it even when there is no driver for its
compression. Lists of names (`-T`, `-X`) are never read, the loop of
`readline.c:60-66` not being entered. `group2gid` uses the table of the users
(`file.c:155`); `rlookup` takes the first `NAME:` of the text, `lookup` the first
`:ID:` in any field. A filter that is not installed is silently left out, and so is
one that refuses its level (`filter.c:262-265`): `--filter=gzip --compression-level=0`,
or 10 and more, writes an archive that the same options do not read back. A compression
that refuses is no writer at all, which create uses. zlib's memory level is the
compression level as well, so that gzip refuses 0. bzip2 takes no notice of a refusal,
and its first write does not return. The help allows 1 to 9 (`option.c:767`), which is
what `ReadsBack` is claimed of. A
missing pattern engine leaves a NULL pattern that `option_free` calls. Extract
returns 0 in any case, and so does an unknown option, which shows the help.

## 4. Fairness

`Termination` assumes weak fairness of `Program`, the union of the steps of the
code, and of `Operator`, the answers at a prompt. The first is what an operating
system gives a sequential process whose calls return. The second says that
someone who is asked answers in the end; in that run the operator only gives
volumes. Weak fairness suffices because `pc` is at a prompt or not and exactly one
of the two stays enabled until it is taken. Nothing is assumed of `Resize`.

`Returned` and `Answered` assume weak fairness of `WriteStep` and `ReadStep`, and of
`MtfStep`, the steps of a call once one is made: a process that is inside a call goes on. Whether a
call is made is left open. `Ends` assumes weak fairness of `Include`, the steps of
the loop of create with its calls of `has_next` and `next`; nothing is assumed of
`Change`. All other properties are safety properties and need no fairness.

Deadlock is checked in every run but `session`, where the last run of the program
ends: `Create` ends in `Finished`, `RoundTrip` in `Over`, a client of a tape that
failed in `Stopped`, a filter and the mtf reader in `Stopped`, a walk in `Ended`.

## 5. Proofs

`CreateProofs` proves, for every list of entries, every size of block, io block
and volume, any number of faults, resizes and volumes:

* `TypeCorrect`: `Spec => []TypeOK`
* `VolumeBound`: `Spec => []VolumeOK`: no volume is written past its end
* `ArchiveInOrder`: `Spec => []DataInOrder`: the content of each file reaches the
  archive in order, without a hole or a repetition
* `Inductive`: the invariant `IInv` they follow from

They rest on `FileAssumption` (positive block sizes, a volume of whole pairs of
blocks) and `CreateAssumption` (types of the constants), which TLC evaluates in
every run of `MCCreate`.

`DataInOrder` is not inductive: whether the next unit continues its file depends
on counters that are only right together. `IInv` adds

* `VolumeOK`, without which the room of a volume could be negative;
* `Counters`: `roff = total_nb_write` before a read,
  `roff = total_nb_write + nb_read` while the buffer is written,
  `nb_write <= nb_read`, and `nb_write = -1` exactly where an ENOSPC is handled;
* `Control`: which call can be waiting at which place, and that there is an entry
  at hand;
* `Contents`: of the entry at hand the archive holds the offsets below `Archived`
  and the last of them, of later entries nothing, and `remain_header` is no data.
  `Archived` is `total_nb_write`, plus `nb_write` once it is a count.

The proof has a lemma for each operator that touches the log (`ConcatUnits`,
`StampedUnits`, `AppendOther`, and the one for content that continues), a lemma
for each action, and a step for each conjunct an action can disturb.

`FormatDetectProofs` proves, for every size of stream, block, request and pipe
buffer and any number of failing calls:

* `Refines`: `Spec => IsStream`: reading a file or a pipe through the format
  detection is reading a stream in order, from its first byte
* `Inductive`: the invariant it needs

The invariant is `TypeOK`, `BufferOK` (the buffer is the bytes right in front of
the reader, and never empty) and `Ahead` (as long as there is a buffer the reader
has not been moved past the end of the file, which `lseek` allows). `BufferOK`
makes the bytes of a read that takes from both join (`BytesJoin`), and `Ahead` is
what keeps a read that is short at the end of the file apart from one that lost
something. There is a lemma for what each call of the io layer can return
(`ReadRange`, `ForwardRange`), one for each action and the invariant, and one for
each action and the step of `ByteStream` it maps to.

It goes on with the mtf reader, as a client of the detection and for every set of
archives, every boundary and every size of the structures. The hypothesis `AsksFit` says
that `MaxAsk`, the bound on what is asked for at once, is not smaller than a structure, a
boundary or a stream, and that an archive consists of units:

* `MtfReadsStream`: `AsksFit => (MtfSpec => IsStream)`: whatever the archive, what the
  reader gets is the archive in order
* `WholeArchivesFound`: `AsksFit => (MtfSpec => []AllFound)`: on a whole archive each
  directory and file is found once, in order, with its directory, its size and its own
  content

For the first `MtfTypes` bounds what each step asks for (a stream that is skipped where
there is none is the step that needs it), and the lemmas of the detection do the rest.
For the second `Finds` says where the reader is in each step of a call (`Where`): at the
block at `h` with `counted` units behind, in front of a stream, behind the header of one,
in a gap (`Unaligned`), in the content of a file, in front of a block; and which blocks
were found until there (`Found`). So a step has to be shown to reach the place the
format gives: the skip to the next block and both alignments by `NextMultiple`, since the
reader computes remainders and the layout speaks of the next multiple; that
`stream_offset`, counted from a block, is as good for that as the position
(`AlignedBlock`) needs `Boundary % StreamAlign = 0`, which is why it is assumed (1024 and
4); in `next_header` the count starts with 1 at the header of a stream, and it is aligned
because that header is. A skip that is not looked at (`SkipDirectory`, `SkipPad`) is
harmless for a whole archive as the next block exists.

### Several volumes (`CreateProofs`)

* `PromptWhenFull`: `Spec => []UndisturbedPrompt`: while nothing goes wrong the
  operator is asked for a volume only when the current one is full to the last unit
* `PositionsTold`: `Spec => []ContinuationPosition`: an `M` header says how much of
  its file is in front of it, also when the file grew or shrank

`UndisturbedPrompt` is about one place of the program, and whether it holds there
depends on everything since the header: `QuietInv` says that a volume is open
wherever it is written on, that it is not full when the buffer is written
(`NotFull`), that the buffer is written before the next part is read, and that what
is owed of the file fits into what the header announced (`Owed <= Room`). The last
is the heart of it: the clamp in `ustar/writer.c` to the size in the header returns
0, which `create.c` takes for the end of the volume, and only arithmetic over the
four counters of the two modules shows that it is never met. A consequence is that
the ENOSPC branch of `create.c:257` is never taken without a failing call.
`CountInv` ties `Archived` to the number of data units of the file at hand in the
archive, and needs no assumption about sizes: files may change meanwhile.

### Links and the exit (`CreateProofs`)

* `LinksFound`: `KeysTell => (Spec => []LinksResolve)`
* `ExitWhole`: `KeysTell /\ OneKind /\ Attended => (Spec => []ExitComplete)`

The hypotheses are about the constants, and each is there for a reason in the code:

* `KeysTell`: inodes have different keys. `create.c:179` keeps 15 characters of
  `"dev_ino"`; where that is too few the second file becomes a link to the first.
* `OneKind`: the entries of an inode are of one kind, which a file system grants.
* `Attended`: the terminal of the operator does not end. When it does, `failed` is
  set, and forgotten by the next header that finds the volume full
  (`create.c:223`): such a run may end with status 0 and files missing.

The invariants are `TableInv` (what is in the hashtable, by where the program is:
`inode` has one entry for each key met, the one at hand among them or not yet),
`LinkInv` (the headers in the archive are those of `inode`, less the one that is
about to be written) and `CompleteInv` (of the entry at hand `Archived` units are
there, of those behind all).

### Headers (`CreateProofs`)

* `HeadersFramed`: `Spec => []Framed`
* `DataAddressed`: `Spec => []Addressed`

with no hypothesis. Both say something of pairs of places in the archive, and are
not inductive: a header at the end of the log promises units that are not there
yet. `ArrangedInv` says where the writer is in that promise. `Chained` is the two
properties as a statement about any log; `Opened(h)` that the header at `h` is that
of the file at hand and that what it announces is `format_position` units behind,
of which the file has `Archived`; `Closed` that no header announces anything behind
the end of the log; `Full` that it does not matter, the volume being at its end.
`OnVolume` relates `position` to the log, since a header is only followed by what is
on its volume; `Aligned` makes padding end where a header may begin. Two lemmas on
sequences (`ChainedHeader`, `ChainedBody`) say what may be put behind a chain, and
the lemmas for the actions establish their hypotheses. Most of these need the room
left on a volume, which is why the invariant rests on those of the two modules
before.

### Reading back (`RoundTripProofs`)

* `CountsAgree`: `NamesTell => (RoundTripSpec => []Agreed)`
* `NothingInPart`: `NamesTell => (RoundTripSpec => []Whole)`
* `OnlyMistaken`: `NamesTell => (RoundTripSpec => []NotMisled)`

for every archive `Create` makes, every selection, whatever files are there before,
and any answers and failures the properties allow for. `NamesTell` says that what has
one name has one key: a path leads to one inode.

Both compare what extract counts with what a header says, which is not enough where
several headers are about one file: the rest of a file on the next volume has a
header of its own, and the check of `extract.c:266` compares a beginning of the name and
the position only. The first two say nothing once a volume of another file has passed
this check (`misled`), and the third says when that can be. Three invariants follow each other:

* `Told`, of `Create`: every header fits its file (`Fits`): the first says how long
  it is, one that continues it where it goes on and how much is left, a link is to
  an entry of another name in the table and never has content; no rest of a file is
  on the first volume, and the volumes follow each other in the log (`Sorted`). It
  takes files that keep their size (`resizes = 0`): the size in the header of a rest
  is that of the file then.
* `Restoring`: the header at hand is one of the archive's, and `total` and
  `file_size` are together what it says. Only `Continue` changes both, and there the
  two headers have one name (`OneName`).
* `Keeping`: the loop over the headers never leaves the first volume (`rfailed < 0`),
  and each regular file that was shown is complete but for the one in hand, of
  which as much is written as was read and is not in the buffer. A file that is
  begun a second time, or removed, is the one in hand.

A step of `MakeArchive` keeps the first by the lemmas of `CreateProofs`, and a step of
the reader the others. Where a volume begins and ends in the log is told by the number
of units in front of it (`Ahead`); that those are the first ones of the log is
proved by counting a set (`Downward`).

* `AllListed`: `RoundTripSpec => []ListComplete`
* `VerifyInOrder`: `RoundTripSpec => []Verified`

with no hypothesis: for every list of entries, volumes and answers. A reader goes
from a header to where its size says the next one is, so that these rest on
`Arranged`, to which they need two more invariants of `Create`:

* `Joined`: a volume that is left has units on it, and the next begins with the header
  of the rest of the file that was cut (`CutAt`: it goes on where the content of the
  last header stops); a volume on which nothing was written is the last, or the only
  one.
* `Heads`: a header is whole on its volume (the end of a volume never cuts the name
  that comes in front of a header) and gives a position that is no negative number.

`Laid` is all of them together, and `Sound` what follows for the archive when it is
done: there `VolumeBegins`, `HeaderFacts` (what a header announces and where it lies),
`NoEndAtEnd` (a volume that is not the last does not end where a file does, by
`NoEmptyRest`) and `LastEnds` (the last one does, by `Closed`). The reader itself is
followed by `Walking`: at `header` it is at a header or behind everything, at `skip`
behind the header it has shown (`Behind`), at the prompt of an end at the end of a
volume, and the headers shown are those in front of it (`Due`), in order (`Shown`).
`ReadsHeader`, `SkipStep` and `MountStep` are the three steps; `Listing` and
`Verifying` add what the two programs do with the headers, for `--verify` that
`i_files` is the number of the volume, which bounds what it asks for. Nothing is said
of the reader before the archive is done but that it has not begun (`Waiting`).

* `RestoredPrefix`: `NamesTell => (RoundTripSpec => []Prefix)`

Here the file system matters, not only the counts: each unit in a file must be the
one that was archived with that name and offset. Of `Create` it needs

* `Solid`: a header of a rest is the first unit of its volume, and what a header
  announces is data as far as its volume goes,

which with `DataAddressed` gives what a read between two headers returns
(`ContentRuns`). The invariant of extract is `Filling`:

* `FilesOK`: what is at a name is a file, a directory with nothing in it, or something
  else;
* `Shows`: every regular file that was shown under its whole name is a run of what was
  archived under that name, from the start on (`Run`), but for the one that is about
  to be opened;
* `Places`, for each place of the loop: behind a header that is skipped (`AtSkip`); at
  an end of volume inside of what is skipped (`AtGap`); at a header to be opened, where
  a rest goes to a file that has just what is in front of it (`AtOpen`); inside of a
  file (`AtCopy`, with the number of units left, `Inside`); with a chunk in hand that
  continues the file (`AtWrite`); at the start of a volume (`Ready`).

`Ready` is what is needed for a volume that is given a new name. The loop starts over
there, and opens whatever the volume begins with: when that is a rest of a wanted file
it is the one the last volume was left in (`CutHere`), and that file goes as far as
the header says, or it was not wanted there, either (`PlainRest`). A rest whose name is
cut (`Short`) goes to a file of its own, of which nothing is claimed. With
`--unlink-first` the first part would be removed, so `Prefix` excludes that. What
follows once another file's volume was taken is excluded as well.

`OnlyMistaken` rests on the same invariant: at the prompt of a file, the volume it
leaves ends in that file at the very place `total` says (`EndsIn`, `Reached`). The next
volume begins with its rest, by `Joined`, so that a volume with another file in front
was mounted out of turn, and it is one that `Apart` says there is none of.

* `OneVolumeTaken`: `NamesTell => (RoundTripSpec => []OneVolumeRestored)`

`Whole` and `Prefix` speak of what was shown; that on one volume everything that was
asked for is shown, and is still there in the end, is another question. On the only
volume no header is a rest, and what a header announces ends at the next header or
behind the archive (`OnlyVolume`). From `Create` it needs `LinkInv` as well: every
inode of a regular file has its header. The invariant is `TakeInv`, which holds of an
extract that was given no failure and no answer that is refused:

* `Passing`: at each place of the loop the headers up to the one at hand that were
  asked for are shown (`Seen`); at `header` the reader is at a header or behind the
  archive; while a file is copied it ends where the file does, or both the reader
  and that end are behind the archive (`Onward`: the padding of the last file need
  not be there); the end is reached with status 0;
* `Present`, a part of it: each regular file that was shown is a file, but for the one
  that is about to be opened. What is made under another header's name cannot undo it:
  by `NamesTell` and `ShownIs` a header that is not of a regular file has another name;
* or extract has ended at a directory where a regular file was to be opened (`Blocked`).

That the only volume is never given a new name (`NeverNamed`, there is no next one to
mount) makes `Keeping` hold throughout, which says that each file that is there is as
long as its header announces. With `Joined`, `Told` and `LinkInv` that is the size of
the file.

The first attempt was a finding about the model: `Extracted` asked only that no
directory be at the *name of a regular file*. A hard link is opened as a regular file,
too, and on several volumes a rest under its short name; a directory there ends the
loop just the same, and what is behind it is not extracted. `Extracted` now speaks of
the name of every header that is opened.

### Tapes (`TapeReaderProofs`, `TapeWriterProofs`)

* `Refines`: `FullRecords => (Spec => IsStream)`: reading a tape is reading a stream
  in order, for every size of record, request and step of spacing and any calls
  that fail
* `TypeCorrect`, `PositionIsTrue`, `TapeInOrder`, `AllSentKept`: `TypeOK`,
  `PositionTrue`, `TapeOrder` and `SentKept` of the writer, with no hypothesis
* `Inductive` in both

`FullRecords` says that the last record of the tape is as long as the others, which
is what the writer makes (`tape/writer.c:106`, and `TapeWriter` where it pads). The
reader takes a shorter one for a full one (`tape/reader.c:211`): without the
hypothesis the theorem is false, and the run on `tape_reader` has it, too.
The invariant of the reader is what its buffer holds (the end of the record the
drive has passed last) and what the position is (records passed less what is left
in the buffer, as long as no call failed).

The invariant of the writer is `Counters` (`sent` is what is on the tape and in the
buffer) and, unless the second attempt at a record wrote one twice (`doubled`),
`Recorded` and `Buffered`: unit `k` of record `r` is that of the archive with
the same number, and the buffer continues the last record. `TapeOrder` says only
that each unit follows the one before it, and would not tell a step what to
continue.

### Filters (`FiltersProofs`)

* `ReadingIsPlain`: `Spec => IsPlain`: reading through a filter is reading a stream in
  order, namely all that was written through it, as long as the archive is whole
* `SpinsOnDamageOnly`: `Spec => []SpinsOnDamage`

for the three filters, every size of unit, buffer, volume and request, in whatever
pieces the client writes and reads, and any number of failing calls. They need
`FilterAssumption`, `FileAssumption` and the assumptions of the reader on its
constants, which the run on `filters` evaluates.

The invariant `Inv` has a half for each direction. For the writer, `Written`: as
long as nothing was lost (`kept`) the data units on the volume are a run
(`RunFrom`), each beginning where the one in front of it ends, from byte 0 to
`total_in - held`, and once the stream is finished the end of it is the next
unit. For the reader, `Reads`: while the decoder runs there is a place `e` in the
archive (`AheadOf`) such that between what was consumed and `e` there is a run of
data that continues what was decoded, and the end of the stream at `e`; what is
decoded and not yet handed out continues what was. When the archive is whole that
run ends at `ReadSize`. Neither property of the reader says anything of the units
in front of it, which is why they are not inductive. `OpenedReads` is where the halves
meet: what `Written` says of the log, `Reads` says of the archive behind its header,
with any fields in it (`HeaderPassed`).

What the decoder gives is the content of several units and a part of another, put
together by a fold. That this is again a run (`BytesOfRun`, `TakenBytes`) would be
an induction; here it is an argument about the least number for which it fails
(`LeastNumber`, from the library's well-founded sets), on a function that is given
in closed form.

### Walks (`PatternsHashtableProofs`)

* `AllAreGiven`: `Spec => []AllGiven`, which compares the walk with the excludes as the
  help describes them, where the code follows it
* `InOrder`: `Spec => []GivenInOrder`
* `DirectoriesLead`: `Spec => []DirectoryFirst`

for every finite set of paths, any settings, names and number of changes of the tree.
They need `WalkAssumption` and `NamesAssumption`, which say that paths are sequences of
numbers and none is empty.

A state of the walk is a stack of lists, and the properties are about paths.
`Waits(p, path, stack)` is the translation: the walk has still to look at `p`. The
lemmas `Pushed` and `Popped` say for any stack what reading a directory adds to what
waits and that leaving an entry, with every directory it was the last of, takes away
that entry alone. All of the rest speaks of what waits.

* `Ordered`: what was given out or is in hand comes before what waits. That it is
  kept needs each list to be sorted (`Listed`, of `scandir`, by the number of names
  that are not greater) and that what is in a directory comes after whatever came
  before it (`EarlierBelow`). Nothing is said of the tree, so it may change.
* `Near`: the path in hand lies deeper than what waits is in, which lets an engine
  forget the directory it had in mind for the one before. `Leading`: every
  directory above what waits, is in hand or is in mind was given out, is in hand
  itself or in mind (`Known`). `Still`: as long as nobody changes the tree, what the
  walk has in mind is there; only then an engine tells a directory from a file.
* `Clean`: no directory above what waits is excluded, and the walk does not end
  before its stack does. `Sound`: what was given out is wanted. `Complete`: what is
  wanted was given out, is in hand, is below something that waits, or the walk has
  not begun (`Found`); at the end only the first is left.

A finite set of names has a least and a greatest member, and its members as many
predecessors as their place says (`Counts`): an induction, again as an argument
about the least number for which it fails.

### The hashtable (`PatternsHashtableProofs`)

* `ChainsStaySound`: `TableSpec => []ChainsSound`
* `TableIsMap`: `TableSpec => IsMap`

for every set of hashes, however they collide, any initial size and any limit of a
chain. The invariant `IInv` (`Inductive`) is `TypeOK`, `GoodTable` (each node is in the
chain of its hash, and no two of a chain have one hash), and that the keys which can be
looked up are finitely many, not more than `nb_elements`, and as many for a client that
never removes.

* What a table says of a hash is a relation, `Maps`: the chain of the hash holds a node
  with it and with the value. `put2` changes it for one hash (`Put2Good`), `rehash` for
  none (`RehashGood`): a chain of the larger table is part of one of the smaller, because
  the remainder by `2n` has the same remainder by `n` (`ModTwice`), and `Among`, which
  picks that part, leaves none of it out and takes none twice (`AmongNodes`).
* `remove` leaves some of the nodes of a chain, each once (`UnlinkedFrom`), and not the
  one that was asked for. It may lose others, which is why a client that removes is not
  said to have a map, and why `nb_elements` is then only not smaller than the keys are.
* `KeysFit`, that `keys` and `values` stay in their arrays, counts nodes. Distinct nodes
  have distinct hashes, so there are no more of them than keys (`Fit`).

### Sessions (`SessionProofs`)

* `HeldLibraries`: `Spec => []LibrariesHeld`
* `OthersAreKept`: `Spec => OthersKept`
* `NumbersAreOwn`: `Spec => []OwnNumbers`
* `NamesInForce`: `Spec => []InForce`
* `StacksReadBack`: `Spec => []ReadsBack`

for every set of libraries, files and databases, any command lines and any number of
runs on one file system. `Held` is the invariant of the first; each of the others has
one of its own besides.

* `Held`: the state of the process is `Good`, and the options are as the parser makes
  them (`Optioned`). A driver that is registered has the kind of its list and passed
  the check of its levels (`Driven`), the libraries held are those with a registered
  driver, once each (`Sound`), and files are there or not (`Disked`). There is a lemma
  for each lookup: it keeps `Good` and all files, or all but one (`Reads`, `Writes`).
* `Placed`: what is written goes to a volume of the run. `OthersKept` follows, since
  only the writer of a stack changes a file, and only the one it stands on.
* `Named`: the tables of names say what the databases say (`Faithful`). Owner and group
  share a table, so of the group that is true only if it has not the name of the owner;
  `OwnNumbers` says no more. The numbers in headers come from these tables.
* `Heard`: before each argument what is in force is what the arguments before it say
  (`InForceAt`), and each name among them is in the list, with the directory, engine
  and flags of its place (`ListedAt`). Its place in the list is the number of names up
  to it, which is a cardinality. Like `InForce` it speaks of command lines that begin
  with an option.
* `ReadBack`: a file that was written and closed still has the layers it was asked for,
  a format that can be found, and can be opened, whatever ran after it (`AllStored`); a
  run that is writing is about to leave that (`WritesAsked`). With it, opening such a
  file with the same filters takes all layers off, and detection finds its format.

`StacksReadBack` is about runs that wrote with a level of 1 to 9, which no `new_writer`
refuses, whatever the filters' own options say (`DocumentedLevel`; they name 0 to 9 or
are passed over). It is about two loops over filters, one that puts layers on and one that
takes them off, in opposite orders. The layers after each filter are given as a
function (`Laid`), which both loops are compared with; what is left after `k` filters
were taken off is `Left`. `FilterGetWriters`, `FilterGetReaders` and `LoadAll` are
recursive functions. What is said of each of their steps is an argument on the least
number for which it fails (`LeastOf`, `UpTo`), as for the filters.

That theorem needs more of the constants than their types. `ChainAssumption`: "-" is not
among the files that cannot be opened, as standard input and output are open already.
`InstalledAssumption`: the library of a driver is found by the driver's name, as
`src/module/*/*/Makefile.sub` builds `lib<kind>-<name>.so` for the driver `<name>`. The
proof found the need for the second one. A filter in a library of another name is known
only once all libraries of its kind were loaded. A stack has its layer or not, with
what the run looked up before, and a file that was written with it may then be read
without it. TLC evaluates all assumptions on `session`.

### Out of reach

`Termination`, `Returned`, `Answered` and `Ends`: they are liveness, under fairness.
Recursive functions and folds are in reach where what they compute can be stated for
each step, as the least number for which it fails stands in for an induction.

## 6. Model-checked only

`Termination`, `Returned`, `Answered` and `Ends`. Every safety property and every
refinement that a run expects to hold is a theorem as well, under the hypotheses given
with it in section 5.

## 7. Not modelled, and the plan

Never: output, progress display and the text of the help; `scsi.c` (its results
are the constant `TotalFreeSpace`); `mtf-info` and `mtf-first-file`, which print a
header; string conversions of the mtf reader; the compression libraries
themselves; whether a name matches an expression; getopt's spellings.

Left, most important first:

1. `FileTree`: `mkdirat` and `rmdirat` of `file.c`, and with them the directories
   `extract` makes above an entry and `--recursive-unlink`.
2. `SizeField`: the octal and base-256 encoding of sizes against each other, the
   one part of a header that a width can break.
3. The times `extract` sets, the shell escape of the prompt.
4. A fault-free abstract archive (entries with content) which `Create` and
   `Restore` both implement, once extract's end is settled.
5. The volumes behind the first one of an mtf archive.
6. `Entries` of `Create` from `Patterns`, volumes of `Create` through `Filters`: the
   compositions that are now made by hand, through the properties of each side
   (`GivenInOrder`, `IsPlain`) that the other assumes.
