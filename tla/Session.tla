------------------------------- MODULE Session -------------------------------
(***************************************************************************)
(* Runs of the program, one after the other, over the same files: the       *)
(* command line, the stack of an archive, the work and its return.  Of the  *)
(* work (see Create and Restore) there is what goes through the parts       *)
(* modelled here: the volumes it opens, and for each file that is archived  *)
(* the names and numbers of its header.                                     *)
(*                                                                          *)
(* A run in pc "opened" has called mtar_format_get_reader or _writer.       *)
(***************************************************************************)
EXTENDS Options

CONSTANTS
    FirstLines, NextLines,  \* command lines, for the first run and for the ones after it
    Owners,                 \* pairs of the user and the group number of a file
    MaxSessions,            \* bound: runs of the program
    MaxVolumes,             \* bound: volumes of an archive
    MaxHeaders              \* bound: files of an archive

ASSUME SessionAssumption == \A line \in FirstLines \cup NextLines : line \in Seq(Argument)

VARIABLES
    session,
    stack,    \* the stack of the volume at hand
    volumes,  \* the names of the volumes of this run
    headers,  \* what the headers of this run say of owner and group
    made      \* history: how the stack of a file was asked for when it was written,
              \* and --compression-level

vars == <<optionVars, session, stack, volumes, headers, made>>

ProcessInit(lines) ==
    /\ argv \in lines
    /\ optind = 1
    /\ letter = 1
    /\ option = Defaults
    /\ pattern = DefaultPattern
    /\ caches = NoNames
    /\ pc = "start"
    /\ status = -1
    /\ stack = NoStack
    /\ volumes = <<>>
    /\ headers = <<>>

Unwritten == [asked |-> [module |-> "unwritten"], level |-> 0]

Init ==
    /\ ProcessInit(FirstLines)
    /\ session = 1
    /\ system = NoDrivers([f \in Files |->
          IF f \in Present \cup {"-"}
          THEN [exists |-> TRUE, layers |-> <<>>, data |-> "text"] ELSE Nothing])
    /\ made = [f \in Files |-> Unwritten]

Writing == option.do_work = "create"

(* What the stack of a volume depends on.  Of the first one it is an option *)
(* when there is no name, or with --no-auto-compress.                       *)
Asked(f, first) ==
    [filters |-> [i \in DOMAIN option.filters |-> option.filters[i].name],
     module |-> IF first /\ (option.filename = "none" \/ ~option.auto_compress)
                THEN option.compress_module ELSE FilterGetModule(f)]

Parsing ==
    /\ Parse
    /\ UNCHANGED <<session, stack, volumes, headers, made>>

Target == IF option.filename = "none" THEN "-" ELSE option.filename

(* The beginning of the functions. *)
Open ==
    /\ pc = "work"
    /\ LET opened == IF Writing THEN FormatGetWriter(system, option)
                     ELSE FormatGetReader(system, option)
       IN  system' = opened.state /\ stack' = opened.stack
    /\ pc' = "opened"
    /\ volumes' = <<Target>>
    /\ made' = IF Writing THEN [made EXCEPT ![Target] = Unwritten] ELSE made
    /\ UNCHANGED <<argv, optind, letter, option, pattern, caches, status, session, headers>>

Crashed ==
    /\ pc' = "crashed"
    /\ UNCHANGED status

(* mtar_option_free asks every pattern to free itself, also those that are  *)
(* NULL.                                                                    *)
Finish(result) ==
    IF \E i \in DOMAIN option.files : option.files[i].engine = "none" THEN Crashed
    ELSE Return(result)

(* create does not look at what it got; extract and list do.  A directory   *)
(* that is not there ends the run before anything is read or written.       *)
Configure ==
    /\ pc = "opened"
    /\ IF stack = NoStack THEN IF Writing THEN Crashed ELSE Finish(1)
       ELSE IF /\ option.working_directory \notin Present \cup {"none"}
               /\ option.do_work \in {"create", "extract"}
            THEN Finish(1)
            ELSE pc' = (IF Writing THEN "writing" ELSE "reading") /\ UNCHANGED status
    /\ UNCHANGED <<argv, optind, letter, option, pattern, system, caches, session, stack,
                   volumes, headers, made>>

(* mtar_format_ustar_writer_set_owner_and_group; a long name looks the      *)
(* numbers of the file up in any case.                                      *)
SetOwnerAndGroup(c, uid, gid, long) ==
    LET looked == IF long THEN Gid2Name(Uid2Name(c, uid), gid) ELSE c
        user == IF option.owner # "none" THEN User2Uid(looked, option.owner)
                ELSE Uid2Name(looked, uid)
    IN  IF option.group # "none" THEN Group2Gid(user, option.group) ELSE Gid2Name(user, gid)

Header(c, uid, gid) ==
    [of    |-> <<uid, gid>>,
     uid   |-> IF option.owner # "none" THEN c.user[option.owner] ELSE NumberOf[uid],
     uname |-> IF option.owner # "none" THEN option.owner ELSE c.uid[uid],
     gid   |-> IF option.group # "none" THEN c.user[option.group] ELSE NumberOf[gid],
     gname |-> IF option.group # "none" THEN option.group ELSE c.gid[gid]]

AddFile ==
    /\ pc = "writing" /\ stack.good
    /\ Len(headers) < MaxHeaders
    /\ \E owner \in Owners, long \in BOOLEAN :
         /\ caches' = SetOwnerAndGroup(caches, owner[1], owner[2], long)
         /\ headers' = Append(headers, Header(caches', owner[1], owner[2]))
    /\ UNCHANGED <<argv, optind, letter, option, pattern, system, pc, status, session, stack,
                   volumes, made>>

(* What is on a file when its writer was closed. *)
Written(s) ==
    [s EXCEPT !.disk[stack.on] = [exists |-> TRUE, layers |-> stack.layers,
                                  data |-> option.format]]

Record(m) == [m EXCEPT ![stack.on] = [asked |-> Asked(stack.on, Len(volumes) = 1),
                                      level |-> option.compress_level]]

(* A volume with another name. *)
ChangeVolume ==
    /\ pc = "writing" /\ stack.good
    /\ Len(volumes) < MaxVolumes
    /\ \E f \in Files \ (ToSet(volumes) \cup {"-"}) :
         LET opened == FilterGetWriter3(Written(system), f, option)
         IN  /\ system' = opened.state
             /\ stack' = opened.stack
             /\ volumes' = Append(volumes, f)
             /\ made' = [Record(made) EXCEPT ![f] = Unwritten]
             /\ IF opened.stack = NoStack THEN pc' = "crashed" ELSE UNCHANGED pc
    /\ UNCHANGED <<argv, optind, letter, option, pattern, caches, status, session, headers>>

CreateEnds ==
    /\ pc = "writing" /\ stack.good
    /\ system' = Written(system)
    /\ made' = Record(made)
    /\ Finish(0)
    /\ UNCHANGED <<argv, optind, letter, option, pattern, caches, session, stack, volumes, headers>>

(* A writer of bzip2 that cannot write: the first write on it does not      *)
(* return, and a run that has nothing to write leaves its file empty.       *)
CannotWrite ==
    /\ pc = "writing" /\ ~stack.good
    /\ \/ pc' = "hangs" /\ UNCHANGED status
       \/ Len(volumes) = 1 /\ option.label = "none" /\ Finish(0)
    /\ UNCHANGED <<argv, optind, letter, option, pattern, system, caches, session, stack,
                   volumes, headers, made>>

(* A volume that cannot be opened ends the reading. *)
NextVolume ==
    /\ pc = "reading"
    /\ Len(volumes) < MaxVolumes
    /\ \E f \in Files \ {"-"} :
         LET opened == FilterGetReader3(system, f, option)
         IN  /\ system' = opened.state
             /\ IF opened.stack = NoStack
                THEN Finish(0) /\ UNCHANGED <<stack, volumes>>
                ELSE /\ stack' = opened.stack
                     /\ volumes' = Append(volumes, f)
                     /\ UNCHANGED <<pc, status>>
    /\ UNCHANGED <<argv, optind, letter, option, pattern, caches, session, headers, made>>

ReadingEnds ==
    /\ pc = "reading"
    /\ Finish(0)
    /\ UNCHANGED <<argv, optind, letter, option, pattern, system, caches, session, stack,
                   volumes, headers, made>>

(* Another run finds the files as they were left; one that hangs is killed. *)
Restart ==
    /\ pc \in {"exit", "crashed", "hangs"}
    /\ session < MaxSessions
    /\ session' = session + 1
    /\ \E line \in NextLines : argv' = line
    /\ system' = NoDrivers(system.disk)
    /\ optind' = 1
    /\ letter' = 1
    /\ option' = Defaults
    /\ pattern' = DefaultPattern
    /\ caches' = NoNames
    /\ pc' = "start"
    /\ status' = -1
    /\ stack' = NoStack
    /\ volumes' = <<>>
    /\ headers' = <<>>
    /\ UNCHANGED made

Next ==
    \/ Parsing \/ Open \/ Configure
    \/ AddFile \/ ChangeVolume \/ CreateEnds \/ CannotWrite
    \/ NextVolume \/ ReadingEnds
    \/ Restart

Spec == Init /\ [][Next]_vars

----------------------------------------------------------------------------
(* Whatever is loaded, refused, found by name or by all.                    *)
(* Libraries that are held are those with a registered driver, once each,   *)
(* and the names in a registry differ: loader.c:92 closes what added        *)
(* nothing, by a flag that all registries share, and a driver of a closed   *)
(* library would be called into nothing.                                    *)
LibrariesHeld == Sound(system)

(* What is read was taken out of the layers it was put in: a volume that is *)
(* opened with the filters and the compression it was written with comes    *)
(* out whole, whichever of get_reader, get_reader2 and get_reader3 stacks   *)
(* the filters (filter.c:92-165) and whichever of the writers did           *)
(* (filter.c:197-270), when it was written with a level that the help       *)
(* allows, 1 <= LEVEL <= 9 (option.c:767).  With another level a filter     *)
(* may have been left out without a word (filter.c:262-265), and what the   *)
(* same filters make of the file is not claimed.                            *)
ReadsBack ==
    LET f == IF volumes = <<>> THEN "-" ELSE Last(volumes)
    IN  /\ pc \in {"opened", "reading"} /\ ~Writing /\ f \in Files
        /\ made[f].level \in 1 .. 9
        /\ made[f].asked = Asked(f, Len(volumes) = 1)
        /\ option.auto_detect_format
        => stack.good /\ stack.layers = <<>>

(* What a command line says, by the places of its arguments.                *)

(* The place of an argument behind the bundle and its parameters. *)
FirstArgument(line) ==
    IF line = <<>> \/ line[1].form # "bundle" THEN 1
    ELSE 2 + Cardinality({i \in DOMAIN line[1].letters : line[1].letters[i] \in WithParameter})

Stop(line) == CHOOSE n \in 1 .. Len(line) + 1 :
    /\ n = Len(line) + 1 \/ line[n].form = "end"
    /\ \A i \in 1 .. n - 1 : i >= FirstArgument(line) => line[i].form # "end"
    /\ n >= FirstArgument(line)

Says(line, i, names) == i < Stop(line) /\ line[i].form = "option" /\ line[i].name \in names

SaidBefore(line, i, names) == {j \in FirstArgument(line) .. i - 1 : Says(line, j, names)}

LastSaid(line, i, names) ==
    LET before == SaidBefore(line, i, names)
    IN  IF before = {} THEN 0 ELSE CHOOSE j \in before : \A k \in before : k <= j

DirectoryAt(line, i) ==
    LET said == LastSaid(line, i, {"directory"})
    IN  IF said = 0 THEN "none" ELSE line[said].value

EngineAt(line, i) ==
    LET said == LastSaid(line, i, {"pattern_engine"})
    IN  IF said = 0 THEN "fnmatch" ELSE line[said].value

FlagsAt(line, i) ==
    LET said == LastSaid(line, i, {"recursion", "no_recursion"})
    IN  IF said # 0 /\ line[said].name = "no_recursion" THEN {} ELSE {"recursion"}

(* The names of files that are given before a place. *)
Given(line, n) ==
    {i \in FirstArgument(line) .. n - 1 :
        /\ i # Stop(line)
        /\ i > Stop(line) \/ line[i].form = "word" \/ Says(line, i, {"add_file"})}

GivenName(line, i) == IF i > Stop(line) THEN Text(line[i]) ELSE line[i].value

(* A name is looked for with what was said of patterns before it and not    *)
(* with what is said behind it: the last --directory, --pattern-engine and  *)
(* --recursion or --no-recursion to its left (option.c:442-449, :583, :625, *)
(* :641, :705).                                                             *)
InForce ==
    LET given == Given(argv, Len(argv) + 1)
    IN  pc = "check" /\ FirstForm = "option" =>
          /\ Len(option.files) = Cardinality(given)
          /\ \A i \in given :
               LET file == option.files[Cardinality(Given(argv, i + 1))]
               IN  /\ file.name = GivenName(argv, i)
                   /\ file.dir = DirectoryAt(argv, i)
                   /\ file.engine \in {"default", "none", EngineAt(argv, i)}
                   /\ file.flags = FlagsAt(argv, i)

(* The header of a file has the numbers and names of the databases, however *)
(* many of them were looked up before it and kept in the tables of file.c.  *)
(* It does not hold of a group with the name of the owner: both are looked  *)
(* for in one table, and the group gets the number of the user.             *)
OwnNumbers ==
    \A i \in DOMAIN headers :
        LET h == headers[i]
        IN  /\ option.owner # "none" => h.uid = Rlookup(Passwd, option.owner)
            /\ option.owner = "none" => h.uname = Lookup(Passwd, h.of[1])
            /\ option.group \notin {"none", option.owner} => h.gid = Rlookup(Group, option.group)
            /\ option.group = "none" => h.gname = Lookup(Group, h.of[2])

(* Only a run that creates changes what is in a file, and only in its own   *)
(* volumes: listing, extracting, reading a list of names and a command line *)
(* that is refused leave all files as they are.                             *)
OthersKept ==
    [][\A f \in Files :
          system.disk[f].exists /\ system'.disk[f] # system.disk[f] =>
              Writing /\ f \in ToSet(volumes') \cup {Target}]_vars

=============================================================================
