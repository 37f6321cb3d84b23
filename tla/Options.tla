------------------------------- MODULE Options -------------------------------
(***************************************************************************)
(* The command line: src/src/mtar/option.c, and how main (mtar.c) goes from *)
(* it to the work.                                                          *)
(*                                                                          *)
(* argv[1] is a bundle of letters, whose parameters are the arguments       *)
(* behind it, or it begins with "--".  What follows are options, as         *)
(* getopt_long reads them, and names of files in between; a name is made    *)
(* into a pattern at once, with the engine, the directory and the flags     *)
(* that are in force there.  An action takes one letter, option or name.    *)
(*                                                                          *)
(* An argument is a record [form, name, value, letters]: a "bundle" of      *)
(* letters, an "option" with its name and parameter (whatever its           *)
(* spelling), a "word", or the "end" (--).                                  *)
(***************************************************************************)
EXTENDS Chain, Names

CONSTANTS
    Present,  \* the names for which access(2) finds a file
    Integer   \* Integer[text]: the texts that start with a number, for atoi and sscanf

VARIABLES
    argv,
    optind,   \* the next argument
    letter,   \* the next letter of the bundle
    option,   \* struct mtar_option
    pattern,  \* pattern_engine, and the options for patterns
    system,   \* drivers, libraries and files: see Registry and Chain
    caches,   \* see Names
    pc,
    status    \* what the program returns, or -1

optionVars == <<argv, optind, letter, option, pattern, system, caches, pc, status>>

Argument ==
    [form : {"word", "option", "bundle", "end"}, name : STRING, value : STRING,
     letters : Seq(STRING)]

Word(w) == [form |-> "word", name |-> "", value |-> w, letters |-> <<>>]
Opt(name, value) == [form |-> "option", name |-> name, value |-> value, letters |-> <<>>]
Bundle(letters) == [form |-> "bundle", name |-> "", value |-> "", letters |-> letters]
EndOfOptions == [form |-> "end", name |-> "--", value |-> "", letters |-> <<>>]

Defaults ==
    [do_work |-> "none", recursive_unlink |-> FALSE, unlink_first |-> FALSE, verify |-> FALSE,
     atime_preserve |-> "none", group |-> "none", mode |-> 0, owner |-> "none",
     filename |-> "none", tape_length |-> 0, multi_volume |-> FALSE, block_factor |-> 10,
     auto_detect_format |-> TRUE, format |-> "ustar", label |-> "none",
     auto_compress |-> TRUE, compress_module |-> "none", compress_level |-> 6,
     filters |-> <<>>, files |-> <<>>, working_directory |-> "none", excludes |-> <<>>,
     exclude_option |-> {}, exclude_tags |-> <<>>, delimiter |-> "newline", verbose |-> 0]

DefaultPattern == [engine |-> "fnmatch", include |-> {"recursion"}, exclude |-> {}]

Return(result) == pc' = "exit" /\ status' = result

(* The value of parse is 0 to go on; main returns one less than any other.  *)
ParseReturns(failed) == Return(failed - 1)

ShowHelp(s) ==
    PatternShowDescription(FilterShowDescription(
        FormatShowDescription(FunctionShowDescription(s))))

ShowFullVersion(s) ==
    PatternShowVersion(IoShowVersion(FunctionShowVersion(
        FormatShowVersion(FilterShowVersion(s)))))

ShowHelpAndReturn(failed) ==
    /\ system' = ShowHelp(system)
    /\ ParseReturns(failed)

(* atoi gives 0 for what is not a number, sscanf leaves what was there.     *)
Atoi(text) == IF text \in DOMAIN Integer THEN Integer[text] ELSE 0
Scanned(text, old) == IF text \in DOMAIN Integer THEN Integer[text] ELSE old

UShort(n) == n % 65536

(* Options without a parameter, and what they set. *)
Flags ==
    [auto_compress       |-> [auto_compress |-> TRUE],
     no_auto_compress    |-> [auto_compress |-> FALSE],
     bzip2               |-> [compress_module |-> "bzip2"],
     gzip                |-> [compress_module |-> "gzip"],
     xz                  |-> [compress_module |-> "xz"],
     multi_volume        |-> [multi_volume |-> TRUE],
     no_format_detection |-> [auto_detect_format |-> FALSE],
     null                |-> [delimiter |-> "nul"],
     no_null             |-> [delimiter |-> "newline"],
     atime_preserve      |-> [atime_preserve |-> "replace"],
     recursive_unlink    |-> [recursive_unlink |-> TRUE],
     unlink_first        |-> [unlink_first |-> TRUE],
     verify              |-> [verify |-> TRUE],
     verbose             |-> [verbose |-> IF option.verbose < 2 THEN option.verbose + 1
                                          ELSE option.verbose],
     exclude_backups     |-> [exclude_option |-> option.exclude_option \cup {"backup"}],
     exclude_vcs         |-> [exclude_option |-> option.exclude_option \cup {"vcs"}]]

Tagged(name, kind) ==
    [exclude_tags |-> Append(option.exclude_tags, [name |-> name, option |-> kind])]

CacheTags ==
    [exclude_caches       |-> Tagged("CACHEDIR.TAG", "tag"),
     exclude_caches_all   |-> Tagged("CACHEDIR.TAG", "tag_all"),
     exclude_caches_under |-> Tagged("CACHEDIR.TAG", "tag_under")]

(* Options with a parameter. *)
Values(v) ==
    [blocking_factor   |-> [block_factor |-> Atoi(v)],
     compression_level |-> [compress_level |-> UShort(Atoi(v))],
     directory         |-> [working_directory |-> v],
     format            |-> [format |-> v, auto_detect_format |-> FALSE],
     group             |-> [group |-> v],
     owner             |-> [owner |-> v],
     label             |-> [label |-> v],
     mode              |-> [mode |-> Scanned(v, option.mode)],
     tape_length       |-> [tape_length |-> Scanned(v, option.tape_length)],
     filter            |-> [filters |-> Append(option.filters, [name |-> v, option |-> "none"])],
     exclude_tag       |-> Tagged(v, "tag"),
     exclude_tag_all   |-> Tagged(v, "tag_all"),
     exclude_tag_under |-> Tagged(v, "tag_under")]

(* The flags of patterns. *)
PatternFlags ==
    [anchored     |-> [pattern EXCEPT !.exclude = @ \cup {"anchored"}],
     no_anchored  |-> [pattern EXCEPT !.exclude = @ \ {"anchored"}],
     recursion    |-> [pattern EXCEPT !.exclude = @ \cup {"recursion"},
                                      !.include = @ \cup {"recursion"}],
     no_recursion |-> [pattern EXCEPT !.exclude = @ \ {"recursion"},
                                      !.include = @ \ {"recursion"}]]

Functions == {"create", "diff", "extract", "list"}

Simple(name) == name \in DOMAIN Flags \cup DOMAIN CacheTags

----------------------------------------------------------------------------
(* What an option does to more than the struct. *)

(* A function that is not installed leaves NULL. *)
SetFunction(name) ==
    /\ system' = FunctionGet(system, name)
    /\ option' = [option EXCEPT !.do_work =
                    IF Known(system', "function", name) THEN name ELSE "none"]
    /\ UNCHANGED pattern

Set(fields) ==
    /\ option' = [x \in DOMAIN option |-> IF x \in DOMAIN fields THEN fields[x] ELSE option[x]]
    /\ UNCHANGED <<system, pattern>>

(* Mutant: patterns are told the directory at the end of the line only. *)
BadInclude(name) ==
    [name |-> name, dir |-> "none", flags |-> pattern.include,
     engine |-> IF name \in Present THEN "default" ELSE pattern.engine]

Include(name) ==
    [name |-> name, dir |-> option.working_directory, flags |-> pattern.include,
     engine |-> IF name \in Present THEN "default" ELSE pattern.engine]

Exclude(name) == [name |-> name, engine |-> pattern.engine, flags |-> pattern.exclude]

(* A name that does not exist is for the engine to match; one that is not   *)
(* installed leaves NULL in the list.                                       *)
AddInclude(name) ==
    /\ system' = IF name \in Present THEN system ELSE PatternGet(system, pattern.engine)
    /\ option' = [option EXCEPT !.files = Append(@,
         IF name \in Present \/ Known(system', "pattern", pattern.engine)
         THEN Include(name) ELSE [Include(name) EXCEPT !.engine = "none"])]
    /\ UNCHANGED pattern

AddExclude(name) ==
    /\ system' = PatternGet(system, pattern.engine)
    /\ option' = [option EXCEPT !.excludes = Append(@,
         IF Known(system', "pattern", pattern.engine)
         THEN Exclude(name) ELSE [Exclude(name) EXCEPT !.engine = "none"])]
    /\ UNCHANGED pattern

(* What mtar_readline_getline gives of a file: its loop is not entered, as  *)
(* pos is NULL there, so that there never is a line.                        *)
Lines(file) == <<>>

(* A list of names is opened like an archive, with the filters so far.      *)
AddIncludeFromFile(file) ==
    /\ system' = FilterGetReader3(system, file, option).state
    /\ option' = [option EXCEPT !.files =
          @ \o [i \in DOMAIN Lines(file) |-> Include(Lines(file)[i])]]
    /\ UNCHANGED pattern

AddExcludeFromFile(file) ==
    /\ system' = FilterGetReader3(system, file, option).state
    /\ option' = [option EXCEPT !.excludes =
          @ \o [i \in DOMAIN Lines(file) |-> Exclude(Lines(file)[i])]]
    /\ UNCHANGED pattern

(* --filter-option belongs to the last filter. *)
FilterOption(v) ==
    Set([filters |-> [option.filters EXCEPT ![Len(option.filters)].option = v]])

----------------------------------------------------------------------------
(* The bundle. *)

LetterOption ==
    [a |-> "auto_compress", b |-> "blocking_factor", c |-> "create", C |-> "directory",
     d |-> "diff", f |-> "file", H |-> "format", j |-> "bzip2", J |-> "xz",
     L |-> "tape_length", M |-> "multi_volume", t |-> "list", T |-> "files_from",
     U |-> "unlink_first", v |-> "verbose", V |-> "label", W |-> "verify",
     x |-> "extract", X |-> "exclude_from", z |-> "gzip"]

Text(a) == IF a.form = "word" THEN a.value ELSE a.name

Parameter == IF optind <= Len(argv) THEN Text(argv[optind]) ELSE "NULL"

WithParameter == {"b", "C", "f", "H", "L", "T", "V", "X"}

InBundle(l) ==
    /\ pc = "bundle"
    /\ letter <= Len(argv[1].letters)
    /\ argv[1].letters[letter] = l
    /\ letter' = letter + 1
    /\ optind' = IF l \in WithParameter THEN optind + 1 ELSE optind
    /\ UNCHANGED <<argv, caches>>

BundleFlag ==
    \E l \in DOMAIN LetterOption \ WithParameter :
        /\ InBundle(l)
        /\ IF LetterOption[l] \in Functions THEN SetFunction(LetterOption[l])
           ELSE Set(Flags[LetterOption[l]])
        /\ UNCHANGED <<pc, status>>

(* A number that is missing is read through NULL. *)
BundleNumber ==
    \E l \in {"b", "L"} :
        /\ InBundle(l)
        /\ IF Parameter = "NULL"
           THEN /\ pc' = "crashed"
                /\ UNCHANGED <<system, option, pattern, status>>
           ELSE /\ IF l = "b" THEN Set([block_factor |-> Atoi(Parameter)])
                   ELSE Set([tape_length |-> Atoi(Parameter)])
                /\ UNCHANGED <<pc, status>>

BundleValue ==
    \E l \in {"C", "H", "V"} :
        /\ InBundle(l)
        /\ Set(Values(IF Parameter = "NULL" THEN "none" ELSE Parameter)[LetterOption[l]])
        /\ UNCHANGED <<pc, status>>

BundleFile ==
    /\ InBundle("f")
    /\ IF option.filename # "none" \/ Parameter = "NULL"
       THEN ShowHelpAndReturn(2) /\ UNCHANGED <<option, pattern>>
       ELSE Set([filename |-> Parameter]) /\ UNCHANGED <<pc, status>>

BundleList ==
    \E l \in {"T", "X"} :
        /\ InBundle(l)
        /\ IF Parameter = "NULL" THEN UNCHANGED <<system, option, pattern>>
           ELSE IF l = "T" THEN AddIncludeFromFile(Parameter) ELSE AddExcludeFromFile(Parameter)
        /\ UNCHANGED <<pc, status>>

BundleHelp ==
    /\ InBundle("?")
    /\ ShowHelpAndReturn(1)
    /\ UNCHANGED <<option, pattern>>

(* A dash says nothing. *)
BundleDash ==
    /\ InBundle("-")
    /\ UNCHANGED <<system, option, pattern, pc, status>>

BundleEnds ==
    /\ pc = "bundle"
    /\ letter > Len(argv[1].letters)
    /\ pc' = "options"
    /\ UNCHANGED <<argv, optind, letter, option, pattern, system, caches, status>>

----------------------------------------------------------------------------
(* The loop with getopt_long. *)

Next1(form) ==
    /\ pc = "options"
    /\ optind <= Len(argv)
    /\ argv[optind].form = form
    /\ optind' = optind + 1
    /\ UNCHANGED <<argv, letter, caches>>

Name == argv[optind].name
Value == argv[optind].value

FileName ==
    /\ Next1("word")
    /\ AddInclude(Value)
    /\ UNCHANGED <<pc, status>>

SimpleOption ==
    /\ Next1("option")
    /\ Simple(Name)
    /\ IF Name \in DOMAIN Flags THEN Set(Flags[Name]) ELSE Set(CacheTags[Name])
    /\ UNCHANGED <<pc, status>>

ValueOption ==
    /\ Next1("option")
    /\ Name \in DOMAIN Values("")
    /\ Set(Values(Value)[Name])
    /\ UNCHANGED <<pc, status>>

PatternOption ==
    /\ Next1("option")
    /\ \/ /\ Name \in DOMAIN PatternFlags
          /\ pattern' = PatternFlags[Name]
       \/ /\ Name = "pattern_engine"
          /\ pattern' = [pattern EXCEPT !.engine = Value]
    /\ UNCHANGED <<system, option, pc, status>>

FunctionOption ==
    /\ Next1("option")
    /\ \/ Name \in Functions /\ SetFunction(Name)
       \/ Name = "function" /\ SetFunction(Value)
    /\ UNCHANGED <<pc, status>>

(* --exclude-from does nothing: its line is a comment. *)
ListOption ==
    /\ Next1("option")
    /\ \/ Name = "add_file" /\ AddInclude(Value)
       \/ Name = "exclude" /\ AddExclude(Value)
       \/ Name = "files_from" /\ AddIncludeFromFile(Value)
       \/ Name = "exclude_from" /\ UNCHANGED <<system, option, pattern>>
    /\ UNCHANGED <<pc, status>>

FileOption ==
    /\ Next1("option")
    /\ Name = "file"
    /\ IF option.filename # "none"
       THEN ShowHelpAndReturn(2) /\ UNCHANGED <<option, pattern>>
       ELSE Set([filename |-> Value]) /\ UNCHANGED <<pc, status>>

FilterOptionOption ==
    /\ Next1("option")
    /\ Name = "filter_option"
    /\ IF option.filters # <<>>
       THEN FilterOption(Value) /\ UNCHANGED <<pc, status>>
       ELSE ParseReturns(2) /\ UNCHANGED <<system, option, pattern>>

(* The options that tell something; help is also what getopt makes of one   *)
(* it does not know.                                                        *)
Told ==
    [help           |-> ShowHelp(system),
     full_version   |-> ShowFullVersion(system),
     version        |-> system,
     filter_help    |-> FilterShowHelp(system, Value),
     function_help  |-> FunctionShowHelp(system, Value),
     list_filters   |-> FilterShowDescription(system),
     list_formats   |-> FormatShowDescription(system),
     list_functions |-> FunctionShowDescription(system),
     list_ios       |-> IoShowDescription(system)]

TellOption ==
    /\ Next1("option")
    /\ Name \in DOMAIN Told
    /\ system' = Told[Name]
    /\ ParseReturns(1)
    /\ UNCHANGED <<option, pattern>>

StopOption ==
    /\ Next1("end")
    /\ pc' = "rest"
    /\ UNCHANGED <<system, option, pattern, status>>

OptionsEnd ==
    /\ pc = "options"
    /\ optind > Len(argv)
    /\ pc' = "rest"
    /\ UNCHANGED <<argv, optind, letter, option, pattern, system, caches, status>>

(* Behind "--" everything is a name. *)
Rest ==
    /\ pc = "rest"
    /\ IF optind <= Len(argv)
       THEN /\ AddInclude(Text(argv[optind]))
            /\ optind' = optind + 1
            /\ UNCHANGED pc
       ELSE /\ pc' = "check"
            /\ UNCHANGED <<optind, system, option, pattern>>
    /\ UNCHANGED <<argv, letter, caches, status>>

----------------------------------------------------------------------------
(* main. *)

FirstForm == IF argv = <<>> THEN "none" ELSE argv[1].form

(* No argument, or a first one with a character that is no letter.          *)
Refuse ==
    /\ pc = "start"
    /\ FirstForm \in {"none", "word"}
    /\ ShowHelpAndReturn(2)
    /\ UNCHANGED <<argv, optind, letter, option, pattern, caches>>

(* One of the three standard descriptors is closed. *)
NoTerminal ==
    /\ pc = "start"
    /\ Return(1)
    /\ UNCHANGED <<argv, optind, letter, option, pattern, system, caches>>

StartParse ==
    /\ pc = "start"
    /\ FirstForm \notin {"none", "word"}
    /\ IF FirstForm = "bundle"
       THEN pc' = "bundle" /\ optind' = 2
       ELSE pc' = "options" /\ optind' = 1
    /\ UNCHANGED <<argv, letter, option, pattern, system, caches, status>>

(* mtar_option_check: a function, and an owner and a group that exist.      *)
Check ==
    LET users == IF option.owner = "none" THEN caches ELSE User2Uid(caches, option.owner)
        groups == IF option.group = "none" THEN users ELSE Group2Gid(users, option.group)
        badOwner == option.owner # "none" /\ users.user[option.owner] = Absent
        badGroup == option.group # "none" /\ groups.user[option.group] = Absent
    IN  /\ pc = "check"
        /\ IF option.do_work = "none" THEN Return(2) /\ UNCHANGED caches
           ELSE IF badOwner THEN Return(2) /\ caches' = users
           ELSE /\ caches' = groups
                /\ IF badGroup THEN Return(2) ELSE pc' = "work" /\ UNCHANGED status
        /\ UNCHANGED <<argv, optind, letter, option, pattern, system>>

Parse ==
    \/ Refuse \/ NoTerminal \/ StartParse
    \/ BundleFlag \/ BundleNumber \/ BundleValue \/ BundleFile \/ BundleList
    \/ BundleHelp \/ BundleDash \/ BundleEnds
    \/ FileName \/ SimpleOption \/ ValueOption \/ PatternOption \/ FunctionOption
    \/ ListOption \/ FileOption \/ FilterOptionOption \/ TellOption
    \/ StopOption \/ OptionsEnd \/ Rest
    \/ Check

=============================================================================
