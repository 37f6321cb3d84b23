------------------------------ MODULE Patterns ------------------------------
(***************************************************************************)
(* What mtar -c puts into the archive: the includes the names of the        *)
(* command line make (mtar_pattern_get_include in src/src/mtar/pattern.c),  *)
(* the ones of the engines (src/src/module/pattern/{fnmatch,pcre}/          *)
(* include.c), which filter what a walk finds, and the loop that asks them  *)
(* (src/src/module/function/create/create.c).                               *)
(***************************************************************************)
EXTENDS Walk

CONSTANTS
    Names        \* names on the command line, records: the path a name is, the
                 \* engine, the directory in front of the first wildcard, whether
                 \* there is one, and the paths that match

VARIABLES
    pattern,     \* one of Names
    engine,      \* the include is an engine's
    looking,     \* has_next of the engine is in its loop
    current_dir, next_dir, next_file,
    given,       \* the paths given out, in order
    matched,     \* history: which of them an engine gave out as a file that matches
    done         \* has_next said that there are no more

includeVars ==
    <<pattern, engine, looking, current_dir, next_dir, next_file, given, matched, done>>

vars == <<diskVars, walkVars, includeVars>>

ASSUME NamesAssumption ==
    \A name \in Names : /\ {name.path, name.top} \subseteq Seq(Nat) \ {<<>>}
                        /\ name.recursion \in BOOLEAN

(* lstat goes by the directory mtar was started in, as stat does, but not   *)
(* through links.                                                           *)
IsDirectory(p) == IF rooted \/ p \notin Tree THEN BOOLEAN ELSE {p \in dirs}

(* mtar_pattern_get_include, and new_include of the engines.  The engine is *)
(* not named when the directory in front of the wildcard is looked for, and *)
(* mtar crashes if that directory is not there.                             *)
GetInclude ==
    \/ /\ TRUE \in Exists(pattern.path)
       /\ engine = FALSE
       /\ WalkNew(pattern.path, pattern.recursion)
    \/ /\ FALSE \in Exists(pattern.path)
       /\ engine = TRUE
       /\ path = pattern.top /\ recursion = pattern.recursion
       /\ stack = <<>> /\ current_path = Null /\ call = "none"
       /\ \/ TRUE \in Exists(pattern.top) /\ status = "init"
          \/ FALSE \in Exists(pattern.top) /\ status = "crashed"

Init ==
    /\ DiskInit
    /\ option \in Settings
    /\ rooted \in BOOLEAN
    /\ pattern \in Names
    /\ GetInclude
    /\ looking = FALSE
    /\ current_dir = Null /\ next_dir = Null /\ next_file = Null
    /\ given = <<>> /\ matched = {} /\ done = FALSE

----------------------------------------------------------------------------
(* match, which the functions that read an archive ask of the same names.   *)
FnmatchMatch(p) ==
    IF pattern.anchored THEN StringPrefix(path, p) /\ p \in pattern.glob
    ELSE Suffixes(p) \cap pattern.glob # {}

IncludeMatch(p) ==
    IF ~engine THEN StringPrefix(path, p)
    ELSE IF pattern.engine = "fnmatch" THEN FnmatchMatch(p) ELSE p \in pattern.glob

----------------------------------------------------------------------------
Idle == ~done /\ call = "none" /\ status # "crashed"

(* The loop of create on an include that walks: has_next, and next after it. *)
WalkHasNext ==
    /\ ~engine /\ Idle
    /\ Call
    /\ UNCHANGED includeVars

WalkNext ==
    /\ ~engine
    /\ call \in {"true", "false"}
    /\ call' = "none"
    /\ IF call = "true" THEN given' = Append(given, current_path) /\ UNCHANGED done
       ELSE done' = TRUE /\ UNCHANGED given
    /\ UNCHANGED <<diskVars, settingVars, status, stack, current_path, pattern, engine, looking,
                   current_dir, next_dir, next_file, matched>>

(* has_next of an engine asks its walk.                                     *)
EngineHasNext ==
    /\ engine /\ Idle
    /\ looking \/ (next_dir = Null /\ next_file = Null)
    /\ looking' = TRUE
    /\ Call
    /\ UNCHANGED <<pattern, engine, current_dir, next_dir, next_file, given, matched, done>>

(* Mutant: below a directory that is in mind another is not noticed. *)
BadDirectoryOf(p, isDir) ==
    IF next_dir # Null /\ StringPrefix(next_dir, p) THEN next_dir
    ELSE IF isDir THEN p ELSE Front(p)

(* The directory in mind, which is given out before what is found: a        *)
(* directory itself, for a file the one before if its path begins like it.  *)
DirectoryOf(p, isDir) ==
    IF isDir THEN p ELSE IF StringPrefix(next_dir, p) THEN next_dir ELSE Front(p)

EngineFilter ==
    /\ engine /\ call = "true"
    /\ call' = "none"
    /\ \E isDir \in IsDirectory(current_path) :
         /\ next_dir' = DirectoryOf(current_path, isDir)
         /\ IF ~isDir /\ current_path \in pattern.glob
            THEN next_file' = current_path /\ looking' = FALSE
            ELSE UNCHANGED <<next_file, looking>>
    /\ UNCHANGED <<diskVars, settingVars, status, stack, current_path, pattern, engine, current_dir,
                   given, matched, done>>

EngineEnd ==
    /\ engine /\ call = "false"
    /\ call' = "none"
    /\ current_dir' = Null /\ next_dir' = Null /\ next_file' = Null
    /\ looking' = FALSE
    /\ done' = TRUE
    /\ UNCHANGED <<diskVars, settingVars, status, stack, current_path, pattern, engine, given, matched>>

(* next of an engine: the directories that lead to the file, one a call,    *)
(* then the file.                                                           *)
EngineNext ==
    /\ engine /\ Idle /\ ~looking
    /\ next_dir # Null \/ next_file # Null
    /\ IF next_dir # Null /\ Len(next_dir) > Len(current_dir) + 1
       THEN /\ current_dir' = SubSeq(next_dir, 1, Len(current_dir) + 1)
            /\ given' = Append(given, current_dir')
            /\ UNCHANGED <<next_dir, next_file, matched>>
       ELSE IF next_dir # Null
       THEN /\ given' = Append(given, next_dir)
            /\ current_dir' = Null /\ next_dir' = Null
            /\ UNCHANGED <<next_file, matched>>
       ELSE /\ given' = Append(given, next_file)
            /\ matched' = matched \cup {Len(given) + 1}
            /\ next_file' = Null
            /\ UNCHANGED <<current_dir, next_dir>>
    /\ UNCHANGED <<diskVars, walkVars, pattern, engine, looking, done>>

(* The two engines differ in what matches. *)
FnmatchHasNext == pattern.engine = "fnmatch" /\ (EngineHasNext \/ EngineFilter \/ EngineEnd)
FnmatchNext == pattern.engine = "fnmatch" /\ EngineNext
PcreHasNext == pattern.engine = "pcre" /\ (EngineHasNext \/ EngineFilter \/ EngineEnd)
PcreNext == pattern.engine = "pcre" /\ EngineNext

Ended == (done \/ status = "crashed") /\ UNCHANGED vars

Include ==
    \/ WalkHasNext \/ WalkNext
    \/ FnmatchHasNext \/ FnmatchNext
    \/ PcreHasNext \/ PcreNext
    \/ (WalkStep /\ UNCHANGED includeVars)

Next == Include \/ (Change /\ UNCHANGED <<walkVars, includeVars>>) \/ Ended

Spec == Init /\ [][Next]_vars /\ WF_vars(Include)

----------------------------------------------------------------------------
Given == ToSet(given)

(* What the help of the options (option.c) says is left out: what a pattern *)
(* is given for, from the start of the path when it is anchored and from    *)
(* any name on when it is not, and the names of the two lists.              *)
Gives(ex, p) ==
    IF ex.engine # "fnmatch" THEN PcreExclude(ex, p)
    ELSE IF ex.anchored THEN p \in ex.glob ELSE Suffixes(p) \cap ex.glob # {}

Excluded(p) ==
    \/ \E ex \in option.excludes : Gives(ex, p)
    \/ option.hidden /\ Last(p) \in Hidden

(* The options whose help the code follows: no tags, which leave out every  *)
(* directory, and no anchored exclude of fnmatch, which is inverted.        *)
Documented ==
    /\ option.tags = {}
    /\ \A ex \in option.excludes : ~(ex.engine = "fnmatch" /\ ex.anchored)

(* What is to be archived: the paths below the start of the walk that are   *)
(* there, where neither they nor a directory above them is excluded.        *)
Kept ==
    {p \in Tree :
        /\ IsPrefix(path, p)
        /\ recursion \/ p = path
        /\ \A n \in Len(path) .. Len(p) : ~Excluded(SubSeq(p, 1, n))}

(* The order of the walk: a directory comes before what is in it, and its   *)
(* entries come in order.                                                   *)
Before(p, q) ==
    \/ p # q /\ IsPrefix(p, q)
    \/ \E n \in DOMAIN p \cap DOMAIN q :
          SubSeq(p, 1, n - 1) = SubSeq(q, 1, n - 1) /\ p[n] < q[n]

(* When nobody changes the tree, the walk (default_pattern.c, has_next) gives *)
(* out all that the options do not exclude by their help, and an engine       *)
(* (include.c, has_next) every file of it that matches, and no other file.    *)
(* With the same names on the command line these are found in the archive     *)
(* again (match).  It is not claimed of tags and of anchored excludes of      *)
(* fnmatch, where the code does something else.                               *)
AllGiven ==
    done /\ changes = 0 /\ Documented /\ (engine => ~rooted) =>
        /\ IF engine THEN Given \cap files = Kept \cap files \cap pattern.glob ELSE Given = Kept
        /\ \A p \in Given \cap files : IncludeMatch(p)

(* Even while the tree changes, the paths of a walk and the files that an     *)
(* engine finds to match come in order, so that none of these comes twice:    *)
(* the stack of directories that are read ahead and the tests that come later *)
(* do not get mixed up.  The directories an engine puts in front of its files *)
(* may come again.                                                            *)
GivenInOrder ==
    \A i, j \in DOMAIN given :
        i < j /\ (engine => {i, j} \subseteq matched) => Before(given[i], given[j])

(* What is given out is in a directory that was given out before it, up to    *)
(* where the walk starts (include.c, next): whoever extracts the archive has  *)
(* the directory with its owner and mode before he makes the file.  An engine *)
(* takes what was removed since the walk found it for a file, and does not    *)
(* name it when it is there again.                                            *)
DirectoryFirst ==
    (engine => ~rooted /\ changes = 0) =>
        \A i \in DOMAIN given : \A n \in 1 .. Len(given[i]) - 1 :
            \/ n < Len(path) /\ (engine => given[i] = path)
            \/ \E j \in 1 .. i - 1 : given[j] = SubSeq(given[i], 1, n)

(* The walk comes to an end. *)
Ends == <>(done \/ status = "crashed")
=============================================================================
