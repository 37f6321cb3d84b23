-------------------------------- MODULE Walk --------------------------------
(***************************************************************************)
(* The include that walks over a directory tree,                            *)
(* src/src/mtar/default_pattern.c, and the test of the excludes it asks     *)
(* for every path, mtar_pattern_match in src/src/mtar/pattern.c.  Below     *)
(* them is the file system, where files come and go while it is walked.     *)
(*                                                                          *)
(* A path is a sequence of names.  Names are numbers in the order of        *)
(* versionsort; the empty path stands for a null pointer.                   *)
(***************************************************************************)
EXTENDS Integers, Sequences, FiniteSets, SequencesExt

CONSTANTS
    Universe,    \* the paths there can be
    Longer,      \* pairs of names, the second of which begins with the first
    Links,       \* where a file, if there is one, is a symbolic link
    Hidden,      \* names of the lists for --exclude-backups and --exclude-vcs
    Settings,    \* what the options say about excludes, records: see Matches
    MaxChanges   \* bound: changes of the tree

ASSUME WalkAssumption ==
    /\ IsFiniteSet(Universe) /\ Universe \subseteq Seq(Nat) \ {<<>>}
    /\ MaxChanges \in Nat

VARIABLES
    dirs, files,   \* the paths on the disk
    changes,
    option,        \* one of Settings
    path,          \* where the walk starts
    recursion,     \* mtar_pattern_option_recursion
    rooted,        \* there is a root_directory
    status,        \* "init", "has_next" or "finished"; "crashed" ends the program
    stack,         \* the nodes: the entries of each directory not dealt with yet
    current_path,
    call           \* has_next: "none" if it is not called, "open", or its result

diskVars == <<dirs, files, changes>>
walkVars == <<option, path, recursion, rooted, status, stack, current_path, call>>

Tree == dirs \cup files

Null == <<>>

Children(d, paths) == {p \in paths : Len(p) = Len(d) + 1 /\ Front(p) = d}

(* Any tree of the universe. *)
DiskInit ==
    /\ dirs \in SUBSET Universe
    /\ files \in SUBSET (Universe \ dirs)
    /\ \A p \in dirs \cup files : \A n \in 1 .. Len(p) - 1 : SubSeq(p, 1, n) \in dirs
    /\ changes = 0

(* Somebody removes or makes a file or an empty directory.                  *)
Change ==
    /\ changes < MaxChanges
    /\ changes' = changes + 1
    /\ \/ \E p \in Tree :
            /\ Children(p, Tree) = {}
            /\ dirs' = dirs \ {p}
            /\ files' = files \ {p}
       \/ \E p \in Universe \ Tree :
            /\ Len(p) > 1 => Front(p) \in dirs
            /\ \/ dirs' = dirs \cup {p} /\ UNCHANGED files
               \/ files' = files \cup {p} /\ UNCHANGED dirs

----------------------------------------------------------------------------
(* pattern.c *)

(* The match of the fnmatch engine, exclude.c: an anchored exclude returns  *)
(* what fnmatch returns, which is 0 for a match.                            *)
FnmatchExclude(ex, p) ==
    IF ex.anchored THEN p \notin ex.glob ELSE Suffixes(p) \cap ex.glob # {}

(* pcre_exec looks for the expression everywhere unless it is anchored.     *)
PcreExclude(ex, p) ==
    \E i, j \in DOMAIN p : SubSeq(p, i, j) \in ex.glob /\ (ex.anchored => i = 1)

Selected(p) ==
    \/ \E ex \in option.excludes :
          IF ex.engine = "fnmatch" THEN FnmatchExclude(ex, p) ELSE PcreExclude(ex, p)
    \/ option.hidden /\ Last(p) \in Hidden

(* What access and stat can find.  They go by the directory mtar was started *)
(* in, so that with another one they find any file of the same name or none, *)
(* and they go through links, wherever these lead.  What stat leaves of a    *)
(* path it does not find is what was in memory.                             *)
Exists(p) == IF rooted \/ p \in files \cap Links THEN BOOLEAN ELSE {p \in Tree}

StatDirectory(p) == IF rooted \/ p \notin dirs \cup (files \ Links) THEN BOOLEAN ELSE {p \in dirs}

Siblings(p) == {Append(Front(p), t.name) : t \in {t \in option.tags : t.name # Last(p)}}

(* The results the test of the tags can have.  With any tag set what is     *)
(* taken for a directory is excluded, whatever is in it.                    *)
TagMatch(p) ==
    LET named == \E t \in option.tags : t.name = Last(p) /\ t.option # "tag"
        found == {f \in [Siblings(p) -> BOOLEAN] : \A q \in Siblings(p) : f[q] \in Exists(q)}
    IN  {b \in BOOLEAN : \E isDir \in StatDirectory(p), f \in found :
                            b = (isDir \/ named \/ \E q \in Siblings(p) : f[q])}

(* mtar_pattern_match: what it is true for is left out.  These are the      *)
(* results it can have.                                                     *)
Matches(p) ==
    IF Selected(p) THEN {TRUE} ELSE IF option.tags = {} THEN {FALSE} ELSE TagMatch(p)

----------------------------------------------------------------------------
(* default_pattern.c *)

(* The names in the order of versionsort: the i-th is the one with i of them *)
(* that do not come after it.                                               *)
Listing(names) ==
    [i \in 1 .. Cardinality(names) |->
        CHOOSE n \in names : Cardinality({m \in names : m <= n}) = i]

(* scandir: the entries in order, none of what cannot be opened.            *)
Scan(d) == IF d \in dirs THEN Listing({Last(p) : p \in Children(d, Tree)}) ELSE <<>>

WalkNew(top, recurse) ==
    /\ path = top
    /\ recursion = recurse
    /\ status = "init" /\ stack = <<>> /\ current_path = Null /\ call = "none"

settingVars == <<option, path, recursion, rooted>>

(* has_next is called: it forgets the path it gave out. *)
Call ==
    /\ call = "none"
    /\ call' = "open"
    /\ current_path' = Null
    /\ UNCHANGED <<diskVars, settingVars, status, stack>>

Finish ==
    /\ status' = "finished"
    /\ call' = "false"
    /\ UNCHANGED current_path

WalkFinished ==
    /\ call = "open" /\ status = "finished"
    /\ Finish
    /\ UNCHANGED <<diskVars, settingVars, stack>>

(* The first call looks at the start of the walk.  When it is not there and *)
(* a directory was given, a pointer is freed that was never set.            *)
WalkInit ==
    /\ call = "open" /\ status = "init"
    /\ IF path \notin Tree
       THEN Finish \/ (rooted /\ status' = "crashed" /\ UNCHANGED <<call, current_path>>)
       ELSE \/ TRUE \in Matches(path) /\ Finish
            \/ /\ FALSE \in Matches(path)
               /\ current_path' = path
               /\ status' = IF path \in dirs THEN "has_next" ELSE "finished"
               /\ call' = "true"
    /\ UNCHANGED <<diskVars, settingVars, stack>>

(* The second call opens the directory. *)
WalkOpen ==
    /\ call = "open" /\ status = "has_next" /\ stack = <<>>
    /\ IF recursion /\ Scan(path) # <<>>
       THEN stack' = <<Scan(path)>> /\ UNCHANGED <<status, call, current_path>>
       ELSE Finish /\ UNCHANGED stack
    /\ UNCHANGED <<diskVars, settingVars>>

(* The path that the heads of the nodes make. *)
Entry == path \o [j \in DOMAIN stack |-> Head(stack[j])]

(* Mutant: when a directory is left, the one above goes on with what was    *)
(* its entry then.                                                          *)
BadAdvance ==
    LET open == {j \in DOMAIN stack : Len(stack[j]) > 1}
    IN  IF open = {} THEN <<>>
        ELSE LET k == CHOOSE j \in open : \A l \in open : l <= j
             IN  IF k = Len(stack) THEN Append(SubSeq(stack, 1, k - 1), Tail(stack[k]))
                 ELSE SubSeq(stack, 1, k)

(* Mutant: what follows a directory that is left is passed, too. *)
LateAdvance ==
    LET open == {j \in DOMAIN stack : Len(stack[j]) > 2}
    IN  IF Len(Last(stack)) > 1 THEN Append(Front(stack), Tail(Last(stack)))
        ELSE IF open = {} THEN <<>>
        ELSE LET k == CHOOSE j \in open : \A l \in open : l <= j
             IN  Append(SubSeq(stack, 1, k - 1), Tail(Tail(stack[k])))

(* Mutant: an excluded entry stays at the head. *)
StuckAdvance == IF Matches(Entry) = {TRUE} THEN stack ELSE LateAdvance

(* The entry is dealt with, and so is every directory it was the last of.   *)
Advance ==
    LET open == {j \in DOMAIN stack : Len(stack[j]) > 1}
    IN  IF open = {} THEN <<>>
        ELSE LET k == CHOOSE j \in open : \A l \in open : l <= j
             IN  Append(SubSeq(stack, 1, k - 1), Tail(stack[k]))

(* An iteration of the loop.  An entry that is gone ends the whole walk; an *)
(* excluded one is passed with all that is below it.                        *)
WalkEntry ==
    /\ call = "open" /\ status = "has_next" /\ stack # <<>>
    /\ IF Entry \notin Tree THEN Finish /\ UNCHANGED stack
       ELSE \E excluded \in Matches(Entry) :
            IF ~excluded /\ Scan(Entry) # <<>>
            THEN /\ stack' = Append(stack, Scan(Entry))
                 /\ current_path' = Entry
                 /\ call' = "true"
                 /\ UNCHANGED status
            ELSE /\ stack' = Advance
                 /\ status' = IF Advance = <<>> THEN "finished" ELSE status
                 /\ current_path' = IF excluded THEN Null ELSE Entry
                 /\ call' = IF ~excluded THEN "true" ELSE IF Advance = <<>> THEN "false" ELSE call
    /\ UNCHANGED <<diskVars, settingVars>>

WalkStep == WalkFinished \/ WalkInit \/ WalkOpen \/ WalkEntry

(* match, for the functions that read an archive: a comparison of strings,  *)
(* in which the last name may go on.                                        *)
StringPrefix(p, q) ==
    \/ p = Null
    \/ /\ Len(p) <= Len(q)
       /\ SubSeq(q, 1, Len(p) - 1) = Front(p)
       /\ Last(p) = q[Len(p)] \/ <<Last(p), q[Len(p)]>> \in Longer
=============================================================================
