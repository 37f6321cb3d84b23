------------------------------- MODULE Restore -------------------------------
(***************************************************************************)
(* mtar -x, -t and -d: src/src/module/function/extract/extract.c,           *)
(* list/list.c and diff/diff.c on the tar reader.  The three have one loop  *)
(* over the headers; list and diff print what they find and skip it (diff   *)
(* stats a file in between), extract puts it into the file system.          *)
(*                                                                          *)
(* The loop is unfolded into pc, an action for each call on the reader:     *)
(*   header -> skip | restore -> data ... header -> done                    *)
(* and both ends of a volume go through prompt, with `back' telling which   *)
(* of the two calls of select_volume is waiting for the operator.           *)
(*                                                                          *)
(* The volumes, and how the program is started, are the business of the     *)
(* module that instantiates this one: see RoundTrip.                        *)
(***************************************************************************)
EXTENDS UstarReader

CONSTANTS
    Selections,  \* the sets of names that the patterns can select
    BufferSize,  \* 4096: how much is read at a time
    Begins,      \* the pairs of paths of which the first begins the second
    Replies,     \* what the operator may do at a prompt
    MaxPrompts   \* bound: answers of the operator

VARIABLES
    function,    \* "extract", or "list" for list and diff
    unlink,      \* TRUE with --unlink-first
    wanted,      \* the names the patterns select
    pc,
    header,      \* the header at hand: its first unit
    total,       \* nb_total_read
    failed,      \* -1 as long as the loop goes on
    chunk,       \* what was read and not written yet
    back,        \* where select_volume was called
    files,       \* the file system: what is at each name
    shown,       \* history: the headers that were displayed
    misled,      \* history: a file was gone on with where another one does
    replies      \* history: the answers of the operator

progVars == <<function, unlink, wanted, pc, header, total, failed, chunk, back, files, shown,
              misled, replies>>
options == <<function, unlink, wanted>>
restoreVars == <<readerVars, progVars>>

(* The path in a header: the one of the label is 0, and what is left of a   *)
(* long name n is written -n.                                               *)
Name(u) ==
    IF u.f = 0 THEN 0 ELSE IF Short(u) THEN -Entries[u.f].name ELSE Entries[u.f].name

Names == UNION {{Entries[e].name, -Entries[e].name} : e \in DOMAIN Entries}

(* A regular file and its content, a directory, something else, or nothing. *)
Thing == [kind : {"file", "dir", "node", "none"}, content : Seq([f : Nat, o : Int])]

Empty(kind) == [kind |-> kind, content |-> <<>>]

NoHeader == [v |-> 0, k |-> "none", f |-> 0, o |-> 0, p |-> 0, s |-> 0]

RestoreInit ==
    /\ ReaderInit
    /\ function \in {"extract", "list"}
    /\ unlink \in IF function = "list" THEN {FALSE} ELSE BOOLEAN
    /\ wanted \in Selections
    /\ pc = "header"
    /\ header = NoHeader
    /\ total = 0
    /\ chunk = <<>>
    /\ failed = -1
    /\ back = "none"
    /\ shown = <<>>
    /\ misled = FALSE
    /\ replies = <<>>

Ends(status) ==
    /\ failed' = status
    /\ pc' = "done"

----------------------------------------------------------------------------
(* The loop. *)

(* What is done with a header: list skips what follows it, and extract does *)
(* with what the patterns do not select.  A label has no content.           *)
AfterHeader(u) ==
    CASE function = "list" \/ Name(u) \notin wanted -> "skip"
      [] function = "extract" /\ Name(u) \in wanted ->
           IF u.k = "label" THEN "header" ELSE IF unlink THEN "unlink" ELSE "restore"

NextHeader ==
    /\ pc = "header"
    /\ \E status \in HeaderResults :
         /\ GetHeader(status)
         /\ CASE status = "ok" ->
                   /\ header' = Here
                   /\ pc' = AfterHeader(Here)
                   /\ shown' = IF Name(Here) \in wanted THEN Append(shown, Here)
                               ELSE shown
                   /\ UNCHANGED failed
              [] status = "not_found" -> Ends(0) /\ UNCHANGED <<header, shown>>
              [] status = "bad_checksum" -> Ends(3) /\ UNCHANGED <<header, shown>>
              [] status \in {"bad_header", "fault"} ->
                   Ends(4) /\ UNCHANGED <<header, shown>>
    /\ UNCHANGED <<options, misled, total, chunk, back, files, replies>>

Skip ==
    /\ pc = "skip"
    /\ \E status \in SkipResults :
         /\ SkipFile(status)
         /\ CASE status = "ok" -> pc' = "header" /\ UNCHANGED <<failed, back>>
              [] status = "end_of_tape" ->
                   pc' = "prompt" /\ back' = "skip" /\ UNCHANGED failed
              [] status = "error" -> Ends(2) /\ UNCHANGED back
    /\ UNCHANGED <<options, misled, header, total, chunk, files, shown, replies>>

----------------------------------------------------------------------------
(* Putting an entry into the file system. *)

(* The reader gives the type of a regular file to a hard link, too, so that *)
(* the branch with linkat is never taken.                                   *)
IsRegular(u) ==
    \/ u.k \in {"link", "cont"}
    \/ u.k = "hdr" /\ Entries[u.f].kind = "reg"

There == files[Name(header)]

(* --unlink-first: what is there is removed, a directory is not; a failure  *)
(* is only said.                                                            *)
UnlinkFirst ==
    /\ pc = "unlink"
    /\ \/ /\ files' = IF There.kind = "dir" THEN files
                       ELSE [files EXCEPT ![Name(header)] = Empty("none")]
          /\ UNCHANGED faults
       \/ /\ Fault
          /\ faults' = faults + 1
          /\ UNCHANGED files
    /\ pc' = "restore"
    /\ UNCHANGED <<io, position, file_size, skip_size, options, misled, header, total, failed,
                   chunk, back, shown, replies>>

(* A file is replaced, one that goes on from another volume is appended to, *)
(* and a directory is in the way.                                           *)
OpenFile ==
    /\ pc = "restore"
    /\ IsRegular(header)
    /\ IF There.kind = "dir"
       THEN /\ Ends(IF header.p = 0 THEN 5 ELSE 3)
            /\ UNCHANGED <<files, total>>
       ELSE /\ files' = [files EXCEPT ![Name(header)] =
                           IF header.p = 0 \/ There.kind # "file" THEN Empty("file") ELSE @]
            /\ total' = header.p
            /\ pc' = "data"
            /\ UNCHANGED failed
    /\ UNCHANGED <<readerVars, options, misled, header, chunk, back, shown, replies>>

(* unlinkat or openat fails, the second when what was there is gone.        *)
OpenFails ==
    /\ pc = "restore"
    /\ IsRegular(header)
    /\ There.kind # "dir"
    /\ Fault
    /\ faults' = faults + 1
    /\ \/ /\ header.p = 0 /\ There.kind # "none"
          /\ Ends(5)
          /\ UNCHANGED files
       \/ /\ Ends(3)
          /\ files' = IF header.p = 0
                      THEN [files EXCEPT ![Name(header)] = Empty("none")] ELSE files
    /\ UNCHANGED <<io, position, file_size, skip_size, options, misled, header, total, chunk,
                   back, shown, replies>>

(* Anything else is made if there is nothing; that it cannot be made is     *)
(* only said.                                                               *)
MakeNode ==
    /\ pc = "restore"
    /\ ~IsRegular(header)
    /\ \/ /\ files' = IF There.kind = "none"
                       THEN [files EXCEPT ![Name(header)] = Empty("node")] ELSE files
          /\ UNCHANGED faults
       \/ /\ Fault
          /\ faults' = faults + 1
          /\ UNCHANGED files
    /\ pc' = "header"
    /\ UNCHANGED <<io, position, file_size, skip_size, options, misled, header, total, failed,
                   chunk, back, shown, replies>>

(* Mutant: the last unit of a file is left. *)
BadMore == total < header.s - 1

(* There is more to come, by the count of the loop. *)
More == total < header.s

(* After the content the loop over the headers goes on, unless `failed' was *)
(* set to 0 for a volume that was accepted.                                 *)
CloseFile ==
    /\ pc = "data"
    /\ ~More
    /\ pc' = IF failed < 0 THEN "header" ELSE "done"
    /\ UNCHANGED <<readerVars, options, misled, header, total, failed, chunk, back, files, shown,
                   replies>>

(* The volume is at its end when nothing is read; after an error the loop   *)
(* tries again.                                                             *)
ReadContent ==
    /\ pc = "data"
    /\ More
    /\ \E r \in ReadResults(BufferSize) :
         /\ Read(r)
         /\ total' = total + Taken(r)
         /\ chunk' = Content(Taken(r))
         /\ pc' = IF r.n > 0 THEN "write" ELSE IF r.n = 0 THEN "prompt" ELSE pc
         /\ back' = IF r.n = 0 THEN "data" ELSE back
    /\ UNCHANGED <<options, misled, header, failed, files, shown, replies>>

(* write(2) can fail, which is said, or be short, which is not.             *)
WriteContent ==
    /\ pc = "write"
    /\ \E n \in IF Fault THEN 0 .. Len(chunk) ELSE {Len(chunk)} :
         /\ files' = [files EXCEPT ![Name(header)].content = @ \o SubSeq(chunk, 1, n)]
         /\ faults' = IF n < Len(chunk) THEN faults + 1 ELSE faults
    /\ chunk' = <<>>
    /\ pc' = "data"
    /\ UNCHANGED <<io, position, file_size, skip_size, options, misled, header, total, failed,
                   back, shown, replies>>

(* Two headers of one file, of which one may have its name cut.            *)
SameFile(u) == u.f # 0 /\ Entries[u.f].name = Entries[header.f].name

(* Mutant: any part of the file will do. *)
BadAccepted(u) == <<Name(u), Name(header)>> \in Begins

(* A volume continues the file when its path is one that the file's begins  *)
(* with, which strncmp is asked for, and its position is the one reached.   *)
Accepted(u) == <<Name(u), Name(header)>> \in Begins /\ u.p = total

Continue ==
    /\ pc = "sub"
    /\ \E status \in HeaderResults :
         /\ GetHeader(status)
         /\ IF status = "ok"
            THEN IF Accepted(Here) THEN failed' = 0 /\ pc' = "data" ELSE Ends(4)
            ELSE Ends(5)
         /\ misled' = (misled \/ (status = "ok" /\ Accepted(Here) /\ ~SameFile(Here)))
    /\ UNCHANGED <<options, header, total, chunk, back, files, shown, replies>>

----------------------------------------------------------------------------
(* The end of a volume: select_volume. *)

Reply(how) ==
    /\ pc = "prompt"
    /\ how \in Replies
    /\ Len(replies) < MaxPrompts
    /\ replies' = Append(replies, how)
    /\ UNCHANGED <<options, misled, header, total, chunk, back, files, shown>>

(* What the caller makes of the result of select_volume.                    *)
Selected(result) ==
    /\ failed' = result
    /\ pc' = IF back = "data"
             THEN CASE result = 0 -> "sub" [] result = 1 -> "done" [] result = -1 -> "header"
             ELSE IF result < 0 THEN "header" ELSE "done"

(* y or newline: the medium was changed, the name is the same.  The result  *)
(* is 0 in extract and -1 in list and diff.                                 *)
SameName ==
    \/ /\ Reply("same")
       /\ io < Len(archive)
       /\ NextVolume(io + 1)
       /\ Selected(IF function = "extract" THEN 0 ELSE -1)
    \/ /\ Reply("wrong")
       /\ \E v \in DOMAIN archive : v # io + 1 /\ NextVolume(v)
       /\ Selected(IF function = "extract" THEN 0 ELSE -1)

(* n NAME. *)
NewName ==
    /\ Reply("name")
    /\ io < Len(archive)
    /\ NextVolume(io + 1)
    /\ Selected(-1)

(* n NAME of something that cannot be opened: the reader stays as it is.    *)
BadName ==
    /\ Reply("badname")
    /\ Selected(0)
    /\ UNCHANGED readerVars

(* The terminal is at its end. *)
PromptEnds ==
    /\ Reply("eof")
    /\ Selected(1)
    /\ UNCHANGED readerVars

PromptQuits ==
    /\ Reply("quit")
    /\ pc' = "aborted"
    /\ UNCHANGED <<readerVars, failed>>

RestoreNext ==
    /\ \/ NextHeader \/ Skip \/ UnlinkFirst
       \/ OpenFile \/ OpenFails \/ MakeNode
       \/ ReadContent \/ WriteContent \/ CloseFile \/ Continue
       \/ SameName \/ NewName \/ BadName \/ PromptEnds \/ PromptQuits
    /\ UNCHANGED archive

----------------------------------------------------------------------------
Said(how) == \E j \in DOMAIN replies : replies[j] = how

(* What a volume w ends in: behind the header at h the content of its file  *)
(* is cut, and this much of the file was archived by then.                  *)
EndsIn(w, h) ==
    /\ archive[w][h].k \in {"hdr", "cont"} /\ archive[w][h].o = 0
    /\ Len(archive[w]) < h + HeaderLength(archive[w][h]) - 1 + archive[w][h].s

Reached(w, h) ==
    archive[w][h].p + Len(archive[w]) - (h + HeaderLength(archive[w][h]) - 1)

(* The unit begins another file than e, with a path that e's begins with.   *)
Resembles(u, e) ==
    /\ u.f = 0 \/ Entries[u.f].name # Entries[e].name
    /\ \E n \in {Entries[e].name, -Entries[e].name} : <<Name(u), n>> \in Begins

(* No volume can be taken for one that goes on with the file another ends   *)
(* in: none begins with a path that the file's begins with, at its place.   *)
Apart ==
    \A v, w \in DOMAIN archive : \A h \in DOMAIN archive[w] :
        archive[v] # <<>> /\ EndsIn(w, h) /\ Resembles(archive[v][1], archive[w][h].f) =>
            archive[v][1].p # Reached(w, h)

(* A file goes on with what is its own, unless the operator mounts another  *)
(* volume than the next, and that one begins with a path that the file's    *)
(* begins with, at the very place: the test of extract.c:266-267 compares   *)
(* no more of the path than the header that follows has.                    *)
NotMisled ==
    misled /\ faults = 0 /\ function = "extract" /\ (unlink => ~Said("name")) =>
        Said("wrong") /\ ~Apart

Written(u) == files[Name(u)].content

(* A file that was extracted holds what was archived under its name, from   *)
(* its start and without a hole or a repetition, whatever volumes the       *)
(* operator mounts and wherever the program stops: extract.c:241-275        *)
(* appends across volumes and compares the position it was told.  Where     *)
(* that lets the volume of another file pass (see NotMisled) nothing is     *)
(* said.                                                                    *)
(* A volume that is given a new name is read as an archive of its own: what *)
(* it begins with goes to the file with the short name, and --unlink-first  *)
(* removes the first part.                                                  *)
Prefix ==
    faults = 0 /\ function = "extract" /\ ~misled /\ (unlink => ~Said("name")) =>
        \A j \in DOMAIN shown :
            IsRegular(shown[j]) /\ ~Short(shown[j]) /\ pc \notin {"unlink", "restore"} =>
                \A l \in DOMAIN Written(shown[j]) :
                    /\ Written(shown[j])[l].o = l - 1
                    /\ Entries[Written(shown[j])[l].f].ino = Entries[shown[j].f].ino

(* When extract stops without an error, no file it began is left in part or *)
(* with too much, unless another file's volume passed for its own.          *)
(* It does not hold of a name given anew: the loop of the content is left   *)
(* then.                                                                    *)
Whole ==
    pc = "done" /\ failed = 0 /\ faults = 0 /\ function = "extract" /\ ~misled
        /\ ~Said("name") =>
        \A j \in DOMAIN shown : shown[j].k = "hdr" /\ IsRegular(shown[j]) =>
            Len(Written(shown[j])) = shown[j].s

(* While a file is copied, what the loop of extract.c:241 still expects is  *)
(* what the reader has left of the file, however the two count: reads that  *)
(* are cut, errors and new volumes included, but for the volume of another  *)
(* file.  It does not hold of a file that is begun with the header of a     *)
(* rest (cont), which a new name makes of it: header.size is what is left   *)
(* and header.position where it starts, so that the loop counts from there  *)
(* up to the rest's length only, and can leave it before its end.           *)
Agreed ==
    pc = "data" /\ header.k # "cont" /\ ~misled => total + file_size = header.s
=============================================================================
