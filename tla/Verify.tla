------------------------------- MODULE Verify -------------------------------
(***************************************************************************)
(* mtar -c --verify: what src/src/module/function/create/create.c does once *)
(* the archive is written, lines 342-462 and 552-635, on the tar reader.    *)
(* The loop over the headers is unfolded into pc as in Restore:             *)
(*   start -> header -> skip -> header ... done                             *)
(* prompt is a call of select_volume; `back' tells whether it is the one    *)
(* for the first volume or the one at the end of a volume.                  *)
(*                                                                          *)
(* The volumes are the business of the module that instantiates this one:   *)
(* see RoundTrip.  Of the comparisons the one of the sizes is kept; the     *)
(* others print a line.                                                     *)
(***************************************************************************)
EXTENDS UstarReader

CONSTANTS
    Replies,     \* what the operator may do at a prompt: see Restore
    MaxPrompts   \* bound: answers of the operator

VARIABLES
    size,        \* the size of each inode now
    pc,
    header,      \* the header at hand: its first unit
    ok,          \* -1 as long as the loop goes on, 0 for a good archive
    failed,      \* the exit status
    back,
    i_files,     \* volumes selected so far
    checked,     \* history: the headers that were compared with the files
    replies      \* history: the answers of the operator

NoHeader == [v |-> 0, k |-> "none", f |-> 0, o |-> 0, p |-> 0, s |-> 0]

nb_files == Len(archive)

VerifyInit ==
    /\ ReaderInit
    /\ pc = "start"
    /\ header = NoHeader
    /\ ok = -1
    /\ failed = 0
    /\ back = "none"
    /\ i_files = 0
    /\ checked = <<>>
    /\ replies = <<>>

Ends(verdict) == ok' = verdict /\ pc' = "done"

(* One volume is read through the writer that wrote it, and of several the  *)
(* operator is asked for the first.                                         *)
Start ==
    /\ pc = "start"
    /\ pc' = IF nb_files = 1 THEN "header" ELSE "prompt"
    /\ back' = IF nb_files = 1 THEN back ELSE "first"
    /\ UNCHANGED <<readerVars, size, header, ok, failed, i_files, checked, replies>>

(* The writer cannot go back to its start. *)
ReopenFails ==
    /\ pc = "start"
    /\ nb_files = 1
    /\ Fault
    /\ faults' = faults + 1
    /\ failed' = 1
    /\ pc' = "done"
    /\ UNCHANGED <<io, position, file_size, skip_size, size, header, ok, back, i_files,
                   checked, replies>>

(* Nothing is compared with a label or the rest of a file. *)
IsRest(u) == u.k = "label" \/ u.p > 0

NextHeader ==
    /\ pc = "header"
    /\ \E status \in HeaderResults :
         /\ GetHeader(status)
         /\ CASE status = "ok" ->
                   /\ header' = Here
                   /\ pc' = IF IsRest(Here) THEN "skip" ELSE "stat"
                   /\ UNCHANGED ok
              [] status = "not_found" -> Ends(0) /\ UNCHANGED header
              [] status = "bad_checksum" -> Ends(3) /\ UNCHANGED header
              [] status \in {"bad_header", "fault"} -> Ends(4) /\ UNCHANGED header
    /\ UNCHANGED <<size, failed, back, i_files, checked, replies>>

(* The size in the header is not that of the file.  A header without a link *)
(* is then asked for the first character of it.                             *)
SizeDiffers(u) ==
    u.k \in {"hdr", "cont"} /\ Entries[u.f].kind = "reg" /\ size[Entries[u.f].ino] # u.s

(* fstatat and what is compared. *)
Compare ==
    /\ pc = "stat"
    /\ ~Short(header)
    /\ checked' = Append(checked, header)
    /\ pc' = IF SizeDiffers(header) THEN "crashed" ELSE "skip"
    /\ UNCHANGED <<readerVars, size, header, ok, failed, back, i_files, replies>>

(* fstatat fails, as it does when the name is cut: that is said, and the    *)
(* file is passed whatever comes.                                           *)
StatFails ==
    /\ pc = "stat"
    /\ \/ Short(header) /\ UNCHANGED faults
       \/ Fault /\ faults' = faults + 1
    /\ pc' = "pass"
    /\ UNCHANGED <<io, position, file_size, skip_size, size, header, ok, failed, back,
                   i_files, checked, replies>>

Pass ==
    /\ pc = "pass"
    /\ \E status \in SkipResults : SkipFile(status)
    /\ pc' = "header"
    /\ UNCHANGED <<size, header, ok, failed, back, i_files, checked, replies>>

Skip ==
    /\ pc = "skip"
    /\ \E status \in SkipResults :
         /\ SkipFile(status)
         /\ CASE status = "ok" -> pc' = "header" /\ UNCHANGED <<ok, back>>
              [] status = "end_of_tape" ->
                   pc' = "prompt" /\ back' = "skip" /\ UNCHANGED ok
              [] status = "error" -> Ends(6) /\ UNCHANGED back
    /\ UNCHANGED <<size, header, failed, i_files, checked, replies>>

----------------------------------------------------------------------------
(* select_volume. *)

HasReader == nb_files = 1 \/ i_files > 0

Reply(how) ==
    /\ pc = "prompt"
    /\ how \in Replies
    /\ Len(replies) < MaxPrompts
    /\ replies' = Append(replies, how)
    /\ UNCHANGED <<size, header, back, checked>>

(* Mutant: the verification of several volumes ends one volume early. *)
BadInRange(n) == n < nb_files

(* The condition of the loop. *)
InRange(n) == n <= nb_files

(* What the caller makes of the result.  Without a reader the next header   *)
(* is asked of nobody.                                                      *)
Selected(result) ==
    /\ failed' = result
    /\ ok' = IF back = "skip" /\ result # 0 THEN 5 ELSE ok
    /\ pc' = IF ok' >= 0 THEN "done"
             ELSE IF nb_files > 1 /\ i_files' = 0 THEN "crashed"
             ELSE IF InRange(i_files') THEN "header" ELSE "done"

(* The volume behind the one at hand, which may be the first. *)
Following == IF HasReader THEN io + 1 ELSE 1

(* y, newline or n NAME: the reader goes on with that volume, or there is a *)
(* reader from now on.                                                      *)
Mount ==
    /\ \/ /\ Reply("same") \/ Reply("name")
          /\ Following \in DOMAIN archive
          /\ NextVolume(Following)
       \/ /\ Reply("wrong")
          /\ \E v \in DOMAIN archive : v # Following /\ NextVolume(v)
    /\ i_files' = i_files + 1
    /\ Selected(0)

(* n NAME of something that cannot be opened.  (With y the operator is      *)
(* asked again.)                                                            *)
BadName ==
    /\ Reply("badname")
    /\ UNCHANGED <<readerVars, i_files>>
    /\ Selected(0)

(* The terminal is at its end. *)
PromptEnds ==
    /\ Reply("eof")
    /\ UNCHANGED <<readerVars, i_files>>
    /\ Selected(1)

PromptQuits ==
    /\ Reply("quit")
    /\ pc' = "aborted"
    /\ UNCHANGED <<readerVars, ok, failed, i_files>>

VerifyNext ==
    /\ \/ Start \/ ReopenFails \/ NextHeader \/ Compare \/ StatFails \/ Pass \/ Skip
       \/ Mount \/ BadName \/ PromptEnds \/ PromptQuits
    /\ UNCHANGED archive
=============================================================================
