------------------------------ MODULE RoundTrip ------------------------------
(***************************************************************************)
(* An archive is made by Create and then read by Restore, with a file       *)
(* system that may already hold some of the names, or by Verify.  Reading   *)
(* starts on the first volume, of an archive all headers of which are on    *)
(* the volumes: see HeaderKept in Create for those that are not.            *)
(***************************************************************************)
EXTENDS Create

CONSTANTS
    Selections, BufferSize, Begins, Replies, MaxPrompts,   \* see Restore
    Multi,                                  \* see UstarReader
    MaxReadFaults,                          \* bound: calls that fail while reading
    Before,                                 \* what the file system may hold
    MaxTouches                              \* bound: files changed during a verification

VARIABLES
    io, at, file_size, skip_size, rfaults,
    function, unlink, wanted, rpc, header, total, rfailed, chunk, rback, files, shown, misled,
    replies,
    status, i_files    \* of Verify: the exit status and the volumes selected

readVars == <<io, at, file_size, skip_size, rfaults, function, unlink, wanted, rpc, header,
              total, rfailed, chunk, rback, files, shown, misled, replies, status, i_files>>

(* The units on the volumes in front of v. *)
Ahead(v) == Cardinality({j \in DOMAIN log : log[j].v < v})

Volumes == [v \in 1 .. volume |-> SubSeq(log, Ahead(v) + 1, Ahead(v + 1))]

R == INSTANCE Restore WITH
        archive <- Volumes, position <- at, faults <- rfaults, pc <- rpc,
        failed <- rfailed, back <- rback, MaxFaults <- MaxReadFaults

V == INSTANCE Verify WITH
        archive <- Volumes, position <- at, faults <- rfaults, pc <- rpc,
        ok <- rfailed, failed <- status, back <- rback, checked <- shown,
        MaxFaults <- MaxReadFaults

ASSUME RoundTripAssumption ==
    /\ BufferSize \in Nat \ {0}
    /\ \A n \in R!Names : <<n, n>> \in Begins /\ (n > 0 => <<-n, n>> \in Begins)
    /\ Replies \subseteq {"same", "wrong", "name", "badname", "eof", "quit"}
    /\ MaxPrompts \in Nat
    /\ MaxReadFaults \in Nat
    /\ Multi \in BOOLEAN
    /\ \A b \in Before : /\ b \in [R!Names -> R!Thing]
                         /\ \A n \in R!Names : b[n].kind = "dir" => b[n].content = <<>>
    /\ MaxTouches \in Nat

RestoreStarts ==
    /\ R!RestoreInit
    /\ files \in Before
    /\ status = 0
    /\ i_files = 0

VerifyStarts ==
    /\ V!VerifyInit
    /\ function = "verify"
    /\ unlink = FALSE
    /\ wanted = {}
    /\ total = 0
    /\ chunk = <<>>
    /\ misled = FALSE
    /\ files = [n \in R!Names |-> R!Empty("none")]

RoundTripInit == Init /\ (RestoreStarts \/ VerifyStarts)

Archiving == Program \/ Operator \/ Resize

MakeArchive == Archiving /\ UNCHANGED readVars

ReadArchive ==
    /\ pc = "done"
    /\ cuts = 0
    /\ function # "verify"
    /\ UNCHANGED <<vars, status, i_files>>
    /\ R!RestoreNext

VerifyArchive ==
    /\ pc = "done"
    /\ ~failed
    /\ cuts = 0
    /\ function = "verify"
    /\ UNCHANGED <<vars, function, unlink, wanted, total, chunk, files, misled>>
    /\ V!VerifyNext

(* Another program writes to a file that is in the archive now.             *)
Touch ==
    /\ pc = "done"
    /\ function = "verify"
    /\ rpc = "start"
    /\ resizes < MaxTouches
    /\ \E n \in Inodes : size' = [size EXCEPT ![n] = @ + 1]
    /\ resizes' = resizes + 1
    /\ UNCHANGED <<fileVars, formatVars, pc, loopVars, failed, back, cuts, named, readVars>>

Stopped == {"done", "aborted", "crashed"}

Over ==
    /\ Final
    /\ pc # "done" \/ cuts > 0 \/ rpc \in Stopped \/ Len(replies) = MaxPrompts
    /\ UNCHANGED <<vars, readVars>>

RoundTripNext == MakeArchive \/ ReadArchive \/ VerifyArchive \/ Touch \/ Over

RoundTripSpec == RoundTripInit /\ [][RoundTripNext]_<<vars, readVars>>

----------------------------------------------------------------------------
(* Of Restore: what it makes of the volumes Create made.  A file that       *)
(* changes its size while it is archived gets headers that disagree with    *)
(* what follows them or with each other, and a write that fails leaves what *)
(* is no content in the archive.                                            *)
NotMisled == Undisturbed => R!NotMisled
Prefix == Undisturbed => R!Prefix
Whole == resizes = 0 => R!Whole
Agreed == resizes = 0 => R!Agreed

Right == \A j \in DOMAIN replies : replies[j] \in {"same", "name"}

(* No continuation is empty: no volume ends where a file does.              *)
NoEmptyRest == \A j \in Starts : log[j].k = "cont" => log[j].s > 0

(* The headers at S, in the order they are in the archive, and no other.    *)
Shown(S) ==
    /\ Len(shown) = Cardinality(S)
    /\ \A j \in S : shown[Cardinality({l \in S : l <= j})] = log[j]

(* With -t every header that was archived is listed, once and in the order  *)
(* it was archived in, when the operator mounts volume after volume: going  *)
(* from one header to the next (reader.c:321-326, 370-390) meets them all.  *)
(* A volume that ends where a file does is taken for the end of the archive.*)
ListComplete ==
    rpc = "done" /\ function = "list" /\ rfaults = 0 /\ Undisturbed /\ Right /\ NoEmptyRest
        /\ (volume = 1 \/ Multi) /\ R!Names \cup {0} \subseteq wanted =>
            Shown(Starts)

(* What extract leaves when it was given every volume it asked for and no   *)
(* directory was where it opens a file, be it for a hard link or under the  *)
(* short name.                                                              *)
Extracted ==
    rpc = "done" /\ function = "extract" /\ rfaults = 0 /\ Right
        /\ \A j \in Starts : R!IsRegular(log[j]) /\ R!Name(log[j]) \in wanted =>
                files[R!Name(log[j])].kind # "dir"

(* Every regular file is there with all of its content.                     *)
AllRestored ==
    Extracted =>
        \A e \in inode : Entries[e].kind = "reg" /\ Entries[e].name \in wanted =>
            /\ files[Entries[e].name].kind = "file"
            /\ Len(files[Entries[e].name].content) = size[Entries[e].ino]

(* On one volume that is so.                                                *)
OneVolumeRestored == volume = 1 /\ Undisturbed => AllRestored

(* What --verify compares with the files: what begins an entry.             *)
Compared == {j \in Starts : log[j].k # "label" /\ log[j].p = 0}

(* No link, and no file that starts anew on the next volume, has so long a  *)
(* name that its header has only a part of it.                              *)
WholeNames == \A j \in Compared : ~V!Short(log[j])

(* What mtar -c wrote --verify finds in order: without failures, of files   *)
(* that stay as they are and with an operator who mounts volume after       *)
(* volume, it asks for the volumes that were written and for no other       *)
(* (create.c:355, 552), compares every entry once and ends with 0.  (Under  *)
(* a part of a name there is no file to compare with: create.c:386.)        *)
Verified ==
    function = "verify" /\ rfaults = 0 /\ Undisturbed /\ Right /\ NoEmptyRest
        /\ WholeNames /\ (volume = 1 \/ Multi) =>
            /\ rpc # "crashed"
            /\ rpc = "prompt" => i_files < volume
            /\ rpc = "done" =>
                 /\ rfailed = 0 /\ status = 0
                 /\ Shown(Compared)
=============================================================================
