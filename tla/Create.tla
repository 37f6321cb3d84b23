------------------------------- MODULE Create -------------------------------
(***************************************************************************)
(* mtar -c: src/src/module/function/create/create.c on the tar format       *)
(* writer and the file writer.  The program is sequential; each action is   *)
(* one call it makes on the writer, the file system or the terminal, so     *)
(* that the files can change and the operator can act between any two.      *)
(*                                                                          *)
(* The loop in do_work is unfolded into pc:                                 *)
(*   label -> next -> add | link -> read <-> write -> eof -> next ... exit  *)
(* and every end of a volume goes through prompt, with `back' telling       *)
(* which of the calls of change_volume is waiting for the operator.         *)
(***************************************************************************)
EXTENDS UstarWriter, FiniteSets

CONSTANTS
    Entries,      \* what the patterns yield, in order
    Inodes,       \* the inodes of the entries
    Key,          \* the key of an inode in the hashtable, "dev_ino" cut to 15 characters
    Sizes,        \* what the sizes of the inodes may be when the program starts
    Label,        \* TRUE with --label
    Answers,      \* what the operator may do at a prompt
    MaxVolumes,   \* bound: volumes the operator has
    MaxResizes,   \* bound: size changes of files while the program runs
    MaxSize       \* bound: largest size a file is changed to

(* A socket is skipped; "other" is anything else that has no content.       *)
EntryType == [name : Nat, ino : Inodes, kind : {"reg", "other", "sock"},
              blocks : Nat \ {0}]

ASSUME CreateAssumption ==
    /\ Entries \in Seq(EntryType)
    /\ Key \in [Inodes -> Nat]
    /\ Sizes \subseteq [Inodes -> Nat]
    /\ Label \in BOOLEAN
    /\ Answers \subseteq {"next", "name", "quit", "eof", "badopen"}
    /\ MaxVolumes \in Nat
    /\ MaxResizes \in Nat
    /\ MaxSize \in Nat

VARIABLES
    pc,
    i,               \* the entry at hand
    inode,           \* hashtable of the inodes met: the entry that put each
    roff,            \* offset of the file descriptor the data is read from
    nb_read,         \* units in the buffer
    nb_write,        \* units of the buffer that are written, or -1
    total_nb_write,  \* units of the file written by earlier rounds
    failed,
    back,            \* the call of change_volume that is running
    size,            \* the current size of each inode
    resizes,
    cuts,            \* history: headers that met the end of a volume
    named            \* a name in `files' is a piece of an answer, not a copy

loopVars == <<i, inode, roff, nb_read, nb_write, total_nb_write>>
envVars == <<size, resizes>>
vars == <<fileVars, formatVars, pc, loopVars, failed, back, envVars, cuts, named>>

Entry == Entries[i]
StSize == IF Entry.kind = "reg" THEN size[Entry.ino] ELSE 0

Init ==
    /\ FileInit
    /\ FormatInit
    /\ pc = "label"
    /\ i = 1
    /\ inode = {}
    /\ roff = 0
    /\ nb_read = 0
    /\ nb_write = 0
    /\ total_nb_write = 0
    /\ failed = FALSE
    /\ back = "none"
    /\ size \in Sizes
    /\ resizes = 0
    /\ cuts = 0
    /\ named = FALSE

(* A call other than write fails: fstatat, openat or read. *)
CallFails ==
    /\ faults < MaxFaults
    /\ faults' = faults + 1
    /\ UNCHANGED <<fd, position, last_errno, volume, log, formatVars>>

----------------------------------------------------------------------------
(* The end of a volume. *)

(* What the caller does with the status of add_label, add_link or add_file: *)
(* nothing but set `failed' for an error, prompt for the next volume at an  *)
(* end of tape, go on to `ok' otherwise.                                    *)
OnStatus(status, from, ok) ==
    /\ pc' = CASE status = "error" -> "exit"
               [] status = "end_of_tape" -> "prompt"
               [] status = "ok" -> ok
    /\ back' = IF status = "end_of_tape" THEN from ELSE back
    /\ failed' = (failed \/ status = "error")
    /\ cuts' = IF status = "end_of_tape" THEN cuts + 1 ELSE cuts

(* Where the program goes once change_volume returns `result' to its caller.*)
AfterAdd == IF Entry.kind = "reg" THEN "read" ELSE "next"

Skip == /\ i' = i + 1
        /\ UNCHANGED <<inode, roff, nb_read, nb_write, total_nb_write>>

(* y or newline, which copies the last name, or n NAME, which keeps the     *)
(* answer itself: change_volume returns 0, and its result replaces whatever *)
(* `failed' held.                                                           *)
NextVolume ==
    /\ pc = "prompt"
    /\ \/ "next" \in Answers /\ UNCHANGED named
       \/ "name" \in Answers /\ named' = TRUE
    /\ volume < MaxVolumes
    /\ NewVolume
    /\ failed' = FALSE
    /\ pc' = CASE back = "label" -> "next"
               [] back = "link" -> "next"
               [] back = "add" -> AfterAdd
               [] back \in {"enospc", "split"} -> "restart"
    /\ IF back = "link" \/ (back = "add" /\ AfterAdd = "next")
       THEN Skip ELSE UNCHANGED loopVars
    /\ UNCHANGED <<back, envVars, cuts>>

(* The terminal is at its end: change_volume returns 1.  The loop for an    *)
(* ENOSPC is left for the loop below it, whose condition still holds.       *)
PromptEnds ==
    /\ pc = "prompt"
    /\ "eof" \in Answers
    /\ failed' = TRUE
    /\ pc' = CASE back \in {"label", "link", "add"} -> "exit"
               [] back = "enospc" -> "prompt"
               [] back = "split" -> "eof"
    /\ back' = IF back = "enospc" THEN "split" ELSE back
    /\ UNCHANGED <<fileVars, formatVars, loopVars, envVars, cuts, named>>

(* q: _exit(1) without closing anything. *)
PromptQuits ==
    /\ pc = "prompt"
    /\ "quit" \in Answers
    /\ pc' = "aborted"
    /\ UNCHANGED <<fileVars, formatVars, loopVars, failed, back, envVars, cuts, named>>

(* The new volume cannot be opened: new_volume gets NULL, and block_size is *)
(* called through it.                                                       *)
BadVolume ==
    /\ pc = "prompt"
    /\ "badopen" \in Answers
    /\ Close
    /\ pc' = "crashed"
    /\ UNCHANGED <<formatVars, loopVars, failed, back, envVars, cuts, named>>

----------------------------------------------------------------------------
(* The headers. *)

StartLabel ==
    /\ pc = "label"
    /\ IF Label
       THEN \E r \in HeaderResults(Block) :
              /\ AddLabel(r)
              /\ OnStatus(HeaderStatus(Block, r), "label", "next")
       ELSE /\ pc' = "next"
            /\ UNCHANGED <<fileVars, formatVars, failed, back, cuts>>
    /\ UNCHANGED <<loopVars, envVars, named>>

(* Mutant: the table is searched by name. *)
BadKnown == {j \in inode : Entries[j].name = Entry.name}

(* The entry the hashtable holds for this inode, or for one with its key. *)
Known == {j \in inode : Key[Entries[j].ino] = Key[Entry.ino]}

(* Mutant: a name met before does not advance the iterator. *)
BadNextEntry ==
    /\ pc = "next"
    /\ i <= Len(Entries)
    /\ \/ /\ Entry.kind # "sock"
          /\ \E j \in Known : Entries[j].name = Entry.name
          /\ UNCHANGED <<pc, loopVars>>
       \/ /\ Entry.kind = "sock"
          /\ Skip
          /\ pc' = "next"
       \/ /\ Entry.kind # "sock"
          /\ \E j \in Known : Entries[j].name # Entry.name
          /\ pc' = "link"
          /\ UNCHANGED loopVars
       \/ /\ Entry.kind # "sock"
          /\ Known = {}
          /\ inode' = inode \cup {i}
          /\ pc' = "add"
          /\ UNCHANGED <<i, roff, nb_read, nb_write, total_nb_write>>
    /\ UNCHANGED <<fileVars, formatVars, failed, back, envVars, cuts, named>>

NextEntry ==
    /\ pc = "next"
    /\ i <= Len(Entries)
    /\ \/ /\ Entry.kind = "sock" \/ \E j \in Known : Entries[j].name = Entry.name
          /\ Skip
          /\ pc' = "next"
       \/ /\ Entry.kind # "sock"
          /\ \E j \in Known : Entries[j].name # Entry.name
          /\ pc' = "link"
          /\ UNCHANGED loopVars
       \/ /\ Entry.kind # "sock"
          /\ Known = {}
          /\ inode' = inode \cup {i}
          /\ pc' = "add"
          /\ UNCHANGED <<i, roff, nb_read, nb_write, total_nb_write>>
    /\ UNCHANGED <<fileVars, formatVars, failed, back, envVars, cuts, named>>

NoMoreEntries ==
    /\ pc = "next"
    /\ i > Len(Entries)
    /\ pc' = "exit"
    /\ UNCHANGED <<fileVars, formatVars, loopVars, failed, back, envVars, cuts, named>>

(* fstatat fails, here or in add_file or add_link. *)
StatFails ==
    /\ pc \in {"next", "add", "link"}
    /\ i <= Len(Entries)
    /\ CallFails
    /\ failed' = TRUE
    /\ pc' = "exit"
    /\ UNCHANGED <<loopVars, back, envVars, cuts, named>>

HardLink ==
    /\ pc = "link"
    /\ \E r \in HeaderResults(Block) :
         /\ AddLink(i, r)
         /\ OnStatus(HeaderStatus(Block, r), "link", "next")
         /\ IF HeaderStatus(Block, r) = "ok" THEN Skip ELSE UNCHANGED loopVars
    /\ UNCHANGED <<envVars, named>>

(* After an ok, a failure of an earlier file ends the loop. *)
AddEntry ==
    /\ pc = "add"
    /\ LET length == Entry.blocks * Block
       IN  \E r \in HeaderResults(length) :
             /\ AddFile(i, Entry.blocks, StSize, r)
             /\ OnStatus(HeaderStatus(length, r), "add",
                         IF failed THEN "exit" ELSE AfterAdd)
             /\ IF HeaderStatus(length, r) = "ok" /\ ~failed /\ AfterAdd = "next"
                THEN Skip
                ELSE /\ roff' = 0
                     /\ nb_read' = 0
                     /\ nb_write' = 0
                     /\ total_nb_write' = 0
                     /\ UNCHANGED <<i, inode>>
    /\ UNCHANGED <<envVars, named>>

----------------------------------------------------------------------------
(* The content of a regular file. *)

(* Mutant: the file offset moves on by a unit too much. *)
BadReadData ==
    /\ pc = "read"
    /\ LET next_read == NextPreferedSize
           left == IF roff < StSize THEN StSize - roff ELSE 0
       IN  /\ nb_read' = Least(next_read, left)
           /\ roff' = roff + nb_read' + 1
           /\ pc' = IF next_read = 0 THEN "prompt"
                    ELSE IF nb_read' = 0 THEN "eof" ELSE "write"
           /\ back' = IF next_read = 0 THEN "split" ELSE back
    /\ nb_write' = 0
    /\ UNCHANGED <<fileVars, formatVars, i, inode, total_nb_write, failed, envVars, cuts, named>>

(* read(fd, buffer, next_prefered_size).  At the end of the volume nothing  *)
(* is read and the loop for the end of the volume runs with an empty buffer.*)
ReadData ==
    /\ pc = "read"
    /\ LET next_read == NextPreferedSize
           left == IF roff < StSize THEN StSize - roff ELSE 0
       IN  /\ nb_read' = Least(next_read, left)
           /\ roff' = roff + nb_read'
           /\ pc' = IF next_read = 0 THEN "prompt"
                    ELSE IF nb_read' = 0 THEN "eof" ELSE "write"
           /\ back' = IF next_read = 0 THEN "split" ELSE back
    /\ nb_write' = 0
    /\ UNCHANGED <<fileVars, formatVars, i, inode, total_nb_write, failed, envVars, cuts, named>>

(* openat or read fails. *)
ReadFails ==
    /\ pc = "read"
    /\ CallFails
    /\ failed' = TRUE
    /\ pc' = "eof"
    /\ UNCHANGED <<loopVars, back, envVars, cuts, named>>

(* Mutant: the buffer is written from its start again. *)
BadBuffer(from, length) ==
    [j \in 1 .. length |-> Unit("data", i, roff - nb_read + j - 1, 0, 0)]

(* The units buffer[from] .. buffer[from + length - 1].  Before its start   *)
(* there is memory that belongs to something else.                          *)
Buffer(from, length) ==
    [j \in 1 .. length |->
        IF from + j < 1 THEN Unit("junk", 0, 0, 0, 0)
        ELSE Unit("data", i, roff - nb_read + from + j - 1, 0, 0)]

(* One write of the buffer: the first of the round, or the one after an     *)
(* ENOSPC.  A failure that is not ENOSPC sets `failed', and then the loop   *)
(* for the end of the volume is entered all the same, with nb_write = -1.   *)
WriteData ==
    /\ pc = "write"
    /\ \E r \in FormatResults(nb_read) :
         /\ FormatWrite(Buffer(0, nb_read), r)
         /\ nb_write' = r.n
         /\ failed' = (r.n < 0 /\ r.err # "ENOSPC")
         /\ pc' = IF r.n = nb_read THEN "read" ELSE "prompt"
         /\ back' = IF r.n = nb_read THEN back
                    ELSE IF r.n < 0 /\ r.err = "ENOSPC" THEN "enospc" ELSE "split"
         /\ total_nb_write' = IF r.n = nb_read THEN total_nb_write + r.n
                              ELSE total_nb_write
    /\ UNCHANGED <<i, inode, roff, nb_read, envVars, cuts, named>>

(* Mutant: what was written of the buffer is forgotten. *)
BadRestartAt == total_nb_write

(* The offset the caller gives to restart_file. *)
RestartAt == IF back = "enospc" THEN total_nb_write ELSE total_nb_write + nb_write

AfterRestart ==
    /\ pc' = IF back = "enospc" THEN "write"
             ELSE IF nb_read > nb_write THEN "rest" ELSE "read"
    /\ total_nb_write' = IF pc' = "read" THEN total_nb_write + nb_write
                         ELSE total_nb_write
    /\ UNCHANGED <<i, inode, roff, nb_read, nb_write, failed, back, envVars, cuts, named>>

(* restart_file on the new volume; its result is ignored. *)
Restart ==
    /\ pc = "restart"
    /\ \E r \in WriteResults(Len(RestartUnits(i, RestartAt, StSize))) :
         RestartFile(i, RestartAt, StSize, r)
    /\ AfterRestart

RestartIgnored ==
    /\ pc = "restart"
    /\ RestartFails
    /\ AfterRestart

(* The rest of the buffer on the new volume; as long as it does not fit,    *)
(* whatever the reason, the operator is asked for another one.              *)
WriteRest ==
    /\ pc = "rest"
    /\ \E r \in FormatResults(nb_read - nb_write) :
         /\ FormatWrite(Buffer(nb_write, nb_read - nb_write), r)
         /\ nb_write' = IF r.n > 0 THEN nb_write + r.n ELSE nb_write
         /\ pc' = IF nb_write' < nb_read THEN "prompt" ELSE "read"
         /\ total_nb_write' = IF nb_write' < nb_read THEN total_nb_write
                              ELSE total_nb_write + nb_write'
    /\ UNCHANGED <<i, inode, roff, nb_read, failed, back, envVars, cuts, named>>

FinishFile ==
    /\ pc = "eof"
    /\ \E r \in EndOfFileResults : EndOfFile(r)
    /\ Skip
    /\ pc' = "next"
    /\ UNCHANGED <<failed, back, envVars, cuts, named>>

(* The writer is freed, which closes the last volume, and then the names:   *)
(* one that malloc did not return may abort the program.                    *)
Exit ==
    /\ pc = "exit"
    /\ Close
    /\ pc' \in IF named THEN {"done", "crashed"} ELSE {"done"}
    /\ UNCHANGED <<formatVars, loopVars, failed, back, envVars, cuts, named>>

----------------------------------------------------------------------------
(* Another program writes to, or truncates, a file being archived.          *)
Resize ==
    /\ pc \notin {"done", "aborted", "crashed"}
    /\ resizes < MaxResizes
    /\ \E n \in Inodes, s \in 0 .. MaxSize :
         /\ s # size[n]
         /\ size' = [size EXCEPT ![n] = s]
    /\ resizes' = resizes + 1
    /\ UNCHANGED <<fileVars, formatVars, pc, loopVars, failed, back, cuts, named>>

Final == pc \in {"done", "aborted", "crashed"}

Finished == Final /\ UNCHANGED vars

Program ==
    \/ StartLabel \/ NextEntry \/ NoMoreEntries \/ StatFails
    \/ HardLink \/ AddEntry
    \/ ReadData \/ ReadFails \/ WriteData
    \/ Restart \/ RestartIgnored \/ WriteRest
    \/ FinishFile \/ Exit

Operator == NextVolume \/ PromptEnds \/ PromptQuits \/ BadVolume

Next == Program \/ Operator \/ Resize \/ Finished

Spec == Init /\ [][Next]_vars

(* The program runs, and an operator who is asked answers. *)
Fairness == WF_vars(Program) /\ WF_vars(Operator)

FairSpec == Spec /\ Fairness

----------------------------------------------------------------------------
Pc == {"label", "next", "link", "add", "read", "write", "prompt", "restart",
       "rest", "eof", "exit", "done", "aborted", "crashed"}

TypeOK ==
    /\ FormatTypeOK
    /\ pc \in Pc
    /\ i \in Nat \ {0}
    /\ inode \subseteq 1 .. Len(Entries)
    /\ roff \in Nat
    /\ nb_read \in Nat
    /\ nb_write \in Nat \cup {-1}
    /\ total_nb_write \in Nat
    /\ failed \in BOOLEAN
    /\ back \in {"none", "label", "link", "add", "enospc", "split"}
    /\ size \in [Inodes -> Nat]
    /\ resizes \in 0 .. MaxResizes
    /\ cuts \in Nat
    /\ named \in BOOLEAN

IsData(j) == log[j].k = "data"

(* The data units of each file in s count its offsets up from 0.            *)
InOrder(s) ==
    \A j \in DOMAIN s : s[j].k = "data" =>
        /\ \A l \in DOMAIN s :
             l < j /\ s[l].k = "data" /\ s[l].f = s[j].f => s[l].o < s[j].o
        /\ s[j].o > 0 =>
             \E l \in DOMAIN s :
                l < j /\ s[l].k = "data" /\ s[l].f = s[j].f /\ s[l].o = s[j].o - 1

(* The content of a file reaches the archive in order and without a hole or *)
(* a repetition, however it is cut over volumes, short writes and retries:  *)
(* create.c:236-301 moves nb_write, total_nb_write and the file offset.     *)
DataInOrder == InOrder(log)

(* No volume is written past its end (io/file/writer.c:155-182), whatever   *)
(* is written: headers, what is left of one, data and padding.              *)
VolumeOK == VolumeSize > 0 => position <= VolumeSize

(* No call failed and no file changed its size. *)
Undisturbed == faults = 0 /\ resizes = 0

(* A run that exits with status 0 has put the whole content of every inode  *)
(* on the volumes, once.                                                    *)
ExitComplete ==
    pc = "done" /\ ~failed /\ Undisturbed =>
        \A e \in 1 .. Len(Entries) : Entries[e].kind = "reg" =>
            \A o \in 0 .. size[Entries[e].ino] - 1 :
                \E j \in DOMAIN log :
                    /\ IsData(j)
                    /\ log[j].o = o
                    /\ Entries[log[j].f].ino = Entries[e].ino

Starts == {j \in DOMAIN log : log[j].k \in {"hdr", "cont", "link", "label"} /\ log[j].o = 0}

HeaderLength(j) == IF log[j].k = "hdr" THEN Entries[log[j].f].blocks * Block ELSE Block

(* The size field, rounded up to whole blocks as the reader rounds it.      *)
RoundUp(s) == ((s + Block - 1) \div Block) * Block

Following(j) == j + HeaderLength(j) + RoundUp(log[j].s)

(* A reader that goes from header to header by their size fields finds the  *)
(* next header, or the end of the volume, and never lands inside a file.    *)
(* It does not hold once a header has met the end of a volume (cuts > 0).   *)
Framed ==
    Undisturbed /\ cuts = 0 =>
        /\ \A j \in DOMAIN log : j = 1 \/ log[j].v # log[j - 1].v => j \in Starts
        /\ \A j \in Starts :
             /\ \A l \in j + 1 .. Len(log) :
                  log[l].v = log[j].v /\ l < Following(j) => l \notin Starts
             /\ Following(j) \in DOMAIN log /\ log[Following(j)].v = log[j].v
                  => Following(j) \in Starts

(* And every unit of data is where the header in front of it says: in the   *)
(* named file, at the offset counted from the position field.               *)
Addressed ==
    Undisturbed /\ cuts = 0 =>
        \A j \in Starts, l \in DOMAIN log :
            /\ j < l /\ l < Following(j)
            /\ log[l].v = log[j].v
            /\ IsData(l)
            => /\ log[l].f = log[j].f
               /\ log[l].o = log[j].p + l - j - HeaderLength(j)

(* The operator is asked for a volume when the current one is full.         *)
PromptAtEnd ==
    pc = "prompt" => VolumeSize > 0 /\ position = VolumeSize

UndisturbedPrompt == Undisturbed => PromptAtEnd

(* A hard link names an entry whose header is already in the archive, and   *)
(* an inode has its content in one entry only.                              *)
LinksResolve ==
    cuts = 0 /\ faults = 0 =>
        \A j \in Starts :
            LET before == {l \in Starts : l < j /\ log[l].k = "hdr" /\
                              Entries[log[l].f].ino = Entries[log[j].f].ino}
            IN  /\ log[j].k = "link" => before # {}
                /\ log[j].k = "hdr" => before = {}

(* A header that was added is wholly on the volumes when the program says   *)
(* it succeeded.                                                            *)
HeaderKept ==
    pc = "done" /\ ~failed /\ Undisturbed =>
        \A e \in inode : \A o \in 0 .. Entries[e].blocks * Block - 1 :
            \E j \in DOMAIN log : log[j].k = "hdr" /\ log[j].f = e /\ log[j].o = o

(* An 'M' header tells how much of its file the archive holds before it,    *)
(* also when the file has grown or shrunk meanwhile.                        *)
ContinuationPosition ==
    faults = 0 =>
        \A j \in Starts : log[j].k = "cont" =>
            log[j].p = Cardinality({l \in 1 .. j - 1 : IsData(l) /\ log[l].f = log[j].f})

(* With an operator who goes on giving volumes, by y or newline, the        *)
(* program comes to an end.                                                 *)
Termination == <>(pc = "done")
=============================================================================
