----------------------------- MODULE TapeWriter -----------------------------
(***************************************************************************)
(* The writer of tapes, src/src/module/io/tape/writer.c.  A tape takes      *)
(* records of BufferSize: what a client writes is gathered in a buffer that *)
(* goes to the drive when it is full.  The first write(2) past the early    *)
(* warning of the tape fails with ENOSPC and is tried once more.            *)
(*                                                                          *)
(* A unit of the archive is its offset; Zero stands for the padding of the  *)
(* last record and Garbage for what malloc leaves in the buffer.            *)
(***************************************************************************)
EXTENDS Integers, Sequences, FiniteSets

CONSTANTS
    BufferSize,      \* block_factor << 9
    TotalFreeSpace,  \* total_free_space, as new_writer computes it
    HeaderSizes,     \* lengths of headers, whole blocks
    MaxPosition,     \* bound: length of the archive
    MaxFaults        \* bound: system calls that fail

ASSUME TapeAssumption ==
    /\ BufferSize \in Nat \ {0}
    /\ TotalFreeSpace \in Nat
    /\ HeaderSizes \subseteq Nat \ {0}
    /\ MaxPosition \in Nat
    /\ MaxFaults \in Nat

VARIABLES
    fd,           \* TRUE while the descriptor is open
    position,
    last_errno,
    eod_reached,
    buffer,
    buffer_used,
    tape,         \* the records on the tape
    sent,         \* units the client was told are written
    doubled,      \* history: a second attempt wrote the record before again
    halted,       \* the client only closes from now on
    faults

vars == <<fd, position, last_errno, eod_reached, buffer, buffer_used, tape,
          sent, doubled, halted, faults>>

Zero == -1
Garbage == -2

Init ==
    /\ fd = TRUE
    /\ position = 0
    /\ last_errno = "none"
    /\ eod_reached = FALSE
    /\ buffer = [j \in 1 .. BufferSize |-> Garbage]
    /\ buffer_used = 0
    /\ tape = <<>>
    /\ sent = 0
    /\ doubled = FALSE
    /\ halted = FALSE
    /\ faults = 0

(* -1 when the size of the tape is not known. *)
AvailableSpace ==
    IF eod_reached THEN IF buffer_used > 0 THEN BufferSize - buffer_used ELSE 0
    ELSE IF TotalFreeSpace > 0 THEN TotalFreeSpace - position
    ELSE -1

NextPreferedSize == BufferSize - buffer_used

Room == BufferSize - buffer_used

(* The n units the client sends from offset k of its data on, as a record. *)
Units(k, n) == [j \in 1 .. n |-> sent + k + j - 1]

(* memcpy of n of them behind what the buffer holds. *)
Filled(n) ==
    [j \in 1 .. BufferSize |->
        IF j \in buffer_used + 1 .. buffer_used + n THEN sent + j - buffer_used - 1
        ELSE buffer[j]]

(* How the attempts to write a record end: at once; after an ENOSPC, when   *)
(* the second attempt works; with an errno.                                 *)
Attempts ==
    {[ok |-> TRUE, eod |-> FALSE, err |-> "none", fault |-> 0]}
    \cup IF faults < MaxFaults
         THEN {[ok |-> TRUE, eod |-> TRUE, err |-> "none", fault |-> 1],
               [ok |-> FALSE, eod |-> FALSE, err |-> "EIO", fault |-> 1]}
              \cup [ok : {FALSE}, eod : {TRUE}, err : {"ENOSPC", "EIO"}, fault : {1}]
         ELSE {}

(* The buffer does not fill up. *)
Store(n) ==
    /\ n < Room
    /\ buffer' = Filled(n)
    /\ buffer_used' = buffer_used + n
    /\ position' = position + n
    /\ sent' = sent + n
    /\ last_errno' = "none"
    /\ UNCHANGED <<fd, eod_reached, tape, doubled, halted, faults>>

(* It does, and the drive does not take it. *)
StoreFails(n, header) ==
    /\ n >= Room
    /\ \E a \in Attempts :
        /\ ~a.ok
        /\ last_errno' = a.err
        /\ eod_reached' = (eod_reached \/ a.eod)
        /\ faults' = faults + a.fault
    /\ buffer' = Filled(Room)
    /\ halted' = header
    /\ UNCHANGED <<fd, position, buffer_used, tape, sent, doubled>>

(* Mutant: a record the drive refuses is counted and not tried again. *)
BadBulk(full, done, again) ==
    [r \in 1 .. done - Cardinality(again) |-> Units(Room + (r - 1) * BufferSize, BufferSize)]

(* Whole records of what is left are written from the client's data.  The   *)
(* second attempt at one of them writes the buffer instead: the record      *)
(* before is on the tape once more and the data is not.                     *)
Bulk(full, done, again) ==
    [r \in 1 .. done |-> IF r \in again THEN full
                         ELSE Units(Room + (r - 1) * BufferSize, BufferSize)]

(* Mutant: the tail of the data is kept behind what was in the buffer. *)
BadTail(full, n, rest) ==
    [j \in 1 .. BufferSize |-> IF j <= n - rest THEN full[j] ELSE sent + j - 1]

(* What does not make a record stays in the buffer, from its start. *)
Rest(full, n, rest) ==
    [j \in 1 .. BufferSize |-> IF j <= rest THEN sent + n - rest + j - 1 ELSE full[j]]

StoreRecords(n) ==
    /\ n >= Room
    /\ \E a \in Attempts :
        LET whole == (n - Room) \div BufferSize
            rest == (n - Room) % BufferSize
        IN  /\ a.ok
            /\ \E done \in 0 .. whole : \E again \in SUBSET (1 .. done) :
                LET f == faults + a.fault + Cardinality(again)
                IN  /\ tape' = Append(tape, Filled(Room)) \o Bulk(Filled(Room), done, again)
                    /\ doubled' = (doubled \/ again # {})
                    /\ IF done = whole
                       THEN /\ f <= MaxFaults
                            /\ faults' = f
                            /\ eod_reached' = (eod_reached \/ a.eod \/ again # {})
                            /\ last_errno' = "none"
                            /\ buffer' = Rest(Filled(Room), n, rest)
                            /\ buffer_used' = rest
                            /\ position' = position + n
                            /\ sent' = sent + n
                            /\ UNCHANGED halted
                       ELSE (* A record fails: the call does, too, though the   *)
                            (* records before it count.                         *)
                            /\ f < MaxFaults
                            /\ faults' = f + 1
                            /\ \E e \in [eod : BOOLEAN, err : {"ENOSPC", "EIO"}] :
                                /\ e.err = "ENOSPC" => e.eod
                                /\ eod_reached' = (eod_reached \/ a.eod \/ again # {} \/ e.eod)
                                /\ last_errno' = e.err
                            /\ buffer' = Filled(Room)
                            /\ buffer_used' = 0
                            /\ position' = position + Room + done * BufferSize
                            /\ halted' = TRUE
                            /\ UNCHANGED sent
    /\ UNCHANGED fd

Write(n, header) == Store(n) \/ StoreFails(n, header) \/ StoreRecords(n)

(* The format writer asks for the space before it writes a header; without  *)
(* any, or after an error, it closes the writer.                            *)
WriteHeader ==
    /\ fd /\ ~halted
    /\ AvailableSpace > 0
    /\ \E n \in HeaderSizes : sent + n <= MaxPosition /\ Write(n, TRUE)

(* The data of a file comes in pieces of NextPreferedSize at most, or, when *)
(* a piece is written anew on the next volume, of a record at most.  A file *)
(* that failed is still padded.                                             *)
WriteData ==
    /\ fd /\ ~halted
    /\ \E n \in 1 .. (IF position < BufferSize THEN BufferSize ELSE NextPreferedSize) :
        sent + n <= MaxPosition /\ Write(n, FALSE)

(* Mutant: only a full buffer is written. *)
BadMustFlush == buffer_used = BufferSize

MustFlush == buffer_used > 0

Padded == [j \in 1 .. BufferSize |-> IF j <= buffer_used THEN buffer[j] ELSE Zero]

(* close(2) gives the descriptor up even when it reports an error. *)
Close ==
    /\ fd
    /\ fd' = FALSE
    /\ IF MustFlush
       THEN buffer' = Padded /\ tape' = Append(tape, Padded)
       ELSE UNCHANGED <<buffer, tape>>
    /\ \/ UNCHANGED <<last_errno, faults>>
       \/ faults < MaxFaults /\ faults' = faults + 1 /\ last_errno' = "none"
    /\ halted' = TRUE
    /\ UNCHANGED <<position, eod_reached, buffer_used, sent, doubled>>

(* The drive does not take the last record, and the buffer keeps it.        *)
LastRecordFails ==
    /\ MustFlush
    /\ faults < MaxFaults
    /\ faults' = faults + 1
    /\ buffer' = Padded
    /\ last_errno' \in {"ENOSPC", "EIO"}
    /\ halted' = TRUE
    /\ UNCHANGED <<fd, position, eod_reached, buffer_used, tape, sent, doubled>>

(* The descriptor stays open: the next close (free makes one) starts anew.  *)
CloseFails == fd /\ LastRecordFails

(* close on a closed writer: a buffer that was flushed still looks unwritten *)
(* and the write fails on the descriptor -1.                                *)
CloseAgain ==
    /\ ~fd
    /\ last_errno' = IF MustFlush THEN "EBADF" ELSE last_errno
    /\ UNCHANGED <<fd, position, eod_reached, buffer, buffer_used, tape, sent, doubled, halted, faults>>

(* To verify an archive the tape is positioned before it and the descriptor *)
(* goes to a reader; if the drive refuses, the writer keeps it.             *)
ReopenForReading ==
    /\ fd /\ ~halted
    /\ IF MustFlush
       THEN buffer' = Padded /\ tape' = Append(tape, Padded)
       ELSE UNCHANGED <<buffer, tape>>
    /\ buffer_used' = 0
    /\ \/ fd' = FALSE /\ UNCHANGED faults
       \/ faults < MaxFaults /\ faults' = faults + 1 /\ UNCHANGED fd
    /\ halted' = TRUE
    /\ UNCHANGED <<position, last_errno, eod_reached, sent, doubled>>

ReopenFails == fd /\ ~halted /\ LastRecordFails

Next ==
    \/ WriteHeader \/ WriteData
    \/ Close \/ CloseFails \/ CloseAgain
    \/ ReopenForReading \/ ReopenFails

Spec == Init /\ [][Next]_vars

----------------------------------------------------------------------------
TypeOK ==
    /\ fd \in BOOLEAN
    /\ position \in Nat /\ sent \in 0 .. MaxPosition
    /\ last_errno \in {"none", "ENOSPC", "EIO", "EBADF"}
    /\ eod_reached \in BOOLEAN
    /\ buffer \in [1 .. BufferSize -> Int]
    /\ buffer_used \in 0 .. BufferSize - 1
    /\ tape \in Seq([1 .. BufferSize -> Int])
    /\ doubled \in BOOLEAN
    /\ halted \in BOOLEAN
    /\ faults \in 0 .. MaxFaults

(* The units on the tape, record after record. *)
OnTape ==
    [j \in 1 .. Len(tape) * BufferSize |->
        tape[((j - 1) \div BufferSize) + 1][((j - 1) % BufferSize) + 1]]

(* Whatever fails and is tried again, the records hold what the client      *)
(* wrote, each unit once and at its place, with padding only at the end.    *)
(* The second attempt in writer.c:252 is the exception.                     *)
TapeOrder ==
    ~doubled => \A j \in DOMAIN OnTape :
        \/ OnTape[j] = j - 1
        \/ OnTape[j] = Zero /\ Len(OnTape) - j < BufferSize /\ j > sent

(* Once the tape is closed, all that the client was told is written is on   *)
(* it.                                                                      *)
SentKept ==
    ~fd /\ ~doubled => \A u \in 0 .. sent - 1 : u \in {OnTape[j] : j \in DOMAIN OnTape}

(* While no call failed, the position, from which available_space tells the *)
(* room that is left, is what the client wrote, and all of that is on the   *)
(* tape or in the buffer.                                                   *)
PositionTrue ==
    ~halted => position = sent /\ position = Len(tape) * BufferSize + buffer_used
=============================================================================
