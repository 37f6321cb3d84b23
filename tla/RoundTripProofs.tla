--------------------------- MODULE RoundTripProofs ---------------------------
(***************************************************************************)
(* Proofs about RoundTrip.  What extract makes of an archive depends on     *)
(* what the headers say of one file: that they agree is an invariant of     *)
(* Create (Told); that the loops of extract and the reader count alike, and *)
(* that no file is left in part, are invariants of Restore on top of it.    *)
(* What -t and --verify find rests on the order of the headers (Arranged)   *)
(* and of the volumes (Joined, Heads); what is in the files on what follows *)
(* a header (Solid).                                                        *)
(***************************************************************************)
EXTENDS RoundTrip, CreateProofs

(* A path leads to one inode, so that what has one name has one key.        *)
NamesTell == \A d, e \in 1 .. Len(Entries) :
                Entries[d].name = Entries[e].name => KeyOf(d) = KeyOf(e)

----------------------------------------------------------------------------
(* What the headers of one file say. *)

SizeOf(e) == IF Entries[e].kind = "reg" THEN size[Entries[e].ino] ELSE 0

(* The entry is a link to one in the table that has another name.           *)
LinkedTo(e) == \E d \in inode : KeyOf(d) = KeyOf(e) /\ Entries[d].name # Entries[e].name

(* What a unit of a header says is true of the file.                        *)
Fits(u) ==
    /\ u.v \in 1 .. volume
    /\ u.k = "hdr" => u.f \in inode /\ u.p = 0 /\ u.s = SizeOf(u.f) /\ u.s >= 0
    /\ u.k = "cont" => /\ u.f \in inode /\ u.p + u.s = SizeOf(u.f) /\ u.s >= 0
                       /\ u.v >= 2
    /\ u.k = "link" => /\ u.f \in 1 .. Len(Entries) /\ LinkedTo(u.f)
                       /\ u.p = 0 /\ u.s = 0
    /\ u.k = "label" => u.f = 0 /\ u.s = 0

AllFit(s) == \A j \in DOMAIN s : Fits(s[j])
Sorted(s) == \A j, l \in DOMAIN s : j <= l => s[j].v <= s[l].v

(* As long as no header is cut and no file changes its size.                *)
ToldOf ==
    /\ remain_header = <<>>
    /\ AllFit(log)
    /\ Sorted(log)
    /\ pc = "link" => LinkedTo(i)
    /\ pc = "restart" => volume >= 2
    /\ InContent => roff <= StSize

Told == cuts = 0 /\ resizes = 0 => ToldOf

LEMMA InitTold == Init => Told
<1> SUFFICES ASSUME Init PROVE ToldOf
  BY DEF Told
<1>1. remain_header = <<>> /\ log = <<>> /\ DOMAIN log = {} /\ pc = "label"
  BY DEF Init, FileInit, FormatInit
<1> QED BY <1>1 DEF ToldOf, AllFit, Sorted, InContent, AtVolumeEnd

(* Nothing that a header says becomes false.                                *)
Same == inode \subseteq inode' /\ size' = size /\ volume' >= volume

LEMMA StillFits ==
  ASSUME Same, volume \in Nat, volume' \in Nat, NEW u, Fits(u)
  PROVE  Fits(u)'
<1>1. SizeOf(u.f)' = SizeOf(u.f)
  BY DEF SizeOf, Same
<1>2. LinkedTo(u.f) => LinkedTo(u.f)'
  BY DEF LinkedTo, KeyOf, Same
<1>3. 1 .. volume \subseteq 1 .. volume'
  BY DEF Same
<1> QED BY <1>1, <1>2, <1>3 DEF Fits, Same

(* Something is written behind the log that fits.                           *)
LEMMA ToldMore ==
  ASSUME IInv, IInv', Same, ToldOf, volume' = volume, NEW T \in Seq(Units), log' = log \o T,
         \A j \in 1 .. Len(T) : T[j].v = volume /\ Fits(T[j])
  PROVE  AllFit(log)' /\ Sorted(log)'
<1>1. log \in Seq(Units) /\ volume \in Nat /\ volume' \in Nat
  BY DEF IInv, TypeOK, FormatTypeOK, FileTypeOK
<1>2. Longer(log, T, log')
  BY <1>1, LongerLog
<1>3. \A j \in DOMAIN log' :
        \/ j \in DOMAIN log /\ log'[j] = log[j]
        \/ j > Len(log) /\ log'[j].v = volume /\ Fits(log'[j])
  <2> SUFFICES ASSUME NEW j \in DOMAIN log', j \notin DOMAIN log
               PROVE  j > Len(log) /\ log'[j].v = volume /\ Fits(log'[j])
    BY <1>2 DEF Longer
  <2>1. j \in Len(log) + 1 .. Len(log) + Len(T) /\ log'[j] = T[j - Len(log)]
    BY <1>2 DEF Longer
  <2>2. j - Len(log) \in 1 .. Len(T)
    BY <1>2, <2>1 DEF Longer
  <2> QED BY <1>2, <2>1, <2>2 DEF Longer
<1>4. \A j \in DOMAIN log' : Fits(log'[j])
  BY <1>3 DEF ToldOf, AllFit
<1>5. AllFit(log)'
  <2> SUFFICES ASSUME NEW j \in DOMAIN log' PROVE Fits(log[j])'
    BY DEF AllFit
  <2>1. PICK w : w = log'[j]
    OBVIOUS
  <2>2. Fits(w)
    BY <1>4, <2>1
  <2>3. Fits(w)'
    BY <1>1, <2>2, StillFits
  <2> QED BY <2>1, <2>3 DEF Fits, SizeOf, LinkedTo, KeyOf
<1>6. Sorted(log)'
  <2> SUFFICES ASSUME NEW j \in DOMAIN log', NEW l \in DOMAIN log', j <= l
               PROVE  log'[j].v <= log'[l].v
    BY DEF Sorted
  <2>1. \A m \in DOMAIN log' : log'[m].v \in 1 .. volume
    BY <1>4 DEF Fits
  <2>2. DOMAIN log = 1 .. Len(log) /\ DOMAIN log' = 1 .. Len(log) + Len(T)
        /\ Len(log) \in Nat /\ Len(T) \in Nat
    BY <1>2 DEF Longer
  <2>3. CASE l \in DOMAIN log
    <3>1. j \in DOMAIN log /\ log'[j] = log[j] /\ log'[l] = log[l]
      BY <1>2, <2>2, <2>3 DEF Longer
    <3> QED BY <2>3, <3>1 DEF ToldOf, Sorted
  <2>4. CASE l \notin DOMAIN log
    <3>1. log'[l].v = volume
      BY <1>3, <2>4
    <3> QED BY <1>1, <2>1, <3>1
  <2> QED BY <2>3, <2>4
<1> QED BY <1>5, <1>6

(* Content and padding are no headers.                                      *)
LEMMA ContentWrites ==
  ASSUME IInv, WriteData \/ WriteRest \/ FinishFile
  PROVE  /\ \E T \in Seq(Units) :
              /\ log' = log \o T
              /\ \A j \in 1 .. Len(T) : T[j].v = volume /\ T[j].k \in {"data", "junk", "pad"}
         /\ volume' = volume /\ remain_header' = remain_header
<1>1. FormatTypeOK /\ FileTypeOK /\ VolumeOK /\ i \in Nat /\ roff \in Nat /\ nb_read \in Nat
  BY DEF IInv, TypeOK, FormatTypeOK
<1>2. ASSUME NEW from \in Nat \cup {-1}, NEW length \in Nat, NEW r \in FormatResults(length),
             FormatWrite(Buffer(from, length), r)
      PROVE  /\ \E T \in Seq(Units) :
                  /\ log' = log \o T
                  /\ \A j \in 1 .. Len(T) :
                        T[j].v = volume /\ T[j].k \in {"data", "junk", "pad"}
             /\ volume' = volume /\ remain_header' = remain_header
  <2> DEFINE units == Buffer(from, length)
  <2>1. units \in Seq(Units) /\ Len(units) = length
    BY <1>1, <1>2, BufferUnits
  <2>2. \A j \in 1 .. length : units[j].k \in {"data", "junk"}
    BY DEF Buffer, Unit
  <2> HIDE DEF units
  <2>3. GoodResult(Len(units), r) /\ Write(units, r) /\ remain_header' = remain_header
    BY <1>1, <1>2, <2>1, FormatResult DEF FormatWrite, units
  <2>4. PICK T \in Seq(Units) : log' = log \o T /\ FrontOf(units, T)
    BY <1>1, <2>1, <2>3, Appended
  <2>5. \A j \in 1 .. Len(T) : j \in 1 .. length
    BY <1>2, <2>1, <2>4, LenProperties DEF FrontOf
  <2>6. \A j \in 1 .. Len(T) : T[j].v = volume /\ T[j].k \in {"data", "junk", "pad"}
    BY <2>2, <2>4, <2>5 DEF FrontOf
  <2> QED BY <2>3, <2>4, <2>6 DEF Write
<1>3. CASE WriteData
  <2>1. PICK r \in FormatResults(nb_read) : FormatWrite(Buffer(0, nb_read), r)
    BY <1>3 DEF WriteData
  <2> QED BY <1>1, <1>2, <2>1
<1>4. CASE WriteRest
  <2>1. PICK r \in FormatResults(nb_read - nb_write) :
          FormatWrite(Buffer(nb_write, nb_read - nb_write), r)
    BY <1>4 DEF WriteRest
  <2>2. nb_write \in Nat \cup {-1} /\ nb_read - nb_write \in Nat
    BY <1>1, <1>4 DEF WriteRest, IInv, TypeOK, Counters
  <2> QED BY <1>2, <2>1, <2>2
<1>5. CASE FinishFile
  <2> DEFINE pad == [j \in 1 .. PadLength |-> Unit("pad", 0, 0, 0, 0)]
  <2>1. PICK r \in EndOfFileResults : EndOfFile(r)
    BY <1>5 DEF FinishFile
  <2>2. PadLength \in Nat
    BY <1>1, PadLengthNat
  <2>3. pad \in [1 .. PadLength -> Units] /\ (\A j \in 1 .. PadLength : pad[j].k = "pad")
    BY DEF Unit, Units, Kind
  <2> HIDE DEF pad
  <2>4. pad \in Seq(Units) /\ Len(pad) = PadLength
    BY <2>2, <2>3, FunctionIsSeq
  <2>5. GoodResult(Len(pad), r) /\ Write(pad, r) /\ remain_header' = remain_header
    BY <1>1, <2>1, <2>4, EndOfFileResult DEF EndOfFile, pad, formatVars
  <2>6. PICK T \in Seq(Units) : log' = log \o T /\ FrontOf(pad, T)
    BY <1>1, <2>4, <2>5, Appended
  <2>7. \A j \in 1 .. Len(T) : j \in 1 .. PadLength
    BY <2>2, <2>4, <2>6, LenProperties DEF FrontOf
  <2>8. \A j \in 1 .. Len(T) : T[j].v = volume /\ T[j].k \in {"data", "junk", "pad"}
    BY <2>3, <2>6, <2>7 DEF FrontOf
  <2> QED BY <2>5, <2>6, <2>8 DEF Write
<1> QED BY <1>3, <1>4, <1>5

(* The table is only added to, and the volumes are counted up.              *)
LEMMA TableGrows ==
  ASSUME IInv, [Next]_vars
  PROVE  /\ inode \subseteq inode'
         /\ volume \in Nat \ {0} /\ volume' \in Nat /\ volume' \in {volume, volume + 1}
         /\ volume' # volume => NextVolume
         /\ cuts' \in {cuts, cuts + 1}
         /\ resizes' \in {resizes, resizes + 1} /\ (resizes' = resizes => size' = size)
<1>1. /\ volume \in Nat \ {0} /\ cuts \in Nat /\ resizes \in Nat
  BY CreateAssumption DEF IInv, TypeOK, FormatTypeOK, FileTypeOK
<1>2. CASE StartLabel
  <2>1. volume' = volume
    BY <1>2 DEF StartLabel, AddLabel, WriteHeader, Write, fileVars
  <2> QED BY <1>1, <1>2, <2>1, LabelWrites DEF StartLabel, loopVars, envVars
<1>3. CASE HardLink
  <2>1. volume' = volume /\ inode' = inode
    BY <1>3 DEF HardLink, AddLink, WriteHeader, Write, Skip, loopVars
  <2> QED BY <1>1, <1>3, <2>1, LinkWrites DEF HardLink, envVars
<1>4. CASE AddEntry
  <2>1. volume' = volume /\ inode' = inode
    BY <1>4 DEF AddEntry, AddFile, WriteHeader, Write, Skip
  <2> QED BY <1>1, <1>4, <2>1, EntryWrites DEF AddEntry, envVars
<1>5. CASE WriteData \/ WriteRest \/ FinishFile
  BY <1>1, <1>5, ContentWrites DEF WriteData, WriteRest, FinishFile, Skip, envVars
<1>6. CASE NextVolume
  BY <1>1, <1>6 DEF NextVolume, NewVolume, NewWriter, Skip, loopVars, envVars
<1>7. CASE Restart \/ RestartIgnored
  BY <1>1, <1>7 DEF Restart, RestartFile, Write, RestartIgnored, RestartFails, AfterRestart,
                    envVars
<1>8. CASE NextEntry \/ NoMoreEntries \/ StatFails \/ ReadData \/ ReadFails \/ Exit
  BY <1>1, <1>8 DEF NextEntry, NoMoreEntries, StatFails, CallFails, ReadData, ReadFails, Exit,
                    Close, Skip, fileVars, loopVars, envVars
<1>9. CASE PromptEnds \/ PromptQuits \/ BadVolume \/ Resize \/ UNCHANGED vars
  BY <1>1, <1>9 DEF PromptEnds, PromptQuits, BadVolume, Close, Resize, vars, fileVars, loopVars,
                    envVars
<1> QED BY <1>2, <1>3, <1>4, <1>5, <1>6, <1>7, <1>8, <1>9
           DEF Next, Program, Operator, Finished

(* What was true of the headers before a step that leaves them so.          *)
LEMMA ToldBack ==
  ASSUME IInv, Told, [Next]_vars, cuts' = 0, resizes' = 0
  PROVE  ToldOf /\ Same /\ cuts' = cuts
<1>1. cuts \in Nat /\ resizes \in Nat /\ volume \in Nat
  BY CreateAssumption DEF IInv, TypeOK, FormatTypeOK, FileTypeOK
<1>2. cuts = 0 /\ resizes = 0
  BY <1>1, TableGrows
<1> QED BY <1>1, <1>2, TableGrows DEF Told, Same

(* Nothing is written.                                                      *)
LEMMA ToldStill ==
  ASSUME IInv, IInv', Same, ToldOf, log' = log, remain_header' = remain_header,
         pc' = "link" => LinkedTo(i)', pc' = "restart" => volume' >= 2,
         InContent' => roff' <= StSize'
  PROVE  ToldOf'
<1>1. volume \in Nat /\ volume' \in Nat
  BY DEF IInv, TypeOK, FormatTypeOK, FileTypeOK
<1>2. AllFit(log)'
  <2> SUFFICES ASSUME NEW j \in DOMAIN log PROVE Fits(log[j])'
    BY DEF AllFit
  <2>1. PICK w : w = log[j]
    OBVIOUS
  <2>2. Fits(w)
    BY <2>1 DEF ToldOf, AllFit
  <2>3. Fits(w)'
    BY <1>1, <2>2, StillFits
  <2> QED BY <2>1, <2>3 DEF Fits, SizeOf, LinkedTo, KeyOf
<1> QED BY <1>2 DEF ToldOf, Sorted

(* A header is written that fits.                                           *)
LEMMA ToldHeader ==
  ASSUME IInv, IInv', Same, ToldOf, volume' = volume, remain_header' = <<>>,
         pc' \notin {"link", "restart"}, NEW T \in Seq(Units), log' = log \o T,
         NEW k, NEW f, NEW p, NEW s, HeaderLike(T, k, f, p, s),
         InContent' => roff' <= StSize',
         \/ k = "hdr" /\ f \in inode /\ p = 0 /\ s = SizeOf(f) /\ s >= 0
         \/ k = "cont" /\ f \in inode /\ p + s = SizeOf(f) /\ s >= 0 /\ volume >= 2
         \/ k = "link" /\ f \in 1 .. Len(Entries) /\ LinkedTo(f) /\ p = 0 /\ s = 0
         \/ k = "label" /\ f = 0 /\ s = 0
  PROVE  ToldOf'
<1>1. volume \in Nat \ {0}
  BY DEF IInv, TypeOK, FormatTypeOK, FileTypeOK
<1>2. \A j \in 1 .. Len(T) : T[j].v = volume /\ Fits(T[j])
  <2> SUFFICES ASSUME NEW j \in 1 .. Len(T) PROVE T[j].v = volume /\ Fits(T[j])
    OBVIOUS
  <2>1. T[j].v = volume /\ T[j].k = k /\ T[j].f = f /\ T[j].p = p /\ T[j].s = s
    BY DEF HeaderLike
  <2> QED BY <1>1, <2>1 DEF Fits
<1>3. AllFit(log)' /\ Sorted(log)'
  BY <1>2, ToldMore
<1> QED BY <1>3 DEF ToldOf

(* The offset stays within the file.                                        *)
LEMMA SizeStays ==
  ASSUME Same, i' = i
  PROVE  StSize' = StSize
  BY DEF Same, StSize, Entry

LEMMA SizeNat ==
  ASSUME IInv, i <= Len(Entries)
  PROVE  StSize \in Nat
<1>1. i \in 1 .. Len(Entries) /\ size \in [Inodes -> Nat]
  BY LenProperties, CreateAssumption DEF IInv, TypeOK
<1> QED BY <1>1, EntryInType

LEMMA LabelTold == IInv /\ IInv' /\ Told /\ StartLabel => Told'
<1> SUFFICES ASSUME IInv, IInv', Told, StartLabel, cuts' = 0, resizes' = 0 PROVE ToldOf'
  BY DEF Told
<1>1. ToldOf /\ Same /\ cuts' = cuts
  BY ToldBack DEF Next, Program
<1>2. PICK T \in Seq(Units) : log' = log \o T /\ HeaderLike(T, "label", 0, 0, 0)
  BY LabelWrites
<1>3. remain_header' = <<>>
  BY <1>1, LabelWrites DEF ToldOf
<1>4. volume' = volume
  BY DEF StartLabel, AddLabel, WriteHeader, Write, fileVars
<1>5. pc' \notin {"link", "restart"} /\ ~InContent'
  <2>1. CASE Label
    <3>1. PICK r \in HeaderResults(Block) : OnStatus(HeaderStatus(Block, r), "label", "next")
      BY <2>1 DEF StartLabel
    <3> QED BY <3>1, HeaderStatusType, OnStatusCases DEF IInv, TypeOK, InContent, AtVolumeEnd
  <2>2. CASE ~Label
    BY <2>2 DEF StartLabel, InContent, AtVolumeEnd
  <2> QED BY <2>1, <2>2
<1> QED BY <1>1, <1>2, <1>3, <1>4, <1>5, ToldHeader

LEMMA LinkTold == IInv /\ IInv' /\ Told /\ HardLink => Told'
<1> SUFFICES ASSUME IInv, IInv', Told, HardLink, cuts' = 0, resizes' = 0 PROVE ToldOf'
  BY DEF Told
<1>1. ToldOf /\ Same /\ cuts' = cuts
  BY ToldBack DEF Next, Program
<1>2. PICK T \in Seq(Units) : log' = log \o T /\ HeaderLike(T, "link", i, 0, 0)
  BY LinkWrites
<1>3. remain_header' = <<>>
  BY <1>1, LinkWrites DEF ToldOf
<1>4. volume' = volume
  BY DEF HardLink, AddLink, WriteHeader, Write
<1>5. pc' \notin {"link", "restart"} /\ ~InContent'
  <2>1. PICK r \in HeaderResults(Block) : OnStatus(HeaderStatus(Block, r), "link", "next")
    BY DEF HardLink
  <2> QED BY <2>1, HeaderStatusType, OnStatusCases DEF IInv, TypeOK, InContent, AtVolumeEnd
<1>6. i \in 1 .. Len(Entries) /\ LinkedTo(i)
  BY <1>1, LenProperties, CreateAssumption DEF HardLink, IInv, TypeOK, Control, ToldOf
<1> QED BY <1>1, <1>2, <1>3, <1>4, <1>5, <1>6, ToldHeader

LEMMA AddTold == IInv /\ IInv' /\ TableInv /\ Told /\ AddEntry => Told'
<1> SUFFICES ASSUME IInv, IInv', TableInv, Told, AddEntry, cuts' = 0, resizes' = 0
             PROVE  ToldOf'
  BY DEF Told
<1>1. ToldOf /\ Same /\ cuts' = cuts
  BY ToldBack DEF Next, Program
<1>2. PICK T \in Seq(Units) : log' = log \o T /\ HeaderLike(T, "hdr", i, 0, StSize)
  BY EntryWrites
<1>3. remain_header' = <<>>
  BY <1>1, EntryWrites DEF ToldOf
<1>4. volume' = volume
  BY DEF AddEntry, AddFile, WriteHeader, Write
<1>5. pc' \notin {"link", "restart"}
  <2> DEFINE length == Entry.blocks * Block
             ok == IF failed THEN "exit" ELSE AfterAdd
  <2>1. PICK r \in HeaderResults(length) : OnStatus(HeaderStatus(length, r), "add", ok)
    BY DEF AddEntry
  <2>2. ok \notin {"link", "restart"}
    BY DEF AfterAdd
  <2> HIDE DEF ok, length
  <2> QED BY <2>1, <2>2, HeaderStatusType, OnStatusCases DEF IInv, TypeOK
<1>6. i \in inode /\ StSize = SizeOf(i) /\ StSize \in Nat
  BY SizeNat DEF AddEntry, TableInv, AtHand, StSize, SizeOf, Entry, IInv, Control
<1>7. InContent' => roff' <= StSize'
  <2> SUFFICES ASSUME InContent' PROVE roff' <= StSize'
    OBVIOUS
  <2> DEFINE length == Entry.blocks * Block
             ok == IF failed THEN "exit" ELSE AfterAdd
  <2>1. PICK r \in HeaderResults(length) :
          /\ OnStatus(HeaderStatus(length, r), "add", ok)
          /\ IF HeaderStatus(length, r) = "ok" /\ ~failed /\ AfterAdd = "next"
             THEN Skip
             ELSE roff' = 0 /\ i' = i
    BY DEF AddEntry
  <2>2. ok \in {"exit", "read", "next"} /\ (ok = "next" <=> ~failed /\ AfterAdd = "next")
    BY DEF AfterAdd
  <2> HIDE DEF ok, length
  <2>3. pc' # "next"
    BY DEF InContent, AtVolumeEnd
  <2>4. roff' = 0 /\ i' = i
    BY <2>1, <2>2, <2>3, HeaderStatusType, OnStatusCases DEF IInv, TypeOK
  <2> QED BY <1>1, <1>6, <2>4, SizeStays
<1> QED BY <1>1, <1>2, <1>3, <1>4, <1>5, <1>6, <1>7, ToldHeader

LEMMA RestartTold == IInv /\ IInv' /\ TableInv /\ Told /\ Restart => Told'
<1> SUFFICES ASSUME IInv, IInv', TableInv, Told, Restart, cuts' = 0, resizes' = 0
             PROVE  ToldOf'
  BY DEF Told
<1>1. ToldOf /\ Same /\ cuts' = cuts
  BY ToldBack DEF Next, Program
<1>2. PICK T \in Seq(Units) :
         log' = log \o T /\ HeaderLike(T, "cont", i, RestartAt, StSize - RestartAt)
  BY <1>1, RestartWrites DEF ToldOf
<1>3. remain_header' = <<>> /\ volume' = volume /\ pc' \in {"write", "rest", "read"}
  BY DEF Restart, RestartFile, Write, AfterRestart
<1>4. i \in inode /\ StSize = SizeOf(i) /\ volume >= 2
  BY <1>1 DEF Restart, TableInv, AtHand, InContent, AtVolumeEnd, StSize, SizeOf, Entry, IInv,
              Control, ToldOf
<1>5. RestartAt + (StSize - RestartAt) = StSize /\ StSize - RestartAt >= 0
  <2>1. RestartAt \in Int /\ StSize \in Nat /\ InContent /\ AtVolumeEnd
    BY RestartTypes DEF Restart, InContent, AtVolumeEnd, IInv, Control
  <2>2. RestartAt <= roff /\ roff <= StSize /\ roff \in Nat
    BY <1>1, <2>1 DEF ToldOf, IInv, TypeOK, Counters, RestartAt
  <2> QED BY <2>1, <2>2
<1>6. InContent' => roff' <= StSize'
  <2>1. roff' = roff /\ i' = i /\ InContent
    BY DEF Restart, AfterRestart, InContent, AtVolumeEnd, IInv, Control
  <2> QED BY <1>1, <2>1, SizeStays DEF ToldOf
<1> QED BY <1>1, <1>2, <1>3, <1>4, <1>5, <1>6, ToldHeader

LEMMA ContentTold == IInv /\ IInv' /\ Told /\ (WriteData \/ WriteRest \/ FinishFile) => Told'
<1> SUFFICES ASSUME IInv, IInv', Told, WriteData \/ WriteRest \/ FinishFile,
                    cuts' = 0, resizes' = 0
             PROVE  ToldOf'
  BY DEF Told
<1>1. ToldOf /\ Same /\ cuts' = cuts
  BY ToldBack DEF Next, Program
<1>2. PICK T \in Seq(Units) :
        /\ log' = log \o T
        /\ \A j \in 1 .. Len(T) : T[j].v = volume /\ T[j].k \in {"data", "junk", "pad"}
  BY ContentWrites
<1>3. volume' = volume /\ remain_header' = <<>> /\ volume \in Nat \ {0}
  BY <1>1, ContentWrites DEF ToldOf, IInv, TypeOK, FormatTypeOK, FileTypeOK
<1>4. ASSUME NEW j \in 1 .. Len(T) PROVE T[j].v = volume /\ Fits(T[j])
  <2>1. T[j].v = volume /\ T[j].k \in {"data", "junk", "pad"}
    BY <1>2
  <2>2. T[j].v \in 1 .. volume
    BY <1>3, <2>1
  <2> QED BY <2>1, <2>2 DEF Fits
<1>5. AllFit(log)' /\ Sorted(log)'
  BY <1>1, <1>2, <1>3, <1>4, ToldMore
<1>6. pc' \notin {"link", "restart"}
  BY DEF WriteData, WriteRest, FinishFile
<1>7. InContent' => roff' <= StSize'
  <2> SUFFICES ASSUME InContent' PROVE roff' <= StSize'
    OBVIOUS
  <2>1. roff' = roff /\ i' = i /\ InContent
    BY DEF WriteData, WriteRest, FinishFile, InContent, AtVolumeEnd
  <2> QED BY <1>1, <2>1, SizeStays DEF ToldOf
<1> QED BY <1>3, <1>5, <1>6, <1>7 DEF ToldOf

LEMMA NextEntryTold == IInv /\ IInv' /\ TableInv /\ Told /\ NextEntry => Told'
<1> SUFFICES ASSUME IInv, IInv', TableInv, Told, NextEntry, cuts' = 0, resizes' = 0
             PROVE  ToldOf'
  BY DEF Told
<1>1. ToldOf /\ Same /\ cuts' = cuts
  BY ToldBack DEF Next, Program
<1>2. log' = log /\ remain_header' = remain_header
  BY NothingWritten
<1>3. pc' = "link" => i' = i /\ inode' = inode /\ \E j \in Known : Entries[j].name # Entry.name
  BY DEF NextEntry, loopVars
<1>4. pc' = "link" => LinkedTo(i)'
  BY <1>3 DEF LinkedTo, Known, KeyOf, Entry
<1>5. pc' # "restart" /\ ~InContent'
  BY DEF NextEntry, InContent, AtVolumeEnd
<1> QED BY <1>1, <1>2, <1>4, <1>5, ToldStill

LEMMA AsideTold ==
  IInv /\ IInv' /\ Told /\ (NoMoreEntries \/ StatFails \/ ReadData \/ ReadFails
                            \/ RestartIgnored \/ Exit \/ NextVolume \/ PromptEnds
                            \/ PromptQuits \/ BadVolume \/ Resize \/ UNCHANGED vars) => Told'
<1> SUFFICES ASSUME IInv, IInv', Told, cuts' = 0, resizes' = 0,
                    NoMoreEntries \/ StatFails \/ ReadData \/ ReadFails
                            \/ RestartIgnored \/ Exit \/ NextVolume \/ PromptEnds
                            \/ PromptQuits \/ BadVolume \/ Resize \/ UNCHANGED vars
             PROVE  ToldOf'
  BY DEF Told
<1>1. ToldOf /\ Same /\ cuts' = cuts
  BY ToldBack DEF Next, Program, Operator
<1>2. log' = log /\ remain_header' = remain_header
  BY NothingWritten
<1>3. volume \in Nat \ {0}
  BY DEF IInv, TypeOK, FormatTypeOK, FileTypeOK
<1>4. (pc' = "link" => LinkedTo(i)') /\ (pc' = "restart" => volume' >= 2)
  <2>1. CASE NoMoreEntries \/ StatFails \/ ReadData \/ ReadFails \/ RestartIgnored \/ Exit
             \/ PromptQuits \/ BadVolume
    BY <2>1 DEF NoMoreEntries, StatFails, ReadData, ReadFails, RestartIgnored, AfterRestart,
                Exit, PromptQuits, BadVolume
  <2>2. CASE NextVolume
    <3>1. back \in {"label", "link", "add", "enospc", "split"} /\ volume' = volume + 1
      BY <2>2 DEF NextVolume, NewVolume, NewWriter, IInv, TypeOK, Control
    <3>2. pc' # "link"
      BY <2>2, <3>1 DEF NextVolume, AfterAdd
    <3> QED BY <1>3, <3>1, <3>2
  <2>3. CASE PromptEnds
    <3>1. back \in {"label", "link", "add", "enospc", "split"}
      BY <2>3 DEF PromptEnds, IInv, TypeOK, Control
    <3> QED BY <2>3, <3>1 DEF PromptEnds
  <2>4. CASE Resize \/ UNCHANGED vars
    <3>1. pc' = pc /\ i' = i /\ inode' = inode /\ volume' = volume
      BY <2>4 DEF Resize, vars, loopVars, fileVars
    <3> QED BY <1>1, <3>1 DEF ToldOf, LinkedTo, KeyOf
  <2> QED BY <2>1, <2>2, <2>3, <2>4
<1>5. InContent' => roff' <= StSize'
  <2> SUFFICES ASSUME InContent' PROVE roff' <= StSize'
    OBVIOUS
  <2>1. CASE ReadData
    <3> DEFINE left == IF roff < StSize THEN StSize - roff ELSE 0
    <3>1. i' = i /\ InContent /\ i <= Len(Entries)
      BY <2>1 DEF ReadData, InContent, IInv, Control
    <3>2. roff' = roff + nb_read' /\ nb_read' <= left /\ nb_read' \in Int
      <4>1. NextPreferedSize \in Nat
        BY PreferedSizeNat DEF IInv, TypeOK, FormatTypeOK
      <4>2. left \in Nat
        BY <3>1, SizeNat DEF IInv, TypeOK
      <4> QED BY <2>1, <4>1, <4>2 DEF ReadData, Least
    <3>3. roff <= StSize /\ roff \in Nat /\ StSize \in Nat /\ StSize' = StSize
      BY <1>1, <3>1, SizeNat, SizeStays DEF ToldOf, IInv, TypeOK
    <3>4. left = StSize - roff
      BY <3>3
    <3> HIDE DEF left
    <3>5. PICK m \in Int : m = StSize
      BY <3>3
    <3>6. PICK a \in Int : a = roff
      BY <3>3
    <3>7. PICK n \in Int : n = nb_read'
      BY <3>2
    <3>8. n <= m - a
      BY <3>2, <3>4, <3>5, <3>6, <3>7
    <3>9. a + n <= m
      BY <3>8
    <3>10. roff' = a + n
      BY <3>2, <3>6, <3>7
    <3> QED BY <3>3, <3>5, <3>9, <3>10
  <2>2. CASE NextVolume
    <3>1. /\ pc = "prompt" /\ back \in {"label", "link", "add", "enospc", "split"}
          /\ back' = back
      BY <2>2 DEF NextVolume, NewVolume, NewWriter, IInv, TypeOK, Control
    <3>2. CASE back \in {"enospc", "split"}
      <4>1. roff' = roff /\ i' = i /\ InContent
        BY <2>2, <3>1, <3>2 DEF NextVolume, loopVars, InContent, AtVolumeEnd
      <4> QED BY <1>1, <4>1, SizeStays DEF ToldOf
    <3>3. CASE back = "add"
      <4>1. AfterAdd # "next" /\ i <= Len(Entries) /\ roff = 0
        BY <2>2, <3>1, <3>3 DEF NextVolume, InContent, AtVolumeEnd, IInv, Control, Counters
      <4>2. roff' = roff /\ i' = i
        BY <2>2, <3>3, <4>1 DEF NextVolume, loopVars
      <4> QED BY <1>1, <4>1, <4>2, SizeNat, SizeStays
    <3>4. CASE back \in {"label", "link"}
      BY <2>2, <3>1, <3>4 DEF NextVolume, InContent, AtVolumeEnd
    <3> QED BY <3>1, <3>2, <3>3, <3>4
  <2>3. CASE ~ReadData /\ ~NextVolume
    <3>1. roff' = roff /\ i' = i
      BY <2>3 DEF NoMoreEntries, StatFails, ReadFails, RestartIgnored, AfterRestart, Exit,
                  PromptEnds, PromptQuits, BadVolume, Resize, vars, loopVars
    <3>2. CASE RestartIgnored
      BY <1>1, <3>1, <3>2, SizeStays
         DEF ToldOf, RestartIgnored, InContent, AtVolumeEnd, IInv, Control
    <3>3. CASE PromptEnds
      <4>1. back \in {"label", "link", "add", "enospc", "split"}
        BY <3>3 DEF PromptEnds, IInv, TypeOK, Control
      <4>2. InContent
        BY <3>3, <4>1 DEF PromptEnds, InContent, AtVolumeEnd
      <4> QED BY <1>1, <3>1, <4>2, SizeStays DEF ToldOf
    <3>4. CASE NoMoreEntries \/ StatFails \/ ReadFails \/ Exit \/ PromptQuits \/ BadVolume
      BY <3>4 DEF NoMoreEntries, StatFails, ReadFails, Exit, PromptQuits, BadVolume, InContent,
                  AtVolumeEnd
    <3>5. CASE Resize \/ UNCHANGED vars
      <4>1. InContent
        BY <3>5 DEF Resize, vars, InContent, AtVolumeEnd
      <4> QED BY <1>1, <3>1, <4>1, SizeStays DEF ToldOf
    <3> QED BY <2>3, <3>2, <3>3, <3>4, <3>5
  <2> QED BY <2>1, <2>2, <2>3
<1> QED BY <1>1, <1>2, <1>4, <1>5, ToldStill

LEMMA NextTold == IInv /\ IInv' /\ TableInv /\ Told /\ [Next]_vars => Told'
  BY LabelTold, LinkTold, AddTold, RestartTold, ContentTold, NextEntryTold, AsideTold
     DEF Next, Program, Operator, Finished

----------------------------------------------------------------------------
(* While the archive is read it stays as Create left it; a file that is     *)
(* touched then is one that changed its size.                               *)

Made ==
    /\ resizes \in Nat
    /\ resizes = 0 => IInv /\ TableInv /\ Told

LEMMA Resized ==
  ASSUME Archiving, resizes \in Nat
  PROVE  resizes' \in {resizes, resizes + 1}
<1>1. CASE StartLabel \/ NextEntry \/ NoMoreEntries \/ StatFails \/ HardLink \/ AddEntry
           \/ ReadData \/ ReadFails \/ WriteData \/ Restart \/ RestartIgnored \/ WriteRest
           \/ FinishFile \/ Exit
  BY <1>1 DEF StartLabel, NextEntry, NoMoreEntries, StatFails, HardLink, AddEntry, ReadData,
              ReadFails, WriteData, Restart, RestartIgnored, AfterRestart, WriteRest,
              FinishFile, Exit, envVars
<1>2. CASE Operator \/ Resize
  BY <1>2 DEF Operator, NextVolume, PromptEnds, PromptQuits, BadVolume, Resize, envVars
<1> QED BY <1>1, <1>2 DEF Archiving, Program


LEMMA MadeSteps ==
  ASSUME [RoundTripNext]_<<vars, readVars>>, resizes \in Nat, resizes' = 0
  PROVE  [Next]_vars /\ resizes = 0
<1>1. CASE MakeArchive
  BY <1>1, Resized DEF MakeArchive, Archiving, Next
<1>2. CASE ReadArchive \/ VerifyArchive \/ Over \/ UNCHANGED <<vars, readVars>>
  <2>1. UNCHANGED vars
    BY <1>2 DEF ReadArchive, VerifyArchive, Over
  <2> QED BY <2>1 DEF vars, envVars
<1>3. CASE Touch
  BY <1>3 DEF Touch
<1> QED BY <1>1, <1>2, <1>3 DEF RoundTripNext

LEMMA InitMade == RoundTripInit => Made
<1> SUFFICES ASSUME RoundTripInit PROVE Made
  OBVIOUS
<1>1. Init /\ resizes = 0
  BY DEF RoundTripInit, Init
<1> QED BY <1>1, InitInv, InitTable, InitTold DEF Made

LEMMA NextMade == Made /\ [RoundTripNext]_<<vars, readVars>> => Made'
<1> SUFFICES ASSUME Made, [RoundTripNext]_<<vars, readVars>> PROVE Made'
  OBVIOUS
<1>1. resizes' \in Nat
  <2>1. CASE MakeArchive
    BY <2>1, Resized DEF MakeArchive, Made
  <2>2. CASE ReadArchive \/ VerifyArchive \/ Over \/ UNCHANGED <<vars, readVars>>
    BY <2>2 DEF ReadArchive, VerifyArchive, Over, vars, envVars, Made
  <2>3. CASE Touch
    BY <2>3 DEF Touch, Made
  <2> QED BY <2>1, <2>2, <2>3 DEF RoundTripNext
<1>2. CASE resizes' = 0
  <2>1. [Next]_vars /\ IInv /\ TableInv /\ Told
    BY <1>2, MadeSteps DEF Made
  <2>2. IInv' /\ TableInv'
    BY <2>1, NextInv, NextTable
  <2>3. Told'
    BY <2>1, <2>2, NextTold
  <2> QED BY <1>1, <2>2, <2>3 DEF Made
<1>3. CASE resizes' # 0
  BY <1>1, <1>3 DEF Made
<1> QED BY <1>2, <1>3

LEMMA MadeHolds == RoundTripSpec => []Made
  BY InitMade, NextMade, PTL DEF RoundTripSpec

----------------------------------------------------------------------------
(* The volumes, as parts of the log.                                        *)

InFront(v) == {j \in DOMAIN log : log[j].v < v}

LEMMA UnitNumbers ==
  ASSUME log \in Seq(Units)
  PROVE  \A j \in DOMAIN log : /\ log[j] \in Units /\ log[j].v \in Nat /\ log[j].f \in Nat
                                /\ log[j].o \in Int /\ log[j].p \in Int /\ log[j].s \in Int
<1>1. \A j \in DOMAIN log : log[j] \in Units
  BY ElementOfSeq, LenProperties
<1>2. \A u \in Units : /\ u.v \in Nat /\ u.f \in Nat /\ u.o \in Int /\ u.p \in Int
                       /\ u.s \in Int
  BY DEF Units
<1> QED BY <1>1, <1>2

LEMMA AheadType ==
  ASSUME log \in Seq(Units), NEW v \in Nat, NEW w \in Nat, v <= w
  PROVE  /\ Len(log) \in Nat /\ DOMAIN log = 1 .. Len(log)
         /\ Ahead(v) \in 0 .. Len(log) /\ Ahead(w) \in 0 .. Len(log)
         /\ Ahead(v) <= Ahead(w)
         /\ IsFiniteSet(InFront(v)) /\ Ahead(v) = Cardinality(InFront(v))
<1>1. Len(log) \in Nat /\ DOMAIN log = 1 .. Len(log)
  BY LenProperties
<1>2. IsFiniteSet(1 .. Len(log)) /\ Cardinality(1 .. Len(log)) = Len(log)
  BY <1>1, FS_Interval
<1>3. \A u \in Nat : InFront(u) \in SUBSET (1 .. Len(log))
  BY <1>1 DEF InFront
<1>4. \A u \in Nat : IsFiniteSet(InFront(u)) /\ Cardinality(InFront(u)) <= Len(log)
  BY <1>2, <1>3, FS_Subset
<1>5. \A u \in Nat : Cardinality(InFront(u)) \in Nat
  BY <1>4, FS_CardinalityType
<1>6. \A u \in Nat : Ahead(u) = Cardinality(InFront(u))
  BY DEF Ahead, InFront
<1>7. InFront(v) \in SUBSET InFront(w)
  <2> SUFFICES ASSUME NEW j \in DOMAIN log, log[j].v < v PROVE log[j].v < w
    BY DEF InFront
  <2>1. log[j].v \in Nat
    BY UnitNumbers
  <2> QED BY <2>1
<1>8. Cardinality(InFront(v)) <= Cardinality(InFront(w))
  BY <1>4, <1>7, FS_Subset
<1> QED BY <1>1, <1>4, <1>5, <1>6, <1>8

LEMMA VolumeUnits ==
  ASSUME log \in Seq(Units), volume \in Nat, NEW v \in 1 .. volume
  PROVE  /\ Volumes[v] \in Seq(Units)
         /\ Len(Volumes[v]) = Ahead(v + 1) - Ahead(v) /\ Len(Volumes[v]) \in Nat
         /\ \A k \in 1 .. Len(Volumes[v]) : /\ Ahead(v) + k \in DOMAIN log
                                            /\ Volumes[v][k] = log[Ahead(v) + k]
<1>1. v \in Nat /\ v + 1 \in Nat /\ v <= v + 1
  OBVIOUS
<1>2. /\ Len(log) \in Nat /\ DOMAIN log = 1 .. Len(log)
      /\ Ahead(v) \in 0 .. Len(log) /\ Ahead(v + 1) \in 0 .. Len(log)
      /\ Ahead(v) <= Ahead(v + 1)
  BY <1>1, AheadType
<1>3. PICK a \in Nat, b \in Nat : a = Ahead(v) /\ b = Ahead(v + 1)
  BY <1>2
<1>4. Volumes[v] = SubSeq(log, a + 1, b)
  BY <1>3 DEF Volumes
<1>5. a <= b /\ b <= Len(log)
  BY <1>2, <1>3
<1>6. \A j \in a + 1 .. b : j \in 1 .. Len(log)
  BY <1>2, <1>5
<1>7. SubSeq(log, a + 1, b) \in Seq(Units)
  BY <1>2, <1>6, SubSeqProperties
<1>8. Len(SubSeq(log, a + 1, b)) = b - a
  BY <1>2, <1>5, <1>6, SubSeqProperties
<1>9. \A k \in 1 .. b - a : SubSeq(log, a + 1, b)[k] = log[a + k] /\ a + k \in 1 .. Len(log)
  BY <1>2, <1>5, <1>6, SubSeqProperties
<1>10. b - a \in Nat
  BY <1>5
<1> QED BY <1>2, <1>3, <1>4, <1>7, <1>8, <1>9, <1>10

LEMMA Downward ==
  ASSUME NEW S, IsFiniteSet(S), \A a \in S : a \in Nat \ {0} /\ 1 .. a \subseteq S
  PROVE  S = 1 .. Cardinality(S)
<1>1. Cardinality(S) \in Nat
  BY FS_CardinalityType
<1>2. \A a \in S : a <= Cardinality(S)
  <2> SUFFICES ASSUME NEW a \in S PROVE a <= Cardinality(S)
    OBVIOUS
  <2>1. a \in Nat \ {0} /\ 1 .. a \in SUBSET S
    OBVIOUS
  <2>2. Cardinality(1 .. a) <= Cardinality(S)
    BY <2>1, FS_Subset
  <2>3. Cardinality(1 .. a) = a
    BY <2>1, FS_Interval
  <2> QED BY <2>2, <2>3
<1>3. S \in SUBSET (1 .. Cardinality(S))
  BY <1>1, <1>2
<1>4. IsFiniteSet(1 .. Cardinality(S)) /\ Cardinality(1 .. Cardinality(S)) = Cardinality(S)
  BY <1>1, FS_Interval
<1> QED BY <1>3, <1>4, FS_Subset

LEMMA FrontIs ==
  ASSUME log \in Seq(Units), Sorted(log), NEW v \in Nat
  PROVE  \A j \in DOMAIN log : j <= Ahead(v) <=> log[j].v < v
<1>1. /\ Len(log) \in Nat /\ DOMAIN log = 1 .. Len(log)
      /\ IsFiniteSet(InFront(v)) /\ Ahead(v) = Cardinality(InFront(v))
      /\ Ahead(v) \in Nat
  BY AheadType
<1>2. ASSUME NEW a \in InFront(v)
      PROVE  a \in Nat \ {0} /\ 1 .. a \subseteq InFront(v)
  <2>1. a \in 1 .. Len(log) /\ log[a].v < v
    BY <1>1 DEF InFront
  <2>2. ASSUME NEW b \in 1 .. a PROVE b \in InFront(v)
    <3>1. b \in DOMAIN log /\ a \in DOMAIN log /\ b <= a
      BY <1>1, <2>1
    <3>2. log[b].v <= log[a].v
      BY <3>1 DEF Sorted
    <3>3. log[b].v \in Nat /\ log[a].v \in Nat
      BY <3>1, UnitNumbers
    <3> QED BY <2>1, <3>1, <3>2, <3>3 DEF InFront
  <2> QED BY <2>1, <2>2
<1>3. InFront(v) = 1 .. Ahead(v)
  BY <1>1, <1>2, Downward
<1> QED BY <1>1, <1>3 DEF InFront

(* What is found on a volume was written on it.                             *)
LEMMA VolumeIs ==
  ASSUME log \in Seq(Units), volume \in Nat, Sorted(log), NEW v \in 1 .. volume,
         NEW k \in 1 .. Len(Volumes[v])
  PROVE  Volumes[v][k].v = v
<1>1. /\ Volumes[v][k] = log[Ahead(v) + k] /\ Ahead(v) + k \in DOMAIN log
      /\ Len(Volumes[v]) = Ahead(v + 1) - Ahead(v) /\ v \in Nat /\ v + 1 \in Nat
  BY VolumeUnits
<1>2. Ahead(v) \in Nat /\ Ahead(v + 1) \in Nat
  BY <1>1, AheadType
<1>3. ~(Ahead(v) + k <= Ahead(v)) /\ Ahead(v) + k <= Ahead(v + 1)
  BY <1>1, <1>2
<1>4. ~(log[Ahead(v) + k].v < v) /\ log[Ahead(v) + k].v < v + 1
  BY <1>1, <1>3, FrontIs
<1>5. log[Ahead(v) + k].v \in Nat
  BY <1>1, UnitNumbers
<1> QED BY <1>1, <1>4, <1>5

----------------------------------------------------------------------------
(* The reader and the loop that copies a file. *)

Busy == rpc \in {"unlink", "restore", "data", "write", "sub"} \/ (rpc = "prompt" /\ rback = "data")

ReaderOK ==
    /\ io \in 1 .. volume
    /\ at \in Nat
    /\ file_size \in Nat
    /\ skip_size \in Nat
    /\ file_size <= skip_size

(* The header at hand is one of the archive's, and what is expected of its  *)
(* file is what the reader has left of it, as long as it is its own.        *)
Restoring ==
    /\ function \in {"extract", "list"}
    /\ ReaderOK
    /\ Busy => /\ pc = "done" /\ cuts = 0
               /\ header.k \in {"hdr", "cont", "link"}
               /\ \E j \in DOMAIN log : header = log[j]
    /\ rpc \in {"unlink", "restore"} => file_size = header.s
    /\ Busy /\ rpc \notin {"unlink", "restore"} => total \in Int
    /\ Busy /\ rpc \notin {"unlink", "restore", "data"} => header.k # "link"
    /\ rpc = "data" /\ header.k = "link" => total = 0
    /\ rpc \in {"data", "write"} /\ header.k # "cont" /\ ~misled => total + file_size = header.s

RestoreInv == resizes = 0 /\ function # "verify" => Restoring

LEMMA InitRestoring == RoundTripInit => RestoreInv
<1> SUFFICES ASSUME RoundTripInit, function # "verify" PROVE Restoring
  BY DEF RestoreInv
<1>1. Init /\ R!RestoreInit
  BY DEF RoundTripInit, RestoreStarts, VerifyStarts
<1>2. volume = 1 /\ io = 1 /\ at = 0 /\ file_size = 0 /\ skip_size = 0 /\ rpc = "header"
      /\ function \in {"extract", "list"}
  BY <1>1 DEF Init, FileInit, R!RestoreInit, R!ReaderInit
<1> QED BY <1>2 DEF Restoring, ReaderOK, Busy

LEMMA NoMoreArchiving == pc = "done" => ~Archiving
  BY DEF Archiving, Program, Operator, StartLabel, NextEntry, NoMoreEntries, StatFails, HardLink,
         AddEntry, ReadData, ReadFails, WriteData, Restart, RestartIgnored, WriteRest, FinishFile,
         Exit, NextVolume, PromptEnds, PromptQuits, BadVolume, Resize

LEMMA MakeRestoring ==
  ASSUME IInv, Restoring, MakeArchive, [Next]_vars
  PROVE  Restoring'
<1>1. UNCHANGED readVars /\ volume \in Nat /\ volume' \in {volume, volume + 1}
  BY TableGrows DEF MakeArchive
<1>2. ~Busy
  BY NoMoreArchiving DEF MakeArchive, Restoring
<1>3. ~Busy'
  BY <1>1, <1>2 DEF readVars, Busy
<1>4. ReaderOK'
  BY <1>1 DEF Restoring, ReaderOK, readVars
<1>5. rpc' \notin {"unlink", "restore", "data", "write"} /\ function' = function
  BY <1>1, <1>3 DEF Busy, readVars
<1> QED BY <1>3, <1>4, <1>5 DEF Restoring

(* What is known of the archive whenever a step of extract is taken.        *)
Readable ==
    /\ log \in Seq(Units) /\ volume \in Nat
    /\ inode \subseteq 1 .. Len(Entries)
    /\ \A d, e \in inode : KeyOf(d) = KeyOf(e) => d = e
    /\ AllFit(log) /\ Sorted(log)
    /\ pc = "done" /\ cuts = 0 /\ size \in [Inodes -> Nat]

LEMMA MadeReadable ==
  ASSUME Made, resizes = 0, ReadArchive
  PROVE  Readable /\ UNCHANGED vars /\ R!RestoreNext
  BY DEF Made, ReadArchive, Readable, IInv, TypeOK, FormatTypeOK, FileTypeOK, TableInv, Told,
         ToldOf

(* The unit at hand is one of the archive's.                                *)
LEMMA HereIs ==
  ASSUME Readable, ReaderOK
  PROVE  /\ R!Left \in Nat /\ R!Volume \in Seq(Units) /\ Len(R!Volume) \in Nat
         /\ R!Left > 0 => /\ Ahead(io) + at + 1 \in DOMAIN log
                          /\ R!Here = log[Ahead(io) + at + 1]
                          /\ R!Here \in Units /\ Fits(R!Here) /\ R!Here.v = io
<1>1. /\ io \in 1 .. volume /\ io \in Nat /\ at \in Nat /\ log \in Seq(Units) /\ volume \in Nat
      /\ Sorted(log)
  BY DEF Readable, ReaderOK
<1>2. R!Volume = Volumes[io] /\ R!Here = Volumes[io][at + 1]
  BY DEF R!Volume, R!Here
<1>3. /\ Volumes[io] \in Seq(Units) /\ Len(Volumes[io]) \in Nat
      /\ \A k \in 1 .. Len(Volumes[io]) : /\ Ahead(io) + k \in DOMAIN log
                                          /\ Volumes[io][k] = log[Ahead(io) + k]
  BY <1>1, VolumeUnits
<1>4. R!Left = IF at < Len(Volumes[io]) THEN Len(Volumes[io]) - at ELSE 0
  BY <1>2 DEF R!Left
<1>5. ASSUME R!Left > 0
      PROVE  /\ Ahead(io) + at + 1 \in DOMAIN log
             /\ R!Here = log[Ahead(io) + at + 1]
             /\ R!Here \in Units /\ Fits(R!Here) /\ R!Here.v = io
  <2>1. at + 1 \in 1 .. Len(Volumes[io])
    BY <1>1, <1>3, <1>4, <1>5
  <2>2. Ahead(io) \in Nat
    BY <1>1, AheadType
  <2>3. Ahead(io) + (at + 1) \in DOMAIN log /\ R!Here = log[Ahead(io) + (at + 1)]
    BY <1>2, <1>3, <2>1
  <2>4. Ahead(io) + (at + 1) = Ahead(io) + at + 1
    BY <1>1, <2>2
  <2>5. R!Here.v = io
    BY <1>1, <1>2, <2>1, VolumeIs
  <2>6. Fits(R!Here) /\ R!Here \in Units
    BY <1>1, <2>3, UnitNumbers DEF Readable, AllFit
  <2> QED BY <2>3, <2>4, <2>5, <2>6
<1> QED BY <1>1, <1>2, <1>3, <1>4, <1>5

(* A header that is whole: how long it is and what it says.                 *)
LEMMA HeaderHere ==
  ASSUME Readable, ReaderOK, R!Left > 0, R!IsHeader(R!Here)
  PROVE  /\ R!Here.k \in {"hdr", "cont", "link", "label"}
         /\ R!Here.s \in Nat /\ R!HeaderLength(R!Here) \in Nat
         /\ R!Here.f = 0 \/ R!Here.f \in 1 .. Len(Entries)
<1>1. Fits(R!Here) /\ R!Here \in Units
  BY HereIs
<1>2. R!Here.k \in {"hdr", "cont", "link", "label"}
  BY DEF R!IsHeader
<1>3. R!Here.s \in Int
  BY <1>1 DEF Units
<1>4. R!Here.s \in Nat
  BY <1>1, <1>2, <1>3 DEF Fits
<1>5. R!Here.f = 0 \/ R!Here.f \in 1 .. Len(Entries)
  BY <1>1, <1>2 DEF Fits, Readable
<1>6. R!HeaderLength(R!Here) \in Nat
  <2>1. CASE R!Here.k = "hdr"
    <3>1. R!Here.f \in 1 .. Len(Entries)
      BY <1>1, <2>1 DEF Fits, Readable
    <3>2. Entries[R!Here.f] \in EntryType
      BY <3>1, ElementOfSeq, CreateAssumption
    <3>3. Entries[R!Here.f].blocks \in Nat
      BY <3>2 DEF EntryType
    <3>4. Entries[R!Here.f].blocks * Block \in Nat
      BY <3>3, ProductNat, FileAssumption
    <3> QED BY <2>1, <3>4 DEF R!HeaderLength
  <2>2. CASE R!Here.k # "hdr"
    BY <2>2, FileAssumption DEF R!HeaderLength
  <2> QED BY <2>1, <2>2
<1> QED BY <1>2, <1>4, <1>5, <1>6

LEMMA SkipSizeType ==
  ASSUME NEW n \in Nat
  PROVE  R!SkipSize(n) \in Nat /\ n <= R!SkipSize(n)
<1>1. n % Block \in 0 .. Block - 1
  BY ModRange, FileAssumption
<1> QED BY <1>1, FileAssumption DEF R!SkipSize

LEMMA ForwardType ==
  ASSUME Readable, ReaderOK, NEW a \in Nat, NEW b \in Nat
  PROVE  R!ForwardTo(a, b) \in Nat
  BY HereIs DEF R!ForwardTo

(* What the calls on the reader do to it.                                   *)
LEMMA GetHeaderOK ==
  ASSUME Readable, ReaderOK, volume' = volume, NEW result \in R!HeaderResults, R!GetHeader(result)
  PROVE  /\ ReaderOK'
         /\ result \in {"ok", "not_found", "bad_checksum", "bad_header", "fault"}
         /\ result = "ok" => /\ R!Left > 0 /\ R!IsHeader(R!Here)
                             /\ R!HeaderLength(R!Here) <= R!Left
                             /\ file_size' = R!Here.s
                             /\ at' = at + R!HeaderLength(R!Here) /\ io' = io
<1>1. R!Left \in Nat
  BY HereIs
<1>2. /\ result \in {"ok", "not_found", "bad_checksum", "bad_header", "fault"}
      /\ result = "ok" => /\ R!Left > 0 /\ R!IsHeader(R!Here)
                          /\ R!HeaderLength(R!Here) <= R!Left
  BY <1>1 DEF R!HeaderResults
<1>3. CASE result = "ok"
  <2>1. R!Here.s \in Nat /\ R!HeaderLength(R!Here) \in Nat
    BY <1>2, <1>3, HeaderHere
  <2>2. /\ at' = at + R!HeaderLength(R!Here) /\ file_size' = R!Here.s
        /\ skip_size' = R!SkipSize(R!Here.s) /\ io' = io
    BY <1>3 DEF R!GetHeader, R!ContentSize
  <2>3. skip_size' \in Nat /\ file_size' <= skip_size'
    BY <2>1, <2>2, SkipSizeType
  <2>4. ReaderOK'
    BY <2>1, <2>2, <2>3 DEF ReaderOK
  <2> QED BY <1>2, <2>2, <2>4
<1>4. CASE result # "ok"
  <2>1. io' = io /\ at' = at /\ file_size' = file_size /\ skip_size' = skip_size
    BY <1>4 DEF R!GetHeader
  <2>2. ReaderOK'
    BY <2>1 DEF ReaderOK
  <2> QED BY <1>2, <1>4, <2>2
<1> QED BY <1>3, <1>4

LEMMA SkipFileOK ==
  ASSUME Readable, ReaderOK, volume' = volume, NEW result, R!SkipFile(result)
  PROVE  ReaderOK'
<1>1. R!ForwardTo(at, skip_size) \in Nat
  BY ForwardType DEF ReaderOK
<1>2. /\ io' = io /\ at' \in Nat
      /\ \/ file_size' = 0 /\ skip_size' = 0
         \/ file_size' = file_size /\ skip_size' = skip_size
  BY <1>1 DEF R!SkipFile, ReaderOK
<1> QED BY <1>2 DEF ReaderOK

LEMMA ReadKeeps ==
  ASSUME Readable, ReaderOK, volume' = volume, NEW r \in R!ReadResults(BufferSize), R!Read(r)
  PROVE  /\ ReaderOK'
         /\ r.n \in Int /\ R!Taken(r) \in Nat
         /\ file_size' = file_size - R!Taken(r)
         /\ R!Taken(r) <= file_size /\ R!Taken(r) <= R!Left
         /\ io' = io
<1>1. R!Left \in Nat
  BY HereIs
<1>2. R!AtMost(BufferSize) \in Nat /\ R!AtMost(BufferSize) <= file_size
      /\ R!AtMost(BufferSize) <= R!Left
  BY <1>1, RoundTripAssumption DEF R!AtMost, R!Fewer, ReaderOK
<1>3. r.n \in Int /\ r.n <= file_size /\ r.n <= R!Left /\ file_size \in Nat
  BY <1>1, <1>2 DEF R!ReadResults, ReaderOK
<1>4. R!Taken(r) \in Nat /\ R!Taken(r) <= file_size /\ R!Taken(r) <= R!Left
  BY <1>1, <1>3 DEF R!Taken
<1>5. PICK t \in Nat : t = R!Taken(r) /\ t <= file_size
  BY <1>4
<1>6. file_size' = file_size - t /\ io' = io
  BY <1>5 DEF R!Read
<1>7. PICK left \in Nat : left = skip_size - t
  <2>1. skip_size - t \in Nat
    BY <1>5 DEF ReaderOK
  <2> QED BY <2>1
<1>8. R!ForwardTo(at + t, left) \in Nat /\ at + t \in Nat
  <2>1. at + t \in Nat
    BY <1>5 DEF ReaderOK
  <2> QED BY <1>7, <2>1, ForwardType
<1>9. at' \in Nat
  BY <1>5, <1>7, <1>8 DEF R!Read
<1>10. skip_size' \in {0, left} /\ (skip_size' = 0 => file_size' = 0 \/ left = 0)
  <2>1. skip_size' = left \/ (skip_size' = 0 /\ file_size' = 0)
    BY <1>5, <1>7, Zenon DEF R!Read
  <2> QED BY <2>1
<1>11. file_size' \in Nat /\ file_size' <= left
  BY <1>5, <1>6, <1>7 DEF ReaderOK
<1>12. ReaderOK'
  BY <1>6, <1>9, <1>10, <1>11 DEF ReaderOK
<1> QED BY <1>3, <1>4, <1>5, <1>6, <1>12

(* The loop over the headers.                                               *)
LEMMA NextHeaderRestoring ==
  ASSUME Readable, Restoring, UNCHANGED vars, R!NextHeader
  PROVE  Restoring'
<1>1. /\ ReaderOK /\ volume' = volume /\ function' = function /\ total' = total
      /\ function \in {"extract", "list"} /\ pc' = pc /\ cuts' = cuts /\ log' = log
  BY DEF Restoring, vars, fileVars, R!NextHeader, R!options
<1>2. PICK result \in R!HeaderResults :
        /\ R!GetHeader(result)
        /\ result = "ok" => header' = R!Here /\ rpc' = R!AfterHeader(R!Here)
        /\ result # "ok" => rpc' = "done"
  <2>1. PICK result \in R!HeaderResults :
          /\ R!GetHeader(result)
          /\ CASE result = "ok" ->
                    /\ header' = R!Here
                    /\ rpc' = R!AfterHeader(R!Here)
                    /\ shown' = IF R!Name(R!Here) \in wanted THEN Append(shown, R!Here)
                                ELSE shown
                    /\ UNCHANGED rfailed
               [] result = "not_found" -> R!Ends(0) /\ UNCHANGED <<header, shown>>
               [] result = "bad_checksum" -> R!Ends(3) /\ UNCHANGED <<header, shown>>
               [] result \in {"bad_header", "fault"} ->
                    R!Ends(4) /\ UNCHANGED <<header, shown>>
    BY DEF R!NextHeader
  <2>2. result \in {"ok", "not_found", "bad_checksum", "bad_header", "fault"}
    BY <1>1, <2>1, GetHeaderOK
  <2> QED BY <2>1, <2>2 DEF R!Ends
<1>3. /\ ReaderOK'
      /\ result = "ok" => R!Left > 0 /\ R!IsHeader(R!Here) /\ file_size' = R!Here.s
  BY <1>1, <1>2, GetHeaderOK
<1>4. CASE result = "ok"
  <2>1. rpc' \in {"skip", "header", "unlink", "restore"}
        /\ (rpc' \in {"unlink", "restore"} => R!Here.k # "label")
    BY <1>1, <1>2, <1>4 DEF R!AfterHeader
  <2>2. R!Here.k \in {"hdr", "cont", "link", "label"}
    BY <1>1, <1>3, <1>4, HeaderHere
  <2>3. \E j \in DOMAIN log : R!Here = log[j]
    BY <1>1, <1>3, <1>4, HereIs
  <2>4. Busy' => rpc' \in {"unlink", "restore"}
    BY <2>1 DEF Busy
  <2> QED BY <1>1, <1>2, <1>3, <1>4, <2>1, <2>2, <2>3, <2>4 DEF Restoring, Readable
<1>5. CASE result # "ok"
  BY <1>1, <1>2, <1>3, <1>5 DEF Restoring, Busy
<1> QED BY <1>4, <1>5

LEMMA SkipRestoring ==
  ASSUME Readable, Restoring, UNCHANGED vars, R!Skip
  PROVE  Restoring'
<1>1. ReaderOK /\ volume' = volume /\ function' = function /\ function \in {"extract", "list"}
  BY DEF Restoring, vars, fileVars, R!Skip, R!options
<1>2. PICK result \in R!SkipResults :
        /\ R!SkipFile(result)
        /\ CASE result = "ok" -> rpc' = "header" /\ UNCHANGED <<rfailed, rback>>
             [] result = "end_of_tape" ->
                  rpc' = "prompt" /\ rback' = "skip" /\ UNCHANGED rfailed
             [] result = "error" -> R!Ends(2) /\ UNCHANGED rback
  BY DEF R!Skip
<1>3. result \in {"ok", "end_of_tape", "error"}
  BY DEF R!SkipResults
<1>4. ReaderOK'
  BY <1>1, <1>2, SkipFileOK
<1>5. ~Busy' /\ rpc' \in {"header", "prompt", "done"}
  BY <1>2, <1>3 DEF Busy, R!Ends
<1> QED BY <1>1, <1>4, <1>5 DEF Restoring

(* Putting an entry into the file system.                                   *)
LEMMA FilesRestoring ==
  ASSUME Readable, Restoring, UNCHANGED vars,
         R!UnlinkFirst \/ R!OpenFile \/ R!OpenFails \/ R!MakeNode \/ R!CloseFile
  PROVE  Restoring'
<1>1. /\ ReaderOK' /\ file_size' = file_size /\ header' = header /\ function' = function
      /\ log' = log /\ pc' = pc /\ cuts' = cuts
  BY DEF Restoring, ReaderOK, vars, fileVars, R!UnlinkFirst, R!OpenFile, R!OpenFails, R!MakeNode,
         R!CloseFile, R!options, R!readerVars
<1>2. CASE R!UnlinkFirst
  <2>1. rpc = "unlink" /\ rpc' = "restore"
    BY <1>2 DEF R!UnlinkFirst
  <2> QED BY <1>1, <2>1 DEF Restoring, Busy
<1>3. CASE R!OpenFile
  <2>1. rpc = "restore" /\ (rpc' = "done" \/ (rpc' = "data" /\ total' = header.p))
    BY <1>3 DEF R!OpenFile, R!Ends
  <2>2. /\ header.k \in {"hdr", "cont", "link"} /\ file_size = header.s
        /\ \E j \in DOMAIN log : header = log[j]
    BY <2>1 DEF Restoring, Busy
  <2>3. Fits(header) /\ header.p \in Int /\ header.s \in Int
    BY <2>2, UnitNumbers DEF Readable, AllFit
  <2>4. header.k # "cont" => header.p = 0
    BY <2>2, <2>3 DEF Fits
  <2>5. CASE rpc' = "done"
    BY <1>1, <2>5 DEF Restoring, Busy
  <2>6. CASE rpc' = "data"
    <3>1. total' = header.p /\ total' \in Int
      BY <2>1, <2>3, <2>6
    <3>2. header.k # "cont" => total' = 0 /\ total' + file_size' = header.s
      BY <1>1, <2>2, <2>3, <2>4, <3>1
    <3> QED BY <1>1, <2>1, <2>6, <3>1, <3>2 DEF Restoring, Busy
  <2> QED BY <2>1, <2>5, <2>6
<1>4. CASE R!OpenFails \/ R!MakeNode \/ R!CloseFile
  <2>1. rpc' \in {"header", "done"}
    BY <1>4 DEF R!OpenFails, R!MakeNode, R!CloseFile, R!Ends
  <2> QED BY <1>1, <2>1 DEF Restoring, Busy
<1> QED BY <1>2, <1>3, <1>4

LEMMA ContentRestoring ==
  ASSUME Readable, Restoring, UNCHANGED vars, R!ReadContent \/ R!WriteContent
  PROVE  Restoring'
<1>1. /\ ReaderOK /\ volume' = volume /\ function' = function /\ function \in {"extract", "list"}
      /\ header' = header /\ log' = log /\ pc' = pc /\ cuts' = cuts /\ misled' = misled
  BY DEF Restoring, vars, fileVars, R!ReadContent, R!WriteContent, R!options
<1>2. CASE R!ReadContent
  <2>1. PICK r \in R!ReadResults(BufferSize) :
          /\ R!Read(r)
          /\ total' = total + R!Taken(r)
          /\ rpc' = IF r.n > 0 THEN "write" ELSE IF r.n = 0 THEN "prompt" ELSE rpc
    BY <1>2 DEF R!ReadContent
  <2>2. /\ ReaderOK' /\ r.n \in Int /\ R!Taken(r) \in Nat
        /\ file_size' = file_size - R!Taken(r)
    BY <1>1, <2>1, ReadKeeps
  <2>3. rpc = "data" /\ total < header.s
    BY <1>2 DEF R!ReadContent, R!More
  <2>4. /\ header.k \in {"hdr", "cont", "link"} /\ \E j \in DOMAIN log : header = log[j]
        /\ total \in Int /\ (header.k = "link" => total = 0)
        /\ header.k # "cont" /\ ~misled => total + file_size = header.s
    BY <2>3 DEF Restoring, Busy
  <2>5. Fits(header)
    BY <2>4 DEF Readable, AllFit
  <2>6. header.k # "link"
    BY <2>3, <2>4, <2>5 DEF Fits
  <2>7. PICK t \in Nat : t = R!Taken(r) /\ total' = total + t /\ file_size' = file_size - t
    BY <2>1, <2>2
  <2>8. file_size \in Int
    BY <1>1 DEF ReaderOK
  <2>9. total' \in Int /\ (header.k # "cont" /\ ~misled => total' + file_size' = header.s)
    BY <2>4, <2>7, <2>8
  <2>10. rpc' \in {"data", "write", "prompt"}
    BY <2>1, <2>3
  <2> QED BY <1>1, <2>2, <2>3, <2>4, <2>6, <2>9, <2>10 DEF Restoring, Readable
<1>3. CASE R!WriteContent
  <2>1. /\ rpc = "write" /\ rpc' = "data" /\ total' = total /\ file_size' = file_size
        /\ io' = io /\ at' = at /\ skip_size' = skip_size
    BY <1>3 DEF R!WriteContent
  <2>2. ReaderOK'
    BY <1>1, <2>1 DEF ReaderOK
  <2> QED BY <1>1, <2>1, <2>2 DEF Restoring, Busy
<1> QED BY <1>2, <1>3

(* All headers of one file announce the same end of it.                     *)
LEMMA OneFile ==
  ASSUME NamesTell, Readable, NEW j \in DOMAIN log, NEW l \in DOMAIN log,
         log[j].k \in {"hdr", "cont"}, log[l].k \in {"hdr", "cont", "link"},
         Entries[log[l].f].name = Entries[log[j].f].name
  PROVE  /\ log[l].k # "link" /\ log[l].f = log[j].f /\ log[j].f \in inode
         /\ log[l].p + log[l].s = log[j].p + log[j].s
<1>1. Fits(log[j]) /\ Fits(log[l]) /\ inode \subseteq 1 .. Len(Entries)
      /\ log[j].s \in Int /\ log[l].s \in Int /\ log[j].p \in Int /\ log[l].p \in Int
  BY UnitNumbers DEF Readable, AllFit
<1>2. \A u : /\ Fits(u) /\ u.s \in Int /\ u.k \in {"hdr", "cont"}
             => u.f \in inode /\ u.p + u.s = SizeOf(u.f)
  <2> SUFFICES ASSUME NEW u, Fits(u), u.s \in Int, u.k \in {"hdr", "cont"}
               PROVE  u.f \in inode /\ u.p + u.s = SizeOf(u.f)
    OBVIOUS
  <2>1. CASE u.k = "hdr"
    BY <2>1 DEF Fits
  <2>2. CASE u.k = "cont"
    BY <2>2 DEF Fits
  <2> QED BY <2>1, <2>2
<1>3. log[j].f \in inode /\ log[j].f \in 1 .. Len(Entries)
      /\ log[j].p + log[j].s = SizeOf(log[j].f)
  BY <1>1, <1>2
<1>4. log[l].f \in 1 .. Len(Entries)
  BY <1>1 DEF Fits
<1>5. KeyOf(log[l].f) = KeyOf(log[j].f)
  BY <1>3, <1>4 DEF NamesTell
<1>6. log[l].k # "link"
  <2> SUFFICES ASSUME log[l].k = "link" PROVE FALSE
    OBVIOUS
  <2>1. PICK d \in inode : /\ KeyOf(d) = KeyOf(log[l].f)
                           /\ Entries[d].name # Entries[log[l].f].name
    BY <1>1 DEF Fits, LinkedTo
  <2>2. d = log[j].f
    BY <1>3, <1>5, <2>1 DEF Readable
  <2> QED BY <2>1, <2>2
<1>7. log[l].f \in inode /\ log[l].p + log[l].s = SizeOf(log[l].f)
  BY <1>1, <1>2, <1>6
<1>8. log[l].f = log[j].f
  BY <1>3, <1>5, <1>7 DEF Readable
<1> QED BY <1>3, <1>6, <1>7, <1>8

LEMMA OneName ==
  ASSUME NamesTell, Readable, NEW j \in DOMAIN log, NEW l \in DOMAIN log,
         log[j].k = "hdr", log[l].k \in {"hdr", "cont", "link"},
         Entries[log[l].f].name = Entries[log[j].f].name
  PROVE  /\ log[l].k # "link" /\ log[l].f = log[j].f
         /\ log[l].p + log[l].s = log[j].s
<1>1. log[j].p = 0 /\ log[j].s \in Int
  BY UnitNumbers DEF Readable, AllFit, Fits
<1> QED BY <1>1, OneFile

LEMMA ContinueRestoring ==
  ASSUME NamesTell, Readable, Restoring, UNCHANGED vars, R!Continue
  PROVE  Restoring'
<1>1. /\ ReaderOK /\ volume' = volume /\ function' = function /\ function \in {"extract", "list"}
      /\ header' = header /\ log' = log /\ total' = total /\ pc' = pc /\ cuts' = cuts
      /\ rpc = "sub"
  BY DEF Restoring, vars, fileVars, R!Continue, R!options
<1>2. PICK result \in R!HeaderResults :
        /\ R!GetHeader(result)
        /\ IF result = "ok" /\ R!Accepted(R!Here) THEN rpc' = "data" ELSE rpc' = "done"
        /\ result = "ok" /\ R!Accepted(R!Here) /\ ~misled' => R!SameFile(R!Here)
  BY DEF R!Continue, R!Ends
<1>3. /\ ReaderOK'
      /\ result = "ok" => R!Left > 0 /\ R!IsHeader(R!Here) /\ file_size' = R!Here.s
  BY <1>1, <1>2, GetHeaderOK
<1>4. CASE rpc' = "done"
  BY <1>1, <1>3, <1>4 DEF Restoring, Busy
<1>5. CASE result = "ok" /\ R!Accepted(R!Here)
  <2>1. /\ header.k \in {"hdr", "cont"} /\ total \in Int
        /\ \E j \in DOMAIN log : header = log[j]
    BY <1>1 DEF Restoring, Busy
  <2>2. PICK j \in DOMAIN log : header = log[j]
    BY <2>1
  <2>3. R!Here.k \in {"hdr", "cont", "link", "label"} /\ R!Here.s \in Nat
        /\ R!Here.p = total
    BY <1>1, <1>3, <1>5, HeaderHere DEF R!Accepted
  <2>4. PICK l \in DOMAIN log : R!Here = log[l] /\ Fits(R!Here)
    BY <1>1, <1>3, <1>5, HereIs
  <2>6. header.k = "hdr" /\ ~misled' => total + R!Here.s = header.s
    <3> SUFFICES ASSUME header.k = "hdr", ~misled' PROVE total + R!Here.s = header.s
      OBVIOUS
    <3>1. R!Here.f # 0 /\ Entries[R!Here.f].name = Entries[header.f].name
      BY <1>2, <1>5 DEF R!SameFile
    <3>2. R!Here.k # "label"
      BY <2>4, <3>1 DEF Fits
    <3>3. log[l].p + log[l].s = log[j].s
      BY <2>2, <2>3, <2>4, <3>1, <3>2, OneName
    <3> QED BY <2>2, <2>3, <2>4, <3>3
  <2>7. rpc' = "data"
    BY <1>2, <1>5
  <2> QED BY <1>1, <1>3, <1>5, <2>1, <2>6, <2>7 DEF Restoring, Readable
<1> QED BY <1>2, <1>4, <1>5

(* The end of a volume.                                                     *)
LEMMA PromptRestoring ==
  ASSUME Readable, Restoring, UNCHANGED vars,
         R!SameName \/ R!NewName \/ R!BadName \/ R!PromptEnds \/ R!PromptQuits
  PROVE  Restoring'
<1>1. /\ ReaderOK /\ volume' = volume /\ function' = function /\ function \in {"extract", "list"}
      /\ header' = header /\ log' = log /\ total' = total /\ pc' = pc /\ cuts' = cuts
      /\ rpc = "prompt"
  BY DEF Restoring, vars, fileVars, R!SameName, R!NewName, R!BadName, R!PromptEnds,
         R!PromptQuits, R!Reply, R!options
<1>2. /\ DOMAIN Volumes = 1 .. volume /\ Len(Volumes) = volume /\ volume \in Nat
      /\ io + 1 \in Nat
  BY <1>1 DEF Volumes, Readable, ReaderOK
<1>3. /\ at' \in Nat /\ io' \in 1 .. volume
      /\ file_size' = file_size /\ skip_size' = skip_size
  <2>1. CASE R!BadName \/ R!PromptEnds \/ R!PromptQuits
    BY <1>1, <2>1 DEF R!BadName, R!PromptEnds, R!PromptQuits, R!readerVars, ReaderOK
  <2>2. CASE R!SameName \/ R!NewName
    <3>1. PICK v : R!NextVolume(v) /\ (v \in DOMAIN Volumes \/ (v = io + 1 /\ io < Len(Volumes)))
      BY <2>2 DEF R!SameName, R!NewName
    <3>2. v \in 1 .. volume
      BY <1>1, <1>2, <3>1 DEF ReaderOK
    <3> QED BY <3>1, <3>2 DEF R!NextVolume
  <2> QED BY <2>1, <2>2
<1>4. ReaderOK'
  BY <1>1, <1>3 DEF ReaderOK
<1>5. rpc' \in {"sub", "done", "header", "aborted"} /\ (rpc' = "sub" => rback = "data")
  <2>1. CASE R!PromptQuits
    BY <2>1 DEF R!PromptQuits
  <2>2. CASE ~R!PromptQuits
    <3>1. PICK result \in {-1, 0, 1} : R!Selected(result)
      BY <2>2 DEF R!SameName, R!NewName, R!BadName, R!PromptEnds
    <3> QED BY <3>1 DEF R!Selected
  <2> QED BY <2>1, <2>2
<1> QED BY <1>1, <1>4, <1>5 DEF Restoring, Busy

LEMMA NextRestoring ==
  ASSUME NamesTell
  PROVE  Made /\ RestoreInv /\ [RoundTripNext]_<<vars, readVars>> => RestoreInv'
<1> SUFFICES ASSUME Made, RestoreInv, [RoundTripNext]_<<vars, readVars>>,
                    resizes' = 0, function' # "verify"
             PROVE  Restoring'
  BY DEF RestoreInv
<1>1. resizes = 0 /\ [Next]_vars
  BY MadeSteps DEF Made
<1>2. CASE MakeArchive
  <2>1. function # "verify" /\ IInv
    BY <1>1, <1>2 DEF MakeArchive, readVars, Made
  <2> QED BY <1>1, <1>2, <2>1, MakeRestoring DEF RestoreInv
<1>3. CASE ReadArchive
  <2>1. Readable /\ UNCHANGED vars /\ R!RestoreNext /\ Restoring
    BY <1>1, <1>3, MadeReadable DEF ReadArchive, RestoreInv
  <2> QED BY <2>1, NextHeaderRestoring, SkipRestoring, FilesRestoring, ContentRestoring,
             ContinueRestoring, PromptRestoring DEF R!RestoreNext
<1>4. CASE VerifyArchive
  BY <1>4 DEF VerifyArchive
<1>5. CASE Touch
  BY <1>1, <1>5 DEF Touch
<1>6. CASE Over \/ UNCHANGED <<vars, readVars>>
  <2>1. UNCHANGED <<vars, readVars>>
    BY <1>6 DEF Over
  <2> QED BY <1>1, <2>1 DEF RestoreInv, Restoring, ReaderOK, Busy, vars, fileVars, readVars
<1> QED BY <1>2, <1>3, <1>4, <1>5, <1>6 DEF RoundTripNext

(* --verify copies nothing.                                                 *)
VerifyPc == function = "verify" => rpc # "data"

LEMMA VerifyPcHolds == RoundTripSpec => []VerifyPc
<1>1. RoundTripInit => VerifyPc
  BY DEF RoundTripInit, RestoreStarts, VerifyStarts, R!RestoreInit, V!VerifyInit, VerifyPc
<1>2. VerifyPc /\ [RoundTripNext]_<<vars, readVars>> => VerifyPc'
  <2> SUFFICES ASSUME VerifyPc, [RoundTripNext]_<<vars, readVars>>, function' = "verify"
               PROVE  rpc' # "data"
    BY DEF VerifyPc
  <2>1. CASE MakeArchive \/ Touch \/ Over \/ UNCHANGED <<vars, readVars>>
    BY <2>1 DEF VerifyPc, MakeArchive, Touch, Over, readVars
  <2>2. CASE ReadArchive
    <3>1. function' = function
      BY <2>2 DEF ReadArchive, R!RestoreNext, R!NextHeader, R!Skip, R!UnlinkFirst, R!OpenFile,
                  R!OpenFails, R!MakeNode, R!ReadContent, R!WriteContent, R!CloseFile,
                  R!Continue, R!SameName, R!NewName, R!BadName, R!PromptEnds, R!PromptQuits,
                  R!Reply, R!options
    <3> QED BY <2>2, <3>1 DEF ReadArchive
  <2>3. CASE VerifyArchive
    <3>1. V!VerifyNext
      BY <2>3 DEF VerifyArchive
    <3>2. CASE V!Start \/ V!ReopenFails \/ V!Compare \/ V!StatFails \/ V!Pass
      BY <3>2 DEF V!Start, V!ReopenFails, V!Compare, V!StatFails, V!Pass
    <3>3. CASE V!NextHeader
      <4>1. PICK result \in V!HeaderResults :
              CASE result = "ok" ->
                     /\ header' = V!Here
                     /\ rpc' = IF V!IsRest(V!Here) THEN "skip" ELSE "stat"
                     /\ UNCHANGED rfailed
                [] result = "not_found" -> V!Ends(0) /\ UNCHANGED header
                [] result = "bad_checksum" -> V!Ends(3) /\ UNCHANGED header
                [] result \in {"bad_header", "fault"} -> V!Ends(4) /\ UNCHANGED header
        BY <3>3 DEF V!NextHeader
      <4>2. result \in {"ok", "not_found", "bad_checksum", "bad_header", "fault"}
        BY DEF V!HeaderResults
      <4> QED BY <4>1, <4>2 DEF V!Ends
    <3>4. CASE V!Skip
      <4>1. PICK result \in V!SkipResults :
              CASE result = "ok" -> rpc' = "header" /\ UNCHANGED <<rfailed, rback>>
                [] result = "end_of_tape" ->
                     rpc' = "prompt" /\ rback' = "skip" /\ UNCHANGED rfailed
                [] result = "error" -> V!Ends(6) /\ UNCHANGED rback
        BY <3>4 DEF V!Skip
      <4>2. result \in {"ok", "end_of_tape", "error"}
        BY DEF V!SkipResults
      <4> QED BY <4>1, <4>2 DEF V!Ends
    <3>5. CASE V!Mount \/ V!BadName \/ V!PromptEnds \/ V!PromptQuits
      BY <3>5 DEF V!Mount, V!BadName, V!PromptEnds, V!PromptQuits, V!Selected
    <3> QED BY <3>1, <3>2, <3>3, <3>4, <3>5 DEF V!VerifyNext
  <2> QED BY <2>1, <2>2, <2>3 DEF RoundTripNext
<1> QED BY <1>1, <1>2, PTL DEF RoundTripSpec

LEMMA RestoringHolds == ASSUME NamesTell PROVE RoundTripSpec => []RestoreInv
<1>1. RoundTripSpec => []Made
  BY MadeHolds
<1> QED BY <1>1, InitRestoring, NextRestoring, PTL DEF RoundTripSpec

(* While a file is copied, what the loop of extract.c:247 still expects is  *)
(* what the reader has left of the file, whatever the replies and the       *)
(* failures, and whatever the volumes as long as none of another file       *)
(* passed for its own.                                                      *)
THEOREM CountsAgree == ASSUME NamesTell PROVE RoundTripSpec => []Agreed
<1>1. RoundTripSpec => []RestoreInv
  BY RestoringHolds
<1>2. RoundTripSpec => []VerifyPc
  BY VerifyPcHolds
<1>3. RestoreInv /\ VerifyPc => Agreed
  BY DEF RestoreInv, Restoring, VerifyPc, Agreed, R!Agreed
<1> QED BY <1>1, <1>2, <1>3, PTL

----------------------------------------------------------------------------
(* No file is left in part. *)

LEMMA Replied ==
  ASSUME replies \in Seq(Replies), NEW how, R!Reply(how)
  PROVE  /\ replies' \in Seq(Replies)
         /\ \A x : R!Said(x) => R!Said(x)'
         /\ R!Said(how)'
<1>1. how \in Replies /\ replies' = Append(replies, how)
  BY DEF R!Reply
<1>2. /\ replies' \in Seq(Replies) /\ Len(replies) \in Nat /\ Len(replies') = Len(replies) + 1
      /\ \A j \in 1 .. Len(replies) : replies'[j] = replies[j]
      /\ replies'[Len(replies) + 1] = how
  BY <1>1, AppendProperties, LenProperties
<1>3. DOMAIN replies = 1 .. Len(replies) /\ DOMAIN replies' = 1 .. Len(replies) + 1
  BY <1>2, LenProperties
<1> QED BY <1>2, <1>3 DEF R!Said

(* The failures and the answers so far, step by step.                       *)
LEMMA HistoryStep ==
  ASSUME replies \in Seq(Replies), R!RestoreNext
  PROVE  /\ rfaults' \in {rfaults, rfaults + 1}
         /\ replies' \in Seq(Replies)
         /\ \A x : R!Said(x) => R!Said(x)'
         /\ misled => misled'
<1>1. CASE R!NextHeader
  <2>1. PICK result : R!GetHeader(result)
    BY <1>1 DEF R!NextHeader
  <2> QED BY <1>1, <2>1 DEF R!GetHeader, R!NextHeader, R!Said
<1>2. CASE R!Skip
  <2>1. PICK result : R!SkipFile(result)
    BY <1>2 DEF R!Skip
  <2> QED BY <1>2, <2>1 DEF R!SkipFile, R!Skip, R!Said
<1>3. CASE R!ReadContent
  <2>1. PICK r : R!Read(r)
    BY <1>3 DEF R!ReadContent
  <2> QED BY <1>3, <2>1 DEF R!Read, R!ReadContent, R!Said
<1>4. CASE R!Continue
  <2>1. PICK result : R!GetHeader(result)
    BY <1>4 DEF R!Continue
  <2> QED BY <1>4, <2>1 DEF R!GetHeader, R!Continue, R!Said
<1>5. CASE R!UnlinkFirst \/ R!OpenFile \/ R!OpenFails \/ R!MakeNode \/ R!WriteContent
           \/ R!CloseFile
  BY <1>5 DEF R!UnlinkFirst, R!OpenFile, R!OpenFails, R!MakeNode, R!WriteContent, R!CloseFile,
              R!readerVars, R!Said
<1>6. CASE R!SameName \/ R!NewName \/ R!BadName \/ R!PromptEnds \/ R!PromptQuits
  <2>1. PICK how : R!Reply(how)
    BY <1>6 DEF R!SameName, R!NewName, R!BadName, R!PromptEnds, R!PromptQuits
  <2>2. rfaults' = rfaults
    BY <1>6 DEF R!SameName, R!NewName, R!BadName, R!PromptEnds, R!PromptQuits, R!NextVolume,
                R!readerVars
  <2>3. misled' = misled
    BY <2>1 DEF R!Reply
  <2> QED BY <2>1, <2>2, <2>3, Replied
<1> QED BY <1>1, <1>2, <1>3, <1>4, <1>5, <1>6 DEF R!RestoreNext

Piece == [f : Nat, o : Int]
RegularFile(C) == [kind |-> "file", content |-> C]

Regular(u) == u.k = "hdr" /\ R!IsRegular(u)
Filled(u) == Len(R!Written(u)) = u.s

(* The file at hand may be there in part.                                   *)
InHand == Busy \/ rpc = "aborted" \/ (rpc = "done" /\ rfailed # 0)

(* The headers are those of the first volume, and each regular file that    *)
(* was shown is complete but for the one at hand, of which as much is       *)
(* written as was read and not kept in the chunk.                           *)
Keeping ==
    /\ DOMAIN files = R!Names
    /\ shown \in Seq(Units)
    /\ pc # "done" => shown = <<>>
    /\ rfailed < 0 => io = 1
    /\ rpc \in {"header", "skip", "unlink", "restore"} => rfailed < 0
    /\ Busy => header.k # "cont"
    /\ \A j \in DOMAIN shown : \E l \in DOMAIN log : shown[j] = log[l]
    /\ \A j \in DOMAIN shown : Regular(shown[j]) =>
         Filled(shown[j]) \/ (InHand /\ R!Name(shown[j]) = R!Name(header))
    /\ Busy /\ rpc \notin {"unlink", "restore"} =>
         \E C \in Seq(Piece) : /\ files[R!Name(header)] = RegularFile(C)
                               /\ rpc # "write" => Len(C) = total
                               /\ rpc = "write" => Len(C) + Len(chunk) = total
    /\ rpc = "write" => chunk \in Seq(Piece)

WholeInv ==
    function = "extract" =>
      /\ rfaults \in Nat /\ replies \in Seq(Replies)
      /\ resizes = 0 /\ rfaults = 0 /\ ~misled /\ ~R!Said("name") => rfailed \in Int /\ Keeping

LEMMA InitKeeping == RoundTripInit => WholeInv
<1> SUFFICES ASSUME RoundTripInit, function = "extract" PROVE WholeInv
  BY DEF WholeInv
<1>1. Init /\ R!RestoreInit /\ files \in Before
  BY DEF RoundTripInit, RestoreStarts, VerifyStarts
<1>2. /\ io = 1 /\ rfaults = 0 /\ rpc = "header" /\ rfailed = -1 /\ shown = <<>>
      /\ replies = <<>> /\ DOMAIN files = R!Names
  BY <1>1, RoundTripAssumption DEF R!RestoreInit, R!ReaderInit
<1>3. ~Busy /\ DOMAIN shown = {}
  BY <1>2 DEF Busy
<1>4. Keeping
  BY <1>2, <1>3 DEF Keeping
<1> QED BY <1>2, <1>4 DEF WholeInv

(* What the name of a header tells.                                         *)
LEMMA NameOne ==
  ASSUME NamesTell, Readable, NEW j \in DOMAIN log, NEW l \in DOMAIN log,
         log[j].k = "hdr", log[l].k \in {"hdr", "link"}, R!Name(log[l]) = R!Name(log[j])
  PROVE  log[l].k = "hdr" /\ log[l].f = log[j].f /\ log[l].s = log[j].s
<1>1. Fits(log[j]) /\ Fits(log[l]) /\ log[j].s \in Int /\ log[l].s \in Int
  BY UnitNumbers DEF Readable, AllFit
<1>2. log[j].f \in 1 .. Len(Entries) /\ log[l].f \in 1 .. Len(Entries)
  BY <1>1 DEF Fits, Readable
<1>3. \A e \in 1 .. Len(Entries) : Entries[e].name \in Nat
  <2>1. \A e \in 1 .. Len(Entries) : Entries[e] \in EntryType
    BY ElementOfSeq, CreateAssumption
  <2> QED BY <2>1 DEF EntryType
<1>4. R!Name(log[j]) = Entries[log[j].f].name
  BY <1>2 DEF R!Name, R!Short
<1>5. R!Name(log[l]) \in {Entries[log[l].f].name, -Entries[log[l].f].name}
  BY <1>2 DEF R!Name
<1>6. PICK m \in Nat, n \in Nat : m = Entries[log[j].f].name /\ n = Entries[log[l].f].name
  BY <1>2, <1>3
<1>7. n = m
  BY <1>4, <1>5, <1>6
<1>8. /\ log[l].k # "link" /\ log[l].f = log[j].f
      /\ log[l].p + log[l].s = log[j].s
  BY <1>6, <1>7, OneName
<1>9. log[l].k = "hdr" /\ log[l].p = 0
  BY <1>1, <1>8 DEF Fits
<1> QED BY <1>1, <1>8, <1>9

LEMMA NameKnown ==
  ASSUME Readable, NEW l \in DOMAIN log, log[l].k \in {"hdr", "cont", "link"}
  PROVE  R!Name(log[l]) \in R!Names
<1>1. Fits(log[l])
  BY DEF Readable, AllFit
<1>2. log[l].f \in 1 .. Len(Entries)
  BY <1>1 DEF Fits, Readable
<1>3. R!Name(log[l]) \in {Entries[log[l].f].name, -Entries[log[l].f].name}
  BY <1>2 DEF R!Name
<1>4. DOMAIN Entries = 1 .. Len(Entries)
  BY LenProperties, CreateAssumption
<1> QED BY <1>2, <1>3, <1>4 DEF R!Names

(* What there is at another name stays.                                     *)
LEMMA OthersStay ==
  ASSUME DOMAIN files = R!Names, NEW n \in R!Names, NEW thing,
         files' = [files EXCEPT ![n] = thing]
  PROVE  /\ DOMAIN files' = R!Names
         /\ files'[n] = thing
         /\ \A u : Filled(u) /\ R!Name(u) # n /\ R!Name(u) \in R!Names => Filled(u)'
<1>1. DOMAIN files' = R!Names /\ files'[n] = thing
  OBVIOUS
<1>2. \A m \in R!Names : m # n => files'[m] = files[m]
  OBVIOUS
<1>3. ASSUME NEW u, Filled(u), R!Name(u) # n, R!Name(u) \in R!Names
      PROVE  Filled(u)'
  <2>1. PICK m : m = R!Name(u)
    OBVIOUS
  <2>2. files'[m] = files[m]
    BY <1>2, <1>3, <2>1
  <2>3. files'[R!Name(u)].content = files[R!Name(u)].content
    BY <2>1, <2>2
  <2>4. R!Written(u)' = R!Written(u)
    BY <2>3 DEF R!Written
  <2> QED BY <1>3, <2>4 DEF Filled
<1> QED BY <1>1, <1>3

(* A header that is shown is one of the archive's, and has a name.          *)
LEMMA ShownIs ==
  ASSUME NamesTell, Readable, Restoring, Keeping
  PROVE  \A j \in DOMAIN shown : Regular(shown[j]) =>
           /\ R!Name(shown[j]) \in R!Names
           /\ Busy /\ R!Name(shown[j]) = R!Name(header) =>
                R!IsRegular(header) /\ header.k = "hdr" /\ header.s = shown[j].s
<1> SUFFICES ASSUME NEW j \in DOMAIN shown, Regular(shown[j])
             PROVE  /\ R!Name(shown[j]) \in R!Names
                    /\ Busy /\ R!Name(shown[j]) = R!Name(header) =>
                         R!IsRegular(header) /\ header.k = "hdr" /\ header.s = shown[j].s
  OBVIOUS
<1>1. PICK l \in DOMAIN log : shown[j] = log[l]
  BY DEF Keeping
<1>2. log[l].k = "hdr" /\ Entries[log[l].f].kind = "reg"
  BY <1>1 DEF Regular, R!IsRegular
<1>3. R!Name(shown[j]) \in R!Names
  BY <1>1, <1>2, NameKnown
<1>4. ASSUME Busy, R!Name(shown[j]) = R!Name(header)
      PROVE  R!IsRegular(header) /\ header.k = "hdr" /\ header.s = shown[j].s
  <2>1. header.k \in {"hdr", "link"} /\ \E m \in DOMAIN log : header = log[m]
    BY <1>4 DEF Restoring, Keeping
  <2>2. PICK m \in DOMAIN log : header = log[m]
    BY <2>1
  <2>3. /\ log[m].k = "hdr" /\ log[m].f = log[l].f /\ log[m].s = log[l].s
    BY <1>1, <1>2, <1>4, <2>1, <2>2, NameOne
  <2> QED BY <1>1, <1>2, <2>2, <2>3 DEF R!IsRegular
<1> QED BY <1>3, <1>4

LEMMA NextHeaderKeeping ==
  ASSUME NamesTell, Readable, Restoring, function = "extract", Keeping, rfailed \in Int,
         UNCHANGED vars, R!NextHeader
  PROVE  Keeping' /\ rfailed' \in Int
<1>1. /\ ReaderOK /\ volume' = volume /\ pc' = pc /\ log' = log /\ files' = files
      /\ rpc = "header" /\ rfailed < 0 /\ io = 1 /\ pc = "done"
  BY DEF Restoring, Keeping, Readable, vars, fileVars, R!NextHeader, R!options
<1>2. \A j \in DOMAIN shown : Regular(shown[j]) => Filled(shown[j])
  BY <1>1 DEF Keeping, InHand, Busy
<1>3. PICK result \in R!HeaderResults :
        /\ R!GetHeader(result)
        /\ CASE result = "ok" ->
                  /\ header' = R!Here
                  /\ rpc' = R!AfterHeader(R!Here)
                  /\ shown' = IF R!Name(R!Here) \in wanted THEN Append(shown, R!Here)
                              ELSE shown
                  /\ UNCHANGED rfailed
             [] result = "not_found" -> R!Ends(0) /\ UNCHANGED <<header, shown>>
             [] result = "bad_checksum" -> R!Ends(3) /\ UNCHANGED <<header, shown>>
             [] result \in {"bad_header", "fault"} ->
                  R!Ends(4) /\ UNCHANGED <<header, shown>>
  BY DEF R!NextHeader
<1>4. /\ result \in {"ok", "not_found", "bad_checksum", "bad_header", "fault"}
      /\ result = "ok" => R!Left > 0 /\ R!IsHeader(R!Here)
      /\ io' = io
  BY <1>1, <1>3, GetHeaderOK DEF R!GetHeader
<1>5. \A u : Filled(u)' <=> Filled(u)
  BY <1>1 DEF Filled, R!Written
<1>6. CASE result # "ok"
  <2>1. shown' = shown /\ rpc' = "done" /\ rfailed' \in {0, 3, 4}
    BY <1>3, <1>4, <1>6 DEF R!Ends
  <2>2. ~Busy'
    BY <2>1 DEF Busy
  <2>3. \A j \in DOMAIN shown' : \E l \in DOMAIN log' : shown'[j] = log'[l]
    BY <1>1, <2>1 DEF Keeping
  <2>4. \A j \in DOMAIN shown' : Regular(shown'[j]) => Filled(shown[j])'
    BY <1>2, <1>5, <2>1
  <2> QED BY <1>1, <2>1, <2>2, <2>3, <2>4 DEF Keeping, Regular, R!IsRegular
<1>7. CASE result = "ok"
  <2>1. /\ header' = R!Here /\ rpc' = R!AfterHeader(R!Here) /\ rfailed' = rfailed
        /\ shown' = IF R!Name(R!Here) \in wanted THEN Append(shown, R!Here) ELSE shown
    BY <1>3, <1>7
  <2>2. PICK l \in DOMAIN log : R!Here = log[l] /\ Fits(R!Here) /\ R!Here.v = 1
                                /\ R!Here \in Units
    BY <1>1, <1>4, <1>7, HereIs
  <2>3. R!Here.k # "cont"
    BY <2>2 DEF Fits
  <2>4. /\ rpc' \in {"skip", "header", "unlink", "restore"}
        /\ rpc' \in {"unlink", "restore"} <=>
             R!Name(R!Here) \in wanted /\ R!Here.k # "label"
    BY <2>1 DEF R!AfterHeader
  <2>5. Busy' <=> rpc' \in {"unlink", "restore"}
    BY <2>4 DEF Busy
  <2>6. /\ shown' \in Seq(Units)
        /\ \A j \in DOMAIN shown' :
             \/ j \in DOMAIN shown /\ shown'[j] = shown[j]
             \/ shown'[j] = R!Here /\ R!Name(R!Here) \in wanted
    <3>1. CASE R!Name(R!Here) \in wanted
      <4>1. /\ shown' \in Seq(Units) /\ Len(shown') = Len(shown) + 1
            /\ \A j \in 1 .. Len(shown) : shown'[j] = shown[j]
            /\ shown'[Len(shown) + 1] = R!Here
            /\ Len(shown) \in Nat
        BY <2>1, <2>2, <3>1, AppendProperties, LenProperties DEF Keeping
      <4>2. DOMAIN shown = 1 .. Len(shown) /\ DOMAIN shown' = 1 .. Len(shown) + 1
        BY <4>1, LenProperties DEF Keeping
      <4> QED BY <3>1, <4>1, <4>2
    <3>2. CASE R!Name(R!Here) \notin wanted
      BY <2>1, <3>2 DEF Keeping
    <3> QED BY <3>1, <3>2
  <2>7. \A j \in DOMAIN shown' : \E m \in DOMAIN log' : shown'[j] = log'[m]
    BY <1>1, <2>2, <2>6 DEF Keeping
  <2>8. \A j \in DOMAIN shown' : Regular(shown'[j]) =>
          Filled(shown[j])' \/ (InHand' /\ R!Name(shown'[j]) = R!Name(header'))
    <3> SUFFICES ASSUME NEW j \in DOMAIN shown', Regular(shown'[j])
                 PROVE  Filled(shown[j])'
                        \/ (InHand' /\ R!Name(shown'[j]) = R!Name(header'))
      OBVIOUS
    <3>1. CASE j \in DOMAIN shown /\ shown'[j] = shown[j]
      <4>1. PICK w : w = shown'[j]
        OBVIOUS
      <4>2. Filled(w)'
        BY <1>2, <1>5, <3>1, <4>1
      <4> QED BY <4>1, <4>2 DEF Filled, R!Written
    <3>2. CASE shown'[j] = R!Here /\ R!Name(R!Here) \in wanted
      <4>1. R!Here.k # "label"
        BY <3>2 DEF Regular
      <4> QED BY <2>1, <2>4, <2>5, <3>2, <4>1 DEF InHand
    <3> QED BY <2>6, <3>1, <3>2
  <2> QED BY <1>1, <1>4, <2>1, <2>3, <2>4, <2>5, <2>6, <2>7, <2>8
          DEF Keeping, Regular, R!IsRegular
<1> QED BY <1>6, <1>7

(* Nothing changes in the file system or in what was shown.                 *)
LEMMA StillKept ==
  ASSUME Keeping, UNCHANGED <<vars, files, shown, header>>,
         rfailed' < 0 => rfailed < 0 /\ io' = io,
         rpc' \in {"header", "skip", "unlink", "restore"} => rfailed' < 0,
         Busy' => Busy,
         \A j \in DOMAIN shown : Regular(shown[j]) =>
           Filled(shown[j]) \/ (InHand' /\ R!Name(shown[j]) = R!Name(header)),
         Busy' /\ rpc' \notin {"unlink", "restore"} =>
           \E C \in Seq(Piece) : /\ files[R!Name(header)] = RegularFile(C)
                                 /\ rpc' # "write" => Len(C) = total'
                                 /\ rpc' = "write" => Len(C) + Len(chunk') = total',
         rpc' = "write" => chunk' \in Seq(Piece)
  PROVE  Keeping'
<1>1. /\ files' = files /\ shown' = shown /\ header' = header /\ pc' = pc
      /\ log' = log
  BY DEF vars, fileVars
<1>2. \A j \in DOMAIN shown' : Regular(shown'[j]) =>
         Filled(shown[j])' \/ (InHand' /\ R!Name(shown'[j]) = R!Name(header'))
  BY <1>1 DEF Filled, R!Written
<1> QED BY <1>1, <1>2 DEF Keeping, Regular, R!IsRegular

LEMMA SkipKeeping ==
  ASSUME Readable, Restoring, Keeping, rfailed \in Int, UNCHANGED vars, R!Skip
  PROVE  Keeping' /\ rfailed' \in Int
<1>1. PICK result \in R!SkipResults :
        /\ R!SkipFile(result)
        /\ CASE result = "ok" -> rpc' = "header" /\ UNCHANGED <<rfailed, rback>>
             [] result = "end_of_tape" ->
                  rpc' = "prompt" /\ rback' = "skip" /\ UNCHANGED rfailed
             [] result = "error" -> R!Ends(2) /\ UNCHANGED rback
  BY DEF R!Skip
<1>2. result \in {"ok", "end_of_tape", "error"}
  BY DEF R!SkipResults
<1>3. /\ rpc = "skip" /\ rfailed < 0 /\ ~Busy /\ ~InHand
      /\ UNCHANGED <<files, shown, header, io>>
  BY <1>1 DEF R!Skip, R!SkipFile, Keeping, Busy, InHand
<1>4. /\ rpc' = "header" => rfailed' = rfailed
      /\ rpc' \in {"header", "prompt", "done"} /\ rfailed' \in {rfailed, 2} /\ ~Busy'
  BY <1>1, <1>2 DEF R!Ends, Busy
<1>5. \A j \in DOMAIN shown : Regular(shown[j]) => Filled(shown[j])
  BY <1>3 DEF Keeping
<1>6. rfailed' < 0 => rfailed < 0
  BY <1>3
<1>7. Keeping'
  BY <1>3, <1>4, <1>5, <1>6, StillKept
<1> QED BY <1>4, <1>7

LEMMA CloseKeeping ==
  ASSUME NamesTell, Readable, Restoring, function = "extract", Keeping, rfailed \in Int, ~misled,
         UNCHANGED vars, R!CloseFile
  PROVE  Keeping' /\ rfailed' \in Int
<1>1. /\ rpc = "data" /\ ~(total < header.s) /\ Busy
      /\ UNCHANGED <<files, shown, header, io, rfailed>>
      /\ rpc' = IF rfailed < 0 THEN "header" ELSE "done"
  BY DEF R!CloseFile, R!More, R!readerVars, Busy
<1>2. /\ header.k \in {"hdr", "link"} /\ total \in Int /\ file_size \in Nat
      /\ total + file_size = header.s
  BY <1>1 DEF Restoring, Keeping, ReaderOK
<1>3. total = header.s
  <2>1. PICK s : s = header.s
    OBVIOUS
  <2>2. s \in Int
    BY <1>2, <2>1
  <2>3. ~(total < s) /\ total + file_size = s
    BY <1>1, <1>2, <2>1
  <2> QED BY <1>2, <2>1, <2>2, <2>3
<1>4. PICK C \in Seq(Piece) : files[R!Name(header)] = RegularFile(C) /\ Len(C) = total
  BY <1>1 DEF Keeping
<1>5. \A j \in DOMAIN shown : Regular(shown[j]) => Filled(shown[j])
  <2> SUFFICES ASSUME NEW j \in DOMAIN shown, Regular(shown[j]) PROVE Filled(shown[j])
    OBVIOUS
  <2>1. CASE R!Name(shown[j]) = R!Name(header)
    <3>1. header.s = shown[j].s
      BY <1>1, <2>1, ShownIs
    <3> QED BY <1>3, <1>4, <2>1, <3>1 DEF Filled, R!Written, RegularFile
  <2>2. CASE R!Name(shown[j]) # R!Name(header)
    BY <2>2 DEF Keeping
  <2> QED BY <2>1, <2>2
<1>6. rpc' \in {"header", "done"} /\ ~Busy' /\ (rpc' = "header" => rfailed' < 0)
  BY <1>1 DEF Busy
<1>7. Keeping'
  BY <1>1, <1>5, <1>6, StillKept
<1> QED BY <1>1, <1>7

(* The file at hand is changed, which is no complete one.                   *)
LEMMA FileChanged ==
  ASSUME NamesTell, Readable, Restoring, Keeping, UNCHANGED <<vars, shown, header, io, rfailed>>,
         Busy, Busy' \/ ~R!IsRegular(header),
         rpc' \in {"header", "skip", "unlink", "restore"} => rfailed' < 0,
         NEW thing, files' = [files EXCEPT ![R!Name(header)] = thing],
         Busy' /\ rpc' \notin {"unlink", "restore"} =>
           \E C \in Seq(Piece) : /\ thing = RegularFile(C)
                                 /\ rpc' # "write" => Len(C) = total'
                                 /\ rpc' = "write" => Len(C) + Len(chunk') = total',
         rpc' = "write" => chunk' \in Seq(Piece)
  PROVE  Keeping'
<1>1. shown' = shown /\ header' = header /\ io' = io /\ rfailed' = rfailed /\ pc' = pc
      /\ log' = log
  BY DEF vars, fileVars
<1>2. R!Name(header) \in R!Names
  BY NameKnown DEF Restoring
<1>3. /\ DOMAIN files' = R!Names /\ files'[R!Name(header)] = thing
      /\ \A u : Filled(u) /\ R!Name(u) # R!Name(header) /\ R!Name(u) \in R!Names =>
            Filled(u)'
  BY <1>2, OthersStay DEF Keeping
<1>4. \A j \in DOMAIN shown : Regular(shown[j]) =>
         Filled(shown[j])' \/ (InHand' /\ R!Name(shown[j]) = R!Name(header))
  <2> SUFFICES ASSUME NEW j \in DOMAIN shown, Regular(shown[j])
               PROVE  Filled(shown[j])' \/ (InHand' /\ R!Name(shown[j]) = R!Name(header))
    OBVIOUS
  <2>1. CASE R!Name(shown[j]) = R!Name(header)
    <3>1. Busy'
      BY <2>1, ShownIs
    <3> QED BY <2>1, <3>1 DEF InHand
  <2>2. CASE R!Name(shown[j]) # R!Name(header)
    <3>1. PICK w : w = shown[j]
      OBVIOUS
    <3>2. Filled(w) /\ R!Name(w) # R!Name(header) /\ R!Name(w) \in R!Names
      BY <2>2, <3>1, ShownIs DEF Keeping
    <3>3. Filled(w)'
      BY <1>3, <3>2
    <3> QED BY <1>1, <3>1, <3>3 DEF Filled, R!Written
  <2> QED BY <2>1, <2>2
<1>5. \A j \in DOMAIN shown' : Regular(shown'[j]) =>
         Filled(shown[j])' \/ (InHand' /\ R!Name(shown'[j]) = R!Name(header'))
  <2> SUFFICES ASSUME NEW j \in DOMAIN shown', Regular(shown'[j])
               PROVE  Filled(shown[j])'
                      \/ (InHand' /\ R!Name(shown'[j]) = R!Name(header'))
    OBVIOUS
  <2>1. j \in DOMAIN shown /\ shown'[j] = shown[j]
    BY <1>1
  <2> QED BY <1>1, <1>4, <2>1
<1> QED BY <1>1, <1>3, <1>5 DEF Keeping, Regular, R!IsRegular

LEMMA UnlinkKeeping ==
  ASSUME NamesTell, Readable, Restoring, Keeping, rfailed \in Int, UNCHANGED vars, R!UnlinkFirst
  PROVE  Keeping' /\ rfailed' \in Int
<1>1. /\ rpc = "unlink" /\ rpc' = "restore" /\ rfailed < 0 /\ Busy /\ Busy'
      /\ UNCHANGED <<shown, header, io, rfailed>>
  BY DEF R!UnlinkFirst, Busy, Keeping
<1>2. CASE files' = files
  <2>1. \A j \in DOMAIN shown : Regular(shown[j]) =>
          Filled(shown[j]) \/ (InHand' /\ R!Name(shown[j]) = R!Name(header))
    BY <1>1 DEF Keeping, InHand
  <2>2. Keeping'
    BY <1>1, <1>2, <2>1, StillKept
  <2> QED BY <1>1, <2>2
<1>3. CASE files' = [files EXCEPT ![R!Name(header)] = R!Empty("none")]
  <2>1. Keeping'
    BY <1>1, <1>3, FileChanged
  <2> QED BY <1>1, <2>1
<1> QED BY <1>2, <1>3 DEF R!UnlinkFirst

LEMMA NodeKeeping ==
  ASSUME NamesTell, Readable, Restoring, Keeping, rfailed \in Int, UNCHANGED vars, R!MakeNode
  PROVE  Keeping' /\ rfailed' \in Int
<1>1. /\ rpc = "restore" /\ rpc' = "header" /\ rfailed < 0 /\ Busy /\ ~Busy'
      /\ UNCHANGED <<shown, header, io, rfailed>> /\ ~R!IsRegular(header)
  BY DEF R!MakeNode, Busy, Keeping
<1>2. CASE files' = files
  <2>1. \A j \in DOMAIN shown : Regular(shown[j]) => Filled(shown[j])
    BY <1>1, ShownIs DEF Keeping
  <2>2. Keeping'
    BY <1>1, <1>2, <2>1, StillKept
  <2> QED BY <1>1, <2>2
<1>3. CASE files' = [files EXCEPT ![R!Name(header)] = R!Empty("node")]
  <2>1. Keeping'
    BY <1>1, <1>3, FileChanged
  <2> QED BY <1>1, <2>1
<1> QED BY <1>2, <1>3 DEF R!MakeNode

LEMMA OpenKeeping ==
  ASSUME NamesTell, Readable, Restoring, Keeping, rfailed \in Int, UNCHANGED vars, R!OpenFile
  PROVE  Keeping' /\ rfailed' \in Int
<1>1. /\ rpc = "restore" /\ rfailed < 0 /\ Busy /\ UNCHANGED <<shown, header, io>>
      /\ R!IsRegular(header)
  BY DEF R!OpenFile, R!readerVars, Busy, Keeping
<1>2. CASE R!There.kind = "dir"
  <2>1. rpc' = "done" /\ rfailed' \in {3, 5} /\ files' = files /\ ~Busy' /\ InHand'
    BY <1>2 DEF R!OpenFile, R!Ends, Busy, InHand
  <2>2. \A j \in DOMAIN shown : Regular(shown[j]) =>
          Filled(shown[j]) \/ (InHand' /\ R!Name(shown[j]) = R!Name(header))
    BY <2>1 DEF Keeping
  <2>3. ~(rfailed' < 0)
    BY <2>1
  <2>4. Keeping'
    BY <1>1, <2>1, <2>2, <2>3, StillKept
  <2> QED BY <2>1, <2>4
<1>3. CASE R!There.kind # "dir"
  <2>1. header.k \in {"hdr", "link"} /\ \E m \in DOMAIN log : header = log[m]
    BY <1>1 DEF Restoring, Keeping
  <2>2. Fits(header)
    BY <2>1 DEF Readable, AllFit
  <2>3. header.p = 0
    BY <2>1, <2>2 DEF Fits
  <2>4. /\ files' = [files EXCEPT ![R!Name(header)] = R!Empty("file")]
        /\ total' = 0 /\ rpc' = "data" /\ rfailed' = rfailed /\ Busy'
    BY <1>3, <2>3 DEF R!OpenFile, Busy
  <2>5. R!Empty("file") = RegularFile(<<>>) /\ <<>> \in Seq(Piece) /\ Len(<<>>) = 0
    BY DEF R!Empty, RegularFile
  <2>6. \E C \in Seq(Piece) : R!Empty("file") = RegularFile(C) /\ Len(C) = total'
    BY <2>4, <2>5
  <2>7. Keeping'
    BY <1>1, <2>4, <2>6, FileChanged
  <2> QED BY <2>4, <2>7
<1> QED BY <1>2, <1>3

(* What is read from a volume are units.                                    *)
LEMMA ContentType ==
  ASSUME Readable, ReaderOK, NEW n \in Nat, n <= R!Left
  PROVE  R!Content(n) \in Seq(Piece) /\ Len(R!Content(n)) = n
<1>1. R!Volume \in Seq(Units) /\ Len(R!Volume) \in Nat /\ at \in Nat
  BY HereIs DEF ReaderOK
<1>2. R!Left = IF at < Len(R!Volume) THEN Len(R!Volume) - at ELSE 0
  BY DEF R!Left
<1>3. \A j \in 1 .. n : at + j \in 1 .. Len(R!Volume)
  BY <1>1, <1>2
<1>4. \A j \in 1 .. n : R!Volume[at + j] \in Units
  BY <1>1, <1>3, ElementOfSeq
<1>5. \A j \in 1 .. n : R!Volume[at + j].f \in Nat /\ R!Volume[at + j].o \in Int
  BY <1>4 DEF Units
<1>6. R!Content(n) \in [1 .. n -> Piece]
  BY <1>5 DEF R!Content, Piece
<1> QED BY <1>6, FunctionIsSeq

LEMMA ReadKeeping ==
  ASSUME Readable, Restoring, Keeping, rfailed \in Int, UNCHANGED vars, R!ReadContent
  PROVE  Keeping' /\ rfailed' \in Int
<1>1. PICK r \in R!ReadResults(BufferSize) :
        /\ R!Read(r)
        /\ total' = total + R!Taken(r)
        /\ chunk' = R!Content(R!Taken(r))
        /\ rpc' = IF r.n > 0 THEN "write" ELSE IF r.n = 0 THEN "prompt" ELSE rpc
        /\ rback' = IF r.n = 0 THEN "data" ELSE rback
  BY DEF R!ReadContent
<1>2. ReaderOK /\ volume' = volume
  BY DEF Restoring, vars, fileVars
<1>3. r.n \in Int /\ R!Taken(r) \in Nat /\ R!Taken(r) <= R!Left /\ io' = io
  BY <1>1, <1>2, ReadKeeps
<1>4. /\ rpc = "data" /\ Busy /\ UNCHANGED <<files, shown, header, rfailed>>
  BY DEF R!ReadContent, Busy
<1>5. chunk' \in Seq(Piece) /\ Len(chunk') = R!Taken(r)
  BY <1>1, <1>2, <1>3, ContentType
<1>6. PICK C \in Seq(Piece) : files[R!Name(header)] = RegularFile(C) /\ Len(C) = total
  BY <1>4 DEF Keeping
<1>7. rpc' \in {"write", "prompt", "data"} /\ Busy' /\ (rpc' # "write" => R!Taken(r) = 0)
  BY <1>1, <1>3, <1>4 DEF Busy, R!Taken
<1>8. PICK t \in Nat : t = R!Taken(r)
  BY <1>3
<1>9. Len(C) + Len(chunk') = total' /\ (rpc' # "write" => Len(C) = total')
  <2>1. Len(C) \in Nat /\ total' = total + t /\ Len(chunk') = t
    BY <1>1, <1>5, <1>8, LenProperties
  <2> QED BY <1>6, <1>7, <1>8, <2>1
<1>10. \A j \in DOMAIN shown : Regular(shown[j]) =>
         Filled(shown[j]) \/ (InHand' /\ R!Name(shown[j]) = R!Name(header))
  BY <1>7 DEF Keeping, InHand
<1>11. /\ rfailed' < 0 => rfailed < 0 /\ io' = io
       /\ rpc' \in {"header", "skip", "unlink", "restore"} => rfailed' < 0
       /\ Busy' => Busy
       /\ \E D \in Seq(Piece) : /\ files[R!Name(header)] = RegularFile(D)
                                /\ rpc' # "write" => Len(D) = total'
                                /\ rpc' = "write" => Len(D) + Len(chunk') = total'
  BY <1>3, <1>4, <1>6, <1>7, <1>9
<1>12. Keeping'
  BY <1>4, <1>5, <1>10, <1>11, StillKept
<1> QED BY <1>4, <1>12

LEMMA WriteKeeping ==
  ASSUME NamesTell, Readable, Restoring, Keeping, rfailed \in Int, UNCHANGED vars,
         R!WriteContent, rfaults = 0, rfaults' = 0
  PROVE  Keeping' /\ rfailed' \in Int
<1>1. /\ rpc = "write" /\ rpc' = "data" /\ Busy /\ Busy' /\ total' = total
      /\ UNCHANGED <<shown, header, io, rfailed>>
  BY DEF R!WriteContent, Busy
<1>2. PICK n \in IF R!Fault THEN 0 .. Len(chunk) ELSE {Len(chunk)} :
        /\ files' = [files EXCEPT ![R!Name(header)].content = @ \o SubSeq(chunk, 1, n)]
        /\ rfaults' = IF n < Len(chunk) THEN rfaults + 1 ELSE rfaults
  BY DEF R!WriteContent
<1>3. chunk \in Seq(Piece) /\ Len(chunk) \in Nat
  BY <1>1, LenProperties DEF Keeping
<1>4. n = Len(chunk)
  BY <1>2, <1>3
<1>5. SubSeq(chunk, 1, n) \in Seq(Piece) /\ Len(SubSeq(chunk, 1, n)) = n
  <2>1. \A j \in 1 .. n : j \in 1 .. Len(chunk)
    BY <1>4
  <2> QED BY <1>3, <1>4, <2>1, SubSeqProperties
<1>6. PICK C \in Seq(Piece) : files[R!Name(header)] = RegularFile(C)
                              /\ Len(C) + Len(chunk) = total
  BY <1>1 DEF Keeping
<1>7. PICK D : D = SubSeq(chunk, 1, n)
  OBVIOUS
<1>8. C \o D \in Seq(Piece) /\ Len(C \o D) = total
  <2>1. D \in Seq(Piece) /\ Len(D) = Len(chunk)
    BY <1>4, <1>5, <1>7
  <2>2. C \o D \in Seq(Piece) /\ Len(C \o D) = Len(C) + Len(D)
    BY <2>1, ConcatProperties
  <2> QED BY <1>6, <2>1, <2>2
<1>9. PICK f : f = files[R!Name(header)]
  OBVIOUS
<1>10. PICK t : /\ files' = [files EXCEPT ![R!Name(header)] = t]
                /\ t = [f EXCEPT !.content = f.content \o D]
  <2>1. files' = [files EXCEPT ![R!Name(header)] = [f EXCEPT !.content = f.content \o D]]
    BY <1>2, <1>7, <1>9
  <2> WITNESS [f EXCEPT !.content = f.content \o D]
  <2> QED BY <2>1
<1>11. PICK B : B = C \o D
  OBVIOUS
<1>12. t = RegularFile(C \o D)
  <2>1. f = [kind |-> "file", content |-> C]
    BY <1>6, <1>9 DEF RegularFile
  <2>2. f.content \o D = B
    BY <1>11, <2>1
  <2>3. t = [f EXCEPT !.content = B]
    BY <1>10, <2>2
  <2>4. t = [kind |-> "file", content |-> B]
    BY <2>1, <2>3
  <2> QED BY <1>11, <2>4 DEF RegularFile
<1>13. \E E \in Seq(Piece) : t = RegularFile(E) /\ Len(E) = total'
  BY <1>1, <1>8, <1>12
<1>14. Keeping'
  BY <1>1, <1>10, <1>13, FileChanged
<1> QED BY <1>1, <1>14

LEMMA ContinueKeeping ==
  ASSUME Keeping, rfailed \in Int, UNCHANGED vars, R!Continue
  PROVE  Keeping' /\ rfailed' \in Int
<1>1. PICK result \in R!HeaderResults :
        /\ R!GetHeader(result)
        /\ IF result = "ok"
           THEN IF R!Accepted(R!Here) THEN rfailed' = 0 /\ rpc' = "data" ELSE R!Ends(4)
           ELSE R!Ends(5)
  BY DEF R!Continue
<1>2. /\ rpc = "sub" /\ Busy /\ io' = io /\ total' = total
      /\ UNCHANGED <<files, shown, header>>
  BY <1>1 DEF R!Continue, R!GetHeader, Busy
<1>3. (rpc' = "data" /\ rfailed' = 0) \/ (rpc' = "done" /\ rfailed' \in {4, 5})
  BY <1>1 DEF R!Ends
<1>4. InHand' /\ (Busy' => Busy)
  BY <1>2, <1>3 DEF InHand, Busy
<1>5. \A j \in DOMAIN shown : Regular(shown[j]) =>
         Filled(shown[j]) \/ (InHand' /\ R!Name(shown[j]) = R!Name(header))
  BY <1>4 DEF Keeping
<1>6. /\ ~(rfailed' < 0) /\ rpc' \notin {"header", "skip", "unlink", "restore", "write"}
      /\ rfailed' \in Int
  BY <1>3
<1>7. \E C \in Seq(Piece) : files[R!Name(header)] = RegularFile(C) /\ Len(C) = total'
  BY <1>2 DEF Keeping
<1>8. Keeping'
  BY <1>2, <1>4, <1>5, <1>6, <1>7, StillKept
<1> QED BY <1>6, <1>8

LEMMA PromptKeeping ==
  ASSUME Keeping, rfailed \in Int, function = "extract", UNCHANGED vars,
         R!SameName \/ R!BadName \/ R!PromptEnds \/ R!PromptQuits
  PROVE  Keeping' /\ rfailed' \in Int
<1>1. rpc = "prompt" /\ rback' = rback /\ total' = total /\ UNCHANGED <<files, shown, header>>
  BY DEF R!SameName, R!BadName, R!PromptEnds, R!PromptQuits, R!Reply
<1>2. \/ rpc' = "aborted" /\ rfailed' = rfailed /\ io' = io
      \/ R!Selected(0)
      \/ R!Selected(1)
  BY DEF R!SameName, R!BadName, R!PromptEnds, R!PromptQuits, R!readerVars
<1>3. \/ rpc' = "aborted" /\ rfailed' = rfailed /\ io' = io
      \/ rpc' = "sub" /\ rback = "data" /\ rfailed' = 0
      \/ rpc' = "done" /\ rback = "data" /\ rfailed' = 1
      \/ rpc' = "done" /\ rback # "data" /\ rfailed' \in {0, 1}
  BY <1>2 DEF R!Selected
<1>4. /\ Busy <=> rback = "data"
      /\ Busy' => rpc' = "sub" /\ Busy
      /\ Busy => InHand'
  BY <1>1, <1>3 DEF Busy, InHand
<1>5. \A j \in DOMAIN shown : Regular(shown[j]) =>
         Filled(shown[j]) \/ (InHand' /\ R!Name(shown[j]) = R!Name(header))
  BY <1>1, <1>4 DEF Keeping, InHand
<1>6. /\ rpc' \notin {"header", "skip", "unlink", "restore", "write"} /\ rfailed' \in Int
      /\ rfailed' < 0 => rfailed < 0 /\ io' = io
  BY <1>3
<1>7. Busy' => \E C \in Seq(Piece) : files[R!Name(header)] = RegularFile(C) /\ Len(C) = total'
  BY <1>1, <1>4 DEF Keeping
<1>8. Keeping'
  BY <1>1, <1>4, <1>5, <1>6, <1>7, StillKept
<1> QED BY <1>6, <1>8

(* Nothing is read while the archive is made.                               *)
LEMMA MakeKeeping ==
  ASSUME Restoring, Keeping, rfailed \in Int, MakeArchive
  PROVE  Keeping' /\ rfailed' \in Int
<1>1. pc # "done" /\ UNCHANGED readVars
  BY NoMoreArchiving DEF MakeArchive
<1>2. shown = <<>> /\ DOMAIN shown = {} /\ ~Busy
  BY <1>1 DEF Keeping, Restoring
<1>3. /\ files' = files /\ shown' = <<>> /\ DOMAIN shown' = {} /\ rfailed' = rfailed
      /\ io' = io /\ rpc' = rpc /\ ~Busy'
  BY <1>1, <1>2 DEF readVars, Busy
<1>4. rpc' # "write"
  BY <1>3 DEF Busy
<1> QED BY <1>2, <1>3, <1>4 DEF Keeping

LEMMA StepKeeping ==
  ASSUME NamesTell, Readable, Restoring, function = "extract", Keeping, rfailed \in Int, ~misled,
         UNCHANGED vars, R!RestoreNext, rfaults = 0, rfaults' = 0, ~R!Said("name")',
         replies \in Seq(Replies)
  PROVE  Keeping' /\ rfailed' \in Int
<1>1. ~R!NewName
  <2> SUFFICES ASSUME R!NewName PROVE FALSE
    OBVIOUS
  <2>1. R!Reply("name")
    BY DEF R!NewName
  <2> QED BY <2>1, Replied
<1>2. ~R!OpenFails
  BY DEF R!OpenFails
<1> QED BY <1>1, <1>2, NextHeaderKeeping, SkipKeeping, UnlinkKeeping, OpenKeeping, NodeKeeping,
           ReadKeeping, WriteKeeping, CloseKeeping, ContinueKeeping, PromptKeeping
        DEF R!RestoreNext

LEMMA ExtractStays ==
  ASSUME R!RestoreNext
  PROVE  function' = function
  BY DEF R!RestoreNext, R!NextHeader, R!Skip, R!UnlinkFirst, R!OpenFile, R!OpenFails, R!MakeNode,
         R!ReadContent, R!WriteContent, R!CloseFile, R!Continue, R!SameName, R!NewName,
         R!BadName, R!PromptEnds, R!PromptQuits, R!Reply, R!options

LEMMA NextKeeping ==
  ASSUME NamesTell
  PROVE  Made /\ RestoreInv /\ WholeInv /\ [RoundTripNext]_<<vars, readVars>> => WholeInv'
<1> SUFFICES ASSUME Made, RestoreInv, WholeInv, [RoundTripNext]_<<vars, readVars>>,
                    function' = "extract"
             PROVE  /\ rfaults' \in Nat /\ replies' \in Seq(Replies)
                    /\ resizes' = 0 /\ rfaults' = 0 /\ ~misled' /\ ~R!Said("name")' =>
                         rfailed' \in Int /\ Keeping'
  BY DEF WholeInv
<1>1. CASE MakeArchive
  <2>1. /\ function = "extract" /\ rfaults' = rfaults /\ replies' = replies /\ misled' = misled
        /\ (R!Said("name")' <=> R!Said("name"))
    BY <1>1 DEF MakeArchive, readVars, R!Said
  <2>2. rfaults \in Nat /\ replies \in Seq(Replies)
    BY <2>1 DEF WholeInv
  <2>3. ASSUME resizes' = 0, rfaults' = 0, ~misled', ~R!Said("name")'
        PROVE  rfailed' \in Int /\ Keeping'
    <3>1. resizes = 0
      BY <2>3, MadeSteps DEF Made
    <3>2. Restoring /\ Keeping /\ rfailed \in Int
      BY <2>1, <2>3, <3>1 DEF WholeInv, RestoreInv
    <3> QED BY <1>1, <3>2, MakeKeeping
  <2> QED BY <2>1, <2>2, <2>3
<1>2. CASE ReadArchive
  <2>1. /\ R!RestoreNext /\ UNCHANGED vars /\ function = "extract"
    BY <1>2, ExtractStays DEF ReadArchive
  <2>2. rfaults \in Nat /\ replies \in Seq(Replies)
    BY <2>1 DEF WholeInv
  <2>3. /\ rfaults' \in {rfaults, rfaults + 1} /\ replies' \in Seq(Replies)
        /\ R!Said("name") => R!Said("name")'
        /\ misled => misled'
    BY <2>1, <2>2, HistoryStep
  <2>4. ASSUME resizes' = 0, rfaults' = 0, ~misled', ~R!Said("name")'
        PROVE  rfailed' \in Int /\ Keeping'
    <3>1. resizes = 0
      BY <2>4, MadeSteps DEF Made
    <3>2. rfaults = 0 /\ ~misled /\ ~R!Said("name")
      BY <2>2, <2>3, <2>4
    <3>3. Restoring /\ Keeping /\ rfailed \in Int
      BY <2>1, <3>1, <3>2 DEF WholeInv, RestoreInv
    <3>4. Readable
      BY <1>2, <3>1, MadeReadable
    <3> QED BY <2>1, <2>2, <2>4, <3>2, <3>3, <3>4, StepKeeping
  <2> QED BY <2>2, <2>3, <2>4
<1>3. CASE VerifyArchive \/ Touch
  BY <1>3 DEF VerifyArchive, Touch, readVars
<1>4. CASE Over \/ UNCHANGED <<vars, readVars>>
  <2>1. UNCHANGED <<vars, readVars>>
    BY <1>4 DEF Over
  <2>2. UNCHANGED <<vars, files, shown, header, io, rfailed, rpc, rback, total, chunk,
                    function, rfaults, misled, replies, resizes>>
    BY <2>1 DEF vars, envVars, readVars
  <2>3. (R!Said("name")' <=> R!Said("name")) /\ (Busy' <=> Busy) /\ (InHand' <=> InHand)
    BY <2>2 DEF R!Said, Busy, InHand
  <2>4. /\ rfaults \in Nat /\ replies \in Seq(Replies)
        /\ resizes = 0 /\ rfaults = 0 /\ ~misled /\ ~R!Said("name") =>
             rfailed \in Int /\ Keeping
    BY <2>2 DEF WholeInv
  <2>5. ASSUME Keeping PROVE Keeping'
    <3>1. \A j \in DOMAIN shown : Regular(shown[j]) =>
            Filled(shown[j]) \/ (InHand' /\ R!Name(shown[j]) = R!Name(header))
      BY <2>3, <2>5 DEF Keeping
    <3>2. /\ rfailed' < 0 => rfailed < 0 /\ io' = io
          /\ rpc' \in {"header", "skip", "unlink", "restore"} => rfailed' < 0
          /\ Busy' /\ rpc' \notin {"unlink", "restore"} =>
               \E C \in Seq(Piece) : /\ files[R!Name(header)] = RegularFile(C)
                                     /\ rpc' # "write" => Len(C) = total'
                                     /\ rpc' = "write" => Len(C) + Len(chunk') = total'
          /\ rpc' = "write" => chunk' \in Seq(Piece)
      BY <2>2, <2>3, <2>5 DEF Keeping
    <3> QED BY <2>2, <2>3, <2>5, <3>1, <3>2, StillKept
  <2> QED BY <2>2, <2>3, <2>4, <2>5
<1> QED BY <1>1, <1>2, <1>3, <1>4 DEF RoundTripNext

LEMMA KeepingHolds == ASSUME NamesTell PROVE RoundTripSpec => []WholeInv
<1>1. RoundTripSpec => []Made
  BY MadeHolds
<1>2. RoundTripSpec => []RestoreInv
  BY RestoringHolds
<1> QED BY <1>1, <1>2, InitKeeping, NextKeeping, PTL DEF RoundTripSpec

(* When extract ends without an error, a name given anew or a volume of     *)
(* another file that passed for its own, every regular file it began is as  *)
(* long as its header says.                                                 *)
THEOREM NothingInPart == ASSUME NamesTell PROVE RoundTripSpec => []Whole
<1>1. RoundTripSpec => []WholeInv
  BY KeepingHolds
<1>2. WholeInv => Whole
  <2> SUFFICES ASSUME WholeInv, resizes = 0, rpc = "done", rfailed = 0, rfaults = 0,
                      function = "extract", ~misled, ~R!Said("name"),
                      NEW j \in DOMAIN shown, shown[j].k = "hdr", R!IsRegular(shown[j])
               PROVE  Len(R!Written(shown[j])) = shown[j].s
    BY DEF Whole, R!Whole
  <2>1. Keeping
    BY DEF WholeInv
  <2>2. ~InHand /\ Regular(shown[j])
    BY DEF InHand, Busy, Regular
  <2> QED BY <2>1, <2>2 DEF Keeping, Filled
<1> QED BY <1>1, <1>2, PTL

----------------------------------------------------------------------------
(* From one volume to the next. *)

(* The volume in front of c ends in the middle of a file: the one on it     *)
(* whose header is at h goes on at c, where its content is cut.             *)
CutAt(h, c) ==
    /\ h < c /\ IsHead(log[h]) /\ log[h].v = log[c - 1].v /\ log[h].f = log[c].f
    /\ c = h + HeadLength(log[h]) + (log[c].p - log[h].p)
    /\ log[h].p + log[h].s = log[c].p + log[c].s

(* The same, of the header that is to be written.                           *)
ToBeCut(h) ==
    /\ IsHead(log[h]) /\ log[h].v = log[Len(log)].v /\ log[h].f = i
    /\ Len(log) + 1 = h + HeadLength(log[h]) + (RestartAt - log[h].p)
    /\ log[h].p + log[h].s = StSize

Used(v) == \E j \in DOMAIN log : log[j].v = v

JoinedOf ==
    /\ \A v \in 1 .. volume : v < volume => Used(v)
    /\ volume >= 2 /\ pc # "restart" => Used(volume)
    /\ \A c \in DOMAIN log : c > 1 /\ log[c].v # log[c - 1].v =>
         log[c].k = "cont" /\ \E h \in DOMAIN log : CutAt(h, c)
    /\ pc = "restart" => \E h \in DOMAIN log : ToBeCut(h)

Joined == Undisturbed /\ cuts = 0 => JoinedOf

LEMMA LogIs ==
  ASSUME IInv
  PROVE  /\ log \in Seq(Units) /\ Len(log) \in Nat /\ DOMAIN log = 1 .. Len(log)
         /\ volume \in Nat \ {0}
         /\ \A j \in DOMAIN log : /\ log[j] \in Units /\ log[j].v \in Nat /\ log[j].f \in Nat
                                  /\ log[j].o \in Int /\ log[j].p \in Int /\ log[j].s \in Int
<1>1. log \in Seq(Units) /\ volume \in Nat \ {0}
  BY DEF IInv, TypeOK, FormatTypeOK, FileTypeOK
<1> QED BY <1>1, UnitNumbers, LenProperties

(* What was written last is on the volume that is open. *)
LEMMA LastVolume ==
  ASSUME IInv, ToldOf, JoinedOf, pc # "restart", Len(log) > 0
  PROVE  log[Len(log)].v = volume
<1>1. /\ Len(log) \in DOMAIN log /\ volume \in Nat \ {0}
      /\ log[Len(log)].v \in 1 .. volume /\ log[Len(log)].v \in Nat
  BY LogIs DEF ToldOf, AllFit, Fits
<1>2. CASE volume = 1
  BY <1>1, <1>2
<1>3. CASE volume >= 2
  <2>1. PICK j \in DOMAIN log : log[j].v = volume
    BY <1>3 DEF JoinedOf, Used
  <2>2. j <= Len(log)
    BY <2>1, LogIs
  <2>3. volume <= log[Len(log)].v
    BY <1>1, <2>1, <2>2 DEF ToldOf, Sorted
  <2> QED BY <1>1, <2>3
<1> QED BY <1>1, <1>2, <1>3

(* Units behind the log change nothing of how its volumes are joined.       *)
LEMMA JoinedFront ==
  ASSUME IInv, JoinedOf, NEW T \in Seq(Units), log' = log \o T,
         \A j \in 1 .. Len(T) : T[j].v = volume
  PROVE  /\ \A v : Used(v) => Used(v)'
         /\ Len(T) \in Nat /\ DOMAIN log' = 1 .. Len(log) + Len(T)
         /\ \A j \in 1 .. Len(log) : log'[j] = log[j] /\ j \in DOMAIN log'
         /\ \A c \in DOMAIN log' : c > 1 /\ log'[c].v # log'[c - 1].v =>
              \/ c = Len(log) + 1 /\ c - 1 = Len(log) /\ Len(log) > 0
                 /\ log'[c] = T[1] /\ Len(T) > 0
              \/ log'[c].k = "cont" /\ \E h \in DOMAIN log' : CutAt(h, c)'
<1>1. /\ log \in Seq(Units) /\ Len(log) \in Nat /\ DOMAIN log = 1 .. Len(log)
  BY LogIs
<1>2. Longer(log, T, log')
  BY <1>1, LongerLog
<1>3. /\ Len(T) \in Nat /\ DOMAIN log' = 1 .. Len(log) + Len(T)
      /\ \A j \in 1 .. Len(log) : log'[j] = log[j] /\ j \in DOMAIN log'
  BY <1>1, <1>2 DEF Longer
<1>4. \A j \in DOMAIN log' : j > Len(log) => log'[j].v = volume
  <2> SUFFICES ASSUME NEW j \in DOMAIN log', j > Len(log) PROVE log'[j].v = volume
    OBVIOUS
  <2>1. j \in Len(log) + 1 .. Len(log) + Len(T) /\ log'[j] = T[j - Len(log)]
    BY <1>1, <1>2, <1>3 DEF Longer
  <2>2. j - Len(log) \in 1 .. Len(T)
    BY <1>1, <1>3, <2>1
  <2> QED BY <2>1, <2>2
<1>5. \A v : Used(v) => Used(v)'
  BY <1>1, <1>3 DEF Used
<1>6. ASSUME NEW c \in DOMAIN log', c > 1, log'[c].v # log'[c - 1].v
      PROVE  \/ c = Len(log) + 1 /\ c - 1 = Len(log) /\ Len(log) > 0
                /\ log'[c] = T[1] /\ Len(T) > 0
             \/ log'[c].k = "cont" /\ \E h \in DOMAIN log' : CutAt(h, c)'
  <2>1. CASE c <= Len(log)
    <3>1. /\ c \in DOMAIN log /\ c - 1 \in 1 .. Len(log) /\ log'[c] = log[c]
          /\ log'[c - 1] = log[c - 1]
      BY <1>1, <1>3, <1>6, <2>1
    <3>2. PICK h \in DOMAIN log : CutAt(h, c)
      BY <1>6, <3>1 DEF JoinedOf
    <3>3. log'[h] = log[h] /\ h \in DOMAIN log' /\ log[c].k = "cont"
      BY <1>1, <1>3, <1>6, <3>1 DEF JoinedOf
    <3>4. CutAt(h, c)'
      BY <3>1, <3>2, <3>3 DEF CutAt
    <3> QED BY <3>1, <3>3, <3>4
  <2>2. CASE c = Len(log) + 1
    <3>1. Len(log) > 0 /\ c - 1 = Len(log) /\ 1 \in 1 .. Len(T)
      BY <1>1, <1>3, <1>6, <2>2
    <3>2. log'[Len(log) + 1] = T[1]
      BY <1>2, <3>1 DEF Longer
    <3> QED BY <1>3, <2>2, <3>1, <3>2
  <2>3. CASE c > Len(log) + 1
    <3>1. c - 1 \in DOMAIN log' /\ c - 1 > Len(log) /\ c > Len(log)
      BY <1>1, <1>3, <1>6, <2>3
    <3>2. log'[c - 1].v = volume /\ log'[c].v = volume
      BY <1>4, <1>6, <3>1
    <3> QED BY <1>6, <3>2
  <2> QED BY <1>1, <1>3, <1>6, <2>1, <2>2, <2>3
<1> QED BY <1>3, <1>5, <1>6

LEMMA JoinedMore ==
  ASSUME IInv, ToldOf, JoinedOf, pc # "restart", pc' # "restart", volume' = volume,
         NEW T \in Seq(Units), log' = log \o T, \A j \in 1 .. Len(T) : T[j].v = volume
  PROVE  JoinedOf'
<1>1. ASSUME NEW c \in DOMAIN log', c > 1, log'[c].v # log'[c - 1].v
      PROVE  log'[c].k = "cont" /\ \E h \in DOMAIN log' : CutAt(h, c)'
  <2>1. CASE c = Len(log) + 1 /\ c - 1 = Len(log) /\ Len(log) > 0 /\ log'[c] = T[1] /\ Len(T) > 0
    <3>1. Len(log) \in 1 .. Len(log) /\ 1 \in 1 .. Len(T)
      BY <2>1, LogIs, JoinedFront
    <3>2. log'[c - 1] = log[Len(log)]
      BY <2>1, <3>1, JoinedFront
    <3>3. log'[c - 1].v = volume /\ log'[c].v = volume
      BY <2>1, <3>1, <3>2, LastVolume
    <3> QED BY <1>1, <3>3
  <2> QED BY <1>1, <2>1, JoinedFront
<1>2. \A v \in 1 .. volume' : v < volume' => Used(v)'
  BY JoinedFront DEF JoinedOf
<1>3. volume' >= 2 => Used(volume)'
  <2>1. volume >= 2 => Used(volume)
    BY DEF JoinedOf
  <2>2. ASSUME Used(volume) PROVE Used(volume)'
    <3>1. PICK v : v = volume
      OBVIOUS
    <3>2. Used(v)'
      BY <2>2, <3>1, JoinedFront
    <3> QED BY <3>1, <3>2 DEF Used
  <2> QED BY <2>1, <2>2
<1> QED BY <1>1, <1>2, <1>3 DEF JoinedOf

(* Failures are counted up. *)
LEMMA FaultsGrow ==
  ASSUME IInv, [Next]_vars
  PROVE  faults \in Nat /\ faults' \in Nat /\ faults' >= faults
<1>1. faults \in Nat /\ i \in Nat /\ nb_read \in Nat /\ Block \in Nat
  BY FileAssumption DEF IInv, TypeOK, FormatTypeOK, FileTypeOK
<1>2. ASSUME NEW r, r.fault \in Nat, faults' = faults + r.fault
      PROVE  faults' \in Nat /\ faults' >= faults
  BY <1>1, <1>2
<1>3. CASE StartLabel
  <2>1. CASE Label
    <3>1. PICK r \in HeaderResults(Block) : AddLabel(r)
      BY <1>3, <2>1 DEF StartLabel
    <3> QED BY <1>1, <1>2, <3>1, FaultSign DEF AddLabel, WriteHeader, Write
  <2>2. CASE ~Label
    BY <1>1, <1>3, <2>2 DEF StartLabel, fileVars
  <2> QED BY <1>1, <2>1, <2>2
<1>4. CASE HardLink
  <2>1. PICK r \in HeaderResults(Block) : AddLink(i, r)
    BY <1>4 DEF HardLink
  <2> QED BY <1>1, <1>2, <2>1, FaultSign DEF AddLink, WriteHeader, Write
<1>5. CASE AddEntry
  <2>1. Entry.blocks * Block \in Nat
    <3>1. i \in 1 .. Len(Entries)
      BY <1>5, LenProperties, CreateAssumption DEF AddEntry, IInv, TypeOK, Control
    <3>2. Entry \in EntryType
      BY <3>1, ElementOfSeq, CreateAssumption DEF Entry
    <3> QED BY <1>1, <3>2, ProductNat DEF EntryType
  <2>2. PICK r \in HeaderResults(Entry.blocks * Block) : AddFile(i, Entry.blocks, StSize, r)
    BY <1>5 DEF AddEntry
  <2> QED BY <1>1, <1>2, <2>1, <2>2, FaultSign DEF AddFile, WriteHeader, Write
<1>6. CASE WriteData
  <2>1. PICK r \in FormatResults(nb_read) : FormatWrite(Buffer(0, nb_read), r)
    BY <1>6 DEF WriteData
  <2> QED BY <1>1, <1>2, <2>1, FaultSign DEF FormatWrite, Write
<1>7. CASE WriteRest
  <2>1. PICK r \in FormatResults(nb_read - nb_write) :
          FormatWrite(Buffer(nb_write, nb_read - nb_write), r)
    BY <1>7 DEF WriteRest
  <2>2. nb_read - nb_write \in Nat
    BY <1>1, <1>7 DEF WriteRest, IInv, TypeOK, Counters
  <2> QED BY <1>1, <1>2, <2>1, <2>2, FaultSign DEF FormatWrite, Write
<1>8. CASE FinishFile
  <2>1. PICK r \in EndOfFileResults : EndOfFile(r)
    BY <1>8 DEF FinishFile
  <2>2. PadLength \in Nat
    BY PadLengthNat DEF IInv, TypeOK, FormatTypeOK
  <2>3. r.fault \in Nat
    BY <2>1, <2>2, FaultSign DEF EndOfFileResults
  <2> QED BY <1>1, <1>2, <2>1, <2>3 DEF EndOfFile, Write
<1>9. CASE Restart
  <2> DEFINE units == RestartUnits(i, RestartAt, StSize)
  <2>1. PICK r \in WriteResults(Len(units)) : RestartFile(i, RestartAt, StSize, r)
    BY <1>9 DEF Restart
  <2>2. units \in Seq(Units)
    BY <1>9, RestartTypes DEF Restart
  <2>3. Len(units) \in Nat
    BY <2>2, LenProperties
  <2>4. r.fault \in Nat
    BY <2>1, <2>3, FaultSign
  <2> QED BY <1>1, <1>2, <2>1, <2>4 DEF RestartFile, Write
<1>10. CASE StatFails \/ ReadFails \/ RestartIgnored
  BY <1>1, <1>10 DEF StatFails, ReadFails, CallFails, RestartIgnored, RestartFails
<1>11. CASE NextEntry \/ NoMoreEntries \/ ReadData \/ Exit \/ Operator \/ Resize
            \/ UNCHANGED vars
  BY <1>1, <1>11 DEF NextEntry, NoMoreEntries, ReadData, Exit, Close, Operator, NextVolume,
                     NewVolume, NewWriter, PromptEnds, PromptQuits, BadVolume, Resize, vars,
                     fileVars
<1> QED BY <1>1, <1>3, <1>4, <1>5, <1>6, <1>7, <1>8, <1>9, <1>10, <1>11
           DEF Next, Program, Finished

(* What was so before a step behind which nothing has gone wrong.           *)
LEMMA CalmBack ==
  ASSUME IInv, [Next]_vars, Undisturbed', cuts' = 0
  PROVE  /\ Undisturbed /\ cuts = 0 /\ Same
         /\ QuietInv => Quiet
         /\ ArrangedInv => Arranged
         /\ Told => ToldOf
         /\ Joined => JoinedOf
<1>1. cuts \in Nat /\ resizes \in Nat /\ volume \in Nat
  BY CreateAssumption DEF IInv, TypeOK, FormatTypeOK, FileTypeOK
<1>2. faults = 0
  BY FaultsGrow DEF Undisturbed
<1>3. cuts = 0 /\ resizes = 0 /\ Same
  BY <1>1, TableGrows DEF Undisturbed, Same
<1> QED BY <1>2, <1>3 DEF Undisturbed, QuietInv, ArrangedInv, Told, Joined

(* Nothing is written. *)
LEMMA JoinedStill ==
  ASSUME JoinedOf, log' = log, volume' = volume, pc # "restart", pc' # "restart"
  PROVE  JoinedOf'
  BY DEF JoinedOf, Used, CutAt

LEMMA InitJoined == Init => Joined
<1> SUFFICES ASSUME Init PROVE JoinedOf
  BY DEF Joined
<1>1. log = <<>> /\ DOMAIN log = {} /\ pc = "label" /\ volume = 1
  BY DEF Init, FileInit
<1> QED BY <1>1 DEF JoinedOf

LEMMA HeadersJoined ==
  IInv /\ Told /\ Joined /\ (StartLabel \/ HardLink \/ AddEntry) => Joined'
<1> SUFFICES ASSUME IInv, Told, Joined, StartLabel \/ HardLink \/ AddEntry, Undisturbed',
                    cuts' = 0
             PROVE  JoinedOf'
  BY DEF Joined
<1>1. ToldOf /\ JoinedOf
  BY CalmBack DEF Next, Program
<1>2. \E T \in Seq(Units) : log' = log \o T /\ \E k, f, p, s : HeaderLike(T, k, f, p, s)
  BY LabelWrites, LinkWrites, EntryWrites
<1>3. PICK T \in Seq(Units) : log' = log \o T /\ \A j \in 1 .. Len(T) : T[j].v = volume
  BY <1>2 DEF HeaderLike
<1>4. volume' = volume
  BY DEF StartLabel, HardLink, AddEntry, AddLabel, AddLink, AddFile, WriteHeader, Write, fileVars
<1>5. pc # "restart"
  BY DEF StartLabel, HardLink, AddEntry
<1>6. pc' # "restart"
  <2>1. CASE StartLabel
    <3>1. CASE Label
      <4>1. PICK r \in HeaderResults(Block) : OnStatus(HeaderStatus(Block, r), "label", "next")
        BY <2>1, <3>1 DEF StartLabel
      <4> QED BY <4>1, HeaderStatusType, OnStatusCases DEF IInv, TypeOK
    <3> QED BY <2>1, <3>1 DEF StartLabel
  <2>2. CASE HardLink
    <3>1. PICK r \in HeaderResults(Block) : OnStatus(HeaderStatus(Block, r), "link", "next")
      BY <2>2 DEF HardLink
    <3> QED BY <3>1, HeaderStatusType, OnStatusCases DEF IInv, TypeOK
  <2>3. CASE AddEntry
    <3> DEFINE length == Entry.blocks * Block
               ok == IF failed THEN "exit" ELSE AfterAdd
    <3>1. PICK r \in HeaderResults(length) : OnStatus(HeaderStatus(length, r), "add", ok)
      BY <2>3 DEF AddEntry
    <3>2. ok # "restart"
      BY DEF AfterAdd
    <3> HIDE DEF ok, length
    <3> QED BY <3>1, <3>2, HeaderStatusType, OnStatusCases DEF IInv, TypeOK
  <2> QED BY <2>1, <2>2, <2>3
<1> QED BY <1>1, <1>3, <1>4, <1>5, <1>6, JoinedMore

LEMMA ContentJoined ==
  IInv /\ Told /\ Joined /\ (WriteData \/ WriteRest \/ FinishFile) => Joined'
<1> SUFFICES ASSUME IInv, Told, Joined, WriteData \/ WriteRest \/ FinishFile, Undisturbed',
                    cuts' = 0
             PROVE  JoinedOf'
  BY DEF Joined
<1>1. ToldOf /\ JoinedOf
  BY CalmBack DEF Next, Program
<1>2. PICK T \in Seq(Units) : log' = log \o T /\ \A j \in 1 .. Len(T) : T[j].v = volume
  BY ContentWrites
<1>3. volume' = volume
  BY ContentWrites
<1>4. pc # "restart" /\ pc' # "restart"
  BY DEF WriteData, WriteRest, FinishFile
<1> QED BY <1>1, <1>2, <1>3, <1>4, JoinedMore

LEMMA NextVolumeJoined ==
  IInv /\ QuietInv /\ ArrangedInv /\ Told /\ Joined /\ NextVolume => Joined'
<1> SUFFICES ASSUME IInv, QuietInv, ArrangedInv, Told, Joined, NextVolume, Undisturbed',
                    cuts' = 0
             PROVE  JoinedOf'
  BY DEF Joined
<1>1. ToldOf /\ JoinedOf /\ Quiet /\ Arranged
  BY CalmBack DEF Next, Operator
<1>2. /\ pc = "prompt" /\ back = "split" /\ log' = log /\ volume' = volume + 1
      /\ volume \in Nat /\ volume' \in Nat /\ UNCHANGED loopVars /\ UNCHANGED envVars
      /\ back' = back /\ pc' = "restart"
  <2>1. pc = "prompt" /\ back = "split"
    BY <1>1 DEF NextVolume, Arranged
  <2> QED BY <2>1, LogIs DEF NextVolume, NewVolume, NewWriter
<1>3. PICK h \in DOMAIN log : Opened(h)
  BY <1>1, <1>2 DEF Arranged
<1>4. Used(volume)
  BY <1>3 DEF Opened, Used
<1>5. \A v \in 1 .. volume' : v < volume' => Used(v)'
  <2>1. \A v \in 1 .. volume : Used(v)
    BY <1>1, <1>2, <1>4 DEF JoinedOf
  <2>2. \A v : Used(v)' <=> Used(v)
    BY <1>2 DEF Used
  <2> QED BY <1>2, <2>1, <2>2
<1>6. log[Len(log)].v = volume
  <2>1. Len(log) > 0
    BY <1>3, LogIs
  <2> QED BY <1>1, <1>2, <2>1, LastVolume
<1>7. RestartAt' = Archived /\ StSize' = StSize /\ i' = i
  <2>1. nb_write # -1
    BY <1>1, <1>2 DEF Quiet, ContentAhead
  <2> QED BY <1>2, <2>1 DEF RestartAt, Archived, StSize, Entry, loopVars, envVars
<1>8. ToBeCut(h)'
  <2> DEFINE w == HeadLength(log[h])
             p == log[h].p
             a == Archived
             n == format_position
  <2>1. w \in Nat /\ p \in Int /\ n \in Nat /\ h \in Nat /\ Len(log) \in Nat /\ a = p + n
        /\ h + w + n = Len(log) + 1 /\ p + log[h].s = StSize /\ IsHead(log[h])
        /\ log[h].v = volume /\ log[h].f = i
    <3>1. w \in Nat
      BY <1>1, <1>3 DEF Arranged, Chained, Opened
    <3>2. n \in Nat
      BY DEF IInv, TypeOK, FormatTypeOK
    <3> QED BY <1>3, <3>1, <3>2, LogIs DEF Opened
  <2> HIDE DEF w, p, a, n
  <2>2. Len(log) + 1 = h + w + (a - p)
    BY <2>1
  <2> QED BY <1>2, <1>6, <1>7, <2>1, <2>2 DEF ToBeCut, w, p, a
<1>9. \A c \in DOMAIN log' : c > 1 /\ log'[c].v # log'[c - 1].v =>
         log'[c].k = "cont" /\ \E g \in DOMAIN log' : CutAt(g, c)'
  BY <1>1, <1>2 DEF JoinedOf, CutAt
<1> QED BY <1>2, <1>3, <1>5, <1>8, <1>9 DEF JoinedOf

LEMMA RestartJoined ==
  IInv /\ ArrangedInv /\ ArrangedInv' /\ Told /\ Joined /\ Restart => Joined'
<1> SUFFICES ASSUME IInv, ArrangedInv, ArrangedInv', Told, Joined, Restart, Undisturbed',
                    cuts' = 0
             PROVE  JoinedOf'
  BY DEF Joined
<1>1. ToldOf /\ JoinedOf /\ Arranged /\ Arranged'
  BY CalmBack DEF Next, Program, ArrangedInv
<1>2. PICK T \in Seq(Units) :
         log' = log \o T /\ HeaderLike(T, "cont", i, RestartAt, StSize - RestartAt)
  BY <1>1, RestartWrites DEF ToldOf
<1>3. volume' = volume /\ pc = "restart" /\ pc' \in {"write", "rest", "read"}
  BY DEF Restart, RestartFile, Write, AfterRestart
<1>4. \A j \in 1 .. Len(T) : T[j].v = volume
  BY <1>2 DEF HeaderLike
<1>5. PICK h \in DOMAIN log : ToBeCut(h)
  BY <1>1, <1>3 DEF JoinedOf
<1>6. RestartAt \in Int /\ StSize \in Nat
  BY <1>3, RestartTypes
<1>7. ASSUME NEW c \in DOMAIN log', c > 1, log'[c].v # log'[c - 1].v
      PROVE  log'[c].k = "cont" /\ \E g \in DOMAIN log' : CutAt(g, c)'
  <2>1. CASE c = Len(log) + 1 /\ c - 1 = Len(log) /\ Len(log) > 0 /\ log'[c] = T[1] /\ Len(T) > 0
    <3>1. /\ h \in 1 .. Len(log) /\ Len(log) \in 1 .. Len(log) /\ 1 \in 1 .. Len(T)
          /\ Len(log) \in Nat /\ Len(T) \in Nat
      BY <1>1, <1>2, <1>4, <2>1, LogIs, JoinedFront
    <3>2. log'[h] = log[h] /\ h \in DOMAIN log' /\ log'[c - 1] = log[Len(log)]
      BY <1>1, <1>2, <1>4, <2>1, <3>1, JoinedFront
    <3>3. log'[c].k = "cont" /\ log'[c].f = i /\ log'[c].p = RestartAt
          /\ log'[c].s = StSize - RestartAt
      BY <1>2, <2>1, <3>1 DEF HeaderLike
    <3>4. h < c
      BY <2>1, <3>1
    <3>5. log[h].p + log[h].s = RestartAt + (StSize - RestartAt)
      BY <1>5, <1>6 DEF ToBeCut
    <3>6. CutAt(h, c)'
      BY <1>5, <2>1, <3>2, <3>3, <3>4, <3>5 DEF ToBeCut, CutAt
    <3> QED BY <3>2, <3>3, <3>6
  <2> QED BY <1>1, <1>2, <1>4, <1>7, <2>1, JoinedFront
<1>8. Used(volume)'
  <2>1. PICK g \in DOMAIN log' : Opened(g)'
    BY <1>1, <1>3 DEF Arranged
  <2>2. log'[g].v = volume'
    BY <2>1 DEF Opened
  <2> QED BY <2>2 DEF Used
<1>9. \A v \in 1 .. volume' : v < volume' => Used(v)'
  BY <1>1, <1>2, <1>3, <1>4, JoinedFront DEF JoinedOf
<1> QED BY <1>3, <1>7, <1>8, <1>9 DEF JoinedOf

LEMMA AsideJoined ==
  IInv /\ ArrangedInv /\ Joined /\ (NextEntry \/ NoMoreEntries \/ StatFails \/ ReadData \/ ReadFails
      \/ RestartIgnored \/ Exit \/ PromptEnds \/ PromptQuits \/ BadVolume \/ Resize
      \/ UNCHANGED vars) => Joined'
<1> SUFFICES ASSUME IInv, ArrangedInv, Joined, Undisturbed', cuts' = 0,
                    NextEntry \/ NoMoreEntries \/ StatFails \/ ReadData \/ ReadFails
                      \/ RestartIgnored \/ Exit \/ PromptEnds \/ PromptQuits \/ BadVolume
                      \/ Resize \/ UNCHANGED vars
             PROVE  JoinedOf'
  BY DEF Joined
<1>1. JoinedOf /\ Undisturbed /\ Arranged
  BY CalmBack DEF Next, Program, Operator, Finished
<1>2. log' = log
  BY NothingWritten
<1>3. ~(RestartIgnored \/ Resize)
  <2>1. faults \in Nat /\ resizes \in Nat
    BY FileAssumption, CreateAssumption DEF IInv, TypeOK, FormatTypeOK, FileTypeOK
  <2> QED BY <1>1, <2>1 DEF RestartIgnored, RestartFails, Resize, Undisturbed
<1>4. CASE UNCHANGED vars
  <2>1. /\ pc' = pc /\ volume' = volume /\ RestartAt' = RestartAt /\ StSize' = StSize /\ i' = i
    BY <1>4 DEF vars, fileVars, loopVars, envVars, RestartAt, StSize, Entry
  <2> QED BY <1>1, <1>2, <2>1 DEF JoinedOf, Used, CutAt, ToBeCut
<1>5. CASE ~UNCHANGED vars
  <2>1. volume' = volume
    BY <1>3, <1>5 DEF NextEntry, NoMoreEntries, StatFails, CallFails, ReadData, ReadFails, Exit,
                      Close, PromptEnds, PromptQuits, BadVolume, fileVars
  <2>2. pc # "restart" /\ pc' # "restart"
    <3>1. back = "split" \/ pc # "prompt"
      BY <1>1 DEF Arranged
    <3> QED BY <1>3, <1>5, <3>1 DEF NextEntry, NoMoreEntries, StatFails, ReadData, ReadFails, Exit,
                             PromptEnds, PromptQuits, BadVolume
  <2> QED BY <1>1, <1>2, <2>1, <2>2, JoinedStill
<1> QED BY <1>4, <1>5

LEMMA NextJoined ==
  IInv /\ QuietInv /\ ArrangedInv /\ ArrangedInv' /\ Told /\ Joined /\ [Next]_vars => Joined'
  BY HeadersJoined, ContentJoined, NextVolumeJoined, RestartJoined, AsideJoined
     DEF Next, Program, Operator, Finished

----------------------------------------------------------------------------
(* The way from header to header. *)

(* Every header is whole on its volume. *)
HeadsOf ==
    \A h \in DOMAIN log : IsHead(log[h]) =>
        /\ log[h].p \in Nat
        /\ \E l \in DOMAIN log : l = h + HeadLength(log[h]) - 1 /\ log[l].v = log[h].v

Heads == Undisturbed /\ cuts = 0 => HeadsOf

LEMMA InitHeads == Init => Heads
<1> SUFFICES ASSUME Init PROVE HeadsOf
  BY DEF Heads
<1>1. log = <<>> /\ DOMAIN log = {}
  BY DEF Init, FileInit
<1> QED BY <1>1 DEF HeadsOf

(* What is appended holds its headers whole. *)
LEMMA HeadsMore ==
  ASSUME IInv, HeadsOf, NEW T \in Seq(Units), log' = log \o T,
         \A j \in 1 .. Len(T) : IsHead(T[j]) =>
            /\ T[j].p \in Nat /\ HeadLength(T[j]) \in Nat
            /\ \E l \in 1 .. Len(T) : l = j + HeadLength(T[j]) - 1 /\ T[l].v = T[j].v
  PROVE  HeadsOf'
<1>1. Longer(log, T, log') /\ Len(log) \in Nat /\ DOMAIN log = 1 .. Len(log)
  BY LogIs, LongerLog
<1>2. DOMAIN log' = 1 .. Len(log) + Len(T) /\ Len(T) \in Nat
  BY <1>1 DEF Longer
<1> SUFFICES ASSUME NEW h \in DOMAIN log', IsHead(log'[h])
             PROVE  /\ log'[h].p \in Nat
                    /\ \E l \in DOMAIN log' :
                          l = h + HeadLength(log'[h]) - 1 /\ log'[l].v = log'[h].v
  BY DEF HeadsOf
<1>3. CASE h \in 1 .. Len(log)
  <2>1. log'[h] = log[h] /\ h \in DOMAIN log
    BY <1>1, <1>3 DEF Longer
  <2>2. PICK l \in DOMAIN log : l = h + HeadLength(log[h]) - 1 /\ log[l].v = log[h].v
    BY <2>1 DEF HeadsOf
  <2>3. log'[l] = log[l] /\ l \in DOMAIN log'
    BY <1>1, <1>2, <2>2 DEF Longer
  <2>4. log[h].p \in Nat
    BY <2>1 DEF HeadsOf
  <2> QED BY <2>1, <2>2, <2>3, <2>4
<1>4. CASE h \in Len(log) + 1 .. Len(log) + Len(T)
  <2>1. PICK j \in 1 .. Len(T) : j = h - Len(log)
    BY <1>1, <1>2, <1>4
  <2>2. log'[h] = T[j]
    BY <1>1, <1>4, <2>1 DEF Longer
  <2>3. PICK l \in 1 .. Len(T) : l = j + HeadLength(T[j]) - 1 /\ T[l].v = T[j].v
    BY <2>2
  <2>4. PICK m \in DOMAIN log' : m = Len(log) + l
    BY <1>1, <1>2
  <2>5. m \in Len(log) + 1 .. Len(log) + Len(T) /\ m - Len(log) = l
    BY <1>1, <1>2, <2>4
  <2>6. log'[m] = T[l]
    BY <1>1, <2>5 DEF Longer
  <2>7. m = h + HeadLength(log'[h]) - 1
    <3>1. PICK w : w = HeadLength(T[j])
      OBVIOUS
    <3>2. w \in Nat
      BY <2>2, <3>1
    <3> QED BY <1>1, <2>1, <2>2, <2>3, <2>4, <3>1, <3>2
  <2> QED BY <2>2, <2>3, <2>6, <2>7
<1> QED BY <1>1, <1>2, <1>3, <1>4

(* A whole header in one piece. *)
LEMMA HeaderHeads ==
  ASSUME NEW T \in Seq(Units), NEW k, NEW f, NEW p \in Nat, NEW s, HeaderLike(T, k, f, p, s),
         Len(T) = IF k = "hdr" THEN Entries[f].blocks * Block ELSE Block
  PROVE  \A j \in 1 .. Len(T) : IsHead(T[j]) =>
            /\ T[j].p \in Nat /\ HeadLength(T[j]) \in Nat
            /\ \E l \in 1 .. Len(T) : l = j + HeadLength(T[j]) - 1 /\ T[l].v = T[j].v
<1> SUFFICES ASSUME NEW j \in 1 .. Len(T), IsHead(T[j])
             PROVE  /\ T[j].p \in Nat /\ HeadLength(T[j]) \in Nat
                    /\ \E l \in 1 .. Len(T) : l = j + HeadLength(T[j]) - 1 /\ T[l].v = T[j].v
  OBVIOUS
<1>1. T[j].o = j - 1 /\ T[j].k = k /\ T[j].f = f /\ T[j].p = p /\ T[j].o = 0
  BY DEF HeaderLike, IsHead
<1>2. j = 1 /\ Len(T) \in Nat /\ Len(T) \in 1 .. Len(T)
  BY <1>1, LenProperties
<1>3. HeadLength(T[j]) = Len(T)
  BY <1>1 DEF HeadLength
<1>4. T[Len(T)].v = volume /\ T[j].v = volume
  BY <1>2 DEF HeaderLike
<1>5. Len(T) = j + HeadLength(T[j]) - 1
  BY <1>2, <1>3
<1> QED BY <1>1, <1>2, <1>3, <1>4, <1>5

(* The header that a step writes, when none is cut. *)
WholeOne(T, k, f, p, s) ==
    /\ k \in {"hdr", "cont", "link", "label"} /\ p \in Nat
    /\ HeaderLike(T, k, f, p, s)
    /\ Len(T) = IF k = "hdr" THEN Entries[f].blocks * Block ELSE Block
    /\ k = "cont" => pc = "restart"

Headed(T) == log' = log \o T /\ \E k, f, p, s : WholeOne(T, k, f, p, s)

LEMMA PieceIs ==
  ASSUME NEW T, NEW k \in {"hdr", "cont", "link", "label"}, NEW f, NEW p \in Nat, NEW s,
         log' = log \o T, HeaderLike(T, k, f, p, s),
         Len(T) = IF k = "hdr" THEN Entries[f].blocks * Block ELSE Block,
         k = "cont" => pc = "restart"
  PROVE  Headed(T)
<1>1. WholeOne(T, k, f, p, s)
  BY DEF WholeOne
<1> QED BY <1>1 DEF Headed

LEMMA LabelPiece ==
  ASSUME IInv, StartLabel, Undisturbed', cuts' = 0
  PROVE  log' = log \/ \E T \in Seq(Units) : Headed(T)
<1>1. cuts = 0 /\ Undisturbed
  BY CalmBack DEF Next, Program
<1>2. CASE Label
  <2>1. PICK r \in HeaderResults(Block) :
          AddLabel(r) /\ OnStatus(HeaderStatus(Block, r), "label", "next")
    BY <1>2 DEF StartLabel
  <2>2. faults' = faults + r.fault /\ r.fault \in Nat
    BY <2>1, FaultSign, FileAssumption DEF AddLabel, WriteHeader, Write
  <2>3. HeaderStatus(Block, r) # "end_of_tape" /\ r.fault = 0
    BY <1>1, <2>1, <2>2, StatusCuts DEF Undisturbed
  <2>4. 1 * Block = Block /\ 1 \in Nat \ {0} /\ 0 \in Nat /\ 0 \in Int
        /\ "label" \in Kind \ {"data"}
    BY FileAssumption DEF Kind
  <2>5. r \in HeaderResults(1 * Block) /\ WriteHeader(HeaderUnits("label", 0, 1, 0, 0), r)
        /\ HeaderStatus(1 * Block, r) # "end_of_tape"
    BY <2>1, <2>3, <2>4 DEF AddLabel
  <2>6. PICK T \in Seq(Units) : /\ log' = log \o T /\ HeaderLike(T, "label", 0, 0, 0)
                                /\ Len(T) = 1 * Block
    BY <2>3, <2>4, <2>5, WholeHeader
  <2> QED BY <2>4, <2>6, PieceIs
<1>3. CASE ~Label
  BY <1>3 DEF StartLabel, fileVars
<1> QED BY <1>2, <1>3

LEMMA LinkPiece ==
  ASSUME IInv, HardLink, Undisturbed', cuts' = 0
  PROVE  \E T \in Seq(Units) : Headed(T)
<1>1. cuts = 0 /\ Undisturbed /\ i \in Nat
  BY CalmBack DEF Next, Program, IInv, TypeOK
<1>2. PICK r \in HeaderResults(Block) :
        AddLink(i, r) /\ OnStatus(HeaderStatus(Block, r), "link", "next")
  BY DEF HardLink
<1>3. faults' = faults + r.fault /\ r.fault \in Nat
  BY <1>2, FaultSign, FileAssumption DEF AddLink, WriteHeader, Write
<1>4. HeaderStatus(Block, r) # "end_of_tape" /\ r.fault = 0
  BY <1>1, <1>2, <1>3, StatusCuts DEF Undisturbed
<1>5. 1 * Block = Block /\ 1 \in Nat \ {0} /\ 0 \in Int /\ 0 \in Nat /\ "link" \in Kind \ {"data"}
  BY FileAssumption DEF Kind
<1>6. r \in HeaderResults(1 * Block) /\ WriteHeader(HeaderUnits("link", i, 1, 0, 0), r)
      /\ HeaderStatus(1 * Block, r) # "end_of_tape"
  BY <1>2, <1>4, <1>5 DEF AddLink
<1>7. PICK T \in Seq(Units) : /\ log' = log \o T /\ HeaderLike(T, "link", i, 0, 0)
                              /\ Len(T) = 1 * Block
  BY <1>1, <1>4, <1>5, <1>6, WholeHeader
<1> QED BY <1>5, <1>7, PieceIs

LEMMA EntryPiece ==
  ASSUME IInv, AddEntry, Undisturbed', cuts' = 0
  PROVE  \E T \in Seq(Units) : Headed(T)
<1>1. cuts = 0 /\ faults' = 0
  BY CalmBack DEF Next, Program, Undisturbed
<1>2. PICK T \in Seq(Units) : /\ log' = log \o T /\ HeaderLike(T, "hdr", i, 0, StSize)
                              /\ Len(T) = Entry.blocks * Block
  BY <1>1, EntryWrites
<1>3. 0 \in Nat
  OBVIOUS
<1>4. Len(T) = Entries[i].blocks * Block
  BY <1>2 DEF Entry
<1> QED BY <1>2, <1>3, <1>4, PieceIs

LEMMA RestartPiece ==
  ASSUME IInv, QuietInv, ArrangedInv, ArrangedInv', Told, Restart, Undisturbed', cuts' = 0
  PROVE  \E T \in Seq(Units) : Headed(T)
<1>1. ToldOf /\ Arranged /\ Arranged' /\ Quiet
  BY CalmBack DEF Next, Program, ArrangedInv
<1>2. PICK T \in Seq(Units) :
         log' = log \o T /\ HeaderLike(T, "cont", i, RestartAt, StSize - RestartAt)
  BY <1>1, RestartWrites DEF ToldOf
<1>3. /\ volume' = volume /\ pc = "restart" /\ pc' \in {"write", "rest", "read"}
      /\ format_position' = 0
  <2>1. remain_header = <<>>
    BY <1>1 DEF Arranged
  <2> QED BY <2>1 DEF Restart, RestartFile, Write, AfterRestart
<1>4. RestartAt \in Nat
  <2>1. nb_write \in Nat
    BY <1>1, <1>3 DEF Quiet, ContentAhead, IInv, TypeOK, Control
  <2> QED BY <1>3, <2>1, ContentSizes DEF RestartAt
<1>5. Longer(log, T, log') /\ Len(log) \in Nat /\ DOMAIN log = 1 .. Len(log)
  BY <1>2, LogIs, LongerLog
<1>6. PICK g \in DOMAIN log' : Opened(g)'
  BY <1>1, <1>3 DEF Arranged
<1>7. IsHead(log'[g]) /\ log'[g].v = volume /\ g + HeadLength(log'[g]) + 0 = Len(log') + 1
  BY <1>3, <1>6 DEF Opened
<1>8. g \notin 1 .. Len(log)
  <2> SUFFICES ASSUME g \in 1 .. Len(log) PROVE FALSE
    OBVIOUS
  <2>1. log'[g] = log[g] /\ g \in DOMAIN log
    BY <1>5 DEF Longer
  <2>2. log[g].v < volume /\ log[g].v \in Nat
    BY <1>1, <1>3, <1>5, <2>1, LogIs DEF Arranged, OnVolume
  <2> QED BY <1>7, <2>1, <2>2
<1>9. /\ g \in Len(log) + 1 .. Len(log) + Len(T) /\ Len(T) \in Nat
      /\ Len(log') = Len(log) + Len(T)
  <2>1. DOMAIN log' = 1 .. Len(log) + Len(T) /\ Len(T) \in Nat /\ Len(log') = Len(log) + Len(T)
    BY <1>5 DEF Longer
  <2> QED BY <1>5, <1>8, <2>1
<1>10. PICK j \in 1 .. Len(T) : j = g - Len(log) /\ log'[g] = T[j]
  BY <1>5, <1>9 DEF Longer
<1>11. j = 1 /\ T[j].k = "cont"
  <2>1. T[j].o = j - 1 /\ T[j].k = "cont" /\ T[j].o = 0
    BY <1>2, <1>7, <1>10 DEF HeaderLike, IsHead
  <2> QED BY <2>1
<1>12. Len(T) = Block
  <2>1. HeadLength(log'[g]) = Block /\ Block \in Nat
    BY <1>10, <1>11, FileAssumption DEF HeadLength
  <2> QED BY <1>5, <1>7, <1>9, <1>10, <1>11, <2>1
<1> QED BY <1>2, <1>3, <1>4, <1>12, PieceIs

LEMMA HeaderPiece ==
  ASSUME IInv, QuietInv, ArrangedInv, ArrangedInv', Told, Undisturbed', cuts' = 0,
         StartLabel \/ HardLink \/ AddEntry \/ Restart
  PROVE  log' = log \/ \E T \in Seq(Units) : Headed(T)
  BY LabelPiece, LinkPiece, EntryPiece, RestartPiece


LEMMA NextHeads ==
  IInv /\ QuietInv /\ ArrangedInv /\ ArrangedInv' /\ Told /\ Heads /\ [Next]_vars => Heads'
<1> SUFFICES ASSUME IInv, QuietInv, ArrangedInv, ArrangedInv', Told, Heads, [Next]_vars
             PROVE  Heads'
  OBVIOUS
<1>1. CASE WriteData \/ WriteRest \/ FinishFile
  <2> SUFFICES ASSUME Undisturbed', cuts' = 0 PROVE HeadsOf'
    BY DEF Heads
  <2>1. HeadsOf
    BY CalmBack DEF Heads
  <2>2. PICK T \in Seq(Units) :
          log' = log \o T /\ \A j \in 1 .. Len(T) : T[j].k \in {"data", "junk", "pad"}
    BY <1>1, ContentWrites
  <2>3. \A j \in 1 .. Len(T) : ~IsHead(T[j])
    BY <2>2 DEF IsHead
  <2> QED BY <2>1, <2>2, <2>3, HeadsMore
<1>2. CASE NextEntry \/ NoMoreEntries \/ StatFails \/ ReadData \/ ReadFails \/ RestartIgnored
           \/ Exit \/ PromptEnds \/ PromptQuits \/ BadVolume \/ Resize \/ NextVolume
           \/ UNCHANGED vars
  <2> SUFFICES ASSUME Undisturbed', cuts' = 0 PROVE HeadsOf'
    BY DEF Heads
  <2>1. HeadsOf
    BY CalmBack DEF Heads
  <2>2. log' = log
    BY <1>2, NothingWritten DEF NextVolume, NewVolume, NewWriter
  <2> QED BY <2>1, <2>2 DEF HeadsOf
<1>3. CASE StartLabel \/ HardLink \/ AddEntry \/ Restart
  <2> SUFFICES ASSUME Undisturbed', cuts' = 0 PROVE HeadsOf'
    BY DEF Heads
  <2>1. HeadsOf
    BY CalmBack DEF Heads
  <2>2. CASE log' = log
    BY <2>1, <2>2 DEF HeadsOf
  <2>3. CASE log' # log
    <3>1. PICK T \in Seq(Units) : Headed(T)
      BY <1>3, <2>3, HeaderPiece
    <3> QED BY <2>1, <3>1, HeaderHeads, HeadsMore DEF Headed, WholeOne
  <2> QED BY <2>2, <2>3
<1> QED BY <1>1, <1>2, <1>3 DEF Next, Program, Operator, Finished


(* A rest of a file begins a volume, and what a header announces follows it *)
(* as far as the volume goes.                                               *)
Solidly(s) ==
    /\ \A c \in DOMAIN s : IsHead(s[c]) /\ s[c].k = "cont" => c = 1 \/ s[c - 1].v # s[c].v
    /\ \A h, l \in DOMAIN s :
         /\ IsHead(s[h]) /\ s[l].v = s[h].v
         /\ l >= h + HeadLength(s[h]) /\ l < h + HeadLength(s[h]) + s[h].s
         => s[l].k = "data"

Solid == Undisturbed /\ cuts = 0 => Solidly(log)

LEMMA InitSolid == Init => Solid
<1> SUFFICES ASSUME Init PROVE Solidly(log)
  BY DEF Solid
<1>1. log = <<>> /\ DOMAIN log = {}
  BY DEF Init, FileInit
<1> QED BY <1>1 DEF Solidly

(* What is appended is data, or behind all that was announced.              *)
LEMMA SolidMore ==
  ASSUME IInv, HeadsOf, Solidly(log), NEW T \in Seq(Units), log' = log \o T,
         \A j \in 1 .. Len(T) : IsHead(T[j]) =>
            /\ HeadLength(T[j]) \in Nat /\ Len(T) < j + HeadLength(T[j])
            /\ T[j].k = "cont" => j = 1 /\ (Len(log) = 0 \/ log[Len(log)].v # T[j].v),
         \A j \in 1 .. Len(T) : T[j].k = "data" \/
            \A h \in DOMAIN log : IsHead(log[h]) /\ log[h].v = T[j].v =>
               ~(Len(log) + j < h + HeadLength(log[h]) + log[h].s)
  PROVE  Solidly(log')
<1>1. Longer(log, T, log') /\ Len(log) \in Nat /\ DOMAIN log = 1 .. Len(log)
  BY LogIs, LongerLog
<1>2. DOMAIN log' = 1 .. Len(log) + Len(T) /\ Len(T) \in Nat
  BY <1>1 DEF Longer
<1>3. \A j \in 1 .. Len(log) : log'[j] = log[j] /\ j \in DOMAIN log
  BY <1>1 DEF Longer
<1>4. \A n \in Len(log) + 1 .. Len(log) + Len(T) :
        \E j \in 1 .. Len(T) : n = Len(log) + j /\ log'[n] = T[j]
  <2> SUFFICES ASSUME NEW n \in Len(log) + 1 .. Len(log) + Len(T)
               PROVE  \E j \in 1 .. Len(T) : n = Len(log) + j /\ log'[n] = T[j]
    OBVIOUS
  <2>1. log'[n] = T[n - Len(log)]
    BY <1>1 DEF Longer
  <2>2. n - Len(log) \in 1 .. Len(T) /\ n = Len(log) + (n - Len(log))
    BY <1>1, <1>2
  <2> QED BY <2>1, <2>2
<1>5. ASSUME NEW c \in DOMAIN log', IsHead(log'[c]), log'[c].k = "cont"
      PROVE  c = 1 \/ log'[c - 1].v # log'[c].v
  <2>1. CASE c \in 1 .. Len(log)
    <3>1. log'[c] = log[c] /\ c \in DOMAIN log
      BY <1>3, <2>1
    <3>2. c = 1 \/ log[c - 1].v # log[c].v
      BY <1>5, <3>1 DEF Solidly
    <3>3. c # 1 => log'[c - 1] = log[c - 1]
      <4>1. c # 1 => c - 1 \in 1 .. Len(log)
        BY <1>1, <2>1
      <4> QED BY <1>3, <4>1
    <3> QED BY <3>1, <3>2, <3>3
  <2>2. CASE c \in Len(log) + 1 .. Len(log) + Len(T)
    <3>1. PICK j \in 1 .. Len(T) : c = Len(log) + j /\ log'[c] = T[j]
      BY <1>4, <2>2
    <3>2. j = 1 /\ (Len(log) = 0 \/ log[Len(log)].v # T[j].v)
      BY <1>5, <3>1
    <3>3. CASE Len(log) = 0
      BY <3>1, <3>2, <3>3
    <3>4. CASE Len(log) # 0
      <4>1. c - 1 = Len(log) /\ Len(log) \in 1 .. Len(log)
        BY <1>1, <3>1, <3>2, <3>4
      <4>2. log'[c - 1] = log[Len(log)]
        BY <1>3, <4>1
      <4> QED BY <3>1, <3>2, <3>4, <4>2
    <3> QED BY <3>3, <3>4
  <2> QED BY <1>1, <1>2, <2>1, <2>2
<1>6. ASSUME NEW h \in DOMAIN log', NEW l \in DOMAIN log', IsHead(log'[h]),
             log'[l].v = log'[h].v, l >= h + HeadLength(log'[h]),
             l < h + HeadLength(log'[h]) + log'[h].s
      PROVE  log'[l].k = "data"
  <2>1. CASE h \in 1 .. Len(log) /\ l \in 1 .. Len(log)
    <3>1. log'[h] = log[h] /\ log'[l] = log[l] /\ h \in DOMAIN log /\ l \in DOMAIN log
      BY <1>3, <2>1
    <3> QED BY <1>6, <3>1 DEF Solidly
  <2>2. CASE h \in 1 .. Len(log) /\ l \in Len(log) + 1 .. Len(log) + Len(T)
    <3>1. log'[h] = log[h] /\ h \in DOMAIN log
      BY <1>3, <2>2
    <3>2. PICK j \in 1 .. Len(T) : l = Len(log) + j /\ log'[l] = T[j]
      BY <1>4, <2>2
    <3>3. l < h + HeadLength(log[h]) + log[h].s /\ IsHead(log[h]) /\ log[h].v = T[j].v
      BY <1>6, <3>1, <3>2
    <3> QED BY <3>1, <3>2, <3>3
  <2>3. CASE h \in Len(log) + 1 .. Len(log) + Len(T)
    <3>1. PICK j \in 1 .. Len(T) : h = Len(log) + j /\ log'[h] = T[j]
      BY <1>4, <2>3
    <3>2. PICK w \in Nat : w = HeadLength(T[j]) /\ Len(T) < j + w
      BY <1>6, <3>1
    <3>3. l >= h + w
      BY <1>6, <3>1, <3>2
    <3> QED BY <1>1, <1>2, <3>1, <3>2, <3>3
  <2> QED BY <1>1, <1>2, <2>1, <2>2, <2>3
<1> QED BY <1>5, <1>6 DEF Solidly

(* A header comes when all that was announced is there. *)
LEMMA HeaderSolid ==
  ASSUME IInv, HeadsOf, Solidly(log), Chained(log'), NEW T \in Seq(Units), Headed(T),
         pc = "restart" => \A j \in DOMAIN log : log[j].v # volume
  PROVE  Solidly(log')
<1>1. PICK k, f, p, s : WholeOne(T, k, f, p, s)
  BY DEF Headed
<1>2. log' = log \o T /\ Len(T) \in Nat
  BY LenProperties DEF Headed
<1>3. Longer(log, T, log') /\ Len(log) \in Nat /\ DOMAIN log = 1 .. Len(log)
  BY <1>2, LogIs, LongerLog
<1>4. ASSUME NEW j \in 1 .. Len(T), IsHead(T[j])
      PROVE  /\ HeadLength(T[j]) \in Nat /\ Len(T) < j + HeadLength(T[j])
             /\ T[j].k = "cont" => j = 1 /\ (Len(log) = 0 \/ log[Len(log)].v # T[j].v)
  <2>1. T[j].k = k /\ T[j].f = f /\ T[j].v = volume /\ j = 1
    BY <1>1, <1>4 DEF WholeOne, HeaderLike, IsHead
  <2>2. HeadLength(T[j]) = Len(T)
    BY <1>1, <2>1 DEF WholeOne, HeadLength
  <2>3. k = "cont" => Len(log) = 0 \/ log[Len(log)].v # volume
    <3>1. k = "cont" => pc = "restart"
      BY <1>1 DEF WholeOne
    <3>2. Len(log) # 0 => Len(log) \in DOMAIN log
      BY <1>3
    <3> QED BY <3>1, <3>2
  <2> QED BY <1>2, <2>1, <2>2, <2>3
<1>5. ASSUME NEW j \in 1 .. Len(T), NEW h \in DOMAIN log, IsHead(log[h]), log[h].v = T[j].v
      PROVE  ~(Len(log) + j < h + HeadLength(log[h]) + log[h].s)
  <2>1. T[1].v = T[j].v /\ IsHead(T[1]) /\ 1 \in 1 .. Len(T)
    <3>1. 1 \in 1 .. Len(T)
      BY <1>2
    <3> QED BY <1>1, <3>1 DEF WholeOne, HeaderLike, IsHead
  <2>2. /\ log'[h] = log[h] /\ log'[Len(log) + 1] = T[1] /\ h \in DOMAIN log'
        /\ Len(log) + 1 \in DOMAIN log' /\ h \in 1 .. Len(log)
    <3>1. DOMAIN log' = 1 .. Len(log) + Len(T)
      BY <1>3 DEF Longer
    <3>2. h \in 1 .. Len(log) + Len(T) /\ Len(log) + 1 \in 1 .. Len(log) + Len(T)
      BY <1>2, <1>3, <2>1
    <3> QED BY <1>3, <2>1, <3>1, <3>2 DEF Longer
  <2>3. ~(Len(log) + 1 < Ending(log', h)) /\ log[h].s \in Nat /\ HeadLength(log[h]) \in Nat
    <3>1. IsHead(log'[h]) /\ Len(log) + 1 > h /\ log'[Len(log) + 1].v = log'[h].v
      BY <1>3, <1>5, <2>1, <2>2
    <3>2. IsHead(log'[Len(log) + 1])
      BY <2>1, <2>2
    <3> QED BY <2>2, <3>1, <3>2 DEF Chained
  <2>4. Ending(log', h) = h + HeadLength(log[h]) + RoundUp(log[h].s)
    BY <2>2 DEF Ending
  <2>5. RoundUp(log[h].s) \in Nat /\ log[h].s <= RoundUp(log[h].s)
    BY <2>3, RoundPad
  <2> QED BY <1>2, <1>3, <2>2, <2>3, <2>4, <2>5
<1> QED BY <1>2, <1>4, <1>5, SolidMore

(* The content of a file. *)
LEMMA DataSolid ==
  ASSUME IInv, QuietInv, CountInv, ArrangedInv, WriteData \/ WriteRest, Undisturbed', cuts' = 0
  PROVE  \E T \in Seq(Units) : log' = log \o T /\ \A j \in 1 .. Len(T) : T[j].k = "data"
<1>1. Undisturbed /\ cuts = 0 /\ Quiet
  BY CalmBack DEF Next, Program
<1>2. nb_read \in Nat /\ 0 \in Nat
  BY DEF IInv, TypeOK
<1>3. CASE WriteData
  <2>1. PICK r \in FormatResults(nb_read) : FormatWrite(Buffer(0, nb_read), r)
    BY <1>3 DEF WriteData
  <2> QED BY <1>2, <2>1, BufferFront DEF DataLike
<1>4. CASE WriteRest
  <2>1. nb_write \in Nat /\ nb_read - nb_write \in Nat
    BY <1>1, <1>2, <1>4 DEF WriteRest, Quiet, ContentAhead, IInv, TypeOK, Counters, Control
  <2>2. PICK r \in FormatResults(nb_read - nb_write) :
          FormatWrite(Buffer(nb_write, nb_read - nb_write), r)
    BY <1>4 DEF WriteRest
  <2> QED BY <2>1, <2>2, BufferFront DEF DataLike
<1> QED BY <1>3, <1>4

(* A file is padded when all of it is there, or not at all. *)
LEMMA PadSolid ==
  ASSUME IInv, ArrangedInv, HeadsOf, Solidly(log), FinishFile, Undisturbed', cuts' = 0
  PROVE  Solidly(log')
<1> DEFINE pads == [j \in 1 .. PadLength |-> Unit("pad", 0, 0, 0, 0)]
           n == PadLength
<1>1. Arranged
  BY CalmBack DEF Next, Program
<1>2. PICK r \in EndOfFileResults : EndOfFile(r)
  BY DEF FinishFile
<1>3. pc = "eof" /\ Write(pads, r) /\ position \in Nat
  BY <1>2 DEF FinishFile, EndOfFile, IInv, TypeOK, FormatTypeOK, FileTypeOK
<1>4. CASE failed /\ Full
  <2>1. GoodResult(n, r)
    BY <1>2, EndOfFileResult DEF IInv, TypeOK, FormatTypeOK
  <2>2. n \in Nat
    BY PadLengthNat DEF IInv, TypeOK, FormatTypeOK
  <2> HIDE DEF pads, n
  <2>3. r.n <= 0
    BY <1>3, <1>4, <2>1, <2>2, FileAssumption DEF Full, GoodResult
  <2>4. r.n \in Int
    BY <2>1, <2>2 DEF GoodResult
  <2>5. log' = log
    BY <1>3, <2>3, <2>4 DEF Write
  <2> QED BY <2>5
<1>5. CASE ~(failed /\ Full)
  <2>1. PICK g \in DOMAIN log : Opened(g) /\ format_position = log[g].s
    BY <1>1, <1>3, <1>5 DEF Arranged
  <2>2. PICK T \in Seq(Units) :
          log' = log \o T /\ \A j \in 1 .. Len(T) :
                               T[j].v = volume /\ T[j].k \in {"data", "junk", "pad"}
    BY ContentWrites
  <2>3. \A j \in 1 .. Len(T) : ~IsHead(T[j])
    BY <2>2 DEF IsHead
  <2>4. Len(log) \in Nat /\ Len(T) \in Nat /\ Chained(log) /\ DOMAIN log = 1 .. Len(log)
    BY <1>1, LogIs, LenProperties DEF Arranged
  <2>5. ASSUME NEW j \in 1 .. Len(T), NEW h \in DOMAIN log, IsHead(log[h]), log[h].v = T[j].v
        PROVE  ~(Len(log) + j < h + HeadLength(log[h]) + log[h].s)
    <3>1. log[h].s \in Nat /\ HeadLength(log[h]) \in Nat /\ h \in Nat
      BY <2>4, <2>5 DEF Chained
    <3>2. CASE h = g
      <4>1. h + HeadLength(log[h]) + log[h].s = Len(log) + 1
        BY <2>1, <3>2 DEF Opened
      <4> QED BY <2>4, <4>1
    <3>3. CASE h # g
      <4>1. Ending(log, h) <= Len(log)
        BY <2>1, <2>2, <2>5, <3>3 DEF Opened, EndBy
      <4>2. RoundUp(log[h].s) \in Nat /\ log[h].s <= RoundUp(log[h].s)
        BY <3>1, RoundPad
      <4>3. Ending(log, h) = h + HeadLength(log[h]) + RoundUp(log[h].s)
        BY DEF Ending
      <4> QED BY <2>4, <3>1, <4>1, <4>2, <4>3
    <3> QED BY <3>2, <3>3
  <2> QED BY <2>2, <2>3, <2>5, SolidMore
<1> QED BY <1>4, <1>5

LEMMA NextSolid ==
  IInv /\ QuietInv /\ CountInv /\ ArrangedInv /\ ArrangedInv' /\ Told /\ Heads /\ Solid
    /\ [Next]_vars => Solid'
<1> SUFFICES ASSUME IInv, QuietInv, CountInv, ArrangedInv, ArrangedInv', Told, Heads, Solid,
                    [Next]_vars, Undisturbed', cuts' = 0
             PROVE  Solidly(log')
  BY DEF Solid
<1>1. HeadsOf /\ Solidly(log) /\ Arranged /\ Chained(log')
  BY CalmBack DEF Heads, Solid, ArrangedInv, Arranged
<1>2. CASE log' = log
  BY <1>1, <1>2
<1>3. CASE (StartLabel \/ HardLink \/ AddEntry \/ Restart) /\ log' # log
  <2>1. PICK T \in Seq(Units) : Headed(T)
    BY <1>3, HeaderPiece
  <2>2. pc = "restart" => \A j \in DOMAIN log : log[j].v # volume
    <3> SUFFICES ASSUME pc = "restart", NEW j \in DOMAIN log PROVE log[j].v # volume
      OBVIOUS
    <3>1. position = 0 /\ j <= Len(log) /\ Len(log) \in Nat /\ log[j].v \in Nat
      BY <1>1, LogIs DEF Arranged
    <3>2. log[j].v < volume
      BY <1>1, <3>1 DEF Arranged, OnVolume
    <3> QED BY <3>1, <3>2, LogIs
  <2> QED BY <1>1, <2>1, <2>2, HeaderSolid
<1>4. CASE WriteData \/ WriteRest
  <2>1. PICK T \in Seq(Units) : log' = log \o T /\ \A j \in 1 .. Len(T) : T[j].k = "data"
    BY <1>4, DataSolid
  <2>2. \A j \in 1 .. Len(T) : ~IsHead(T[j])
    BY <2>1 DEF IsHead
  <2> QED BY <1>1, <2>1, <2>2, SolidMore
<1>5. CASE FinishFile
  BY <1>1, <1>5, PadSolid
<1>6. CASE NextEntry \/ NoMoreEntries \/ StatFails \/ ReadData \/ ReadFails \/ RestartIgnored
           \/ Exit \/ NextVolume \/ PromptEnds \/ PromptQuits \/ BadVolume \/ Resize
           \/ UNCHANGED vars
  BY <1>1, <1>6, NothingWritten
<1> QED BY <1>2, <1>3, <1>4, <1>5, <1>6 DEF Next, Program, Operator, Finished


----------------------------------------------------------------------------
(* What Create promises of the archive it leaves.                           *)
Laid == resizes = 0 => /\ IInv /\ TableInv /\ QuietInv /\ CountInv /\ ArrangedInv
                       /\ Told /\ Joined /\ Heads /\ Solid /\ LinkInv

LEMMA InitLaid == RoundTripInit => Laid
  BY InitInv, InitTable, InitQuiet, InitCount, InitArranged, InitTold, InitJoined, InitHeads,
     InitSolid, InitLinks DEF RoundTripInit, Laid

LEMMA NextLaid == Made /\ Laid /\ [RoundTripNext]_<<vars, readVars>> => Laid'
<1> SUFFICES ASSUME Made, Laid, [RoundTripNext]_<<vars, readVars>>, resizes' = 0
             PROVE  (/\ IInv /\ TableInv /\ QuietInv /\ CountInv /\ ArrangedInv
                     /\ Told /\ Joined /\ Heads /\ Solid /\ LinkInv)'
  BY DEF Laid
<1>1. [Next]_vars /\ resizes = 0
  BY MadeSteps DEF Made
<1>2. /\ IInv /\ TableInv /\ QuietInv /\ CountInv /\ ArrangedInv
      /\ Told /\ Joined /\ Heads /\ Solid /\ LinkInv
  BY <1>1 DEF Laid
<1>3. IInv' /\ TableInv' /\ QuietInv' /\ CountInv' /\ ArrangedInv'
  BY <1>1, <1>2, NextInv, NextTable, NextQuiet, NextCount, NextArranged
<1>4. Told' /\ Joined' /\ Heads' /\ Solid' /\ LinkInv'
  BY <1>1, <1>2, <1>3, NextTold, NextJoined, NextHeads, NextSolid, NextLinks
<1> QED BY <1>3, <1>4

LEMMA LaidHolds == RoundTripSpec => []Laid
  BY InitLaid, NextLaid, MadeHolds, PTL DEF RoundTripSpec

(* The archive when it is read. *)
Sound ==
    /\ Readable /\ volume # 0
    /\ Chained(log) /\ JoinedOf /\ HeadsOf /\ Solidly(log)
    /\ failed \/ Closed

LEMMA LaidSound ==
  ASSUME Laid, Undisturbed, cuts = 0, pc = "done"
  PROVE  Sound
<1>1. IInv /\ TableInv /\ Told /\ Arranged /\ JoinedOf /\ HeadsOf /\ Solidly(log)
  BY DEF Laid, Undisturbed, ArrangedInv, Joined, Heads, Solid
<1>2. ToldOf /\ Chained(log) /\ (failed \/ Closed)
  BY <1>1 DEF Told, Undisturbed, Arranged
<1> QED BY <1>1, <1>2 DEF Sound, Readable, IInv, TypeOK, FormatTypeOK, FileTypeOK, TableInv, ToldOf

(* The volumes, one behind the other. *)
LEMMA Frames ==
  ASSUME Sound
  PROVE  /\ log \in Seq(Units) /\ Len(log) \in Nat /\ DOMAIN log = 1 .. Len(log)
         /\ volume \in Nat \ {0}
         /\ Ahead(1) = 0 /\ Ahead(volume + 1) = Len(log)
         /\ \A v \in 1 .. volume :
              /\ v \in Nat /\ v + 1 \in Nat
              /\ Ahead(v) \in Nat /\ Ahead(v + 1) \in Nat
              /\ Ahead(v) <= Ahead(v + 1) /\ Ahead(v + 1) <= Len(log)
              /\ Volumes[v] \in Seq(Units)
              /\ Len(Volumes[v]) = Ahead(v + 1) - Ahead(v)
              /\ \A j \in DOMAIN log : log[j].v = v <=> j > Ahead(v) /\ j <= Ahead(v + 1)
         /\ \A j \in DOMAIN log : /\ log[j].v \in 1 .. volume /\ log[j] \in Units
                                  /\ log[j].s \in Int /\ log[j].p \in Int /\ Fits(log[j])
<1>1. /\ log \in Seq(Units) /\ volume \in Nat \ {0} /\ AllFit(log) /\ Sorted(log)
      /\ Len(log) \in Nat /\ DOMAIN log = 1 .. Len(log)
  BY LenProperties DEF Sound, Readable
<1>2. \A j \in DOMAIN log : /\ log[j].v \in 1 .. volume /\ log[j] \in Units
                            /\ log[j].s \in Int /\ log[j].p \in Int /\ Fits(log[j])
  BY <1>1, UnitNumbers DEF AllFit, Fits
<1>3. Ahead(1) = 0
  <2>1. InFront(1) = {}
    BY <1>1, <1>2 DEF InFront
  <2>2. Ahead(1) = Cardinality(InFront(1))
    BY DEF Ahead, InFront
  <2> QED BY <2>1, <2>2, FS_EmptySet
<1>4. Ahead(volume + 1) = Len(log)
  <2>1. InFront(volume + 1) = 1 .. Len(log)
    BY <1>1, <1>2 DEF InFront
  <2>2. Ahead(volume + 1) = Cardinality(InFront(volume + 1))
    BY DEF Ahead, InFront
  <2>3. Cardinality(1 .. Len(log)) = Len(log)
    BY <1>1, FS_Interval
  <2> QED BY <2>1, <2>2, <2>3
<1>5. ASSUME NEW v \in 1 .. volume
      PROVE  /\ v \in Nat /\ v + 1 \in Nat
             /\ Ahead(v) \in Nat /\ Ahead(v + 1) \in Nat
             /\ Ahead(v) <= Ahead(v + 1) /\ Ahead(v + 1) <= Len(log)
             /\ Volumes[v] \in Seq(Units)
             /\ Len(Volumes[v]) = Ahead(v + 1) - Ahead(v)
             /\ \A j \in DOMAIN log : log[j].v = v <=> j > Ahead(v) /\ j <= Ahead(v + 1)
  <2>1. v \in Nat /\ v + 1 \in Nat /\ v <= v + 1
    BY <1>1
  <2>2. Ahead(v) \in 0 .. Len(log) /\ Ahead(v + 1) \in 0 .. Len(log) /\ Ahead(v) <= Ahead(v + 1)
    BY <1>1, <2>1, AheadType
  <2>3. Volumes[v] \in Seq(Units) /\ Len(Volumes[v]) = Ahead(v + 1) - Ahead(v)
    BY <1>1, VolumeUnits
  <2>4. ASSUME NEW j \in DOMAIN log
        PROVE  log[j].v = v <=> j > Ahead(v) /\ j <= Ahead(v + 1)
    <3>1. (j <= Ahead(v) <=> log[j].v < v) /\ (j <= Ahead(v + 1) <=> log[j].v < v + 1)
      BY <1>1, <2>1, FrontIs
    <3>2. log[j].v \in Nat /\ j \in Nat
      BY <1>1, <1>2
    <3> QED BY <2>1, <2>2, <3>1, <3>2
  <2> QED BY <1>1, <2>1, <2>2, <2>3, <2>4
<1> QED BY <1>1, <1>2, <1>3, <1>4, <1>5

LEMMA StartsAre ==
  /\ Starts = {j \in DOMAIN log : IsHead(log[j])}
  /\ \A u : IsHead(u) <=> R!IsHeader(u)
  BY DEF Starts, IsHead, R!IsHeader

(* A volume begins with a header. *)
LEMMA VolumeBegins ==
  ASSUME Sound, NEW v \in 1 .. volume
  PROVE  \/ Ahead(v) + 1 \in Starts /\ log[Ahead(v) + 1].v = v
         \/ volume = 1 /\ Len(log) = 0
<1>1. CASE Used(v)
  <2>1. PICK j \in DOMAIN log : log[j].v = v
    BY <1>1 DEF Used
  <2>2. PICK a \in Nat : a = Ahead(v)
    BY Frames
  <2>3. a < j /\ j <= Ahead(v + 1) /\ j \in 1 .. Len(log) /\ Ahead(v + 1) \in Nat
    BY <2>1, <2>2, Frames
  <2>4. a + 1 \in DOMAIN log /\ a + 1 > a /\ a + 1 <= Ahead(v + 1)
    BY <2>2, <2>3, Frames
  <2>5. log[a + 1].v = v
    BY <2>2, <2>4, Frames
  <2>6. a + 1 = 1 \/ log[a + 1].v # log[(a + 1) - 1].v
    <3>1. CASE a = 0
      BY <3>1
    <3>2. CASE a > 0
      <4>1. (a + 1) - 1 = a /\ a \in DOMAIN log /\ ~(a > Ahead(v))
        BY <2>2, <2>3, <3>2, Frames
      <4>2. log[a].v # v
        BY <4>1, Frames
      <4> QED BY <2>5, <4>1, <4>2
    <3> QED BY <2>2, <3>1, <3>2
  <2>7. IsHead(log[a + 1])
    BY <2>4, <2>6 DEF Sound, Chained
  <2> QED BY <2>2, <2>4, <2>5, <2>7, StartsAre
<1>2. CASE ~Used(v)
  <2>1. volume = 1
    <3>1. v < volume => Used(v)
      BY DEF Sound, JoinedOf
    <3>2. volume >= 2 => Used(volume)
      BY DEF Sound, JoinedOf, Readable
    <3> QED BY <1>2, <3>1, <3>2, Frames
  <2>2. Len(log) = 0
    <3>1. \A j \in DOMAIN log : log[j].v # v
      BY <1>2 DEF Used
    <3>2. \A j \in DOMAIN log : FALSE
      BY <2>1, <3>1, Frames
    <3>3. 1 \notin 1 .. Len(log)
      BY <3>2, Frames
    <3> QED BY <3>3, Frames
  <2> QED BY <2>1, <2>2
<1> QED BY <1>1, <1>2

(* What a header announces and where it lies. *)
LEMMA HeaderFacts ==
  ASSUME Sound, NEW h \in Starts
  PROVE  /\ h \in DOMAIN log /\ h \in Nat \ {0} /\ IsHead(log[h]) /\ log[h].v \in 1 .. volume
         /\ log[h].s \in Nat /\ log[h].p \in Nat
         /\ HeadLength(log[h]) \in Nat \ {0} /\ RoundUp(log[h].s) \in Nat
         /\ log[h].s <= RoundUp(log[h].s)
         /\ Ending(log, h) = h + HeadLength(log[h]) + RoundUp(log[h].s)
         /\ Ending(log, h) \in Nat
         /\ h > Ahead(log[h].v)
         /\ h + HeadLength(log[h]) - 1 <= Ahead(log[h].v + 1)
         /\ \A j \in Starts : j > h /\ j < Ending(log, h) => log[j].v # log[h].v
         /\ Ending(log, h) <= Ahead(log[h].v + 1) =>
              Ending(log, h) \in Starts /\ log[Ending(log, h)].v = log[h].v
<1>1. h \in DOMAIN log /\ h \in Nat \ {0} /\ IsHead(log[h])
  BY StartsAre, Frames
<1>2. /\ log[h].s \in Nat /\ HeadLength(log[h]) \in Nat \ {0}
      /\ \A l \in DOMAIN log : l > h /\ log[l].v = log[h].v =>
           /\ l < Ending(log, h) => ~IsHead(log[l])
           /\ l = Ending(log, h) => IsHead(log[l])
  BY <1>1 DEF Sound, Chained
<1>3. RoundUp(log[h].s) \in Nat /\ log[h].s <= RoundUp(log[h].s)
  BY <1>2, RoundPad
<1>4. PICK e \in Nat : e = Ending(log, h) /\ e = h + HeadLength(log[h]) + RoundUp(log[h].s) /\ e > h
  BY <1>1, <1>2, <1>3 DEF Ending
<1>5. PICK v \in 1 .. volume : v = log[h].v
  BY <1>1, Frames
<1>6. h > Ahead(v)
  BY <1>1, <1>5, Frames
<1>7. log[h].p \in Nat /\ h + HeadLength(log[h]) - 1 <= Ahead(v + 1)
  <2>1. PICK l \in DOMAIN log : l = h + HeadLength(log[h]) - 1 /\ log[l].v = v
    BY <1>1, <1>5 DEF Sound, HeadsOf
  <2>2. l <= Ahead(v + 1)
    BY <2>1, Frames
  <2> QED BY <1>1, <2>1, <2>2 DEF Sound, HeadsOf
<1>8. \A j \in Starts : j > h /\ j < e => log[j].v # v
  BY <1>2, <1>4, <1>5, StartsAre
<1>9. e <= Ahead(v + 1) => e \in Starts /\ log[e].v = v
  <2> SUFFICES ASSUME e <= Ahead(v + 1) PROVE e \in Starts /\ log[e].v = v
    OBVIOUS
  <2>1. /\ e \in DOMAIN log /\ e > Ahead(v)
    <3>1. Ahead(v + 1) <= Len(log) /\ Ahead(v + 1) \in Nat /\ Ahead(v) \in Nat
      BY Frames
    <3> QED BY <1>1, <1>4, <1>6, <3>1, Frames
  <2>2. log[e].v = v
    BY <2>1, Frames
  <2> QED BY <1>2, <1>4, <1>5, <2>1, <2>2, StartsAre
<1> QED BY <1>1, <1>2, <1>3, <1>4, <1>5, <1>6, <1>7, <1>8, <1>9

(* A volume that is not the last does not end where a file does. *)
LEMMA NoEndAtEnd ==
  ASSUME Sound, NoEmptyRest, NEW h \in Starts, log[h].v < volume
  PROVE  Ending(log, h) # Ahead(log[h].v + 1) + 1
<1> SUFFICES ASSUME Ending(log, h) = Ahead(log[h].v + 1) + 1 PROVE FALSE
  OBVIOUS
<1>1. PICK v \in 1 .. volume : v = log[h].v
  BY HeaderFacts
<1>2. v + 1 \in 1 .. volume /\ volume # 1 /\ v \in Nat
  BY <1>1, Frames
<1>3. PICK c : c = Ahead(v + 1) + 1
  OBVIOUS
<1>4. c \in Starts /\ log[c].v = v + 1
  BY <1>2, <1>3, VolumeBegins
<1>5. /\ c \in DOMAIN log /\ c \in Nat \ {0} /\ log[c].s \in Nat
      /\ h \in DOMAIN log /\ h \in Nat \ {0}
      /\ Ending(log, h) = c /\ h < c
  <2>1. h <= Ahead(v + 1) /\ Ahead(v + 1) \in Nat
    BY <1>1, HeaderFacts, Frames
  <2> QED BY <1>1, <1>3, <1>4, <2>1, HeaderFacts
<1>6. c > 1 /\ c - 1 \in DOMAIN log /\ log[c - 1].v = v
  <2>1. c - 1 = Ahead(v + 1) /\ Ahead(v + 1) \in Nat /\ Ahead(v) \in Nat
    BY <1>2, <1>3, Frames
  <2>2. c > 1 /\ c - 1 \in DOMAIN log
    BY <1>5, <2>1, Frames
  <2>3. c - 1 > Ahead(v) /\ c - 1 <= Ahead(v + 1)
    <3>1. h > Ahead(v)
      BY <1>1, HeaderFacts
    <3> QED BY <1>5, <2>1, <3>1
  <2> QED BY <1>1, <2>2, <2>3, Frames
<1>7. log[c].k = "cont" /\ \E g \in DOMAIN log : CutAt(g, c)
  <2>1. log[c].v # log[c - 1].v
    BY <1>2, <1>4, <1>6
  <2> QED BY <1>5, <1>6, <2>1 DEF Sound, JoinedOf
<1>8. log[c].s > 0
  BY <1>4, <1>7 DEF NoEmptyRest
<1>9. PICK g \in DOMAIN log : CutAt(g, c)
  BY <1>7
<1>10. g \in Starts /\ log[g].v = v /\ g < c
  BY <1>6, <1>9, StartsAre DEF CutAt
<1>11. Ending(log, g) > c
  <2> DEFINE w == HeadLength(log[g])
             r == RoundUp(log[g].s)
             s == log[g].s
             p == log[g].p
             t == log[c].s
             q == log[c].p
  <2>1. w \in Nat /\ r \in Nat /\ s \in Nat /\ p \in Int /\ s <= r /\ Ending(log, g) = g + w + r
        /\ g \in Nat
    BY <1>10, HeaderFacts
  <2>2. q \in Int /\ t \in Nat /\ t > 0
    BY <1>5, <1>8, Frames
  <2>3. c = g + w + (q - p) /\ p + s = q + t
    BY <1>9 DEF CutAt
  <2> HIDE DEF w, r, s, p, t, q
  <2> QED BY <2>1, <2>2, <2>3
<1>12. CASE g = h
  BY <1>5, <1>11, <1>12
<1>13. CASE g < h
  BY <1>1, <1>5, <1>10, <1>11, <1>13, HeaderFacts
<1>14. CASE g > h
  BY <1>1, <1>5, <1>10, <1>14, HeaderFacts
<1> QED BY <1>5, <1>10, <1>12, <1>13, <1>14, HeaderFacts

(* Nothing is missing at the end of an archive that was finished.           *)
LEMMA LastEnds ==
  ASSUME Sound, ~failed, NEW h \in Starts, log[h].v = volume
  PROVE  Ending(log, h) <= Len(log) + 1
<1>1. h \in DOMAIN log /\ h # 0 /\ IsHead(log[h])
  BY HeaderFacts
<1> QED BY <1>1 DEF Sound, Closed, EndBy

LEMMA SkipIsRound ==
  ASSUME NEW n \in Nat
  PROVE  R!SkipSize(n) = RoundUp(n)
<1> DEFINE B == Block
           m == n % B
<1>1. B \in Nat \ {0}
  BY FileAssumption
<1>2. m \in 0 .. B - 1
  BY <1>1, ModRange
<1>3. RoundUp(n) = n + ((B - m) % B)
  BY RoundPad
<1>4. R!SkipSize(n) = IF n > 0 /\ m # 0 THEN B + n - m ELSE n
  BY DEF R!SkipSize
<1>5. n = 0 => m = 0
  BY <1>1
<1> HIDE DEF B, m
<1>6. CASE m = 0
  <2>1. (B - m) % B = 0
    BY <1>1, <1>6
  <2> QED BY <1>3, <1>4, <1>6, <2>1
<1>7. CASE m # 0
  <2>1. (B - m) % B = B - m
    BY <1>1, <1>2, <1>7
  <2> QED BY <1>1, <1>2, <1>3, <1>4, <1>5, <1>7, <2>1
<1> QED BY <1>6, <1>7

----------------------------------------------------------------------------
(* The reader on its way. *)

(* Where the reader is in the log. *)
Cursor == Ahead(io) + at + 1

(* The headers in front of c that are shown: of those --verify compares the *)
(* ones that begin a file.                                                  *)
Due(c) == {j \in Starts : j < c /\ (function = "verify" => log[j].k # "label" /\ log[j].p = 0)}

(* The reader is at the next header, or has none in front of it.            *)
AtHeader ==
    /\ \/ Cursor \in Starts /\ log[Cursor].v = io
       \/ io = volume /\ Cursor > Len(log)
    /\ Shown(Due(Cursor))

(* It is behind the header at h. *)
Behind(h) ==
    /\ h \in Starts /\ log[h].v = io
    /\ header = log[h]
    /\ Cursor = h + HeadLength(log[h])
    /\ skip_size = RoundUp(log[h].s)

(* It is at the end of a volume. *)
AtEnd == Shown(Due(Ahead(io + 1) + 1))

NotYet ==
    /\ io = 1 /\ at = 0 /\ shown = <<>> /\ ~misled /\ i_files = 0 /\ status = 0
    /\ rpc = IF function = "verify" THEN "start" ELSE "header"
    /\ rfailed = -1

Waiting == (pc # "done" \/ cuts > 0 => NotYet) /\ (function = "verify" /\ failed => NotYet)

Given ==
    /\ pc = "done" /\ cuts = 0 /\ Undisturbed /\ rfaults = 0 /\ Right /\ NoEmptyRest
    /\ volume = 1 \/ Multi

Walking ==
    /\ io \in 1 .. volume /\ at \in Nat /\ shown \in Seq(Units)
    /\ rpc = "header" => AtHeader
    /\ rpc = "skip" => \E h \in DOMAIN log : Behind(h) /\ Shown(Due(h + 1))
    /\ rpc = "prompt" /\ rback = "skip" => AtEnd

Listing ==
    /\ Walking
    /\ rpc \in {"header", "skip", "prompt", "done", "aborted"}
    /\ rpc = "prompt" => rback = "skip"
    /\ rpc = "done" => Shown(Starts)

ListInv == Given /\ function = "list" /\ R!Names \cup {0} \subseteq wanted => Listing

Verifying ==
    /\ Walking
    /\ rpc \in {"start", "header", "stat", "skip", "prompt", "done", "aborted"}
    /\ status = 0
    /\ rpc # "done" => rfailed = -1
    /\ rpc = "start" => NotYet
    /\ rpc = "stat" => \E h \in DOMAIN log : Behind(h) /\ Shown(Due(h)) /\ h \in Due(h + 1)
    /\ rpc = "prompt" => rback = "skip" \/ (rback = "first" /\ i_files = 0 /\ shown = <<>>)
    /\ rpc = "prompt" => i_files < volume
    /\ rpc \notin {"start", "aborted"} /\ ~(rpc = "prompt" /\ rback = "first") =>
          i_files = IF volume = 1 THEN 0 ELSE io
    /\ rpc = "done" => rfailed = 0 /\ Shown(Due(Len(log) + 1))

VerifyInv == Given /\ WholeNames /\ ~failed /\ function = "verify" => Verifying

LEMMA DueFacts ==
  ASSUME Sound, NEW c \in Nat
  PROVE  /\ IsFiniteSet(Due(c))
         /\ \A j \in Due(c) : j \in Starts /\ j \in Nat \ {0} /\ j < c
         /\ \A d \in Nat : c <= d /\ (\A j \in Starts : j < d => j < c) => Due(d) = Due(c)
<1>1. \A j \in Starts : j \in 1 .. Len(log)
  BY Frames, StartsAre
<1>2. Due(c) \in SUBSET (1 .. Len(log)) /\ IsFiniteSet(1 .. Len(log))
  BY <1>1, Frames, FS_Interval DEF Due
<1>3. IsFiniteSet(Due(c))
  BY <1>2, FS_Subset
<1>4. \A j \in Due(c) : j \in Starts /\ j \in Nat \ {0} /\ j < c
  BY <1>1, Frames DEF Due
<1>5. ASSUME NEW d \in Nat, c <= d, \A j \in Starts : j < d => j < c
      PROVE  Due(d) = Due(c)
  <2>1. \A j \in Starts : j < d <=> j < c
    BY <1>1, <1>5, Frames
  <2> QED BY <2>1 DEF Due
<1> QED BY <1>3, <1>4, <1>5

LEMMA DueNext ==
  ASSUME Sound, NEW h \in Starts
  PROVE  Due(h + 1) = IF function = "verify" => log[h].k # "label" /\ log[h].p = 0
                      THEN Due(h) \cup {h} ELSE Due(h)
<1>1. \A j \in Starts : j \in Nat
  BY HeaderFacts
<1>2. \A j \in Starts : j < h + 1 <=> j < h \/ j = h
  BY <1>1
<1> QED BY <1>2 DEF Due

LEMMA ShownMore ==
  ASSUME NEW S, IsFiniteSet(S), NEW c \in Nat, \A j \in S : j \in Nat /\ j < c,
         shown \in Seq(Units), Shown(S), log' = log, log[c] \in Units,
         shown' = Append(shown, log[c])
  PROVE  Shown(S \cup {c})' /\ shown' \in Seq(Units)
<1> DEFINE T == S \cup {c}
<1>1. /\ shown' \in Seq(Units) /\ Len(shown) \in Nat /\ Len(shown') = Len(shown) + 1
      /\ \A n \in 1 .. Len(shown) : shown'[n] = shown[n]
      /\ shown'[Len(shown) + 1] = log[c]
  BY AppendProperties, LenProperties
<1>2. c \notin S
  OBVIOUS
<1>3. Cardinality(T) = Cardinality(S) + 1 /\ Cardinality(S) \in Nat
  BY <1>2, FS_AddElement, FS_CardinalityType
<1>4. Len(shown') = Cardinality(T)
  BY <1>1, <1>3 DEF Shown
<1>5. ASSUME NEW j \in T
      PROVE  shown'[Cardinality({l \in T : l <= j})] = log[j]
  <2>1. CASE j \in S
    <3>1. {l \in T : l <= j} = {l \in S : l <= j}
      BY <2>1
    <3>2. PICK n : n = Cardinality({l \in S : l <= j})
      OBVIOUS
    <3>3. n \in 1 .. Len(shown)
      <4>1. {l \in S : l <= j} \in SUBSET S /\ {j} \in SUBSET {l \in S : l <= j}
        BY <2>1
      <4>2. IsFiniteSet({l \in S : l <= j}) /\ n <= Cardinality(S)
        BY <3>2, <4>1, FS_Subset
      <4>3. Cardinality({j}) <= n /\ Cardinality({j}) = 1
        BY <3>2, <4>1, <4>2, FS_Subset, FS_Singleton
      <4>4. n \in Nat
        BY <3>2, <4>2, FS_CardinalityType
      <4> QED BY <1>3, <4>2, <4>3, <4>4 DEF Shown
    <3>4. shown[n] = log[j]
      BY <2>1, <3>2 DEF Shown
    <3> QED BY <1>1, <3>1, <3>2, <3>3, <3>4
  <2>2. CASE j = c
    <3>0. \A l \in T : l <= j
      BY <2>2
    <3>1. {l \in T : l <= j} = T
      BY <3>0
    <3>2. Cardinality(T) = Len(shown) + 1
      BY <1>1, <1>4
    <3> QED BY <1>1, <2>2, <3>1, <3>2
  <2> QED BY <2>1, <2>2
<1> HIDE DEF T
<1>6. Shown(T)'
  BY <1>4, <1>5 DEF Shown
<1> QED BY <1>1, <1>6 DEF T

(* The unit at hand, by the place of the reader. *)
LEMMA HereAt ==
  ASSUME Sound, io \in 1 .. volume, at \in Nat
  PROVE  /\ Cursor \in Nat /\ R!Volume = Volumes[io]
         /\ Len(Volumes[io]) = Ahead(io + 1) - Ahead(io) /\ Len(Volumes[io]) \in Nat
         /\ R!Left = IF Cursor <= Ahead(io + 1) THEN Ahead(io + 1) + 1 - Cursor ELSE 0
         /\ Cursor <= Ahead(io + 1) => R!Here = log[Cursor]
<1>1. PICK a \in Nat, b \in Nat : a = Ahead(io) /\ b = Ahead(io + 1)
  BY Frames
<1>2. a <= b /\ Len(Volumes[io]) = b - a /\ b - a \in Nat
  BY <1>1, Frames
<1>3. Cursor = a + at + 1
  BY <1>1 DEF Cursor
<1>4. R!Volume = Volumes[io] /\ R!Here = Volumes[io][at + 1]
  BY DEF R!Volume, R!Here
<1>5. R!Left = IF at < b - a THEN b - a - at ELSE 0
  BY <1>2, <1>4 DEF R!Left
<1>6. R!Left = IF a + at + 1 <= b THEN b + 1 - (a + at + 1) ELSE 0
  BY <1>2, <1>5
<1>7. a + at + 1 <= b => Volumes[io][at + 1] = log[a + at + 1]
  <2> SUFFICES ASSUME a + at + 1 <= b PROVE Volumes[io][at + 1] = log[a + at + 1]
    OBVIOUS
  <2>1. at + 1 \in 1 .. Len(Volumes[io])
    BY <1>2
  <2>2. Volumes[io][at + 1] = log[a + (at + 1)]
    BY <1>1, <2>1, VolumeUnits, Frames
  <2>3. a + (at + 1) = a + at + 1
    OBVIOUS
  <2> QED BY <2>2, <2>3
<1> QED BY <1>1, <1>2, <1>3, <1>4, <1>6, <1>7

(* get_header finds the next header, or the end of the archive.             *)
LEMMA ReadsHeader ==
  ASSUME Sound, Walking, rpc = "header", NEW result \in R!HeaderResults, R!GetHeader(result),
         rfaults \in Nat, rfaults' = 0
  PROVE  /\ io' = io /\ at' \in Nat
         /\ \/ result = "not_found" /\ Shown(Due(Len(log) + 1))
            \/ /\ result = "ok"
               /\ \E h \in Starts :
                    /\ log[h].v = io /\ R!Here = log[h] /\ Shown(Due(h))
                    /\ Ahead(io) + at' + 1 = h + HeadLength(log[h])
                    /\ skip_size' = RoundUp(log[h].s)
<1>1. io \in 1 .. volume /\ at \in Nat /\ AtHeader /\ io' = io /\ result # "fault"
  <2>1. io \in 1 .. volume /\ at \in Nat /\ AtHeader /\ io' = io
    BY DEF Walking, R!GetHeader
  <2>2. rfaults' = IF result = "fault" THEN rfaults + 1 ELSE rfaults
    BY DEF R!GetHeader
  <2> QED BY <2>1, <2>2
<1>2. PICK c \in Nat : c = Cursor /\ Shown(Due(c))
  BY <1>1, HereAt DEF AtHeader
<1>3. CASE c \in Starts /\ log[c].v = io
  <2>1. /\ c + HeadLength(log[c]) - 1 <= Ahead(io + 1) /\ HeadLength(log[c]) \in Nat \ {0}
        /\ log[c].s \in Nat /\ IsHead(log[c]) /\ Ahead(io + 1) \in Nat
    BY <1>1, <1>3, HeaderFacts, Frames
  <2>2. c <= Ahead(io + 1)
    BY <2>1
  <2>3. R!Here = log[c] /\ R!Left = Ahead(io + 1) + 1 - c /\ R!Left > 0
    BY <1>1, <1>2, <2>1, <2>2, HereAt
  <2>4. R!IsHeader(R!Here) /\ R!HeaderLength(R!Here) = HeadLength(log[c])
        /\ R!HeaderLength(R!Here) <= R!Left
    BY <2>1, <2>3, StartsAre DEF R!HeaderLength, HeadLength
  <2>5. result = "ok"
    BY <1>1, <2>3, <2>4 DEF R!HeaderResults
  <2>6. at' = at + HeadLength(log[c]) /\ skip_size' = RoundUp(log[c].s)
    BY <2>1, <2>3, <2>4, <2>5, SkipIsRound DEF R!GetHeader
  <2>7. Ahead(io) + at' + 1 = c + HeadLength(log[c]) /\ at' \in Nat
    <3>1. PICK a \in Nat, p \in Nat, w \in Nat : a = Ahead(io) /\ p = at /\ w = HeadLength(log[c])
      BY <1>1, <2>1, Frames
    <3>2. at' = p + w /\ c = a + p + 1
      BY <1>2, <2>6, <3>1 DEF Cursor
    <3>3. a + (p + w) + 1 = c + w /\ p + w \in Nat
      BY <3>1, <3>2
    <3> QED BY <3>1, <3>2, <3>3
  <2> QED BY <1>1, <1>2, <1>3, <2>3, <2>5, <2>6, <2>7
<1>4. CASE io = volume /\ c > Len(log)
  <2>1. Ahead(io + 1) = Len(log) /\ Len(log) \in Nat
    BY <1>4, Frames
  <2>2. R!Left = 0
    BY <1>1, <1>2, <1>4, <2>1, HereAt
  <2>3. result = "not_found"
    BY <1>1, <2>2 DEF R!HeaderResults
  <2>4. at' = at
    BY <2>3 DEF R!GetHeader
  <2>5. Due(c) = Due(Len(log) + 1)
    <3>1. \A j \in Starts : j < Len(log) + 1
      <4>1. \A j \in Starts : j \in 1 .. Len(log)
        BY Frames, StartsAre
      <4> QED BY <2>1, <4>1
    <3>2. Len(log) + 1 \in Nat /\ Len(log) + 1 <= c
      BY <1>4, <2>1
    <3> QED BY <3>1, <3>2, DueFacts
  <2> QED BY <1>1, <1>2, <2>3, <2>4, <2>5
<1>5. (c \in Starts /\ log[c].v = io) \/ (io = volume /\ c > Len(log))
  BY <1>1, <1>2 DEF AtHeader
<1> QED BY <1>3, <1>4, <1>5

(* skip_file leads to the next header, to the end of the volume, or to the  *)
(* end of the archive.                                                      *)
LEMMA SkipStep ==
  ASSUME Sound, NoEmptyRest, volume = 1 \/ Multi, io \in 1 .. volume, at \in Nat,
         NEW h \in Starts, Behind(h), NEW result \in R!SkipResults, R!SkipFile(result),
         rfaults \in Nat, rfaults' = 0
  PROVE  /\ io' = io /\ at' \in Nat
         /\ \/ /\ result = "ok"
               /\ \E d \in Nat : /\ d = Ahead(io) + at' + 1
                                 /\ (d \in Starts /\ log[d].v = io) \/ (io = volume /\ d > Len(log))
                                 /\ Due(d) = Due(h + 1)
            \/ /\ result = "end_of_tape"
               /\ Due(Ahead(io + 1) + 1) = Due(h + 1)
               /\ Ending(log, h) > Ahead(io + 1) + 1
<1>1. PICK a \in Nat, b \in Nat : a = Ahead(io) /\ b = Ahead(io + 1)
  BY Frames
<1>2. PICK w \in Nat \ {0}, r \in Nat : w = HeadLength(log[h]) /\ r = RoundUp(log[h].s)
  BY HeaderFacts
<1>3. PICK e \in Nat : e = Ending(log, h) /\ e = h + w + r
  BY <1>2, HeaderFacts
<1>4. /\ log[h].v = io /\ a + at + 1 = h + w /\ skip_size = r /\ h \in Nat \ {0}
      /\ h + w - 1 <= b /\ h > a /\ Len(log) \in Nat /\ b <= Len(log)
      /\ io = volume => b = Len(log)
  BY <1>1, <1>2, HeaderFacts, Frames DEF Behind, Cursor
<1>5. Len(Volumes[io]) = b - a /\ R!Volume = Volumes[io]
  BY <1>1, HereAt
<1>6. R!ForwardTo(at, r) = IF Multi /\ b - a > 0 /\ b - a < at + r THEN b - a ELSE at + r
  BY <1>5 DEF R!ForwardTo
<1>7. result # "error" /\ io' = io
  BY DEF R!SkipFile
<1>8. result \in {"ok", "end_of_tape"}
      /\ (result = "ok" <=> r = 0 \/ R!ForwardTo(at, r) = at + r)
  BY <1>4, <1>7 DEF R!SkipResults
<1>9. b - a > 0 /\ at <= b - a
  BY <1>4
<1>10. at' = R!ForwardTo(at, r)
  BY <1>4, <1>7 DEF R!SkipFile
<1>11. \A j \in Starts : j \in Nat /\ (j > h /\ j < e => j > b)
  <2> SUFFICES ASSUME NEW j \in Starts, j > h, j < e PROVE j > b
    BY HeaderFacts
  <2>1. log[j].v # io /\ j \in DOMAIN log /\ j \in Nat
    BY <1>3, <1>4, HeaderFacts
  <2>2. ~(j > a /\ j <= b)
    BY <1>1, <2>1, Frames
  <2> QED BY <1>4, <2>1, <2>2
<1>12. CASE result = "ok"
  <2>1. at' = at + r
    BY <1>6, <1>8, <1>9, <1>10, <1>12
  <2>2. e = a + at' + 1 /\ at' \in Nat
    <3>1. PICK p \in Nat : p = at
      OBVIOUS
    <3>2. at' = p + r /\ a + p + 1 = h + w
      BY <1>4, <2>1, <3>1
    <3>3. e = a + (p + r) + 1
      BY <1>3, <1>4, <3>2
    <3> QED BY <3>2, <3>3
  <2>3. Multi => e <= b + 1
    BY <1>3, <1>4, <1>6, <1>9, <1>10, <2>1
  <2>4. \A j \in Starts : j < e => j < h + 1
    <3> SUFFICES ASSUME NEW j \in Starts, j < e, j > h PROVE FALSE
      BY <1>4, <1>11
    <3>1. j > b /\ j \in Nat
      BY <1>11
    <3>2. ~Multi /\ volume = 1
      BY <2>3, <3>1
    <3>3. j <= Len(log) /\ b = Len(log)
      <4>1. io = volume
        BY <3>2
      <4>2. j \in DOMAIN log
        BY HeaderFacts
      <4> QED BY <1>4, <4>1, <4>2, Frames
    <3> QED BY <3>1, <3>3
  <2>5. Due(e) = Due(h + 1)
    <3>1. h + 1 \in Nat /\ h + 1 <= e
      BY <1>3, <1>4
    <3> QED BY <2>4, <3>1, DueFacts
  <2>6. CASE e <= b
    <3>1. e \in Starts /\ log[e].v = io
      BY <1>1, <1>3, <1>4, <2>6, HeaderFacts
    <3> QED BY <1>1, <1>7, <1>12, <2>2, <2>5, <3>1
  <2>7. CASE e > b
    <3>1. io = volume
      <4> SUFFICES ASSUME io # volume PROVE FALSE
        OBVIOUS
      <4>1. io < volume /\ Multi
        BY Frames
      <4>2. e = b + 1
        BY <2>3, <2>7, <4>1
      <4>3. e # b + 1
        BY <1>1, <1>3, <1>4, <4>1, NoEndAtEnd
      <4> QED BY <4>2, <4>3
    <3>2. e > Len(log)
      BY <1>4, <2>7, <3>1
    <3> QED BY <1>1, <1>7, <1>12, <2>2, <2>5, <3>1, <3>2
  <2> QED BY <2>6, <2>7
<1>13. CASE result = "end_of_tape"
  <2>1. r # 0 /\ at' = b - a /\ b - a < at + r
    BY <1>6, <1>8, <1>10, <1>13
  <2>2. e > b + 1 /\ at' \in Nat
    BY <1>3, <1>4, <1>9, <2>1
  <2>3. \A j \in Starts : j < b + 1 => j < h + 1
    BY <1>4, <1>11, <2>2
  <2>4. Due(b + 1) = Due(h + 1)
    <3>1. h + 1 \in Nat /\ b + 1 \in Nat /\ h + 1 <= b + 1
      BY <1>4
    <3> QED BY <2>3, <3>1, DueFacts
  <2> QED BY <1>1, <1>3, <1>7, <1>13, <2>2, <2>4
<1> QED BY <1>8, <1>12, <1>13

(* The next volume begins with the next header. *)
LEMMA MountStep ==
  ASSUME Sound, io \in 1 .. volume, io < volume, AtEnd
  PROVE  /\ io + 1 \in 1 .. volume
         /\ Ahead(io + 1) + 1 \in Starts /\ log[Ahead(io + 1) + 1].v = io + 1
         /\ Shown(Due(Ahead(io + 1) + 1))
<1>1. io + 1 \in 1 .. volume /\ volume # 1
  BY Frames
<1> QED BY <1>1, VolumeBegins DEF AtEnd

LEMMA FirstHeader ==
  ASSUME Sound, io = 1, at = 0, shown = <<>>
  PROVE  AtHeader /\ io \in 1 .. volume /\ at \in Nat /\ shown \in Seq(Units)
<1>1. 1 \in 1 .. volume /\ Ahead(1) = 0 /\ Cursor = 1
  BY Frames DEF Cursor
<1>2. Due(1) = {}
  BY HeaderFacts DEF Due
<1>3. Shown({})
  <2>1. Len(<<>>) = 0 /\ Cardinality({}) = 0
    BY FS_EmptySet
  <2> QED BY <2>1 DEF Shown
<1>4. \/ 1 \in Starts /\ log[1].v = 1
      \/ volume = 1 /\ Len(log) = 0
  BY <1>1, VolumeBegins
<1>5. <<>> \in Seq(Units)
  OBVIOUS
<1>6. Shown(Due(Cursor))
  BY <1>1, <1>2, <1>3
<1>7. \/ Cursor \in Starts /\ log[Cursor].v = io
      \/ io = volume /\ Cursor > Len(log)
  BY <1>1, <1>4
<1> QED BY <1>1, <1>5, <1>6, <1>7 DEF AtHeader

----------------------------------------------------------------------------
(* -t shows every header. *)

LEMMA InitNotYet == RoundTripInit => NotYet
<1>1. RestoreStarts => NotYet
  BY DEF RestoreStarts, R!RestoreInit, R!ReaderInit, NotYet
<1>2. VerifyStarts => NotYet
  BY DEF VerifyStarts, V!VerifyInit, V!ReaderInit, NotYet
<1> QED BY <1>1, <1>2 DEF RoundTripInit

LEMMA InitWaiting == RoundTripInit => Waiting
  BY InitNotYet DEF Waiting

LEMMA NextWaiting == Waiting /\ [RoundTripNext]_<<vars, readVars>> => Waiting'
<1> SUFFICES ASSUME Waiting, [RoundTripNext]_<<vars, readVars>> PROVE Waiting'
  OBVIOUS
<1>1. UNCHANGED readVars /\ NotYet => Waiting'
  BY DEF readVars, NotYet, Waiting
<1>2. CASE MakeArchive
  <2>1. NotYet
    BY <1>2, NoMoreArchiving DEF MakeArchive, Waiting
  <2> QED BY <1>1, <1>2, <2>1 DEF MakeArchive
<1>3. CASE ReadArchive
  <2>1. UNCHANGED vars /\ function' = function
    BY <1>3 DEF ReadArchive, R!RestoreNext, R!NextHeader, R!Skip, R!UnlinkFirst, R!OpenFile,
                R!OpenFails, R!MakeNode, R!ReadContent, R!WriteContent, R!CloseFile,
                R!Continue, R!SameName, R!NewName, R!BadName, R!PromptEnds, R!PromptQuits,
                R!Reply, R!options
  <2>2. pc' = "done" /\ cuts' = 0 /\ function' # "verify"
    BY <1>3, <2>1 DEF ReadArchive, vars, envVars
  <2> QED BY <2>2 DEF Waiting
<1>4. CASE VerifyArchive
  <2>1. pc' = "done" /\ cuts' = 0 /\ ~failed'
    BY <1>4 DEF VerifyArchive, vars, envVars, loopVars
  <2> QED BY <2>1 DEF Waiting
<1>5. CASE Touch
  <2>1. UNCHANGED readVars /\ pc' = pc /\ cuts' = cuts /\ failed' = failed
    BY <1>5 DEF Touch
  <2> QED BY <2>1 DEF Waiting, NotYet, readVars
<1>6. CASE Over \/ UNCHANGED <<vars, readVars>>
  <2>1. UNCHANGED readVars /\ pc' = pc /\ cuts' = cuts /\ failed' = failed
    BY <1>6 DEF Over, vars, envVars, loopVars
  <2> QED BY <2>1 DEF Waiting, NotYet, readVars
<1> QED BY <1>2, <1>3, <1>4, <1>5, <1>6 DEF RoundTripNext

LEMMA WaitingHolds == RoundTripSpec => []Waiting
  BY InitWaiting, NextWaiting, PTL DEF RoundTripSpec

(* The failures and the answers so far.                                     *)
History == rfaults \in Nat /\ replies \in Seq(Replies)

LEMMA RightIs == Right <=> \A x : R!Said(x) => x \in {"same", "name"}
  BY DEF Right, R!Said

(* What they were before a step of --verify.                                *)
LEMMA VerifyStep ==
  ASSUME replies \in Seq(Replies), V!VerifyNext
  PROVE  /\ rfaults' \in {rfaults, rfaults + 1}
         /\ replies' \in Seq(Replies)
         /\ \A x : R!Said(x) => R!Said(x)'
<1>1. CASE V!NextHeader
  <2>1. PICK result : V!GetHeader(result)
    BY <1>1 DEF V!NextHeader
  <2> QED BY <1>1, <2>1 DEF V!GetHeader, V!NextHeader, R!Said
<1>2. CASE V!Skip \/ V!Pass
  <2>1. PICK result : V!SkipFile(result)
    BY <1>2 DEF V!Skip, V!Pass
  <2> QED BY <1>2, <2>1 DEF V!SkipFile, V!Skip, V!Pass, R!Said
<1>3. CASE V!Start \/ V!ReopenFails \/ V!Compare \/ V!StatFails
  BY <1>3 DEF V!Start, V!ReopenFails, V!Compare, V!StatFails, V!readerVars, R!Said
<1>4. CASE V!Mount \/ V!BadName \/ V!PromptEnds \/ V!PromptQuits
  <2>1. PICK how : V!Reply(how)
    BY <1>4 DEF V!Mount, V!BadName, V!PromptEnds, V!PromptQuits
  <2>2. rfaults' = rfaults
    BY <1>4 DEF V!Mount, V!BadName, V!PromptEnds, V!PromptQuits, V!NextVolume, V!readerVars
  <2>3. how \in Replies /\ replies' = Append(replies, how)
    BY <2>1 DEF V!Reply
  <2>4. /\ replies' \in Seq(Replies) /\ Len(replies) \in Nat /\ Len(replies') = Len(replies) + 1
        /\ \A j \in 1 .. Len(replies) : replies'[j] = replies[j]
    BY <2>3, AppendProperties, LenProperties
  <2>5. DOMAIN replies = 1 .. Len(replies) /\ DOMAIN replies' = 1 .. Len(replies) + 1
    BY <2>4, LenProperties
  <2> QED BY <2>2, <2>4, <2>5 DEF R!Said
<1> QED BY <1>1, <1>2, <1>3, <1>4 DEF V!VerifyNext

LEMMA NextHistory ==
  ASSUME History, [RoundTripNext]_<<vars, readVars>>
  PROVE  /\ History'
         /\ rfaults' = 0 => rfaults = 0
         /\ Right' => Right
<1> DEFINE Steps == /\ rfaults' \in {rfaults, rfaults + 1}
                    /\ replies' \in Seq(Replies)
                    /\ \A x : R!Said(x) => R!Said(x)'
<1>1. MakeArchive \/ Touch \/ Over \/ UNCHANGED <<vars, readVars>> => Steps
  <2> SUFFICES ASSUME MakeArchive \/ Touch \/ Over \/ UNCHANGED <<vars, readVars>> PROVE Steps
    OBVIOUS
  <2>1. rfaults' = rfaults /\ replies' = replies
    BY DEF MakeArchive, Touch, Over, readVars
  <2> QED BY <2>1 DEF History, R!Said
<1>2. ReadArchive => Steps
  BY HistoryStep DEF ReadArchive, History
<1>3. VerifyArchive => Steps
  BY VerifyStep DEF VerifyArchive, History
<1>4. /\ rfaults' \in {rfaults, rfaults + 1}
      /\ replies' \in Seq(Replies)
      /\ \A x : R!Said(x) => R!Said(x)'
  BY <1>1, <1>2, <1>3 DEF RoundTripNext
<1>5. Right' => Right
  <2> SUFFICES ASSUME Right', NEW j \in DOMAIN replies PROVE replies[j] \in {"same", "name"}
    BY DEF Right
  <2>1. PICK x : x = replies[j]
    OBVIOUS
  <2>2. R!Said(x)
    BY <2>1 DEF R!Said
  <2>3. R!Said(x)'
    BY <1>4, <2>2
  <2> QED BY <2>1, <2>3 DEF Right, R!Said
<1>6. rfaults' \in Nat /\ (rfaults' = 0 => rfaults = 0)
  <2>1. PICK n \in Nat : n = rfaults
    BY DEF History
  <2>2. rfaults' = n \/ rfaults' = n + 1
    BY <1>4, <2>1
  <2> QED BY <2>1, <2>2
<1> QED BY <1>4, <1>5, <1>6 DEF History

LEMMA HistoryHolds == RoundTripSpec => []History
<1>1. RoundTripInit => History
  <2> SUFFICES ASSUME RoundTripInit PROVE History
    OBVIOUS
  <2>1. rfaults = 0 /\ replies = <<>>
    BY DEF RoundTripInit, RestoreStarts, VerifyStarts, R!RestoreInit, V!VerifyInit, R!ReaderInit,
           V!ReaderInit
  <2> QED BY <2>1 DEF History
<1>2. History /\ [RoundTripNext]_<<vars, readVars>> => History'
  BY NextHistory
<1> QED BY <1>1, <1>2, PTL DEF RoundTripSpec

(* Before the first header is read. *)
LEMMA FreshWalk ==
  ASSUME Laid, NotYet, Given
  PROVE  Sound /\ Walking
<1>1. Sound
  BY LaidSound DEF Given
<1>2. AtHeader /\ io \in 1 .. volume /\ at \in Nat /\ shown \in Seq(Units)
  BY <1>1, FirstHeader DEF NotYet
<1>3. rpc \in {"start", "header"}
  BY DEF NotYet
<1> QED BY <1>1, <1>2, <1>3 DEF Walking

LEMMA FreshList == Laid /\ NotYet => ListInv
<1> SUFFICES ASSUME Laid, NotYet, Given, function = "list" PROVE Listing
  BY DEF ListInv
<1>1. Walking /\ rpc = "header"
  BY FreshWalk DEF NotYet
<1> QED BY <1>1 DEF Listing

(* The places of the walk, after a step that keeps the archive.             *)
LEMMA ShownStays ==
  ASSUME NEW S, UNCHANGED <<log, shown>>, Shown(S)
  PROVE  Shown(S)'
  BY DEF Shown

LEMMA HereAgain ==
  ASSUME UNCHANGED <<log, volume, function>>, NEW n, n = io', NEW d, d = Ahead(n) + at' + 1,
         NEW S, S = Due(d), Shown(S)',
         (d \in Starts /\ log[d].v = n) \/ (n = volume /\ d > Len(log))
  PROVE  AtHeader'
<1>1. Ahead(n)' = Ahead(n) /\ Starts' = Starts
  BY DEF Ahead, Starts
<1>2. Cursor' = d
  BY <1>1 DEF Cursor, Ahead
<1>3. Due(d)' = S
  BY <1>1 DEF Due
<1>4. Due(Cursor)' = S
  BY <1>2, <1>3 DEF Due
<1>5. Shown(Due(Cursor))'
  BY <1>4 DEF Shown
<1> QED BY <1>1, <1>2, <1>5 DEF AtHeader

LEMMA BehindAgain ==
  ASSUME UNCHANGED <<log, volume, function, io>>, NEW h \in Starts, log[h].v = io,
         header' = log[h], Ahead(io) + at' + 1 = h + HeadLength(log[h]),
         skip_size' = RoundUp(log[h].s)
  PROVE  Behind(h)' /\ Due(h)' = Due(h) /\ Due(h + 1)' = Due(h + 1)
<1>1. Starts' = Starts /\ Ahead(io)' = Ahead(io)
  BY DEF Ahead, Starts
<1>2. Cursor' = Ahead(io) + at' + 1
  BY <1>1 DEF Cursor
<1>3. Due(h)' = Due(h) /\ Due(h + 1)' = Due(h + 1)
  BY <1>1 DEF Due
<1> QED BY <1>1, <1>2, <1>3 DEF Behind

LEMMA EndAgain ==
  ASSUME UNCHANGED <<log, volume, function, io>>, NEW S, S = Due(Ahead(io + 1) + 1), Shown(S)'
  PROVE  AtEnd'
<1>1. Starts' = Starts /\ Ahead(io + 1)' = Ahead(io + 1)
  BY DEF Ahead, Starts
<1>2. PICK d : d = Ahead(io + 1) + 1
  OBVIOUS
<1>3. Due(d)' = S
  BY <1>1, <1>2 DEF Due
<1>4. Due(Ahead(io + 1) + 1)' = S
  BY <1>1, <1>2, <1>3 DEF Due
<1> QED BY <1>4 DEF AtEnd, Shown

(* A header of the archive has a name that was asked for, when all were.    *)
LEMMA HeaderWanted ==
  ASSUME Sound, NEW h \in Starts, R!Names \cup {0} \subseteq wanted
  PROVE  R!Name(log[h]) \in wanted
<1>1. h \in DOMAIN log /\ IsHead(log[h]) /\ Fits(log[h])
  BY HeaderFacts, Frames
<1>2. CASE log[h].k = "label"
  BY <1>1, <1>2 DEF Fits, R!Name
<1>3. CASE log[h].k \in {"hdr", "cont", "link"}
  BY <1>1, <1>3, NameKnown DEF Sound
<1> QED BY <1>1, <1>2, <1>3 DEF IsHead

LEMMA ListHeader ==
  ASSUME Sound, Given, Listing, function = "list", R!Names \cup {0} \subseteq wanted,
         UNCHANGED vars, R!NextHeader, rfaults \in Nat, rfaults' = 0
  PROVE  Listing'
<1>1. PICK result \in R!HeaderResults :
        /\ R!GetHeader(result)
        /\ CASE result = "ok" ->
                  /\ header' = R!Here
                  /\ rpc' = R!AfterHeader(R!Here)
                  /\ shown' = IF R!Name(R!Here) \in wanted THEN Append(shown, R!Here)
                              ELSE shown
                  /\ UNCHANGED rfailed
             [] result = "not_found" -> R!Ends(0) /\ UNCHANGED <<header, shown>>
             [] result = "bad_checksum" -> R!Ends(3) /\ UNCHANGED <<header, shown>>
             [] result \in {"bad_header", "fault"} ->
                  R!Ends(4) /\ UNCHANGED <<header, shown>>
  BY DEF R!NextHeader
<1>2. /\ rpc = "header" /\ Walking /\ function' = function /\ io \in 1 .. volume
      /\ log' = log /\ volume' = volume /\ shown \in Seq(Units)
  BY DEF R!NextHeader, R!options, Listing, Walking, vars, fileVars
<1>3. /\ io' = io /\ at' \in Nat
      /\ \/ result = "not_found" /\ Shown(Due(Len(log) + 1))
         \/ /\ result = "ok"
            /\ \E h \in Starts :
                 /\ log[h].v = io /\ R!Here = log[h] /\ Shown(Due(h))
                 /\ Ahead(io) + at' + 1 = h + HeadLength(log[h])
                 /\ skip_size' = RoundUp(log[h].s)
  BY <1>1, <1>2, ReadsHeader
<1>4. CASE result = "not_found"
  <2>1. Shown(Due(Len(log) + 1)) /\ rpc' = "done" /\ shown' = shown
    BY <1>1, <1>3, <1>4 DEF R!Ends
  <2>2. Due(Len(log) + 1) = Starts
    <3>1. Len(log) \in Nat /\ \A j \in Starts : j \in 1 .. Len(log)
      BY Frames, StartsAre
    <3>2. \A j \in Starts : j < Len(log) + 1
      BY <3>1
    <3> QED BY <3>2 DEF Due
  <2>3. Shown(Starts)'
    <3>1. Shown(Starts) /\ Starts' = Starts
      BY <1>2, <2>1, <2>2 DEF Starts
    <3> QED BY <1>2, <2>1, <3>1 DEF Shown
  <2>4. Walking'
    BY <1>2, <1>3, <2>1 DEF Walking
  <2> QED BY <2>1, <2>3, <2>4 DEF Listing
<1>5. CASE result = "ok"
  <2>1. PICK h \in Starts :
          /\ log[h].v = io /\ R!Here = log[h] /\ Shown(Due(h))
          /\ Ahead(io) + at' + 1 = h + HeadLength(log[h])
          /\ skip_size' = RoundUp(log[h].s)
    BY <1>3, <1>5
  <2>2. R!Name(R!Here) \in wanted
    BY <2>1, HeaderWanted
  <2>3. header' = log[h] /\ rpc' = "skip" /\ shown' = Append(shown, log[h])
    BY <1>1, <1>5, <2>1, <2>2 DEF R!AfterHeader
  <2>4. h \in Nat /\ log[h] \in Units
    BY HeaderFacts, Frames
  <2>5. PICK S : S = Due(h)
    OBVIOUS
  <2>6. IsFiniteSet(S) /\ (\A j \in S : j \in Nat /\ j < h) /\ Shown(S)
    BY <2>1, <2>4, <2>5, DueFacts
  <2>7. Shown(S \cup {h})' /\ shown' \in Seq(Units)
    BY <1>2, <2>3, <2>4, <2>6, ShownMore
  <2>8. Due(h + 1) = S \cup {h}
    BY <2>5, DueNext
  <2>9. Behind(h)' /\ Due(h + 1)' = Due(h + 1)
    BY <1>2, <1>3, <2>1, <2>3, BehindAgain
  <2>10. Shown(Due(h + 1))'
    BY <2>7, <2>8, <2>9 DEF Shown
  <2>11. h \in DOMAIN log'
    BY <1>2, HeaderFacts
  <2>12. Walking'
    BY <1>2, <1>3, <2>3, <2>7, <2>9, <2>10, <2>11 DEF Walking
  <2> QED BY <2>3, <2>12 DEF Listing
<1> QED BY <1>3, <1>4, <1>5

LEMMA ListSkip ==
  ASSUME Sound, Given, Listing, UNCHANGED vars, R!Skip, rfaults \in Nat, rfaults' = 0
  PROVE  Listing'
<1>1. PICK result \in R!SkipResults :
        /\ R!SkipFile(result)
        /\ CASE result = "ok" -> rpc' = "header" /\ UNCHANGED <<rfailed, rback>>
             [] result = "end_of_tape" ->
                  rpc' = "prompt" /\ rback' = "skip" /\ UNCHANGED rfailed
             [] result = "error" -> R!Ends(2) /\ UNCHANGED rback
  BY DEF R!Skip
<1>2. /\ rpc = "skip" /\ function' = function /\ io \in 1 .. volume /\ at \in Nat
      /\ log' = log /\ volume' = volume /\ shown' = shown /\ shown \in Seq(Units)
      /\ NoEmptyRest /\ (volume = 1 \/ Multi)
  BY DEF R!Skip, R!options, Listing, Walking, vars, fileVars, Given
<1>3. PICK h \in DOMAIN log : Behind(h) /\ Shown(Due(h + 1))
  BY <1>2 DEF Listing, Walking
<1>4. h \in Starts
  BY <1>3 DEF Behind
<1>5. /\ io' = io /\ at' \in Nat
      /\ \/ /\ result = "ok"
            /\ \E d \in Nat : /\ d = Ahead(io) + at' + 1
                              /\ (d \in Starts /\ log[d].v = io) \/ (io = volume /\ d > Len(log))
                              /\ Due(d) = Due(h + 1)
         \/ /\ result = "end_of_tape"
            /\ Due(Ahead(io + 1) + 1) = Due(h + 1)
            /\ Ending(log, h) > Ahead(io + 1) + 1
  BY <1>1, <1>2, <1>3, <1>4, SkipStep
<1>6. PICK S : S = Due(h + 1)
  OBVIOUS
<1>7. Shown(S)'
  BY <1>2, <1>3, <1>6, ShownStays
<1>8. CASE result = "ok"
  <2>1. PICK d \in Nat : /\ d = Ahead(io) + at' + 1
                         /\ (d \in Starts /\ log[d].v = io) \/ (io = volume /\ d > Len(log))
                         /\ Due(d) = Due(h + 1)
    BY <1>5, <1>8
  <2>2. AtHeader'
    <3>1. PICK n : n = io'
      OBVIOUS
    <3>2. n = io
      BY <1>5, <3>1
    <3> QED BY <1>2, <1>6, <1>7, <2>1, <3>1, <3>2, HereAgain
  <2>3. rpc' = "header"
    BY <1>1, <1>8
  <2>4. Walking'
    BY <1>2, <1>5, <2>2, <2>3 DEF Walking
  <2> QED BY <2>3, <2>4 DEF Listing
<1>9. CASE result = "end_of_tape"
  <2>1. AtEnd'
    BY <1>2, <1>5, <1>6, <1>7, <1>9, EndAgain
  <2>2. rpc' = "prompt" /\ rback' = "skip"
    BY <1>1, <1>9
  <2>3. Walking'
    BY <1>2, <1>5, <2>1, <2>2 DEF Walking
  <2> QED BY <2>2, <2>3 DEF Listing
<1> QED BY <1>5, <1>8, <1>9

LEMMA ListPrompt ==
  ASSUME Sound, Given, Listing, function = "list", UNCHANGED vars, History, Right',
         R!SameName \/ R!NewName \/ R!BadName \/ R!PromptEnds \/ R!PromptQuits
  PROVE  Listing'
<1>1. PICK how : R!Reply(how)
  BY DEF R!SameName, R!NewName, R!BadName, R!PromptEnds, R!PromptQuits
<1>2. ASSUME NEW x, R!Reply(x) PROVE x \in {"same", "name"}
  <2>1. R!Said(x)'
    BY <1>2, Replied DEF History
  <2> QED BY <2>1 DEF R!Said, Right
<1>3. /\ rpc = "prompt" /\ rback = "skip" /\ AtEnd /\ function' = function
      /\ io \in 1 .. volume /\ at \in Nat /\ shown' = shown /\ shown \in Seq(Units)
      /\ log' = log /\ volume' = volume
  BY <1>1 DEF R!Reply, R!options, Listing, Walking, vars, fileVars
<1>4. io < Len(Volumes) /\ R!NextVolume(io + 1) /\ R!Selected(-1)
  BY <1>2 DEF R!SameName, R!NewName, R!BadName, R!PromptEnds, R!PromptQuits
<1>5. Len(Volumes) = volume
  BY Frames DEF Volumes
<1>6. /\ io + 1 \in 1 .. volume
      /\ Ahead(io + 1) + 1 \in Starts /\ log[Ahead(io + 1) + 1].v = io + 1
      /\ Shown(Due(Ahead(io + 1) + 1))
  BY <1>3, <1>4, <1>5, MountStep
<1>7. io' = io + 1 /\ at' = 0 /\ rpc' = "header"
  BY <1>3, <1>4 DEF R!NextVolume, R!Selected
<1>8. AtHeader'
  <2>1. PICK n \in Nat, a \in Nat : n = io + 1 /\ a = Ahead(n)
    BY <1>6, Frames
  <2>2. PICK d : d = a + 0 + 1 /\ d = a + 1
    BY <2>1
  <2>3. PICK S : S = Due(d)
    OBVIOUS
  <2>4. Shown(S)'
    BY <1>3, <1>6, <2>1, <2>2, <2>3, ShownStays
  <2> QED BY <1>3, <1>6, <1>7, <2>1, <2>2, <2>3, <2>4, HereAgain
<1>9. Walking'
  BY <1>3, <1>6, <1>7, <1>8 DEF Walking
<1> QED BY <1>7, <1>9 DEF Listing

(* A step that does not read leaves the reader where it is.                 *)
LEMMA Elsewhere ==
  ASSUME Waiting, [RoundTripNext]_<<vars, readVars>>, ~ReadArchive, ~VerifyArchive,
         resizes \in Nat, Given'
  PROVE  NotYet' \/ UNCHANGED <<vars, readVars>>
<1>1. resizes' = 0
  BY DEF Given, Undisturbed
<1>2. CASE MakeArchive
  <2>1. NotYet
    BY <1>2, NoMoreArchiving DEF MakeArchive, Waiting
  <2> QED BY <1>2, <2>1 DEF MakeArchive, NotYet, readVars
<1>3. CASE Touch
  BY <1>1, <1>3 DEF Touch
<1>4. CASE Over
  BY <1>4 DEF Over
<1> QED BY <1>2, <1>3, <1>4 DEF RoundTripNext

LEMMA GivenBefore ==
  ASSUME UNCHANGED vars, History, [RoundTripNext]_<<vars, readVars>>, Given'
  PROVE  Given
<1>1. Right /\ rfaults = 0
  BY NextHistory DEF Given
<1>2. pc' = pc /\ cuts' = cuts /\ log' = log /\ volume' = volume /\ faults' = faults
      /\ resizes' = resizes
  BY DEF vars, envVars, fileVars, loopVars
<1> QED BY <1>1, <1>2 DEF Given, Undisturbed, NoEmptyRest, Starts

LEMMA WalkStays ==
  ASSUME UNCHANGED <<vars, readVars>>, Walking
  PROVE  Walking' /\ (\A S : Shown(S) => Shown(S)') /\ Starts' = Starts
         /\ (\A c : Due(c)' = Due(c)) /\ (\A h \in DOMAIN log : Behind(h) => Behind(h)')
<1>1. /\ UNCHANGED <<log, volume, function, io, shown>>
      /\ at' = at /\ rpc' = rpc /\ rback' = rback /\ header' = header /\ skip_size' = skip_size
  BY DEF vars, fileVars, readVars
<1>2. \A S : Shown(S) => Shown(S)'
  BY <1>1, ShownStays
<1>3. Starts' = Starts
  BY <1>1 DEF Starts
<1>4. \A c : Due(c)' = Due(c)
  BY <1>1, <1>3 DEF Due
<1>5. ASSUME rpc = "header" PROVE AtHeader'
  <2>1. AtHeader
    BY <1>5 DEF Walking
  <2>2. PICK n, d, S : n = io /\ d = Ahead(n) + at + 1 /\ S = Due(d)
    OBVIOUS
  <2>3. Shown(S) /\ ((d \in Starts /\ log[d].v = n) \/ (n = volume /\ d > Len(log)))
    BY <2>1, <2>2 DEF AtHeader, Cursor
  <2>4. Shown(S)'
    BY <1>2, <2>3
  <2> QED BY <1>1, <2>2, <2>3, <2>4, HereAgain
<1>6. ASSUME NEW h \in DOMAIN log, Behind(h)
      PROVE  Behind(h)'
  <2>1. h \in Starts /\ log[h].v = io /\ header = log[h] /\ skip_size = RoundUp(log[h].s)
        /\ Ahead(io) + at + 1 = h + HeadLength(log[h])
    BY <1>6 DEF Behind, Cursor
  <2> QED BY <1>1, <2>1, BehindAgain
<1>7. AtEnd => AtEnd'
  <2> SUFFICES ASSUME AtEnd PROVE AtEnd'
    OBVIOUS
  <2>1. PICK S : S = Due(Ahead(io + 1) + 1)
    OBVIOUS
  <2>2. Shown(S)'
    BY <1>2, <2>1 DEF AtEnd
  <2> QED BY <1>1, <2>1, <2>2, EndAgain
<1>8. rpc = "skip" => (\E h \in DOMAIN log : Behind(h) /\ Shown(Due(h + 1)))'
  <2> SUFFICES ASSUME rpc = "skip" PROVE (\E h \in DOMAIN log : Behind(h) /\ Shown(Due(h + 1)))'
    OBVIOUS
  <2>1. PICK h \in DOMAIN log : Behind(h) /\ Shown(Due(h + 1))
    BY DEF Walking
  <2>2. PICK S : S = Due(h + 1)
    OBVIOUS
  <2>3. Shown(S)' /\ Due(h + 1)' = S
    BY <1>2, <1>4, <2>1, <2>2
  <2>4. Shown(Due(h + 1))'
    BY <2>3 DEF Shown
  <2>5. Behind(h)' /\ h \in DOMAIN log'
    BY <1>1, <1>6, <2>1
  <2> QED BY <2>4, <2>5
<1>9. Walking'
  BY <1>1, <1>5, <1>7, <1>8 DEF Walking
<1> QED BY <1>2, <1>3, <1>4, <1>6, <1>9

LEMMA NextList ==
  ASSUME Laid, Waiting, History, ListInv, resizes \in Nat, [RoundTripNext]_<<vars, readVars>>
  PROVE  ListInv' \/ NotYet'
<1> SUFFICES ASSUME ~NotYet', Given', function' = "list", (R!Names \cup {0} \subseteq wanted)'
             PROVE  Listing'
  BY DEF ListInv
<1>1. CASE UNCHANGED <<vars, readVars>>
  <2>1. function = "list" /\ R!Names \cup {0} \subseteq wanted
    BY <1>1 DEF readVars, R!Names
  <2>2. UNCHANGED vars
    BY <1>1
  <2>3. Listing
    BY <2>1, <2>2, GivenBefore DEF ListInv
  <2>4. Walking' /\ (Shown(Starts) => Shown(Starts)')
    <3>1. PICK S : S = Starts
      OBVIOUS
    <3>2. Starts' = S /\ (Shown(S) => Shown(S)') /\ Walking'
      BY <1>1, <2>3, <3>1, WalkStays DEF Listing
    <3> QED BY <3>1, <3>2 DEF Shown
  <2>5. rpc' = rpc /\ rback' = rback
    BY <1>1 DEF readVars
  <2> QED BY <2>3, <2>4, <2>5 DEF Listing
<1>2. CASE VerifyArchive
  BY <1>2 DEF VerifyArchive
<1>3. CASE ReadArchive
  <2>1. UNCHANGED vars /\ R!RestoreNext
    BY <1>3 DEF ReadArchive
  <2>2. function' = function /\ wanted' = wanted
    BY <2>1 DEF R!RestoreNext, R!NextHeader, R!Skip, R!UnlinkFirst, R!OpenFile,
                R!OpenFails, R!MakeNode, R!ReadContent, R!WriteContent, R!CloseFile,
                R!Continue, R!SameName, R!NewName, R!BadName, R!PromptEnds, R!PromptQuits,
                R!Reply, R!options
  <2>3. function = "list" /\ R!Names \cup {0} \subseteq wanted
    BY <2>2 DEF R!Names
  <2>4. Given
    BY <2>1, GivenBefore
  <2>5. Listing
    BY <2>3, <2>4 DEF ListInv
  <2>6. Sound
    BY <2>4, LaidSound DEF Given
  <2>7. rfaults \in Nat /\ rfaults' = 0 /\ Right'
    BY DEF History, Given
  <2>8. CASE R!NextHeader
    BY <2>1, <2>3, <2>4, <2>5, <2>6, <2>7, <2>8, ListHeader
  <2>9. CASE R!Skip
    BY <2>1, <2>3, <2>4, <2>5, <2>6, <2>7, <2>9, ListSkip
  <2>10. CASE R!SameName \/ R!NewName \/ R!BadName \/ R!PromptEnds \/ R!PromptQuits
    BY <2>1, <2>3, <2>4, <2>5, <2>6, <2>7, <2>10, ListPrompt
  <2>11. CASE R!UnlinkFirst \/ R!OpenFile \/ R!OpenFails \/ R!MakeNode
              \/ R!ReadContent \/ R!WriteContent \/ R!CloseFile \/ R!Continue
    BY <2>5, <2>11 DEF Listing, R!UnlinkFirst, R!OpenFile, R!OpenFails, R!MakeNode,
                       R!ReadContent, R!WriteContent, R!CloseFile, R!Continue
  <2> QED BY <2>1, <2>8, <2>9, <2>10, <2>11 DEF R!RestoreNext
<1> QED BY <1>1, <1>2, <1>3, Elsewhere

LEMMA ListHolds == RoundTripSpec => []ListInv
<1>1. RoundTripInit => NotYet
  BY InitNotYet
<1>2. Made /\ Laid /\ Waiting /\ History /\ ListInv /\ [RoundTripNext]_<<vars, readVars>> =>
        ListInv' \/ NotYet'
  BY NextList DEF Made
<1> QED BY <1>1, <1>2, FreshList, MadeHolds, LaidHolds, WaitingHolds, HistoryHolds, PTL
        DEF RoundTripSpec

(* With -t every header that was archived is listed, once and in the order  *)
(* of the archive, whatever the number of the volumes and what is on them.  *)
THEOREM AllListed == RoundTripSpec => []ListComplete
<1>1. Laid /\ ListInv /\ Waiting => ListComplete
  <2> SUFFICES ASSUME Laid, ListInv, Waiting, rpc = "done", function = "list", rfaults = 0,
                      Undisturbed, Right, NoEmptyRest, volume = 1 \/ Multi,
                      R!Names \cup {0} \subseteq wanted
               PROVE  Shown(Starts)
    BY DEF ListComplete
  <2>1. pc = "done" /\ ~(cuts > 0)
    BY DEF Waiting, NotYet
  <2>2. cuts \in Nat
    BY DEF Undisturbed, Laid, IInv, TypeOK
  <2>3. cuts = 0
    BY <2>1, <2>2
  <2> QED BY <2>1, <2>3 DEF ListInv, Given, Listing
<1> QED BY <1>1, LaidHolds, ListHolds, WaitingHolds, PTL

----------------------------------------------------------------------------
(* --verify finds in order what was written. *)

LEMMA OneReader ==
  /\ V!HeaderResults = R!HeaderResults /\ V!SkipResults = R!SkipResults /\ V!Here = R!Here
  /\ \A x : (V!GetHeader(x) <=> R!GetHeader(x)) /\ (V!SkipFile(x) <=> R!SkipFile(x))
<1>1. V!Here = R!Here /\ V!Left = R!Left /\ V!Fault = R!Fault
  BY DEF V!Here, R!Here, V!Left, R!Left, V!Volume, R!Volume, V!Fault, R!Fault
<1>2. \A u : V!IsHeader(u) = R!IsHeader(u) /\ V!HeaderLength(u) = R!HeaderLength(u)
             /\ V!ContentSize(u) = R!ContentSize(u)
  BY DEF V!IsHeader, R!IsHeader, V!HeaderLength, R!HeaderLength, V!ContentSize, R!ContentSize
<1>3. \A n : V!SkipSize(n) = R!SkipSize(n)
  BY DEF V!SkipSize, R!SkipSize
<1>4. \A m, n : V!ForwardTo(m, n) = R!ForwardTo(m, n)
  BY DEF V!ForwardTo, R!ForwardTo, V!Volume, R!Volume
<1>5. V!HeaderResults = R!HeaderResults
  BY <1>1, <1>2, Zenon DEF V!HeaderResults, R!HeaderResults
<1>6. V!SkipResults = R!SkipResults
  BY <1>1, <1>4, Zenon DEF V!SkipResults, R!SkipResults
<1>7. ASSUME NEW x PROVE V!GetHeader(x) <=> R!GetHeader(x)
  BY <1>1, <1>2, <1>3, Zenon DEF V!GetHeader, R!GetHeader
<1>8. ASSUME NEW x PROVE V!SkipFile(x) <=> R!SkipFile(x)
  BY <1>4, Zenon DEF V!SkipFile, R!SkipFile
<1> QED BY <1>1, <1>5, <1>6, <1>7, <1>8

LEMMA FirstPlace ==
  ASSUME Sound, shown = <<>>
  PROVE  /\ 1 \in 1 .. volume /\ Ahead(1) = 0 /\ Shown(Due(1))
         /\ (1 \in Starts /\ log[1].v = 1) \/ (1 = volume /\ 1 > Len(log))
<1>1. 1 \in 1 .. volume /\ Ahead(1) = 0
  BY Frames
<1>2. Due(1) = {}
  BY HeaderFacts DEF Due
<1>3. Len(<<>>) = 0 /\ Cardinality({}) = 0
  BY FS_EmptySet
<1>4. Shown(Due(1))
  BY <1>2, <1>3 DEF Shown
<1>5. \/ 1 \in Starts /\ log[1].v = 1
      \/ volume = 1 /\ Len(log) = 0
  BY <1>1, VolumeBegins
<1> QED BY <1>1, <1>4, <1>5

(* What a step of --verify leaves. *)
LEMMA VerifyKeeps ==
  ASSUME VerifyArchive
  PROVE  /\ function = "verify" /\ ~failed /\ V!VerifyNext
         /\ UNCHANGED <<vars, log, volume, function>>
  BY DEF VerifyArchive, vars, fileVars

LEMMA VerifyStart ==
  ASSUME Sound, Given, Verifying, function = "verify", UNCHANGED <<log, volume, function>>,
         V!Start
  PROVE  Verifying'
<1>1. /\ rpc = "start" /\ NotYet /\ Walking /\ status = 0
      /\ UNCHANGED <<io, at, shown, i_files, rfailed, status>>
      /\ rpc' = IF volume = 1 THEN "header" ELSE "prompt"
      /\ rback' = IF volume = 1 THEN rback ELSE "first"
  <2>1. V!nb_files = volume
    BY Frames DEF V!nb_files, Volumes
  <2> QED BY <2>1 DEF V!Start, V!readerVars, Verifying
<1>2. /\ io = 1 /\ at = 0 /\ shown = <<>> /\ i_files = 0 /\ rfailed = -1
      /\ volume \in Nat \ {0} /\ shown \in Seq(Units) /\ io \in 1 .. volume
  BY <1>1, Frames DEF NotYet, Walking
<1>3. AtHeader'
  <2>1. PICK d, S : d = 1 /\ S = Due(d)
    OBVIOUS
  <2>2. Shown(S) /\ ((d \in Starts /\ log[d].v = 1) \/ (1 = volume /\ d > Len(log)))
        /\ d = Ahead(1) + 0 + 1
    BY <1>2, <2>1, FirstPlace
  <2>3. Shown(S)'
    BY <1>1, <2>2, ShownStays
  <2> QED BY <1>1, <1>2, <2>1, <2>2, <2>3, HereAgain
<1>4. Walking'
  BY <1>1, <1>2, <1>3 DEF Walking
<1> QED BY <1>1, <1>2, <1>4 DEF Verifying

LEMMA VerifyHeader ==
  ASSUME Sound, Given, Verifying, function = "verify", UNCHANGED <<log, volume, function>>,
         V!NextHeader, rfaults \in Nat, rfaults' = 0
  PROVE  Verifying'
<1>1. PICK result \in V!HeaderResults :
        /\ V!GetHeader(result)
        /\ CASE result = "ok" ->
                  /\ header' = V!Here
                  /\ rpc' = IF V!IsRest(V!Here) THEN "skip" ELSE "stat"
                  /\ UNCHANGED rfailed
             [] result = "not_found" -> V!Ends(0) /\ UNCHANGED header
             [] result = "bad_checksum" -> V!Ends(3) /\ UNCHANGED header
             [] result \in {"bad_header", "fault"} -> V!Ends(4) /\ UNCHANGED header
  BY DEF V!NextHeader
<1>2. /\ rpc = "header" /\ Walking /\ io \in 1 .. volume /\ shown \in Seq(Units)
      /\ UNCHANGED <<shown, status, i_files, rback>> /\ status = 0 /\ rfailed = -1
      /\ i_files = IF volume = 1 THEN 0 ELSE io
  BY DEF V!NextHeader, Verifying, Walking
<1>3. /\ io' = io /\ at' \in Nat
      /\ \/ result = "not_found" /\ Shown(Due(Len(log) + 1))
         \/ /\ result = "ok"
            /\ \E h \in Starts :
                 /\ log[h].v = io /\ R!Here = log[h] /\ Shown(Due(h))
                 /\ Ahead(io) + at' + 1 = h + HeadLength(log[h])
                 /\ skip_size' = RoundUp(log[h].s)
  BY <1>1, <1>2, OneReader, ReadsHeader
<1>4. CASE result = "not_found"
  <2>1. Shown(Due(Len(log) + 1)) /\ rpc' = "done" /\ rfailed' = 0
    BY <1>1, <1>3, <1>4 DEF V!Ends
  <2>2. Shown(Due(Len(log) + 1))'
    <3>1. PICK c, S : c = Len(log) + 1 /\ S = Due(c)
      OBVIOUS
    <3>2. Due(c)' = S
      BY <1>2, <3>1 DEF Due, Starts
    <3>3. Due(Len(log) + 1)' = S
      BY <3>1, <3>2 DEF Due
    <3>4. Shown(S)'
      BY <1>2, <2>1, <3>1, ShownStays
    <3> QED BY <3>3, <3>4 DEF Shown
  <2>3. Walking'
    BY <1>2, <1>3, <2>1 DEF Walking
  <2> QED BY <1>2, <1>3, <2>1, <2>2, <2>3 DEF Verifying
<1>5. CASE result = "ok"
  <2>1. PICK h \in Starts :
          /\ log[h].v = io /\ R!Here = log[h] /\ Shown(Due(h))
          /\ Ahead(io) + at' + 1 = h + HeadLength(log[h])
          /\ skip_size' = RoundUp(log[h].s)
    BY <1>3, <1>5
  <2>2. header' = log[h] /\ rpc' = (IF V!IsRest(log[h]) THEN "skip" ELSE "stat") /\ rfailed' = -1
    BY <1>1, <1>2, <1>5, <2>1, OneReader
  <2>3. Behind(h)' /\ Due(h)' = Due(h) /\ Due(h + 1)' = Due(h + 1) /\ h \in DOMAIN log'
    BY <1>2, <1>3, <2>1, <2>2, BehindAgain, HeaderFacts
  <2>4. PICK S : S = Due(h)
    OBVIOUS
  <2>5. Shown(S)'
    BY <1>2, <2>1, <2>4, ShownStays
  <2>6. log[h].p \in Nat
    BY HeaderFacts
  <2>7. CASE V!IsRest(log[h])
    <3>0. ~(log[h].k # "label" /\ log[h].p = 0)
      BY <2>6, <2>7 DEF V!IsRest
    <3>1. Due(h + 1) = S
      BY <2>4, <3>0, DueNext
    <3>2. Shown(Due(h + 1))'
      BY <2>3, <2>5, <3>1 DEF Shown
    <3>3. rpc' = "skip"
      BY <2>2, <2>7
    <3>4. Walking'
      BY <1>2, <1>3, <2>3, <3>2, <3>3 DEF Walking
    <3> QED BY <1>2, <1>3, <2>2, <3>3, <3>4 DEF Verifying
  <2>8. CASE ~V!IsRest(log[h])
    <3>1. log[h].k # "label" /\ log[h].p = 0
      BY <2>6, <2>8 DEF V!IsRest
    <3>2. Due(h + 1) = Due(h) \cup {h}
      BY <3>1, DueNext
    <3>3. Shown(Due(h))' /\ h \in Due(h + 1)'
      BY <2>3, <2>4, <2>5, <3>2 DEF Shown
    <3>4. rpc' = "stat"
      BY <2>2, <2>8
    <3>5. Walking'
      BY <1>2, <1>3, <3>4 DEF Walking
    <3> QED BY <1>2, <1>3, <2>2, <2>3, <3>3, <3>4, <3>5 DEF Verifying
  <2> QED BY <2>7, <2>8
<1> QED BY <1>3, <1>4, <1>5

(* The header says what the file is. *)
LEMMA SizeSame ==
  ASSUME Sound, NEW h \in Starts, log[h].p = 0
  PROVE  ~V!SizeDiffers(log[h])
<1>1. h \in DOMAIN log /\ Fits(log[h]) /\ log[h].s \in Nat
  BY HeaderFacts, Frames
<1>2. log[h].k \in {"hdr", "cont"} => log[h].s = SizeOf(log[h].f)
  <2>1. log[h].k = "hdr" => log[h].s = SizeOf(log[h].f)
    BY <1>1 DEF Fits
  <2>2. log[h].k = "cont" => log[h].p + log[h].s = SizeOf(log[h].f)
    BY <1>1 DEF Fits
  <2> QED BY <1>1, <2>1, <2>2
<1> QED BY <1>2 DEF V!SizeDiffers, SizeOf

LEMMA VerifyCompare ==
  ASSUME Sound, Given, Verifying, function = "verify", UNCHANGED <<log, volume, function>>,
         V!Compare
  PROVE  Verifying'
<1>1. /\ rpc = "stat" /\ Walking /\ io \in 1 .. volume /\ at \in Nat /\ shown \in Seq(Units)
      /\ UNCHANGED <<status, i_files, rback, rfailed, header, io, at, skip_size>>
      /\ status = 0 /\ rfailed = -1
      /\ i_files = IF volume = 1 THEN 0 ELSE io
      /\ shown' = Append(shown, header)
      /\ rpc' = IF V!SizeDiffers(header) THEN "crashed" ELSE "skip"
  BY DEF V!Compare, V!readerVars, Verifying, Walking
<1>2. PICK h \in DOMAIN log : Behind(h) /\ Shown(Due(h)) /\ h \in Due(h + 1)
  BY <1>1 DEF Verifying
<1>3. /\ h \in Starts /\ log[h].v = io /\ header = log[h] /\ skip_size = RoundUp(log[h].s)
      /\ Ahead(io) + at + 1 = h + HeadLength(log[h])
      /\ log[h].k # "label" /\ log[h].p = 0
  BY <1>2 DEF Behind, Cursor, Due
<1>4. rpc' = "skip"
  BY <1>1, <1>3, SizeSame
<1>5. h \in Nat /\ log[h] \in Units
  BY <1>3, HeaderFacts, Frames
<1>6. PICK S : S = Due(h)
  OBVIOUS
<1>7. IsFiniteSet(S) /\ (\A j \in S : j \in Nat /\ j < h) /\ Shown(S)
  BY <1>2, <1>5, <1>6, DueFacts
<1>8. Shown(S \cup {h})' /\ shown' \in Seq(Units)
  BY <1>1, <1>3, <1>5, <1>7, ShownMore
<1>9. Due(h + 1) = S \cup {h}
  BY <1>3, <1>6, DueNext
<1>10. Behind(h)' /\ Due(h + 1)' = Due(h + 1)
  BY <1>1, <1>3, BehindAgain
<1>11. Shown(Due(h + 1))'
  BY <1>8, <1>9, <1>10 DEF Shown
<1>12. Walking'
  BY <1>1, <1>2, <1>4, <1>8, <1>10, <1>11 DEF Walking
<1> QED BY <1>1, <1>4, <1>12 DEF Verifying

LEMMA VerifySkip ==
  ASSUME Sound, Given, ~failed, Verifying, function = "verify",
         UNCHANGED <<log, volume, function>>, V!Skip, rfaults \in Nat, rfaults' = 0
  PROVE  Verifying'
<1>1. PICK result \in V!SkipResults :
        /\ V!SkipFile(result)
        /\ CASE result = "ok" -> rpc' = "header" /\ UNCHANGED <<rfailed, rback>>
             [] result = "end_of_tape" ->
                  rpc' = "prompt" /\ rback' = "skip" /\ UNCHANGED rfailed
             [] result = "error" -> V!Ends(6) /\ UNCHANGED rback
  BY DEF V!Skip
<1>2. /\ rpc = "skip" /\ Walking /\ io \in 1 .. volume /\ at \in Nat /\ shown \in Seq(Units)
      /\ UNCHANGED <<shown, status, i_files>> /\ status = 0 /\ rfailed = -1
      /\ i_files = IF volume = 1 THEN 0 ELSE io
      /\ NoEmptyRest /\ (volume = 1 \/ Multi)
  BY DEF V!Skip, Verifying, Walking, Given
<1>3. PICK h \in DOMAIN log : Behind(h) /\ Shown(Due(h + 1))
  BY <1>2 DEF Walking
<1>4. h \in Starts /\ log[h].v = io
  BY <1>3 DEF Behind
<1>5. /\ io' = io /\ at' \in Nat
      /\ \/ /\ result = "ok"
            /\ \E d \in Nat : /\ d = Ahead(io) + at' + 1
                              /\ (d \in Starts /\ log[d].v = io) \/ (io = volume /\ d > Len(log))
                              /\ Due(d) = Due(h + 1)
         \/ /\ result = "end_of_tape"
            /\ Due(Ahead(io + 1) + 1) = Due(h + 1)
            /\ Ending(log, h) > Ahead(io + 1) + 1
  BY <1>1, <1>2, <1>3, <1>4, OneReader, SkipStep
<1>6. PICK S : S = Due(h + 1)
  OBVIOUS
<1>7. Shown(S)'
  BY <1>2, <1>3, <1>6, ShownStays
<1>8. CASE result = "ok"
  <2>1. PICK d \in Nat : /\ d = Ahead(io) + at' + 1
                         /\ (d \in Starts /\ log[d].v = io) \/ (io = volume /\ d > Len(log))
                         /\ Due(d) = Due(h + 1)
    BY <1>5, <1>8
  <2>2. AtHeader'
    <3>1. PICK n : n = io'
      OBVIOUS
    <3>2. n = io
      BY <1>5, <3>1
    <3> QED BY <1>2, <1>6, <1>7, <2>1, <3>1, <3>2, HereAgain
  <2>3. rpc' = "header" /\ rfailed' = -1 /\ rback' = rback
    BY <1>1, <1>2, <1>8
  <2>4. Walking'
    BY <1>2, <1>5, <2>2, <2>3 DEF Walking
  <2> QED BY <1>2, <1>5, <2>3, <2>4 DEF Verifying
<1>9. CASE result = "end_of_tape"
  <2>1. AtEnd'
    BY <1>2, <1>5, <1>6, <1>7, <1>9, EndAgain
  <2>2. rpc' = "prompt" /\ rback' = "skip" /\ rfailed' = -1
    BY <1>1, <1>2, <1>9
  <2>3. Walking'
    BY <1>2, <1>5, <2>1, <2>2 DEF Walking
  <2>4. io < volume
    <3>1. CASE io = volume
      <4>1. Ending(log, h) <= Len(log) + 1 /\ Ahead(io + 1) = Len(log)
        BY <1>4, <3>1, LastEnds, Frames
      <4>2. Ending(log, h) \in Nat /\ Len(log) \in Nat
        BY <1>4, HeaderFacts, Frames
      <4>3. Ending(log, h) > Len(log) + 1
        BY <1>5, <1>9, <4>1
      <4> QED BY <4>1, <4>2, <4>3
    <3> QED BY <1>2, <3>1, Frames
  <2>5. i_files' < volume
    BY <1>2, <2>4, Frames
  <2> QED BY <1>2, <1>5, <2>2, <2>3, <2>5 DEF Verifying
<1> QED BY <1>5, <1>8, <1>9

LEMMA VerifyPrompt ==
  ASSUME Sound, Given, Verifying, function = "verify", UNCHANGED <<log, volume, function>>,
         History, Right', V!Mount \/ V!BadName \/ V!PromptEnds \/ V!PromptQuits
  PROVE  Verifying'
<1>1. ASSUME NEW x, V!Reply(x) PROVE x \in {"same", "name"}
  <2>1. R!Said(x)'
    <3>1. replies' = Append(replies, x)
      BY <1>1 DEF V!Reply
    <3>2. /\ Len(replies) \in Nat /\ Len(replies') = Len(replies) + 1
          /\ replies'[Len(replies) + 1] = x /\ DOMAIN replies' = 1 .. Len(replies')
      <4>1. replies \in Seq(Replies) /\ x \in Replies
        BY <1>1 DEF V!Reply, History
      <4> QED BY <3>1, <4>1, AppendProperties, LenProperties
    <3> QED BY <3>2 DEF R!Said
  <2> QED BY <2>1 DEF R!Said, Right
<1>2. /\ V!Following \in DOMAIN Volumes
      /\ V!NextVolume(V!Following)
      /\ i_files' = i_files + 1
      /\ V!Selected(0)
      /\ \E x : V!Reply(x)
  BY <1>1 DEF V!Mount, V!BadName, V!PromptEnds, V!PromptQuits
<1>3. /\ rpc = "prompt" /\ Walking /\ io \in 1 .. volume /\ shown \in Seq(Units) /\ shown' = shown
      /\ rback' = rback /\ status = 0 /\ rfailed = -1 /\ volume \in Nat \ {0}
      /\ i_files < volume
      /\ (rback = "skip" /\ AtEnd /\ i_files = (IF volume = 1 THEN 0 ELSE io))
         \/ (rback = "first" /\ i_files = 0 /\ shown = <<>>)
  BY <1>2, Frames DEF V!Reply, Verifying, Walking
<1>4. DOMAIN Volumes = 1 .. volume /\ V!nb_files = volume
  BY <1>3 DEF Volumes, V!nb_files
<1>5. PICK n : n = V!Following
  OBVIOUS
<1>6. /\ n \in 1 .. volume /\ volume # 1 /\ i_files + 1 = n
      /\ n = (IF rback = "skip" THEN io + 1 ELSE 1)
      /\ Shown(Due(Ahead(n) + 1)) /\ Ahead(n) \in Nat
      /\ (Ahead(n) + 1 \in Starts /\ log[Ahead(n) + 1].v = n)
         \/ (n = volume /\ Ahead(n) + 1 > Len(log))
  <2>1. n \in 1 .. volume
    BY <1>2, <1>4, <1>5
  <2>2. CASE rback = "skip"
    <3>1. n = io + 1
      BY <1>3, <1>4, <1>5, <2>2 DEF V!Following, V!HasReader
    <3>2. io < volume /\ volume # 1
      BY <1>3, <2>1, <3>1
    <3>3. AtEnd
      BY <1>3, <2>2
    <3>4. /\ Ahead(io + 1) + 1 \in Starts /\ log[Ahead(io + 1) + 1].v = io + 1
          /\ Shown(Due(Ahead(io + 1) + 1))
      BY <1>3, <3>2, <3>3, MountStep
    <3>5. i_files + 1 = n
      BY <1>3, <2>2, <3>1, <3>2
    <3> QED BY <2>1, <2>2, <3>1, <3>2, <3>4, <3>5, Frames
  <2>3. CASE rback = "first"
    <3>1. i_files = 0 /\ shown = <<>>
      BY <1>3, <2>3
    <3>2. volume # 1 /\ n = 1
      BY <1>3, <1>4, <1>5, <2>1, <3>1 DEF V!Following, V!HasReader
    <3>3. Ahead(n) = 0 /\ Ahead(n) + 1 = 1
      BY <3>1, <3>2, FirstPlace
    <3> QED BY <2>1, <2>3, <3>1, <3>2, <3>3, FirstPlace
  <2> QED BY <1>3, <2>2, <2>3
<1>7. /\ io' = n /\ at' = 0 /\ i_files' = n /\ rfailed' = -1 /\ status' = 0 /\ rpc' = "header"
  BY <1>2, <1>3, <1>4, <1>5, <1>6 DEF V!NextVolume, V!Selected, V!InRange
<1>8. AtHeader'
  <2>1. PICK a \in Nat : a = Ahead(n)
    BY <1>6
  <2>2. PICK d : d = a + 0 + 1 /\ d = a + 1
    BY <2>1
  <2>3. PICK S : S = Due(d)
    OBVIOUS
  <2>4. Shown(S)'
    BY <1>3, <1>6, <2>1, <2>2, <2>3, ShownStays
  <2> QED BY <1>6, <1>7, <2>1, <2>2, <2>3, <2>4, HereAgain
<1>9. Walking'
  BY <1>3, <1>6, <1>7, <1>8 DEF Walking
<1> QED BY <1>6, <1>7, <1>9 DEF Verifying

LEMMA NamesStay == UNCHANGED vars => (WholeNames' <=> WholeNames)
<1> SUFFICES ASSUME UNCHANGED vars PROVE WholeNames' <=> WholeNames
  OBVIOUS
<1>1. log' = log /\ Compared' = Compared
  BY DEF vars, fileVars, Compared, Starts
<1> QED BY <1>1 DEF WholeNames, V!Short

(* The file of a whole name is there to be compared with.                   *)
LEMMA VerifyFound ==
  ASSUME WholeNames, Verifying, function = "verify", V!StatFails, rfaults \in Nat
  PROVE  rfaults' # 0
<1>1. PICK h \in DOMAIN log : Behind(h) /\ h \in Due(h + 1)
  BY DEF V!StatFails, Verifying
<1>2. h \in Compared
  BY <1>1 DEF Due, Compared
<1> QED BY <1>1, <1>2 DEF V!StatFails, Behind, WholeNames

LEMMA NextVerify ==
  ASSUME Laid, Waiting, History, VerifyInv, resizes \in Nat,
         [RoundTripNext]_<<vars, readVars>>
  PROVE  VerifyInv' \/ NotYet'
<1> SUFFICES ASSUME ~NotYet', Given', WholeNames', ~failed', function' = "verify"
             PROVE  Verifying'
  BY DEF VerifyInv
<1>1. CASE UNCHANGED <<vars, readVars>>
  <2>1. UNCHANGED vars /\ UNCHANGED <<log, volume, function, failed, io, shown>>
        /\ UNCHANGED <<rpc, rback, status, rfailed, i_files>> /\ UNCHANGED readVars
    BY <1>1 DEF vars, fileVars, loopVars, readVars
  <2>2. Verifying
    BY <2>1, GivenBefore, NamesStay DEF VerifyInv
  <2>3. /\ Walking'
        /\ \A S : Shown(S) => Shown(S)'
        /\ \A c : Due(c)' = Due(c)
        /\ \A h \in DOMAIN log : Behind(h) => Behind(h)'
    BY <1>1, <2>2, WalkStays DEF Verifying
  <2>4. ASSUME rpc = "stat"
        PROVE  (\E h \in DOMAIN log : Behind(h) /\ Shown(Due(h)) /\ h \in Due(h + 1))'
    <3>1. PICK h \in DOMAIN log : Behind(h) /\ Shown(Due(h)) /\ h \in Due(h + 1)
      BY <2>2, <2>4 DEF Verifying
    <3>2. PICK S : S = Due(h)
      OBVIOUS
    <3>3. Shown(S)' /\ Due(h)' = S /\ h \in Due(h + 1)' /\ Behind(h)' /\ h \in DOMAIN log'
      BY <2>1, <2>3, <3>1, <3>2
    <3>4. Shown(Due(h))'
      BY <3>3 DEF Shown
    <3> QED BY <3>3, <3>4
  <2>5. rpc = "done" => Shown(Due(Len(log) + 1))'
    <3>1. PICK c, S : c = Len(log) + 1 /\ S = Due(c)
      OBVIOUS
    <3>2. Due(c)' = S
      BY <2>3, <3>1
    <3>3. Due(Len(log) + 1)' = S
      BY <2>1, <3>1, <3>2 DEF Due
    <3>4. rpc = "done" => Shown(S)'
      BY <2>2, <2>3, <3>1 DEF Verifying
    <3> QED BY <3>3, <3>4 DEF Shown
  <2>6. NotYet => NotYet'
    BY <2>1 DEF NotYet, readVars
  <2> QED BY <2>1, <2>2, <2>3, <2>4, <2>5, <2>6 DEF Verifying
<1>2. CASE ReadArchive
  <2>1. function' = function
    BY <1>2 DEF ReadArchive, R!RestoreNext, R!NextHeader, R!Skip, R!UnlinkFirst, R!OpenFile,
                R!OpenFails, R!MakeNode, R!ReadContent, R!WriteContent, R!CloseFile,
                R!Continue, R!SameName, R!NewName, R!BadName, R!PromptEnds, R!PromptQuits,
                R!Reply, R!options
  <2> QED BY <1>2, <2>1 DEF ReadArchive
<1>3. CASE VerifyArchive
  <2>1. /\ function = "verify" /\ ~failed /\ V!VerifyNext
        /\ UNCHANGED vars /\ UNCHANGED <<log, volume, function>>
    BY <1>3, VerifyKeeps
  <2>2. Given
    BY <2>1, GivenBefore
  <2>3. Verifying /\ WholeNames
    BY <2>1, <2>2, NamesStay DEF VerifyInv
  <2>4. Sound
    BY <2>2, LaidSound DEF Given
  <2>5. rfaults \in Nat /\ rfaults' = 0 /\ Right' /\ rfaults = 0
    BY NextHistory DEF History, Given
  <2>6. CASE V!Start
    BY <2>1, <2>2, <2>3, <2>4, <2>6, VerifyStart
  <2>7. CASE V!NextHeader
    BY <2>1, <2>2, <2>3, <2>4, <2>5, <2>7, VerifyHeader
  <2>8. CASE V!Compare
    BY <2>1, <2>2, <2>3, <2>4, <2>8, VerifyCompare
  <2>9. CASE V!Skip
    BY <2>1, <2>2, <2>3, <2>4, <2>5, <2>9, VerifySkip
  <2>10. CASE V!Mount \/ V!BadName \/ V!PromptEnds \/ V!PromptQuits
    BY <2>1, <2>2, <2>3, <2>4, <2>5, <2>10, VerifyPrompt
  <2>11. CASE V!ReopenFails \/ V!StatFails
    BY <2>1, <2>3, <2>5, <2>11, VerifyFound DEF V!ReopenFails
  <2>12. CASE V!Pass
    BY <2>3, <2>12 DEF V!Pass, Verifying
  <2> QED BY <2>1, <2>6, <2>7, <2>8, <2>9, <2>10, <2>11, <2>12 DEF V!VerifyNext
<1> QED BY <1>1, <1>2, <1>3, Elsewhere

LEMMA FreshVerify == Laid /\ NotYet => VerifyInv
<1> SUFFICES ASSUME Laid, NotYet, Given, function = "verify" PROVE Verifying
  BY DEF VerifyInv
<1>1. Walking /\ rpc = "start" /\ rfailed = -1 /\ status = 0
  BY FreshWalk DEF NotYet
<1> QED BY <1>1 DEF Verifying

LEMMA VerifyHolds == RoundTripSpec => []VerifyInv
<1>1. RoundTripInit => NotYet
  BY InitNotYet
<1>2. Made /\ Laid /\ Waiting /\ History /\ VerifyInv /\ [RoundTripNext]_<<vars, readVars>> =>
        VerifyInv' \/ NotYet'
  BY NextVerify DEF Made
<1> QED BY <1>1, <1>2, FreshVerify, MadeHolds, LaidHolds, WaitingHolds, HistoryHolds, PTL
        DEF RoundTripSpec

(* What mtar -c wrote --verify finds in order, whatever the number of the   *)
(* volumes: it asks for those that were written and for no other, compares  *)
(* every entry once, in the order of the archive, and ends with 0.          *)
THEOREM VerifyInOrder == RoundTripSpec => []Verified
<1>1. Laid /\ VerifyInv /\ Waiting => Verified
  <2> SUFFICES ASSUME Laid, VerifyInv, Waiting, function = "verify", rfaults = 0,
                      Undisturbed, Right, NoEmptyRest, WholeNames, volume = 1 \/ Multi
               PROVE  /\ rpc # "crashed"
                      /\ rpc = "prompt" => i_files < volume
                      /\ rpc = "done" =>
                           /\ rfailed = 0 /\ status = 0
                           /\ Shown(Compared)
    BY DEF Verified
  <2>1. CASE NotYet
    BY <2>1 DEF NotYet
  <2>2. CASE ~NotYet
    <3>1. pc = "done" /\ ~(cuts > 0) /\ ~failed
      BY <2>2 DEF Waiting
    <3>2. cuts \in Nat
      BY DEF Undisturbed, Laid, IInv, TypeOK
    <3>3. cuts = 0
      BY <3>1, <3>2
    <3>4. Verifying
      BY <3>1, <3>3 DEF VerifyInv, Given
    <3>5. Due(Len(log) + 1) = Compared
      <4>1. Sound
        BY <3>1, <3>3, LaidSound
      <4>2. Len(log) \in Nat /\ \A j \in Starts : j \in 1 .. Len(log)
        BY <4>1, Frames, StartsAre
      <4>3. \A j \in Starts : j < Len(log) + 1
        BY <4>2
      <4> QED BY <4>3 DEF Due, Compared
    <3> QED BY <3>4, <3>5 DEF Verifying
  <2> QED BY <2>1, <2>2
<1> QED BY <1>1, LaidHolds, VerifyHolds, WaitingHolds, PTL

----------------------------------------------------------------------------
(* What extract has put into the files is what was archived.                *)

(* The header has the whole name of its file. *)
Plain(u) == u.f # 0 /\ R!Name(u) = Entries[u.f].name

(* What was archived under the name n, from the place t on.                 *)
Run(C, n, t) ==
    \A l \in DOMAIN C :
        C[l].o = t + l - 1 /\ C[l].f \in inode /\ Entries[C[l].f].name = n

(* A file with the first t units of what was archived under the name n.     *)
GoesTo(T, n, t) == T.kind = "file" /\ Len(T.content) = t /\ Run(T.content, n, 0)

(* At the place t of a file of which r units follow on the volume v from c  *)
(* on, as far as it goes: they are the last that the header at h announces. *)
Inside(h, f, v, t, r, c) ==
    /\ h \in Starts /\ log[h].v = v /\ log[h].f = f
    /\ t >= log[h].p /\ t + r = log[h].p + log[h].s
    /\ r > 0 => /\ c = h + HeadLength(log[h]) + (t - log[h].p)
                /\ c <= Ahead(v + 1) + 1

Opening == rpc \in {"unlink", "restore"}
Copying == rpc \in {"data", "write", "sub"} \/ (rpc = "prompt" /\ rback = "data")

FilesOK ==
    /\ files \in [R!Names -> R!Thing]
    /\ \A n \in R!Names : files[n].kind = "dir" => files[n].content = <<>>

(* A header that begins a file, with its whole name. *)
Named(u) == R!IsRegular(u) /\ Plain(u)

(* Every file that was shown is one of the archive's from its start on, but *)
(* for the one that is to be opened.                                        *)
Shows ==
    /\ shown \in Seq(Units)
    /\ \A j \in DOMAIN shown : \E l \in DOMAIN log : shown[j] = log[l]
    /\ \A j \in DOMAIN shown : Named(shown[j]) =>
         \/ Run(files[R!Name(shown[j])].content, R!Name(shown[j]), 0)
         \/ Opening /\ R!IsRegular(header) /\ R!Name(header) = R!Name(shown[j])

(* If the header at c is that of the rest of a file, the file goes as far.  *)
Ready(F, c) ==
    c \in DOMAIN log /\ log[c].k = "cont" /\ Plain(log[c]) /\ R!Name(log[c]) \in wanted =>
        GoesTo(F[R!Name(log[c])], R!Name(log[c]), log[c].p)

(* Behind a header that was not asked for, and where its volume ends.       *)
AtSkip == (\E h \in Starts : Behind(h)) /\ R!Name(header) \notin wanted

AtGap ==
    /\ \E h \in Starts : header = log[h] /\ log[h].v = io /\ Ending(log, h) > Ahead(io + 1) + 1
    /\ R!Name(header) \notin wanted

AtOpen ==
    /\ \E h \in Starts : /\ header = log[h] /\ log[h].v = io
                         /\ Cursor = h + HeadLength(log[h]) /\ file_size = log[h].s
    /\ header.k = "cont" /\ Plain(header) =>
         rpc = "restore" /\ GoesTo(files[R!Name(header)], R!Name(header), header.p)

AtCopy ==
    /\ total \in Nat
    /\ \E m \in Starts : header = log[m]
    /\ files[R!Name(header)].kind = "file"
    /\ rpc # "sub" => \E h \in Starts : Inside(h, header.f, io, total, file_size, Cursor)
    /\ rpc = "prompt" => file_size > 0 /\ Cursor = Ahead(io + 1) + 1
    /\ rpc # "write" /\ Plain(header) => GoesTo(files[R!Name(header)], R!Name(header), total)

AtWrite ==
    /\ chunk \in Seq(Piece)
    /\ Plain(header) =>
         LET T == files[R!Name(header)]
         IN  /\ GoesTo(T, R!Name(header), Len(T.content))
             /\ Run(chunk, R!Name(header), Len(T.content))
             /\ Len(T.content) + Len(chunk) = total

(* The volume w ends in the file at hand, where extract is with it.         *)
EndsAt(w, h, f, t) ==
    /\ h \in Starts /\ log[h].v = w /\ log[h].f = f
    /\ Ahead(w + 1) + 1 = h + HeadLength(log[h]) + (t - log[h].p)
    /\ t < log[h].p + log[h].s

(* The volume that is asked for the rest of a file: where nothing was       *)
(* mounted that is the end of the one before, else the start of another.    *)
AtSub ==
    \E w \in 1 .. volume :
        /\ \E h \in Starts : EndsAt(w, h, header.f, total)
        /\ \/ Cursor > Ahead(io + 1)
           \/ at = 0 /\ (io = w + 1 \/ R!Said("wrong"))

Places ==
    /\ rpc = "header" /\ at = 0 => Ready(files, Ahead(io) + 1)
    /\ rpc = "skip" => AtSkip
    /\ rpc = "prompt" => rback \in {"skip", "data"}
    /\ rpc = "prompt" /\ rback = "skip" => AtGap
    /\ rpc \in {"skip", "unlink", "restore", "data", "write"} => at > 0
    /\ Opening => AtOpen
    /\ Copying => AtCopy
    /\ rpc = "sub" => AtSub
    /\ rpc = "write" => AtWrite

Filling == FilesOK /\ Shows /\ Places

FillInv ==
    pc = "done" /\ cuts = 0 /\ Undisturbed /\ rfaults = 0 /\ function = "extract" /\ ~misled
        /\ (unlink => ~R!Said("name")) => Filling

FilesWait == pc # "done" \/ cuts > 0 => FilesOK

LEMMA InitFiles == RoundTripInit => FilesWait
<1> SUFFICES ASSUME RoundTripInit PROVE FilesOK
  BY DEF FilesWait
<1>1. CASE RestoreStarts
  <2>1. files \in Before
    BY <1>1 DEF RestoreStarts
  <2> QED BY <2>1, RoundTripAssumption DEF FilesOK
<1>2. CASE VerifyStarts
  <2>1. files = [n \in R!Names |-> R!Empty("none")]
    BY <1>2 DEF VerifyStarts
  <2>2. R!Empty("none") \in R!Thing /\ R!Empty("none").content = <<>>
    BY DEF R!Empty, R!Thing
  <2> QED BY <2>1, <2>2 DEF FilesOK
<1> QED BY <1>1, <1>2 DEF RoundTripInit

LEMMA NextFiles == FilesWait /\ [RoundTripNext]_<<vars, readVars>> => FilesWait'
<1> SUFFICES ASSUME FilesWait, [RoundTripNext]_<<vars, readVars>> PROVE FilesWait'
  OBVIOUS
<1>1. files' = files /\ FilesOK => FilesWait'
  BY DEF FilesOK, FilesWait
<1>2. CASE MakeArchive
  <2>1. FilesOK /\ files' = files
    BY <1>2, NoMoreArchiving DEF MakeArchive, FilesWait, readVars
  <2> QED BY <1>1, <2>1
<1>3. CASE ReadArchive
  <2>1. pc' = "done" /\ cuts' = 0
    BY <1>3 DEF ReadArchive, vars, envVars
  <2> QED BY <2>1 DEF FilesWait
<1>4. CASE VerifyArchive \/ Touch \/ Over \/ UNCHANGED <<vars, readVars>>
  <2>1. files' = files /\ pc' = pc /\ cuts' = cuts
    BY <1>4 DEF VerifyArchive, Touch, Over, readVars, vars, envVars
  <2> QED BY <1>1, <2>1 DEF FilesWait
<1> QED BY <1>2, <1>3, <1>4 DEF RoundTripNext

LEMMA FilesHold == RoundTripSpec => []FilesWait
  BY InitFiles, NextFiles, PTL DEF RoundTripSpec

(* The names in the headers. *)
LEMMA PlainName ==
  ASSUME Readable, NEW j \in DOMAIN log, log[j].k \in {"hdr", "cont", "link"}
  PROVE  /\ log[j].f \in 1 .. Len(Entries) /\ log[j].f # 0
         /\ Entries[log[j].f].name \in Nat
         /\ R!Name(log[j]) \in R!Names
         /\ Plain(log[j]) <=> R!Name(log[j]) \in Nat
         /\ R!Name(log[j]) \in Nat => R!Name(log[j]) = Entries[log[j].f].name
<1>1. Fits(log[j])
  BY DEF Readable, AllFit
<1>2. log[j].f \in 1 .. Len(Entries) /\ log[j].f # 0
  <2>1. log[j].f \in 1 .. Len(Entries)
    BY <1>1 DEF Fits, Readable
  <2> QED BY <2>1
<1>3. Entries[log[j].f] \in EntryType
  BY <1>2, ElementOfSeq, CreateAssumption
<1>4. PICK n \in Nat : n = Entries[log[j].f].name
  BY <1>3 DEF EntryType
<1>5. R!Name(log[j]) \in {n, -n}
  BY <1>2, <1>4 DEF R!Name
<1>6. R!Name(log[j]) \in Nat => R!Name(log[j]) = n
  BY <1>4, <1>5
<1> QED BY <1>2, <1>4, <1>6, NameKnown DEF Plain

LEMMA RunAgain ==
  ASSUME inode' = inode, NEW C, NEW n, NEW t, Run(C, n, t)
  PROVE  Run(C, n, t)'
  BY DEF Run

LEMMA GoesAgain ==
  ASSUME inode' = inode, NEW T, NEW n, NEW t, GoesTo(T, n, t)
  PROVE  GoesTo(T, n, t)'
  BY RunAgain DEF GoesTo

LEMMA NothingRuns ==
  ASSUME NEW n, NEW t
  PROVE  Run(<<>>, n, t)
  BY DEF Run

LEMMA RunJoins ==
  ASSUME NEW C \in Seq(Piece), NEW D \in Seq(Piece), NEW n,
         Run(C, n, 0), Run(D, n, Len(C))
  PROVE  C \o D \in Seq(Piece) /\ Len(C \o D) = Len(C) + Len(D) /\ Run(C \o D, n, 0)
<1>1. /\ C \o D \in Seq(Piece) /\ Len(C \o D) = Len(C) + Len(D)
      /\ \A j \in 1 .. Len(C) + Len(D) :
           (C \o D)[j] = IF j <= Len(C) THEN C[j] ELSE D[j - Len(C)]
  BY ConcatProperties
<1>2. /\ Len(C) \in Nat /\ Len(D) \in Nat /\ DOMAIN C = 1 .. Len(C) /\ DOMAIN D = 1 .. Len(D)
      /\ DOMAIN (C \o D) = 1 .. Len(C) + Len(D)
  BY <1>1, LenProperties
<1>3. PICK B : B = C \o D
  OBVIOUS
<1>4. ASSUME NEW l \in 1 .. Len(C) + Len(D)
      PROVE  B[l].o = 0 + l - 1 /\ B[l].f \in inode /\ Entries[B[l].f].name = n
  <2>1. CASE l <= Len(C)
    <3>1. B[l] = C[l] /\ l \in 1 .. Len(C)
      BY <1>1, <1>3, <1>4, <2>1
    <3> QED BY <1>2, <3>1 DEF Run
  <2>2. CASE l > Len(C)
    <3>1. PICK m \in 1 .. Len(D) : m = l - Len(C)
      <4>1. l - Len(C) \in 1 .. Len(D)
        BY <1>2, <2>2
      <4> QED BY <4>1
    <3>2. B[l] = D[m]
      BY <1>1, <1>2, <1>3, <2>2, <3>1
    <3>3. D[m].o = Len(C) + m - 1 /\ D[m].f \in inode /\ Entries[D[m].f].name = n
      BY <1>2, <3>1 DEF Run
    <3>4. Len(C) + m - 1 = 0 + l - 1
      BY <1>2, <3>1
    <3> QED BY <3>2, <3>3, <3>4
  <2> QED BY <1>2, <2>1, <2>2
<1> QED BY <1>1, <1>2, <1>3, <1>4 DEF Run

(* The rest of what was shown stays as it is.                               *)
LEMMA ShowsAgain ==
  ASSUME Readable, FilesOK, Shows, UNCHANGED <<log, inode, shown>>,
         \A n \in R!Names : files'[n] = files[n] \/ files'[n].content = <<>>
                            \/ (~Opening /\ n = R!Name(header)
                                /\ (n \in Nat => Run(files'[n].content, n, 0))),
         Opening /\ R!IsRegular(header) =>
           \/ Opening' /\ header' = header
           \/ Plain(header) => Run(files'[R!Name(header)].content, R!Name(header), 0),
         Opening => /\ header.k \in {"hdr", "cont", "link"}
                    /\ \E j \in DOMAIN log : header = log[j]
  PROVE  Shows'
<1>1. shown' \in Seq(Units) /\ \A j \in DOMAIN shown' : \E l \in DOMAIN log' : shown'[j] = log'[l]
  BY DEF Shows
<1>2. ASSUME NEW j \in DOMAIN shown, Named(shown[j])
      PROVE  \/ Run(files'[R!Name(shown[j])].content, R!Name(shown[j]), 0)
             \/ Opening' /\ R!IsRegular(header') /\ R!Name(header') = R!Name(shown[j])
  <2>1. PICK l \in DOMAIN log : shown[j] = log[l]
    BY DEF Shows
  <2>2. log[l].k \in {"hdr", "cont", "link"} /\ Plain(log[l])
    BY <1>2, <2>1 DEF Named, R!IsRegular
  <2>3. PICK n \in R!Names : n = R!Name(shown[j]) /\ n \in Nat
    BY <2>1, <2>2, PlainName
  <2>4. CASE Run(files[n].content, n, 0)
    <3>1. CASE files'[n] = files[n]
      BY <2>3, <2>4, <3>1
    <3>2. CASE files'[n].content = <<>>
      BY <2>3, <3>2, NothingRuns
    <3>3. CASE Run(files'[n].content, n, 0)
      BY <2>3, <3>3
    <3> QED BY <2>3, <3>1, <3>2, <3>3
  <2>5. CASE Opening /\ R!IsRegular(header) /\ R!Name(header) = n
    <3>1. Plain(header)
      <4>1. PICK m \in DOMAIN log : header = log[m]
        BY <2>5
      <4> QED BY <2>3, <2>5, <4>1, PlainName
    <3> QED BY <2>3, <2>5, <3>1
  <2> QED BY <1>2, <2>3, <2>4, <2>5 DEF Shows
<1>3. ASSUME NEW j \in DOMAIN shown', Named(shown'[j])
      PROVE  \/ Run(files[R!Name(shown[j])].content, R!Name(shown[j]), 0)'
             \/ Opening' /\ R!IsRegular(header') /\ R!Name(header') = R!Name(shown'[j])
  <2>1. PICK u : u = shown'[j] /\ u = shown[j] /\ j \in DOMAIN shown
    OBVIOUS
  <2>2. PICK n, C : n = R!Name(u) /\ C = files'[n].content
    OBVIOUS
  <2>3. Run(C, n, 0) => Run(C, n, 0)'
    BY RunAgain
  <2> QED BY <1>2, <1>3, <2>1, <2>2, <2>3
<1> QED BY <1>1, <1>3 DEF Shows

(* A header that is displayed is the one at hand. *)
LEMMA ShowsMore ==
  ASSUME Shows, ~Opening, UNCHANGED <<log, inode, files>>, NEW h \in DOMAIN log,
         log[h] \in Units, header' = log[h], shown' = Append(shown, log[h]),
         Named(log[h]) => Opening'
  PROVE  Shows'
<1>1. /\ shown' \in Seq(Units) /\ Len(shown) \in Nat /\ Len(shown') = Len(shown) + 1
      /\ \A j \in 1 .. Len(shown) : shown'[j] = shown[j]
      /\ shown'[Len(shown) + 1] = log[h]
  BY AppendProperties, LenProperties DEF Shows
<1>2. DOMAIN shown = 1 .. Len(shown) /\ DOMAIN shown' = 1 .. Len(shown) + 1
  BY <1>1, LenProperties DEF Shows
<1>3. \A j \in DOMAIN shown' : \/ j \in DOMAIN shown /\ shown'[j] = shown[j]
                               \/ shown'[j] = log[h]
  BY <1>1, <1>2
<1>4. \A j \in DOMAIN shown' : \E l \in DOMAIN log' : shown'[j] = log'[l]
  BY <1>3 DEF Shows
<1>5. ASSUME NEW j \in DOMAIN shown', Named(shown'[j])
      PROVE  \/ Run(files[R!Name(shown[j])].content, R!Name(shown[j]), 0)'
             \/ Opening' /\ R!IsRegular(header') /\ R!Name(header') = R!Name(shown'[j])
  <2>1. PICK u : u = shown'[j]
    OBVIOUS
  <2>2. PICK n, C : n = R!Name(u) /\ C = files[n].content /\ C = files'[n].content
    OBVIOUS
  <2>3. Run(C, n, 0) => Run(C, n, 0)'
    BY RunAgain
  <2>4. CASE j \in DOMAIN shown /\ u = shown[j]
    <3>1. Run(C, n, 0)
      BY <1>5, <2>1, <2>2, <2>4 DEF Shows
    <3> QED BY <2>1, <2>2, <2>3, <3>1
  <2>5. CASE u = log[h]
    BY <1>5, <2>1, <2>5 DEF Named
  <2> QED BY <1>3, <2>1, <2>4, <2>5
<1> QED BY <1>1, <1>4, <1>5 DEF Shows

LEMMA InsideAgain ==
  ASSUME log' = log, NEW h, NEW f, NEW v, NEW t, NEW r, NEW c, Inside(h, f, v, t, r, c)
  PROVE  Inside(h, f, v, t, r, c)'
  BY DEF Inside, Starts, Ahead

LEMMA SamePlaces ==
  ASSUME log' = log, io' = io
  PROVE  /\ Starts' = Starts /\ Ahead(io)' = Ahead(io) /\ Ahead(io + 1)' = Ahead(io + 1)
         /\ Cursor' = Ahead(io) + at' + 1
         /\ \A j : Ending(log, j)' = Ending(log, j)
  BY DEF Starts, Ahead, Cursor, Ending

(* The header that is read is one of the archive's. *)
LEMMA HeaderRead ==
  ASSUME Sound, ReaderOK, UNCHANGED vars, NEW result \in R!HeaderResults, R!GetHeader(result),
         result = "ok"
  PROVE  \E h \in Starts :
           /\ h = Cursor /\ R!Here = log[h] /\ log[h].v = io /\ h \in DOMAIN log
           /\ log[h] \in Units
           /\ io' = io /\ at' > 0 /\ Cursor' = h + HeadLength(log[h])
           /\ file_size' = log[h].s /\ skip_size' = RoundUp(log[h].s)
<1>1. Readable /\ volume' = volume /\ log' = log
  BY DEF Sound, vars, fileVars
<1>2. /\ R!Left > 0 /\ R!IsHeader(R!Here) /\ file_size' = R!Here.s
      /\ at' = at + R!HeaderLength(R!Here) /\ io' = io
  BY <1>1, GetHeaderOK
<1>3. /\ Cursor \in DOMAIN log /\ R!Here = log[Cursor] /\ R!Here \in Units /\ R!Here.v = io
  BY <1>1, <1>2, HereIs DEF Cursor
<1>4. PICK h \in Starts : h = Cursor /\ R!Here = log[h] /\ log[h].v = io /\ h \in DOMAIN log
  BY <1>2, <1>3, StartsAre
<1>5. PICK w \in Nat \ {0} : w = HeadLength(log[h])
  BY HeaderFacts
<1>6. at' = at + w
  BY <1>2, <1>4, <1>5 DEF R!HeaderLength, HeadLength
<1>7. at \in Nat /\ Ahead(io) \in Nat /\ log[h].s \in Nat
  BY Frames, HeaderFacts DEF ReaderOK
<1>8. PICK a \in Nat, p \in Nat : a = Ahead(io) /\ p = at
  BY <1>7
<1>9. h = a + p + 1 /\ at' = p + w
  BY <1>4, <1>6, <1>8 DEF Cursor
<1>10. Cursor' = a + at' + 1
  BY <1>1, <1>2, <1>8, SamePlaces
<1>11. at' > 0 /\ Cursor' = h + w
  BY <1>8, <1>9, <1>10
<1>12. skip_size' = RoundUp(log[h].s)
  BY <1>4, <1>7, SkipIsRound DEF R!GetHeader
<1> QED BY <1>2, <1>3, <1>4, <1>5, <1>11, <1>12

(* A rest of a file is at the beginning of its volume, which is not the     *)
(* first.                                                                   *)
LEMMA RestBegins ==
  ASSUME Sound, io \in 1 .. volume, at \in Nat, NEW h \in Starts, log[h].v = io, h = Cursor,
         log[h].k = "cont"
  PROVE  at = 0 /\ h = Ahead(io) + 1 /\ io # 1
<1>1. h \in DOMAIN log /\ h \in Nat \ {0} /\ IsHead(log[h]) /\ Fits(log[h])
  BY HeaderFacts, Frames
<1>2. io # 1
  BY <1>1 DEF Fits
<1>3. PICK a \in Nat, p \in Nat : a = Ahead(io) /\ p = at
  BY Frames
<1>4. h = a + p + 1
  BY <1>3 DEF Cursor
<1>5. h = 1 \/ log[h - 1].v # io
  BY <1>1 DEF Sound, Solidly
<1>6. p = 0
  <2> SUFFICES ASSUME p > 0 PROVE FALSE
    BY <1>3
  <2>1. h - 1 \in DOMAIN log /\ h - 1 > a /\ h - 1 <= Ahead(io + 1) /\ h # 1
    <3>1. h \in 1 .. Len(log) /\ Len(log) \in Nat /\ h <= Ahead(io + 1)
          /\ Ahead(io + 1) \in Nat
      BY <1>1, Frames
    <3> QED BY <1>3, <1>4, <3>1, Frames
  <2>2. log[h - 1].v = io
    BY <1>3, <2>1, Frames
  <2> QED BY <1>5, <2>1, <2>2
<1> QED BY <1>2, <1>3, <1>4, <1>6

LEMMA HeaderFilling ==
  ASSUME Sound, ReaderOK, Filling, function = "extract", unlink => io = 1,
         UNCHANGED vars, R!NextHeader, rfaults \in Nat, rfaults' = 0
  PROVE  Filling'
<1>1. PICK result \in R!HeaderResults :
        /\ R!GetHeader(result)
        /\ CASE result = "ok" ->
                  /\ header' = R!Here
                  /\ rpc' = R!AfterHeader(R!Here)
                  /\ shown' = IF R!Name(R!Here) \in wanted THEN Append(shown, R!Here)
                              ELSE shown
                  /\ UNCHANGED rfailed
             [] result = "not_found" -> R!Ends(0) /\ UNCHANGED <<header, shown>>
             [] result = "bad_checksum" -> R!Ends(3) /\ UNCHANGED <<header, shown>>
             [] result \in {"bad_header", "fault"} ->
                  R!Ends(4) /\ UNCHANGED <<header, shown>>
  BY DEF R!NextHeader
<1>2. /\ rpc = "header" /\ ~Opening /\ Readable /\ io \in 1 .. volume /\ at \in Nat
      /\ UNCHANGED <<log, inode, volume, files, wanted, unlink>>
      /\ FilesOK /\ Shows /\ Places
  BY DEF R!NextHeader, R!options, vars, fileVars, loopVars, Opening, Sound, ReaderOK, Filling
<1>3. FilesOK'
  BY <1>2 DEF FilesOK
<1>4. shown' = shown => Shows'
  BY <1>2, ShowsAgain
<1>5. CASE result # "ok"
  <2>1. result \in {"not_found", "bad_checksum", "bad_header", "fault"}
    BY <1>2, <1>5, GetHeaderOK, <1>1
  <2>2. rpc' = "done" /\ shown' = shown
    BY <1>1, <2>1 DEF R!Ends
  <2>3. Places'
    BY <2>2 DEF Places, Opening, Copying
  <2> QED BY <1>3, <1>4, <2>2, <2>3 DEF Filling
<1>6. CASE result = "ok"
  <2>1. PICK h \in Starts :
           /\ h = Cursor /\ R!Here = log[h] /\ log[h].v = io /\ h \in DOMAIN log
           /\ log[h] \in Units
           /\ io' = io /\ at' > 0 /\ Cursor' = h + HeadLength(log[h])
           /\ file_size' = log[h].s /\ skip_size' = RoundUp(log[h].s)
    BY <1>1, <1>6, HeaderRead
  <2>2. header' = log[h] /\ rpc' = R!AfterHeader(log[h])
        /\ shown' = IF R!Name(log[h]) \in wanted THEN Append(shown, log[h]) ELSE shown
    BY <1>1, <1>6, <2>1
  <2>3. Starts' = Starts
    BY <1>2, <2>1, SamePlaces
  <2>4. CASE R!Name(log[h]) \notin wanted
    <3>1. rpc' = "skip" /\ shown' = shown
      BY <2>2, <2>4 DEF R!AfterHeader
    <3>2. Behind(h)'
      BY <1>2, <2>1, <2>2, <2>3 DEF Behind
    <3>3. AtSkip'
      BY <1>2, <2>2, <2>3, <2>4, <3>2 DEF AtSkip
    <3>4. Places'
      BY <2>1, <3>1, <3>3 DEF Places, Opening, Copying
    <3> QED BY <1>3, <1>4, <3>1, <3>4 DEF Filling
  <2>5. CASE R!Name(log[h]) \in wanted
    <3>1. rpc' = IF log[h].k = "label" THEN "header" ELSE IF unlink THEN "unlink" ELSE "restore"
      BY <2>2, <2>5 DEF R!AfterHeader
    <3>2. Named(log[h]) => Opening'
      BY <3>1 DEF Named, R!IsRegular, Opening
    <3>3. Shows'
      BY <1>2, <2>1, <2>2, <2>5, <3>2, ShowsMore
    <3>4. ASSUME log[h].k # "label", log[h].k = "cont", Plain(log[h])
          PROVE  rpc' = "restore"
                 /\ GoesTo(files[R!Name(log[h])], R!Name(log[h]), log[h].p)
      <4>1. at = 0 /\ h = Ahead(io) + 1 /\ io # 1
        BY <1>2, <2>1, <3>4, RestBegins
      <4>2. Ready(files, h)
        BY <1>2, <4>1 DEF Places
      <4> QED BY <2>1, <2>5, <3>1, <3>4, <4>1, <4>2 DEF Ready
    <3>5. CASE log[h].k = "label"
      <4>1. rpc' = "header"
        BY <3>1, <3>5
      <4>2. Places'
        BY <2>1, <4>1 DEF Places, Opening, Copying
      <4> QED BY <1>3, <3>3, <4>2 DEF Filling
    <3>6. CASE log[h].k # "label"
      <4>1. rpc' \in {"unlink", "restore"}
        BY <3>1, <3>6
      <4>2. PICK n, T, p : n = R!Name(log[h]) /\ T = files[n] /\ T = files'[n] /\ p = log[h].p
        BY <1>2
      <4>3. header'.k = "cont" /\ Plain(header') => rpc' = "restore" /\ GoesTo(T, n, p)'
        BY <1>2, <2>2, <3>4, <3>6, <4>2, GoesAgain
      <4>4. AtOpen'
        <5>1. /\ header' = log'[h] /\ log'[h].v = io' /\ Cursor' = h + HeadLength(log'[h])
              /\ file_size' = log'[h].s /\ h \in Starts'
          BY <1>2, <2>1, <2>2, <2>3
        <5>2. header'.k = "cont" /\ Plain(header') =>
                rpc' = "restore"
                  /\ GoesTo(files[R!Name(header)], R!Name(header), header.p)'
          BY <2>2, <4>2, <4>3
        <5> QED BY <5>1, <5>2 DEF AtOpen
      <4>5. Places'
        BY <2>1, <4>1, <4>4 DEF Places, Opening, Copying
      <4> QED BY <1>3, <3>3, <4>5 DEF Filling
    <3> QED BY <3>5, <3>6
  <2> QED BY <2>4, <2>5
<1> QED BY <1>5, <1>6

(* What was not asked for is skipped, up to the end of its volume.          *)
LEMMA SkipFilling ==
  ASSUME Sound, ReaderOK, Filling, UNCHANGED vars, R!Skip, rfaults \in Nat, rfaults' = 0
  PROVE  Filling'
<1>1. PICK result \in R!SkipResults :
        /\ R!SkipFile(result)
        /\ CASE result = "ok" -> rpc' = "header" /\ UNCHANGED <<rfailed, rback>>
             [] result = "end_of_tape" ->
                  rpc' = "prompt" /\ rback' = "skip" /\ UNCHANGED rfailed
             [] result = "error" -> R!Ends(2) /\ UNCHANGED rback
  BY DEF R!Skip
<1>2. /\ rpc = "skip" /\ ~Opening /\ Readable /\ io \in 1 .. volume /\ at \in Nat
      /\ UNCHANGED <<log, inode, volume, files, wanted, shown, header>>
      /\ FilesOK /\ Shows /\ Places /\ at > 0 /\ AtSkip /\ skip_size \in Nat
  BY DEF R!Skip, R!options, vars, fileVars, loopVars, Opening, Sound, ReaderOK, Filling, Places
<1>3. FilesOK' /\ Shows'
  BY <1>2, ShowsAgain DEF FilesOK
<1>4. result # "error" /\ io' = io /\ at' = R!ForwardTo(at, skip_size)
  BY <1>1 DEF R!SkipFile
<1>5. PICK a \in Nat, b \in Nat, p \in Nat, s \in Nat :
        a = Ahead(io) /\ b = Ahead(io + 1) /\ p = at /\ s = skip_size
  BY <1>2, Frames
<1>6. Len(R!Volume) = b - a /\ b - a \in Nat
  BY <1>2, <1>5, HereAt
<1>7. R!ForwardTo(at, skip_size) =
        IF Multi /\ b - a > 0 /\ b - a < p + s THEN b - a ELSE p + s
  BY <1>5, <1>6 DEF R!ForwardTo
<1>8. result \in {"ok", "end_of_tape"}
      /\ (result = "ok" <=> s = 0 \/ R!ForwardTo(at, skip_size) = p + s)
  BY <1>1, <1>4, <1>5 DEF R!SkipResults
<1>9. CASE result = "ok"
  <2>1. rpc' = "header"
    BY <1>1, <1>9
  <2>2. at' > 0
    BY <1>2, <1>4, <1>5, <1>6, <1>7
  <2>3. Places'
    BY <2>1, <2>2 DEF Places, Opening, Copying
  <2> QED BY <1>3, <2>3 DEF Filling
<1>10. CASE result = "end_of_tape"
  <2>1. rpc' = "prompt" /\ rback' = "skip"
    BY <1>1, <1>10
  <2>2. b - a < p + s
    BY <1>7, <1>8, <1>10
  <2>3. PICK h \in Starts : Behind(h)
    BY <1>2 DEF AtSkip
  <2>4. PICK w \in Nat \ {0}, r \in Nat : w = HeadLength(log[h]) /\ r = RoundUp(log[h].s)
    BY HeaderFacts
  <2>5. Ending(log, h) = h + w + r /\ h \in Nat
    BY <2>4, HeaderFacts
  <2>6. a + p + 1 = h + w /\ s = r
    BY <1>5, <2>3, <2>4 DEF Behind, Cursor
  <2>7. Ending(log, h) > b + 1
    BY <1>6, <2>2, <2>4, <2>5, <2>6
  <2>8. header = log[h] /\ log[h].v = io
    BY <2>3 DEF Behind
  <2>9. /\ h \in Starts' /\ Ahead(io + 1)' = b /\ Ending(log, h)' = Ending(log, h)
    BY <1>2, <1>4, <1>5, SamePlaces
  <2>10. header' = log'[h] /\ log'[h].v = io'
    BY <1>2, <1>4, <2>8
  <2>11. (Ending(log, h) > Ahead(io + 1) + 1)'
    BY <2>7, <2>9
  <2>12. R!Name(header') \notin wanted'
    BY <1>2 DEF AtSkip
  <2>13. AtGap'
    BY <2>9, <2>10, <2>11, <2>12 DEF AtGap
  <2>14. Places'
    BY <2>1, <2>13 DEF Places, Opening, Copying
  <2> QED BY <1>3, <2>14 DEF Filling
<1> QED BY <1>8, <1>9, <1>10

(* One file is made anew or emptied. *)
LEMMA FileAgain ==
  ASSUME FilesOK, NEW n \in R!Names, NEW T \in R!Thing, T.kind = "dir" => T.content = <<>>,
         files' = [files EXCEPT ![n] = T]
  PROVE  /\ FilesOK' /\ files'[n] = T
         /\ \A m \in R!Names : m # n => files'[m] = files[m]
<1>1. /\ files' \in [R!Names -> R!Thing] /\ files'[n] = T
      /\ \A m \in R!Names : m # n => files'[m] = files[m]
  BY DEF FilesOK
<1>2. \A m \in R!Names : files'[m].kind = "dir" => files'[m].content = <<>>
  BY <1>1 DEF FilesOK
<1> QED BY <1>1, <1>2 DEF FilesOK

LEMMA EmptyIs ==
  ASSUME NEW kind \in {"file", "node", "none"}
  PROVE  /\ R!Empty(kind) \in R!Thing /\ R!Empty(kind).kind = kind
         /\ R!Empty(kind).content = <<>>
<1>1. <<>> \in Seq([f : Nat, o : Int])
  OBVIOUS
<1> QED BY <1>1 DEF R!Empty, R!Thing

(* Nothing but the files changes. *)
LEMMA OpenAgain ==
  ASSUME UNCHANGED <<log, inode, header, io, at, file_size>>, AtOpen,
         header.k = "cont" /\ Plain(header) => rpc = "unlink"
  PROVE  AtOpen'
<1>1. PICK h \in Starts : /\ header = log[h] /\ log[h].v = io
                          /\ Cursor = h + HeadLength(log[h]) /\ file_size = log[h].s
  BY DEF AtOpen
<1>2. h \in Starts' /\ Cursor' = Cursor
  BY SamePlaces DEF Cursor
<1>3. ~(header.k = "cont" /\ Plain(header))
  BY DEF AtOpen
<1>4. ~(header'.k = "cont" /\ Plain(header'))
  BY <1>3
<1> QED BY <1>1, <1>2, <1>4 DEF AtOpen

(* The header of an entry that is put into the file system.                 *)
LEMMA OpenHeader ==
  ASSUME Sound, Places, Opening, header.k \in {"hdr", "cont", "link"}
  PROVE  \E h \in Starts : /\ header = log[h] /\ log[h].v = io /\ h \in DOMAIN log
                           /\ Cursor = h + HeadLength(log[h]) /\ file_size = log[h].s
                           /\ R!Name(header) \in R!Names /\ header.p \in Nat /\ header.s \in Nat
                           /\ header.k # "cont" => header.p = 0
<1>1. PICK h \in Starts : /\ header = log[h] /\ log[h].v = io
                          /\ Cursor = h + HeadLength(log[h]) /\ file_size = log[h].s
  BY DEF Places, AtOpen
<1>2. h \in DOMAIN log /\ log[h].p \in Nat /\ log[h].s \in Nat /\ Fits(log[h])
  BY HeaderFacts, Frames
<1>3. R!Name(header) \in R!Names
  BY <1>1, <1>2, NameKnown DEF Sound
<1> QED BY <1>1, <1>2, <1>3 DEF Fits

LEMMA UnlinkFilling ==
  ASSUME Sound, Restoring, Filling, UNCHANGED vars, R!UnlinkFirst
  PROVE  Filling'
<1>1. /\ rpc = "unlink" /\ rpc' = "restore" /\ Opening /\ Opening' /\ Busy
      /\ UNCHANGED <<log, inode, shown, header, io, at, file_size>>
      /\ FilesOK /\ Shows /\ Places /\ AtOpen /\ at > 0 /\ Readable
  BY DEF R!UnlinkFirst, vars, fileVars, loopVars, Opening, Busy, Filling, Places, Sound
<1>2. header.k \in {"hdr", "cont", "link"} /\ \E j \in DOMAIN log : header = log[j]
  BY <1>1 DEF Restoring
<1>3. AtOpen'
  BY <1>1, OpenAgain
<1>4. Places'
  BY <1>1, <1>3 DEF Places, Opening, Copying
<1>5. CASE files' = files
  BY <1>1, <1>2, <1>4, <1>5, ShowsAgain DEF FilesOK, Filling
<1>6. CASE files' = [files EXCEPT ![R!Name(header)] = R!Empty("none")]
  <2>1. R!Name(header) \in R!Names
    BY <1>1, <1>2, NameKnown
  <2>2. /\ FilesOK' /\ files'[R!Name(header)] = R!Empty("none")
        /\ \A m \in R!Names : m # R!Name(header) => files'[m] = files[m]
    BY <1>1, <1>6, <2>1, FileAgain, EmptyIs
  <2>3. \A m \in R!Names : files'[m] = files[m] \/ files'[m].content = <<>>
    BY <2>2, EmptyIs
  <2>4. Shows'
    BY <1>1, <1>2, <2>3, ShowsAgain
  <2> QED BY <1>4, <2>2, <2>4 DEF Filling
<1> QED BY <1>5, <1>6 DEF R!UnlinkFirst

LEMMA NodeFilling ==
  ASSUME Sound, Restoring, Filling, UNCHANGED vars, R!MakeNode
  PROVE  Filling'
<1>1. /\ rpc = "restore" /\ rpc' = "header" /\ Opening /\ Busy /\ ~R!IsRegular(header)
      /\ UNCHANGED <<log, inode, shown, header, at>>
      /\ FilesOK /\ Shows /\ Places /\ at > 0 /\ Readable
  BY DEF R!MakeNode, vars, fileVars, loopVars, Opening, Busy, Filling, Places, Sound
<1>2. header.k \in {"hdr", "cont", "link"} /\ \E j \in DOMAIN log : header = log[j]
  BY <1>1 DEF Restoring
<1>3. Places'
  BY <1>1 DEF Places, Opening, Copying
<1>4. CASE files' = files
  BY <1>1, <1>2, <1>3, <1>4, ShowsAgain DEF FilesOK, Filling
<1>5. CASE files' = [files EXCEPT ![R!Name(header)] = R!Empty("node")]
  <2>1. R!Name(header) \in R!Names
    BY <1>1, <1>2, NameKnown
  <2>2. /\ FilesOK' /\ files'[R!Name(header)] = R!Empty("node")
        /\ \A m \in R!Names : m # R!Name(header) => files'[m] = files[m]
    BY <1>1, <1>5, <2>1, FileAgain, EmptyIs
  <2>3. \A m \in R!Names : files'[m] = files[m] \/ files'[m].content = <<>>
    BY <2>2, EmptyIs
  <2>4. Shows'
    BY <1>1, <1>2, <2>3, ShowsAgain
  <2> QED BY <1>3, <2>2, <2>4 DEF Filling
<1> QED BY <1>4, <1>5 DEF R!MakeNode

(* What is opened anew is empty, what goes on is kept.                      *)
LEMMA OpenFilling ==
  ASSUME Sound, Restoring, Filling, UNCHANGED vars, R!OpenFile
  PROVE  Filling'
<1>1. /\ rpc = "restore" /\ Opening /\ Busy /\ R!IsRegular(header)
      /\ UNCHANGED <<log, inode, volume, shown, header, io, at, file_size>>
      /\ FilesOK /\ Shows /\ Places /\ AtOpen /\ at > 0 /\ Readable
  BY DEF R!OpenFile, R!readerVars, vars, fileVars, loopVars, Opening, Busy, Filling, Places, Sound
<1>2. header.k \in {"hdr", "cont", "link"} /\ \E j \in DOMAIN log : header = log[j]
  BY <1>1 DEF Restoring
<1>3. PICK h \in Starts : /\ header = log[h] /\ log[h].v = io /\ h \in DOMAIN log
                          /\ Cursor = h + HeadLength(log[h]) /\ file_size = log[h].s
                          /\ R!Name(header) \in R!Names /\ header.p \in Nat /\ header.s \in Nat
                          /\ header.k # "cont" => header.p = 0
  BY <1>1, <1>2, OpenHeader
<1>4. PICK n \in R!Names : n = R!Name(header)
  BY <1>3
<1>5. PICK T : T = files[n] /\ T \in R!Thing /\ (T.kind = "dir" => T.content = <<>>)
  BY <1>1 DEF FilesOK
<1>6. CASE T.kind = "dir"
  <2>1. rpc' = "done" /\ files' = files
    BY <1>4, <1>5, <1>6 DEF R!OpenFile, R!Ends, R!There
  <2>2. Run(files'[n].content, n, 0)
    BY <1>5, <1>6, <2>1, NothingRuns
  <2>3. FilesOK' /\ Shows'
    BY <1>1, <1>2, <1>4, <2>1, <2>2, ShowsAgain DEF FilesOK
  <2>4. Places'
    BY <2>1 DEF Places, Opening, Copying
  <2> QED BY <2>3, <2>4 DEF Filling
<1>7. CASE T.kind # "dir"
  <2>1. PICK S : S = IF header.p = 0 \/ T.kind # "file" THEN R!Empty("file") ELSE T
    OBVIOUS
  <2>2. files' = [files EXCEPT ![n] = S] /\ total' = header.p /\ rpc' = "data"
    BY <1>4, <1>5, <1>7, <2>1 DEF R!OpenFile, R!There
  <2>3. S \in R!Thing /\ S.kind = "file" /\ (S.content = <<>> \/ S = T)
    BY <1>5, <2>1, EmptyIs
  <2>4. /\ FilesOK' /\ files'[n] = S
        /\ \A m \in R!Names : m # n => files'[m] = files[m]
    BY <1>1, <2>2, <2>3, FileAgain
  <2>5. Plain(header) => GoesTo(S, n, header.p)
    <3> SUFFICES ASSUME Plain(header) PROVE GoesTo(S, n, header.p)
      OBVIOUS
    <3>1. CASE header.p = 0
      <4>1. S.content = <<>> /\ Len(<<>>) = 0
        BY <2>1, <3>1, EmptyIs
      <4> QED BY <2>3, <3>1, <4>1, NothingRuns DEF GoesTo
    <3>2. CASE header.p # 0
      <4>1. GoesTo(T, n, header.p)
        BY <1>1, <1>3, <1>4, <1>5, <3>2 DEF AtOpen
      <4>2. S = T
        BY <2>1, <3>2, <4>1 DEF GoesTo
      <4> QED BY <4>1, <4>2
    <3> QED BY <3>1, <3>2
  <2>6. \A m \in R!Names : files'[m] = files[m] \/ files'[m].content = <<>>
    BY <1>5, <2>3, <2>4
  <2>7. Plain(header) => Run(files'[n].content, n, 0)
    BY <2>4, <2>5 DEF GoesTo
  <2>8. Shows'
    BY <1>1, <1>2, <1>4, <2>6, <2>7, ShowsAgain
  <2>9. PICK f, v, p, r, c : f = header.f /\ v = io /\ p = header.p /\ r = file_size /\ c = Cursor
    OBVIOUS
  <2>10. Inside(h, f, v, p, r, c)
    <3>1. PICK w \in Nat \ {0} : w = HeadLength(log[h])
      BY HeaderFacts
    <3>2. h + w - 1 <= Ahead(v + 1) /\ h \in Nat /\ Ahead(v + 1) \in Nat
      BY <1>3, <2>9, <3>1, HeaderFacts, Frames
    <3>3. c = h + w /\ p \in Nat /\ p = log[h].p /\ r = log[h].s /\ r \in Nat
      BY <1>3, <2>9, <3>1
    <3>4. c = h + w + (p - p) /\ c <= Ahead(v + 1) + 1 /\ p >= p
      BY <3>1, <3>2, <3>3
    <3> QED BY <1>3, <2>9, <3>1, <3>3, <3>4 DEF Inside
  <2>11. \E j \in Starts' : Inside(j, header.f, io, total, file_size, Cursor)'
    <3>1. Inside(h, f, v, p, r, c)' /\ h \in Starts'
      BY <1>1, <2>10, InsideAgain, SamePlaces
    <3>2. Cursor' = c
      BY <1>1, <2>9, SamePlaces DEF Cursor
    <3>3. f = header'.f /\ v = io' /\ p = total' /\ r = file_size' /\ c = Cursor'
      BY <1>1, <2>2, <2>9, <3>2
    <3> QED BY <3>1, <3>3
  <2>12. AtCopy'
    <3>1. total' \in Nat /\ files'[R!Name(header')].kind = "file"
      BY <1>1, <1>3, <1>4, <2>2, <2>3, <2>4
    <3>2. \E m \in Starts' : header' = log'[m]
      BY <1>1, <1>3, SamePlaces
    <3>3. GoesTo(S, n, p) => GoesTo(S, n, p)'
      BY <1>1, GoesAgain
    <3>4. Plain(header') => GoesTo(files[R!Name(header)], R!Name(header), total)'
      BY <1>1, <1>4, <2>2, <2>4, <2>5, <2>9, <3>3
    <3> QED BY <2>2, <2>11, <3>1, <3>2, <3>4 DEF AtCopy
  <2>13. Places'
    BY <1>1, <2>2, <2>12 DEF Places, Opening, Copying
  <2> QED BY <2>4, <2>8, <2>13 DEF Filling
<1> QED BY <1>6, <1>7

(* What is read in a file is its content. *)
LEMMA ContentRuns ==
  ASSUME Sound, ReaderOK, NEW h, NEW f \in inode, NEW t \in Nat, NEW r \in Nat \ {0},
         Inside(h, f, io, t, r, Cursor), NEW k \in Nat, k <= r, k <= R!Left
  PROVE  Run(R!Content(k), Entries[f].name, t)
<1>1. h \in Starts /\ log[h].v = io /\ log[h].f = f
  BY DEF Inside
<1>2. PICK a \in Nat, b \in Nat, z \in Nat : a = Ahead(io) /\ b = Ahead(io + 1) /\ z = at
  BY Frames DEF ReaderOK
<1>3. PICK w \in Nat \ {0}, p \in Nat, s \in Nat :
        w = HeadLength(log[h]) /\ p = log[h].p /\ s = log[h].s
  BY <1>1, HeaderFacts
<1>4. /\ h \in Nat /\ h \in DOMAIN log /\ IsHead(log[h]) /\ h > a
      /\ Ending(log, h) >= h + w + s /\ Ending(log, h) \in Nat
  BY <1>1, <1>2, <1>3, HeaderFacts
<1>5. /\ t >= p /\ t + r = p + s /\ a + z + 1 = h + w + (t - p) /\ a + z + 1 <= b + 1
  BY <1>2, <1>3 DEF Inside, Cursor
<1>6. /\ R!Volume = Volumes[io] /\ Len(Volumes[io]) = b - a
      /\ R!Left = IF a + z + 1 <= b THEN b + 1 - (a + z + 1) ELSE 0
  BY <1>2, HereAt DEF ReaderOK, Cursor
<1>7. a + z + k <= b
  <2>1. PICK g \in Nat : g = R!Left /\ k <= g
    BY HereIs DEF Sound
  <2>2. g = IF a + z + 1 <= b THEN b + 1 - (a + z + 1) ELSE 0
    BY <1>6, <2>1
  <2> QED BY <1>5, <2>1, <2>2
<1>8. ASSUME NEW l \in 1 .. k
      PROVE  R!Volume[at + l].f = f /\ R!Volume[at + l].o = t + l - 1
  <2>1. PICK q \in Nat : q = a + (z + l)
    OBVIOUS
  <2>2. /\ z + l \in 1 .. b - a /\ q <= b /\ q > a
        /\ q = h + w + (t - p) + (l - 1) /\ l - 1 < r /\ l - 1 >= 0
    BY <1>4, <1>5, <1>7, <2>1
  <2>3. q >= h + w /\ q < h + w + s /\ q > h /\ p + q - h - w = t + l - 1
    BY <1>4, <1>5, <2>2
  <2>4. q \in DOMAIN log /\ R!Volume[at + l] = log[q]
    <3>1. PICK v \in 1 .. volume : v = io
      BY DEF ReaderOK
    <3>2. Ahead(v) + (z + l) \in DOMAIN log /\ Volumes[v][z + l] = log[Ahead(v) + (z + l)]
      BY <1>6, <2>2, <3>1, VolumeUnits, Frames
    <3> QED BY <1>2, <1>6, <2>1, <3>1, <3>2
  <2>5. log[q].v = io
    BY <1>2, <2>2, <2>4, Frames DEF ReaderOK
  <2>6. log[q].k = "data"
    BY <1>1, <1>3, <1>4, <2>3, <2>4, <2>5 DEF Sound, Solidly
  <2>7. q < Ending(log, h)
    BY <1>3, <1>4, <2>1, <2>3
  <2>8. log[q].f = log[h].f /\ log[q].o = log[h].p + q - h - HeadLength(log[h])
    BY <1>1, <1>4, <2>3, <2>4, <2>5, <2>6, <2>7 DEF Sound, Chained
  <2> QED BY <1>1, <1>3, <2>3, <2>4, <2>8
<1>9. /\ DOMAIN R!Content(k) = 1 .. k
      /\ \A l \in 1 .. k : /\ R!Content(k)[l].f = R!Volume[at + l].f
                           /\ R!Content(k)[l].o = R!Volume[at + l].o
  BY DEF R!Content
<1> QED BY <1>8, <1>9 DEF Run

(* Where a file that is copied is in the archive. *)
LEMMA CopyPlace ==
  ASSUME NamesTell, Sound, Restoring, Places, Copying
  PROVE  /\ Busy /\ header.k \in {"hdr", "cont", "link"} /\ total \in Nat
         /\ R!Name(header) \in R!Names /\ header.p \in Nat /\ header.s \in Nat
         /\ (\E j \in DOMAIN log : header = log[j]) /\ \E m \in Starts : header = log[m]
         /\ header.f \in 1 .. Len(Entries)
         /\ header.k = "link" => header.s = 0
         /\ header.k # "link" => header.f \in inode
         /\ rpc # "sub" => \E h \in Starts :
              /\ Inside(h, header.f, io, total, file_size, Cursor)
              /\ header.k # "link" => total + file_size = header.p + header.s
<1>1. AtCopy /\ Busy
  BY DEF Places, Copying, Busy
<1>2. PICK m \in Starts : header = log[m]
  BY <1>1 DEF AtCopy
<1>3. m \in DOMAIN log /\ log[m].p \in Nat /\ log[m].s \in Nat /\ Fits(log[m]) /\ Readable
  BY HeaderFacts, Frames DEF Sound
<1>4. header.k \in {"hdr", "cont", "link"}
  BY <1>1 DEF Restoring
<1>5. header.f \in 1 .. Len(Entries) /\ R!Name(header) \in R!Names
  BY <1>2, <1>3, <1>4, PlainName
<1>6. (header.k = "link" => header.s = 0) /\ (header.k # "link" => header.f \in inode)
  BY <1>2, <1>3, <1>4 DEF Fits
<1>7. ASSUME rpc # "sub"
      PROVE  \E h \in Starts :
              /\ Inside(h, header.f, io, total, file_size, Cursor)
              /\ header.k # "link" => total + file_size = header.p + header.s
  <2>1. PICK h \in Starts : Inside(h, header.f, io, total, file_size, Cursor)
    BY <1>1, <1>7 DEF AtCopy
  <2>2. /\ log[h].f = header.f /\ total + file_size = log[h].p + log[h].s
        /\ h \in DOMAIN log /\ IsHead(log[h]) /\ Fits(log[h])
    BY <2>1, HeaderFacts, Frames DEF Inside
  <2>3. log[h].k \in {"hdr", "cont", "link"}
    <3>1. log[h].f # 0
      BY <1>5, <2>2
    <3> QED BY <2>2, <3>1 DEF IsHead, Fits
  <2>4. header.k # "link" => log[h].p + log[h].s = header.p + header.s
    BY <1>2, <1>3, <1>4, <2>2, <2>3, OneFile
  <2> QED BY <2>1, <2>2, <2>4
<1> QED BY <1>1, <1>2, <1>3, <1>4, <1>5, <1>6, <1>7 DEF AtCopy

LEMMA ReadFilling ==
  ASSUME NamesTell, Sound, Restoring, Filling, UNCHANGED vars, R!ReadContent,
         rfaults \in Nat, rfaults' = 0
  PROVE  Filling'
<1>1. PICK r \in R!ReadResults(BufferSize) :
        /\ R!Read(r)
        /\ total' = total + R!Taken(r)
        /\ chunk' = R!Content(R!Taken(r))
        /\ rpc' = IF r.n > 0 THEN "write" ELSE IF r.n = 0 THEN "prompt" ELSE rpc
        /\ rback' = IF r.n = 0 THEN "data" ELSE rback
  BY DEF R!ReadContent
<1>2. /\ rpc = "data" /\ ~Opening /\ Copying /\ total < header.s /\ at > 0
      /\ UNCHANGED <<log, inode, files, shown, header>>
      /\ FilesOK /\ Shows /\ Places /\ AtCopy /\ Readable /\ ReaderOK
  BY DEF R!ReadContent, R!More, vars, fileVars, loopVars, Opening, Copying, Filling, Places,
         Sound, Restoring
<1>3. FilesOK' /\ Shows'
  BY <1>2, ShowsAgain DEF FilesOK
<1>4. /\ total \in Nat /\ header.p \in Nat /\ header.s \in Nat /\ header.k # "link"
      /\ header.f \in inode /\ R!Name(header) \in R!Names /\ \E m \in Starts : header = log[m]
  BY <1>2, CopyPlace
<1>5. PICK h \in Starts : /\ Inside(h, header.f, io, total, file_size, Cursor)
                          /\ total + file_size = header.p + header.s
  BY <1>2, <1>4, CopyPlace
<1>6. PICK f \in inode, v \in 1 .. volume, t \in Nat, d \in Nat, z \in Nat \ {0} :
        f = header.f /\ v = io /\ t = total /\ d = file_size /\ z = at
  BY <1>2, <1>4 DEF ReaderOK
<1>7. d > 0
  BY <1>2, <1>4, <1>5, <1>6
<1>8. PICK k \in Nat : /\ r = [n |-> k, fault |-> "none"] /\ k = R!Taken(r)
                       /\ k <= d /\ k <= R!Left /\ (k = 0 <=> R!Left = 0)
  <2>1. r.fault = "none"
    BY <1>1 DEF R!Read
  <2>2. r = [n |-> R!AtMost(BufferSize), fault |-> "none"]
    BY <1>1, <1>6, <1>7, <2>1 DEF R!ReadResults
  <2>3. R!Left \in Nat
    BY <1>2, HereIs
  <2>4. PICK k \in Nat : k = R!AtMost(BufferSize) /\ k <= d /\ k <= R!Left
                         /\ (k = 0 <=> R!Left = 0)
    BY <1>6, <1>7, <2>3, RoundTripAssumption DEF R!AtMost, R!Fewer
  <2> QED BY <2>2, <2>4 DEF R!Taken
<1>9. /\ total' = t + k /\ chunk' = R!Content(k) /\ file_size' = d - k /\ io' = v
      /\ rpc' = IF k > 0 THEN "write" ELSE "prompt"
      /\ rback' = IF k = 0 THEN "data" ELSE rback
  BY <1>1, <1>6, <1>8 DEF R!Read
<1>10. PICK a \in Nat, b \in Nat : a = Ahead(io) /\ b = Ahead(io + 1)
  BY <1>6, Frames
<1>11. PICK c \in Nat : c = Cursor /\ c = a + z + 1
  BY <1>6, <1>10 DEF Cursor
<1>12. at' > 0 /\ (d - k > 0 => at' = z + k)
  <2>1. CASE d - k > 0
    <3>1. at' = at + k
      BY <1>1, <1>6, <1>8, <1>9, <2>1 DEF R!Read
    <3> QED BY <1>6, <2>1, <3>1
  <2>2. CASE d - k = 0
    <3>1. PICK left : left = skip_size - k
      OBVIOUS
    <3>2. at' \in {at + k, R!ForwardTo(at + k, left)}
          /\ (at' # at + k => R!HasPadding(left))
      BY <1>1, <1>8, <3>1 DEF R!Read
    <3>3. left \in Int /\ (R!HasPadding(left) => left > 0)
      BY <1>2, <1>8, <3>1 DEF R!HasPadding, ReaderOK
    <3>4. Len(R!Volume) \in Nat
      BY <1>2, HereIs
    <3>5. left > 0 => R!ForwardTo(at + k, left) > 0
      BY <1>6, <1>8, <3>3, <3>4 DEF R!ForwardTo
    <3> QED BY <1>6, <2>2, <3>2, <3>3, <3>5
  <2> QED BY <1>6, <1>8, <2>1, <2>2
<1>13. Cursor' = a + at' + 1
  BY <1>2, <1>6, <1>9, <1>10, SamePlaces
<1>14. PICK e : e = Cursor'
  OBVIOUS
<1>15. Inside(h, f, v, t + k, d - k, e)
  <2>1. Inside(h, f, v, t, d, c)
    BY <1>5, <1>6, <1>11
  <2>2. PICK w \in Nat, p \in Nat, s \in Nat :
          w = HeadLength(log[h]) /\ p = log[h].p /\ s = log[h].s /\ h \in Nat
    BY HeaderFacts
  <2>3. t >= p /\ t + d = p + s /\ c = h + w + (t - p) /\ c <= b + 1
    BY <1>6, <1>7, <1>10, <2>1, <2>2 DEF Inside
  <2>4. t + k >= p /\ (t + k) + (d - k) = p + s
    BY <1>6, <1>8, <2>2, <2>3
  <2>5. ASSUME d - k > 0
        PROVE  e = h + w + ((t + k) - p) /\ e <= b + 1
    <3>1. e = c + k
      BY <1>11, <1>12, <1>13, <1>14, <2>5
    <3>2. R!Left = IF c <= b THEN b + 1 - c ELSE 0
      BY <1>2, <1>10, <1>11, HereAt DEF ReaderOK
    <3> QED BY <1>8, <1>11, <2>2, <2>3, <3>1, <3>2
  <2> QED BY <1>6, <1>10, <2>1, <2>2, <2>4, <2>5 DEF Inside
<1>16. \E j \in Starts' : Inside(j, header.f, io, total, file_size, Cursor)'
  <2>1. PICK x, y : x = t + k /\ y = d - k
    OBVIOUS
  <2>2. Inside(h, f, v, x, y, e)' /\ h \in Starts'
    BY <1>2, <1>6, <1>9, <1>15, <2>1, InsideAgain, SamePlaces
  <2>3. f = header'.f /\ v = io' /\ x = total' /\ y = file_size'
    BY <1>2, <1>6, <1>9, <2>1
  <2> QED BY <1>14, <2>2, <2>3
<1>17. /\ total' \in Nat /\ files'[R!Name(header')].kind = "file"
       /\ \E m \in Starts' : header' = log'[m]
  <2>1. \E m \in Starts' : header' = log'[m]
    BY <1>2, <1>4, <1>6, <1>9, SamePlaces
  <2> QED BY <1>2, <1>6, <1>8, <1>9, <2>1 DEF AtCopy
<1>18. PICK n, T : n = R!Name(header) /\ T = files[n] /\ T = files'[n] /\ n = R!Name(header')
  BY <1>2
<1>19. Plain(header) => GoesTo(T, n, t)
  BY <1>2, <1>6, <1>18 DEF AtCopy
<1>20. GoesTo(T, n, t) => GoesTo(T, n, t)'
  BY <1>2, GoesAgain
<1>21. CASE k = 0
  <2>1. rpc' = "prompt" /\ rback' = "data" /\ total' = t
    BY <1>6, <1>9, <1>21
  <2>2. file_size' > 0 /\ (Cursor = Ahead(io + 1) + 1)'
    <3>1. R!Left = 0
      BY <1>8, <1>21
    <3>2. c > b
      BY <1>2, <1>10, <1>11, <3>1, HereAt DEF ReaderOK
    <3>3. c <= b + 1
      BY <1>5, <1>6, <1>7, <1>10, <1>11 DEF Inside
    <3>4. Cursor' = b + 1
      <4>1. at' = z
        BY <1>7, <1>12, <1>21
      <4>2. c = b + 1
        BY <3>2, <3>3
      <4> QED BY <1>11, <1>13, <4>1, <4>2
    <3>5. Ahead(io + 1)' = b
      BY <1>2, <1>6, <1>9, <1>10, SamePlaces
    <3> QED BY <1>6, <1>7, <1>9, <1>21, <3>4, <3>5
  <2>3. Plain(header') => GoesTo(files[R!Name(header)], R!Name(header), total)'
    BY <1>2, <1>18, <1>19, <1>20, <2>1
  <2>4. AtCopy'
    BY <1>16, <1>17, <2>1, <2>2, <2>3 DEF AtCopy
  <2>5. Places'
    BY <2>1, <2>4 DEF Places, Opening, Copying
  <2> QED BY <1>3, <2>5 DEF Filling
<1>22. CASE k > 0
  <2>1. rpc' = "write"
    BY <1>9, <1>22
  <2>2. AtCopy'
    BY <1>16, <1>17, <2>1 DEF AtCopy
  <2>3. PICK D : D = R!Content(k)
    OBVIOUS
  <2>4. D \in Seq(Piece) /\ Len(D) = k
    BY <1>2, <1>8, <2>3, ContentType
  <2>5. Plain(header) => Run(D, n, t)
    <3>1. Run(R!Content(k), Entries[f].name, t)
      BY <1>2, <1>5, <1>6, <1>7, <1>8, ContentRuns
    <3> QED BY <1>6, <1>18, <2>3, <3>1 DEF Plain
  <2>6. Run(D, n, t) => Run(D, n, t)'
    BY <1>2, RunAgain
  <2>7. ASSUME Plain(header)
        PROVE  /\ GoesTo(T, n, Len(T.content))' /\ Run(D, n, Len(T.content))'
               /\ Len(T.content) + Len(D) = t + k
    <3>1. Len(T.content) = t
      BY <1>19, <2>7 DEF GoesTo
    <3>2. GoesTo(T, n, t)' /\ Run(D, n, t)'
      BY <1>19, <1>20, <2>5, <2>6, <2>7
    <3>3. Len(T.content) + Len(D) = t + k
      BY <2>4, <3>1
    <3> QED BY <3>1, <3>2, <3>3
  <2>8. AtWrite'
    <3>1. chunk' = D
      BY <1>9, <2>3
    <3>2. Plain(header') <=> Plain(header)
      BY <1>2
    <3> QED BY <1>9, <1>18, <2>4, <2>7, <3>1, <3>2 DEF AtWrite
  <2>9. Places'
    BY <1>12, <2>1, <2>2, <2>8 DEF Places, Opening, Copying
  <2> QED BY <1>3, <2>9 DEF Filling
<1> QED BY <1>21, <1>22

(* What was read is written behind what is there. *)
LEMMA WriteFilling ==
  ASSUME NamesTell, Sound, Restoring, Filling, UNCHANGED vars, R!WriteContent,
         rfaults = 0, rfaults' = 0
  PROVE  Filling'
<1>1. /\ rpc = "write" /\ rpc' = "data" /\ ~Opening /\ Copying /\ at > 0
      /\ UNCHANGED <<log, inode, shown, header, total, io, at, file_size>>
      /\ FilesOK /\ Shows /\ Places /\ AtCopy /\ AtWrite /\ Readable
  BY DEF R!WriteContent, vars, fileVars, loopVars, Opening, Copying, Filling, Places, Sound
<1>2. PICK m \in IF R!Fault THEN 0 .. Len(chunk) ELSE {Len(chunk)} :
        /\ files' = [files EXCEPT ![R!Name(header)].content = @ \o SubSeq(chunk, 1, m)]
        /\ rfaults' = IF m < Len(chunk) THEN rfaults + 1 ELSE rfaults
  BY DEF R!WriteContent
<1>3. PICK D \in Seq(Piece) : D = chunk /\ SubSeq(chunk, 1, m) = D
  <2>1. chunk \in Seq(Piece) /\ Len(chunk) \in Nat
    BY <1>1, LenProperties DEF AtWrite
  <2>2. m = Len(chunk)
    BY <1>2, <2>1
  <2> QED BY <2>1, <2>2, SubSeqFull
<1>4. /\ header.k \in {"hdr", "cont", "link"} /\ R!Name(header) \in R!Names
      /\ \E j \in DOMAIN log : header = log[j]
      /\ \E j \in Starts : header = log[j]
  BY <1>1, CopyPlace
<1>5. PICK n \in R!Names : n = R!Name(header) /\ n = R!Name(header')
  BY <1>1, <1>4
<1>6. PICK C \in Seq(Piece) : files[n] = RegularFile(C)
  <2>1. files[n] \in R!Thing /\ files[n].kind = "file"
    BY <1>1, <1>5 DEF FilesOK, AtCopy
  <2> QED BY <2>1 DEF R!Thing, RegularFile, Piece
<1>7. PICK B \in Seq(Piece) : B = C \o D
  BY ConcatProperties
<1>8. files' = [files EXCEPT ![n] = RegularFile(B)]
  <2>1. files' = [files EXCEPT ![n].content = @ \o D]
    BY <1>2, <1>3, <1>5
  <2>2. files' = [files EXCEPT ![n] = [files[n] EXCEPT !.content = files[n].content \o D]]
    BY <2>1
  <2>3. files[n] = [kind |-> "file", content |-> C]
    BY <1>6 DEF RegularFile
  <2>4. PICK F : F = files[n]
    OBVIOUS
  <2>5. F = [kind |-> "file", content |-> C]
    BY <2>3, <2>4
  <2>6. F.content = C
    BY <2>5
  <2>7. F.content \o D = B
    BY <1>7, <2>6
  <2>8. [F EXCEPT !.content = B] = [kind |-> "file", content |-> B]
    BY <2>5
  <2>9. [files[n] EXCEPT !.content = files[n].content \o D] = [F EXCEPT !.content = B]
    BY <2>4, <2>7
  <2> QED BY <2>2, <2>8, <2>9 DEF RegularFile
<1>9. /\ RegularFile(B) \in R!Thing /\ RegularFile(B).kind = "file"
      /\ RegularFile(B).content = B /\ RegularFile(C).content = C
  BY DEF RegularFile, R!Thing, Piece
<1>10. /\ FilesOK' /\ files'[n] = RegularFile(B)
       /\ \A j \in R!Names : j # n => files'[j] = files[j]
  BY <1>1, <1>8, <1>9, FileAgain
<1>11. PICK t \in Nat : t = total
  BY <1>1 DEF AtCopy
<1>12. Plain(header) => GoesTo(RegularFile(B), n, t)
  <2> SUFFICES ASSUME Plain(header) PROVE GoesTo(RegularFile(B), n, t)
    OBVIOUS
  <2>1. GoesTo(RegularFile(C), n, Len(C)) /\ Run(D, n, Len(C)) /\ Len(C) + Len(D) = t
    BY <1>1, <1>3, <1>5, <1>6, <1>9, <1>11 DEF AtWrite
  <2>2. Run(C, n, 0)
    BY <1>9, <2>1 DEF GoesTo
  <2>3. Len(B) = Len(C) + Len(D) /\ Run(B, n, 0)
    BY <1>7, <2>1, <2>2, RunJoins
  <2> QED BY <1>9, <2>1, <2>3 DEF GoesTo
<1>13. n \in Nat => Plain(header)
  BY <1>1, <1>4, <1>5, PlainName
<1>14. n \in Nat => Run(files'[n].content, n, 0)
  BY <1>10, <1>12, <1>13 DEF GoesTo
<1>15. Shows'
  <2>1. \A j \in R!Names : files'[j] = files[j] \/ files'[j].content = <<>>
                           \/ (~Opening /\ j = R!Name(header)
                               /\ (j \in Nat => Run(files'[j].content, j, 0)))
    BY <1>1, <1>5, <1>10, <1>14
  <2> QED BY <1>1, <2>1, ShowsAgain
<1>16. AtCopy'
  <2>1. \E h \in Starts : Inside(h, header.f, io, total, file_size, Cursor)
    BY <1>1 DEF AtCopy
  <2>2. PICK h, f, v, r, c : /\ Inside(h, f, v, t, r, c) /\ h \in Starts
                             /\ f = header.f /\ v = io /\ r = file_size /\ c = Cursor
    BY <1>11, <2>1
  <2>3. Inside(h, f, v, t, r, c)' /\ h \in Starts' /\ Cursor' = c
    BY <1>1, <2>2, InsideAgain, SamePlaces DEF Cursor
  <2>4. \E j \in Starts' : Inside(j, header.f, io, total, file_size, Cursor)'
    BY <1>1, <1>11, <2>2, <2>3
  <2>5. /\ total' \in Nat /\ files'[R!Name(header')].kind = "file"
        /\ \E j \in Starts' : header' = log'[j]
    BY <1>1, <1>4, <1>5, <1>9, <1>10, <1>11, SamePlaces
  <2>6. GoesTo(RegularFile(B), n, t) => GoesTo(RegularFile(B), n, t)'
    BY <1>1, GoesAgain
  <2>7. Plain(header') => GoesTo(files[R!Name(header)], R!Name(header), total)'
    BY <1>1, <1>5, <1>10, <1>11, <1>12, <2>6
  <2> QED BY <1>1, <2>4, <2>5, <2>7 DEF AtCopy
<1>17. Places'
  BY <1>1, <1>16 DEF Places, Opening, Copying
<1> QED BY <1>10, <1>15, <1>17 DEF Filling

LEMMA CloseFilling ==
  ASSUME Sound, Filling, UNCHANGED vars, R!CloseFile
  PROVE  Filling'
<1>1. /\ rpc = "data" /\ rpc' \in {"header", "done"} /\ ~Opening /\ at > 0
      /\ UNCHANGED <<log, inode, files, shown, header, at>>
      /\ FilesOK /\ Shows /\ Places /\ Readable
  BY DEF R!CloseFile, R!readerVars, vars, fileVars, loopVars, Opening, Filling, Places, Sound
<1>2. FilesOK' /\ Shows'
  BY <1>1, ShowsAgain DEF FilesOK
<1>3. Places'
  BY <1>1 DEF Places, Opening, Copying
<1> QED BY <1>2, <1>3 DEF Filling

(* The file at hand as it was, on the way to its next part.                 *)
LEMMA CopyAgain ==
  ASSUME UNCHANGED <<log, inode, files, header, total>>, AtCopy, rpc # "write"
  PROVE  /\ total' \in Nat /\ files'[R!Name(header')].kind = "file"
         /\ \E m \in Starts' : header' = log'[m]
         /\ Plain(header') => GoesTo(files[R!Name(header)], R!Name(header), total)'
<1>1. Starts' = Starts
  BY DEF Starts
<1>2. PICK n, T, t : n = R!Name(header) /\ T = files[n] /\ t = total
  OBVIOUS
<1>3. GoesTo(T, n, t) => GoesTo(T, n, t)'
  BY GoesAgain
<1>4. Plain(header') => GoesTo(files[R!Name(header)], R!Name(header), total)'
  BY <1>2, <1>3 DEF AtCopy
<1> QED BY <1>1, <1>4 DEF AtCopy

(* A volume is accepted when it goes on where the file was left.            *)
LEMMA ContinueFilling ==
  ASSUME NamesTell, Sound, Restoring, Filling, UNCHANGED vars, R!Continue, ~misled'
  PROVE  Filling'
<1>1. PICK result \in R!HeaderResults :
        /\ R!GetHeader(result)
        /\ IF result = "ok"
           THEN IF R!Accepted(R!Here) THEN rfailed' = 0 /\ rpc' = "data" ELSE R!Ends(4)
           ELSE R!Ends(5)
        /\ result = "ok" /\ R!Accepted(R!Here) => R!SameFile(R!Here)
  BY DEF R!Continue
<1>2. /\ rpc = "sub" /\ ~Opening /\ Copying
      /\ UNCHANGED <<log, inode, files, shown, header, total>>
      /\ FilesOK /\ Shows /\ Places /\ AtCopy /\ Readable /\ ReaderOK
  BY DEF R!Continue, vars, fileVars, loopVars, Opening, Copying, Filling, Places, Sound, Restoring
<1>3. FilesOK' /\ Shows'
  BY <1>2, ShowsAgain DEF FilesOK
<1>4. (result = "ok" /\ R!Accepted(R!Here) /\ rpc' = "data") \/ rpc' = "done"
  BY <1>1 DEF R!Ends
<1>5. CASE rpc' = "done"
  <2>1. Places'
    BY <1>5 DEF Places, Opening, Copying
  <2> QED BY <1>3, <2>1 DEF Filling
<1>6. CASE result = "ok" /\ R!Accepted(R!Here) /\ rpc' = "data"
  <2>1. PICK h \in Starts :
           /\ h = Cursor /\ R!Here = log[h] /\ log[h].v = io /\ h \in DOMAIN log
           /\ log[h] \in Units
           /\ io' = io /\ at' > 0 /\ Cursor' = h + HeadLength(log[h])
           /\ file_size' = log[h].s /\ skip_size' = RoundUp(log[h].s)
    BY <1>1, <1>2, <1>6, HeaderRead
  <2>2. header.k \in {"hdr", "cont"}
    BY <1>2 DEF Restoring, Copying, Busy
  <2>3. PICK m \in DOMAIN log : header = log[m]
    BY <1>2, CopyPlace
  <2>4. log[h].f = header.f /\ log[h].p = total
    <3>1. log[h].f # 0 /\ Entries[log[h].f].name = Entries[header.f].name /\ log[h].p = total
      BY <1>1, <1>6, <2>1 DEF R!Accepted, R!SameFile
    <3>2. log[h].k \in {"hdr", "cont", "link"}
      <4>1. IsHead(log[h]) /\ Fits(log[h])
        BY HeaderFacts, Frames
      <4> QED BY <3>1, <4>1 DEF IsHead, Fits
    <3> QED BY <1>2, <2>1, <2>2, <2>3, <3>1, <3>2, OneFile
  <2>5. PICK f, c : f = header.f /\ c = Cursor'
    OBVIOUS
  <2>10. io \in 1 .. volume /\ total \in Nat /\ log[h].s \in Nat
    BY <1>2, <2>1, HeaderFacts DEF AtCopy, ReaderOK
  <2>11. PICK v \in 1 .. volume, t \in Nat, r \in Nat : v = io /\ t = total /\ r = log[h].s
    BY <2>10
  <2>6. Inside(h, f, v, t, r, c)
    <3>1. PICK w \in Nat \ {0}, b \in Nat : w = HeadLength(log[h]) /\ b = Ahead(v + 1)
      BY HeaderFacts, Frames
    <3>2. h + w - 1 <= b /\ h \in Nat
      BY <2>1, <2>5, <2>11, <3>1, HeaderFacts
    <3>3. c = h + w /\ log[h].p = t
      BY <2>1, <2>4, <2>5, <2>11, <3>1
    <3>4. c = h + w + (t - t) /\ c <= b + 1 /\ t >= t
      BY <2>5, <2>11, <3>1, <3>2, <3>3
    <3> QED BY <2>1, <2>4, <2>5, <2>11, <3>1, <3>3, <3>4 DEF Inside
  <2>7. \E j \in Starts' : Inside(j, header.f, io, total, file_size, Cursor)'
    <3>1. Inside(h, f, v, t, r, c)' /\ h \in Starts'
      BY <1>2, <2>1, <2>6, InsideAgain, SamePlaces
    <3>2. f = header'.f /\ v = io' /\ t = total' /\ r = file_size'
      BY <1>2, <2>1, <2>5, <2>11
    <3> QED BY <2>5, <3>1, <3>2
  <2>8. AtCopy'
    BY <1>2, <1>6, <2>7, CopyAgain DEF AtCopy
  <2>9. Places'
    BY <1>6, <2>1, <2>8 DEF Places, Opening, Copying
  <2> QED BY <1>3, <2>9 DEF Filling
<1> QED BY <1>4, <1>5, <1>6

LEMMA EndsAgain ==
  ASSUME log' = log, NEW w, NEW h, NEW f, NEW t, EndsAt(w, h, f, t)
  PROVE  EndsAt(w, h, f, t)' /\ h \in Starts'
  BY DEF EndsAt, Starts, Ahead

(* Where extract asks for a volume the file does not end with the one it    *)
(* has.                                                                     *)
LEMMA PromptPlace ==
  ASSUME Sound, ReaderOK, AtCopy, rpc = "prompt"
  PROVE  \E h \in Starts : EndsAt(io, h, header.f, total)
<1>1. PICK h \in Starts : Inside(h, header.f, io, total, file_size, Cursor)
  BY DEF AtCopy
<1>2. PICK r \in Nat \ {0} : r = file_size /\ Cursor = Ahead(io + 1) + 1
  BY DEF AtCopy, ReaderOK
<1>3. PICK t \in Nat, p \in Nat, z \in Nat : t = total /\ p = log[h].p /\ z = log[h].s
  BY HeaderFacts DEF AtCopy
<1>4. Inside(h, header.f, io, t, r, Ahead(io + 1) + 1)
  BY <1>1, <1>2, <1>3
<1>5. /\ log[h].v = io /\ log[h].f = header.f /\ t + r = p + z
      /\ Ahead(io + 1) + 1 = h + HeadLength(log[h]) + (t - p)
  BY <1>2, <1>3, <1>4 DEF Inside
<1>6. t < p + z
  BY <1>2, <1>3, <1>5
<1> QED BY <1>3, <1>5, <1>6 DEF EndsAt

(* The prompt is left for the next volume of the file, or for good.         *)
LEMMA PromptFilling ==
  ASSUME Sound, ReaderOK, Filling, function = "extract", replies \in Seq(Replies), UNCHANGED vars,
         R!SameName \/ R!BadName \/ R!PromptEnds \/ R!PromptQuits
  PROVE  Filling'
<1>1. /\ rpc = "prompt" /\ ~Opening
      /\ UNCHANGED <<log, inode, volume, files, shown, header, total>>
      /\ FilesOK /\ Shows /\ Places /\ Readable
  BY DEF R!SameName, R!BadName, R!PromptEnds, R!PromptQuits, R!Reply, vars, fileVars, loopVars,
         Opening, Filling, Sound
<1>2. FilesOK' /\ Shows'
  BY <1>1, ShowsAgain DEF FilesOK
<1>3. rpc' = "aborted" \/ R!Selected(0) \/ R!Selected(1)
  BY DEF R!SameName, R!BadName, R!PromptEnds, R!PromptQuits
<1>4. rpc' \in {"aborted", "done"} \/ (rpc' = "sub" /\ rback = "data")
  BY <1>3 DEF R!Selected
<1>5. CASE rpc' \in {"aborted", "done"}
  <2>1. Places'
    BY <1>5 DEF Places, Opening, Copying
  <2> QED BY <1>2, <2>1 DEF Filling
<1>6. CASE rpc' = "sub" /\ rback = "data"
  <2>1. AtCopy
    BY <1>1, <1>6 DEF Places, Copying
  <2>2. AtCopy'
    BY <1>1, <1>6, <2>1, CopyAgain DEF AtCopy
  <2>3. PICK h \in Starts : EndsAt(io, h, header.f, total)
    BY <1>1, <1>6, <2>1, PromptPlace
  <2>4. AtSub'
    <3>1. \/ R!NextVolume(io + 1) /\ io < Len(Volumes)
          \/ (\E v \in DOMAIN Volumes : R!NextVolume(v)) /\ R!Reply("wrong")
          \/ io' = io /\ at' = at
      BY <1>6 DEF R!SameName, R!BadName, R!PromptEnds, R!PromptQuits, R!readerVars
    <3>2. Cursor = Ahead(io + 1) + 1 /\ Ahead(io + 1) \in Nat /\ io \in 1 .. volume
      BY <1>1, <1>6, <2>1, Frames DEF AtCopy, ReaderOK
    <3>3. CASE R!NextVolume(io + 1)
      <4>1. io' = io + 1 /\ at' = 0
        BY <3>3 DEF R!NextVolume
      <4> QED BY <1>1, <2>3, <3>2, <4>1, EndsAgain DEF AtSub
    <3>4. CASE (\E v \in DOMAIN Volumes : R!NextVolume(v)) /\ R!Reply("wrong")
      <4>1. at' = 0 /\ R!Said("wrong")'
        BY <3>4, Replied DEF R!NextVolume
      <4> QED BY <1>1, <2>3, <3>2, <4>1, EndsAgain DEF AtSub
    <3>5. CASE io' = io /\ at' = at
      <4>1. Cursor' > Ahead(io + 1)'
        BY <1>1, <3>2, <3>5, SamePlaces DEF Cursor
      <4> QED BY <1>1, <2>3, <3>2, <4>1, EndsAgain DEF AtSub
    <3> QED BY <3>1, <3>3, <3>4, <3>5
  <2>5. Places'
    BY <1>6, <2>2, <2>4 DEF Places, Opening, Copying
  <2> QED BY <1>2, <2>5 DEF Filling
<1> QED BY <1>4, <1>5, <1>6

(* A rest of a file that has its whole name, and the other headers of it.   *)
LEMMA PlainRest ==
  ASSUME Readable, NEW j \in DOMAIN log, NEW l \in DOMAIN log, log[j].k = "cont",
         log[l].k \in {"hdr", "cont", "link"}, log[l].f = log[j].f, Plain(log[j])
  PROVE  Plain(log[l]) /\ R!Name(log[l]) = R!Name(log[j])
<1>1. PICK n \in Nat : n = Entries[log[j].f].name /\ n = Entries[log[l].f].name
  BY PlainName
<1>2. log[l].f # 0 /\ R!Name(log[j]) = n
  BY <1>1, PlainName DEF Plain
<1>3. CASE R!Short(log[l])
  <2>1. R!Short(log[j])
    BY <1>3 DEF R!Short
  <2>2. R!Name(log[j]) = -n /\ R!Name(log[l]) = -n
    BY <1>1, <1>2, <1>3, <2>1 DEF R!Name
  <2> QED BY <1>1, <1>2, <2>2 DEF Plain
<1>4. CASE ~R!Short(log[l])
  <2>1. R!Name(log[l]) = n
    BY <1>1, <1>2, <1>4 DEF R!Name
  <2> QED BY <1>1, <1>2, <2>1 DEF Plain
<1> QED BY <1>3, <1>4

(* What a volume ends in goes on where the next one begins.                 *)
LEMMA CutHere ==
  ASSUME Sound, NEW v \in 1 .. volume, v < volume, NEW c, c = Ahead(v + 1) + 1,
         NEW h \in Starts, log[h].v = v, Ending(log, h) > c
  PROVE  c \in DOMAIN log /\ log[c].k = "cont" /\ CutAt(h, c)
<1>1. log[h].v = v /\ c = Ahead(v + 1) + 1
  OBVIOUS
<1>2. v + 1 \in 1 .. volume /\ volume # 1 /\ v \in Nat
  BY <1>1, Frames
<1>3. c \in Starts /\ log[c].v = v + 1
  BY <1>1, <1>2, VolumeBegins
<1>4. /\ c \in DOMAIN log /\ c \in Nat \ {0} /\ log[c].s \in Nat /\ log[c].p \in Nat
      /\ h \in Nat \ {0} /\ h < c
  <2>1. h + HeadLength(log[h]) - 1 <= Ahead(v + 1) /\ Ahead(v + 1) \in Nat
        /\ HeadLength(log[h]) \in Nat \ {0} /\ h \in Nat \ {0}
    BY <1>1, HeaderFacts, Frames
  <2>2. h < c
    BY <1>1, <2>1
  <2> QED BY <1>3, <2>1, <2>2, HeaderFacts
<1>5. c > 1 /\ c - 1 \in DOMAIN log /\ log[c - 1].v = v
  <2>1. c - 1 = Ahead(v + 1) /\ Ahead(v + 1) \in Nat /\ Ahead(v) \in Nat
    BY <1>1, <1>2, Frames
  <2>2. c > 1 /\ c - 1 \in DOMAIN log
    BY <1>4, <2>1, Frames
  <2>3. c - 1 > Ahead(v) /\ c - 1 <= Ahead(v + 1)
    <3>1. h > Ahead(v)
      BY <1>1, HeaderFacts
    <3> QED BY <1>4, <2>1, <3>1
  <2> QED BY <1>1, <2>2, <2>3, Frames
<1>6. log[c].k = "cont" /\ \E g \in DOMAIN log : CutAt(g, c)
  <2>1. log[c].v # log[c - 1].v
    BY <1>2, <1>3, <1>5
  <2> QED BY <1>4, <1>5, <2>1 DEF Sound, JoinedOf
<1>7. PICK g \in DOMAIN log : CutAt(g, c)
  BY <1>6
<1>8. g \in Starts /\ log[g].v = v /\ g < c
  BY <1>5, <1>7, StartsAre DEF CutAt
<1>9. Ending(log, g) >= c
  <2> DEFINE w == HeadLength(log[g])
             r == RoundUp(log[g].s)
             s == log[g].s
             p == log[g].p
             t == log[c].s
             q == log[c].p
  <2>1. w \in Nat /\ r \in Nat /\ s \in Nat /\ p \in Int /\ s <= r /\ Ending(log, g) = g + w + r
        /\ g \in Nat
    BY <1>8, HeaderFacts
  <2>2. q \in Int /\ t \in Nat
    BY <1>4
  <2>3. c = g + w + (q - p) /\ p + s = q + t
    BY <1>7 DEF CutAt
  <2> HIDE DEF w, r, s, p, t, q
  <2> QED BY <2>1, <2>2, <2>3
<1>10. CASE g = h
  BY <1>4, <1>6, <1>7, <1>10
<1>11. CASE g < h
  <2>1. PICK e \in Nat : e = Ending(log, g)
    BY <1>8, HeaderFacts
  <2>2. h < Ending(log, g)
    BY <1>4, <1>9, <2>1
  <2> QED BY <1>1, <1>8, <1>11, <2>2, HeaderFacts
<1>12. CASE g > h
  <2>1. PICK e \in Nat, l \in Nat : e = Ending(log, h) /\ l = g
    BY <1>8, HeaderFacts
  <2>2. g < Ending(log, h)
    BY <1>4, <1>8, <2>1
  <2> QED BY <1>1, <1>8, <1>12, <2>2, HeaderFacts
<1>13. g \in Nat
  BY <1>8, HeaderFacts
<1> QED BY <1>4, <1>10, <1>11, <1>12, <1>13

LEMMA ReadyAgain ==
  ASSUME UNCHANGED <<log, inode, wanted>>, NEW F, NEW c, Ready(F, c)
  PROVE  Ready(F, c)'
<1> SUFFICES ASSUME c \in DOMAIN log, log[c].k = "cont", Plain(log[c]),
                    R!Name(log[c]) \in wanted
             PROVE  GoesTo(F[R!Name(log[c])], R!Name(log[c]), log[c].p)'
  BY DEF Ready
<1>1. PICK T, n, t : n = R!Name(log[c]) /\ T = F[n] /\ t = log[c].p
  OBVIOUS
<1>2. GoesTo(T, n, t)'
  BY <1>1, GoesAgain DEF Ready
<1> QED BY <1>1, <1>2

(* A volume that is given a new name goes on where the one before ends.     *)
LEMMA NameFilling ==
  ASSUME Sound, ReaderOK, Filling, UNCHANGED vars, R!NewName
  PROVE  Filling'
<1>1. /\ rpc = "prompt" /\ ~Opening /\ io < Len(Volumes) /\ io' = io + 1
      /\ UNCHANGED <<log, inode, files, shown, header, wanted>>
      /\ FilesOK /\ Shows /\ Places /\ Readable
  BY DEF R!NewName, R!Reply, R!NextVolume, R!options, vars, fileVars, loopVars, Opening, Filling,
         Sound
<1>2. rback \in {"skip", "data"}
  BY <1>1 DEF Places
<1>3. rpc' = "header"
  BY <1>2 DEF R!NewName, R!Selected
<1>4. FilesOK' /\ Shows'
  BY <1>1, ShowsAgain DEF FilesOK
<1>5. io \in 1 .. volume /\ io < volume
  <2>1. Len(Volumes) = volume
    BY Frames, LenProperties DEF Volumes
  <2> QED BY <1>1, <2>1 DEF ReaderOK
<1>6. PICK c : c = Ahead(io + 1) + 1
  OBVIOUS
<1>7. Ready(files, c)
  <2> SUFFICES ASSUME c \in DOMAIN log, log[c].k = "cont", Plain(log[c]),
                      R!Name(log[c]) \in wanted
               PROVE  GoesTo(files[R!Name(log[c])], R!Name(log[c]), log[c].p)
    BY DEF Ready
  <2>1. ASSUME NEW m \in Starts, log[m].f = log[c].f
        PROVE  Plain(log[m]) /\ R!Name(log[m]) = R!Name(log[c])
    <3>1. IsHead(log[m]) /\ Fits(log[m]) /\ m \in DOMAIN log
      BY HeaderFacts, Frames
    <3>2. log[m].k \in {"hdr", "cont", "link"}
      BY <2>1, <3>1 DEF IsHead, Fits, Plain
    <3> QED BY <1>1, <2>1, <3>1, <3>2, PlainRest
  <2>2. CASE rback = "skip"
    <3>1. AtGap
      BY <1>1, <2>2 DEF Places
    <3>2. PICK h \in Starts : header = log[h] /\ log[h].v = io /\ Ending(log, h) > c
      BY <1>6, <3>1 DEF AtGap
    <3>3. CutAt(h, c)
      BY <1>5, <1>6, <3>2, CutHere
    <3>4. R!Name(header) = R!Name(log[c])
      BY <2>1, <3>2, <3>3 DEF CutAt
    <3> QED BY <3>1, <3>4 DEF AtGap
  <2>3. CASE rback = "data"
    <3>1. AtCopy
      BY <1>1, <2>3 DEF Places, Copying
    <3>2. /\ total \in Nat /\ file_size > 0 /\ Cursor = c
          /\ \E h \in Starts : Inside(h, header.f, io, total, file_size, Cursor)
          /\ Plain(header) => GoesTo(files[R!Name(header)], R!Name(header), total)
      BY <1>1, <1>6, <3>1 DEF AtCopy
    <3>3. PICK m \in Starts : header = log[m]
      BY <3>1 DEF AtCopy
    <3>4. PICK h \in Starts : Inside(h, header.f, io, total, file_size, Cursor)
      BY <3>2
    <3>5. PICK t \in Nat, r \in Nat \ {0} : t = total /\ r = file_size
      BY <3>2 DEF ReaderOK
    <3>6. PICK w \in Nat, p \in Nat, s \in Nat, q \in Nat :
             /\ w = HeadLength(log[h]) /\ p = log[h].p /\ s = log[h].s /\ h \in Nat
             /\ q = RoundUp(log[h].s) /\ s <= q /\ Ending(log, h) = h + w + q
      BY HeaderFacts
    <3>12. Inside(h, header.f, io, t, r, c) /\ r > 0
      BY <3>2, <3>4, <3>5
    <3>7. log[h].v = io /\ log[h].f = header.f /\ t + r = p + s /\ c = h + w + (t - p)
      BY <3>6, <3>12 DEF Inside
    <3>8. Ending(log, h) > c
      BY <3>5, <3>6, <3>7
    <3>9. CutAt(h, c)
      BY <1>5, <1>6, <3>7, <3>8, CutHere
    <3>10. log[c].p = t
      <4>1. c = h + w + (log[c].p - p) /\ log[c].p \in Int
        BY <3>6, <3>9, Frames DEF CutAt
      <4>2. PICK x \in Int : x = log[c].p
        BY <4>1
      <4>3. PICK a \in Nat : a = h + w
        BY <3>6
      <4>4. a + (x - p) = a + (t - p)
        BY <3>7, <4>1, <4>2, <4>3
      <4>5. x = t
        BY <4>4
      <4> QED BY <4>2, <4>5
    <3>11. Plain(header) /\ R!Name(header) = R!Name(log[c])
      BY <2>1, <3>3, <3>7, <3>9 DEF CutAt
    <3> QED BY <3>2, <3>5, <3>10, <3>11
  <2> QED BY <1>2, <2>2, <2>3
<1>8. Ready(files, Ahead(io) + 1)'
  <2>1. Ahead(io)' = Ahead(io + 1)
    BY <1>1 DEF Ahead
  <2>2. PICK F : F = files /\ F = files'
    BY <1>1
  <2>3. Ready(F, c)'
    BY <1>1, <1>7, <2>2, ReadyAgain
  <2> QED BY <1>6, <2>1, <2>2, <2>3
<1>9. Places'
  BY <1>3, <1>8 DEF Places, Opening, Copying
<1> QED BY <1>4, <1>9 DEF Filling

(* Every step of extract. *)
LEMMA StepFilling ==
  ASSUME NamesTell, Sound, Restoring, Filling, function = "extract", UNCHANGED vars,
         R!RestoreNext, rfaults = 0, rfaults' = 0, rpc = "header" /\ unlink => io = 1,
         replies \in Seq(Replies), ~misled'
  PROVE  Filling'
<1>1. ReaderOK /\ rfaults \in Nat
  BY DEF Restoring
<1>2. ~R!OpenFails
  BY DEF R!OpenFails
<1>3. CASE R!NextHeader
  <2>1. unlink => io = 1
    BY <1>3 DEF R!NextHeader
  <2> QED BY <1>1, <1>3, <2>1, HeaderFilling
<1> QED BY <1>1, <1>2, <1>3, SkipFilling, UnlinkFilling, OpenFilling, NodeFilling, ReadFilling,
           WriteFilling, CloseFilling, ContinueFilling, PromptFilling, NameFilling
        DEF R!RestoreNext

(* Nothing happens. *)
LEMMA FillingStays ==
  ASSUME Readable, Restoring, Filling, UNCHANGED <<vars, readVars>>
  PROVE  Filling'
<1>1. /\ UNCHANGED <<log, inode, volume, files, shown, header, wanted, io, at, file_size,
                     skip_size, total, chunk, rpc, rback, replies>>
      /\ FilesOK /\ Shows /\ Places
  BY DEF vars, fileVars, loopVars, readVars, Filling
<1>2. (Opening' <=> Opening) /\ (Copying' <=> Copying)
  BY <1>1 DEF Opening, Copying
<1>3. FilesOK'
  BY <1>1 DEF FilesOK
<1>4. Shows'
  <2>1. Opening => /\ header.k \in {"hdr", "cont", "link"}
                   /\ \E j \in DOMAIN log : header = log[j]
    BY DEF Restoring, Busy, Opening
  <2> QED BY <1>1, <1>2, <2>1, ShowsAgain
<1>5. /\ Starts' = Starts /\ Ahead(io)' = Ahead(io) /\ Ahead(io + 1)' = Ahead(io + 1)
      /\ Cursor' = Cursor /\ \A j : Ending(log, j)' = Ending(log, j)
  BY <1>1, SamePlaces DEF Cursor
<1>6. PICK F, c : F = files /\ F = files' /\ c = Ahead(io) + 1
  BY <1>1
<1>7. Ready(F, c) => Ready(F, c)'
  BY <1>1, ReadyAgain
<1>8. AtSkip => AtSkip'
  BY <1>1, <1>5 DEF AtSkip, Behind
<1>9. AtGap => AtGap'
  BY <1>1, <1>5 DEF AtGap
<1>10. PICK n, T, p, t : n = R!Name(header) /\ T = files[n] /\ p = header.p /\ t = total
  OBVIOUS
<1>11. (GoesTo(T, n, p) => GoesTo(T, n, p)') /\ (GoesTo(T, n, t) => GoesTo(T, n, t)')
  BY <1>1, GoesAgain
<1>12. AtOpen => AtOpen'
  BY <1>1, <1>5, <1>10, <1>11 DEF AtOpen
<1>13. AtCopy => AtCopy'
  <2> SUFFICES ASSUME AtCopy PROVE AtCopy'
    OBVIOUS
  <2>1. /\ total' \in Nat
        /\ \E m \in Starts' : header' = log'[m]
        /\ files'[R!Name(header')].kind = "file"
    BY <1>1, <1>5 DEF AtCopy
  <2>2. rpc' # "sub" => \E h \in Starts' : Inside(h, header.f, io, total, file_size, Cursor)'
    <3> SUFFICES ASSUME rpc' # "sub"
                 PROVE  \E h \in Starts' : Inside(h, header.f, io, total, file_size, Cursor)'
      OBVIOUS
    <3>1. PICK h \in Starts : Inside(h, header.f, io, total, file_size, Cursor)
      BY <1>1 DEF AtCopy
    <3>2. PICK f, v, s, r, d : /\ f = header.f /\ v = io /\ s = total /\ r = file_size
                               /\ d = Cursor
      OBVIOUS
    <3>3. Inside(h, f, v, s, r, d)'
      BY <1>1, <3>1, <3>2, InsideAgain
    <3> QED BY <1>1, <1>5, <3>2, <3>3
  <2>3. rpc' = "prompt" => file_size' > 0 /\ (Cursor = Ahead(io + 1) + 1)'
    BY <1>1, <1>5 DEF AtCopy
  <2>4. rpc' # "write" /\ Plain(header') =>
          GoesTo(files[R!Name(header)], R!Name(header), total)'
    BY <1>1, <1>10, <1>11 DEF AtCopy
  <2> QED BY <2>1, <2>2, <2>3, <2>4 DEF AtCopy
<1>14. AtWrite => AtWrite'
  <2>1. PICK D, l : D = chunk /\ l = Len(T.content)
    OBVIOUS
  <2>2. (GoesTo(T, n, l) => GoesTo(T, n, l)') /\ (Run(D, n, l) => Run(D, n, l)')
    BY <1>1, GoesAgain, RunAgain
  <2> QED BY <1>1, <1>10, <2>1, <2>2 DEF AtWrite
<1>15. rpc' = "header" /\ at' = 0 => Ready(files, Ahead(io) + 1)'
  BY <1>1, <1>5, <1>6, <1>7 DEF Places
<1>16. AtSub => AtSub'
  <2> SUFFICES ASSUME AtSub PROVE AtSub'
    OBVIOUS
  <2>1. PICK w \in 1 .. volume, h \in Starts :
           /\ EndsAt(w, h, header.f, total)
           /\ Cursor > Ahead(io + 1) \/ (at = 0 /\ (io = w + 1 \/ R!Said("wrong")))
    BY DEF AtSub
  <2>2. EndsAt(w, h, header.f, total)'
    BY <1>1, <2>1, EndsAgain
  <2>3. R!Said("wrong") => R!Said("wrong")'
    BY <1>1 DEF R!Said
  <2> QED BY <1>1, <1>5, <2>1, <2>2, <2>3 DEF AtSub
<1>17. Places'
  BY <1>1, <1>2, <1>8, <1>9, <1>12, <1>13, <1>14, <1>15, <1>16 DEF Places
<1> QED BY <1>3, <1>4, <1>17 DEF Filling

(* Before the first header is read. *)
LEMMA FreshFill == Laid /\ NotYet /\ FilesOK => FillInv
<1> SUFFICES ASSUME Laid, NotYet, FilesOK, pc = "done", cuts = 0, Undisturbed,
                    function = "extract"
             PROVE  Filling
  BY DEF FillInv
<1>1. Sound
  BY LaidSound
<1>2. io = 1 /\ at = 0 /\ shown = <<>> /\ rpc = "header"
  BY DEF NotYet
<1>3. Shows
  <2>1. shown \in Seq(Units) /\ DOMAIN shown = {}
    BY <1>2
  <2> QED BY <2>1 DEF Shows
<1>4. Ready(files, Ahead(io) + 1)
  <2> SUFFICES ASSUME Ahead(io) + 1 \in DOMAIN log, log[Ahead(io) + 1].k = "cont" PROVE FALSE
    BY DEF Ready
  <2>1. Ahead(io) + 1 = 1 /\ 1 \in 1 .. volume
    BY <1>1, <1>2, Frames
  <2>2. log[1].v = 1
    <3>1. 1 \in 1 .. Len(log) /\ Len(log) # 0
      BY <1>1, <2>1, Frames
    <3> QED BY <1>1, <1>2, <2>1, <3>1, VolumeBegins
  <2>3. Fits(log[1])
    BY <1>1, <2>1, Frames
  <2> QED BY <2>1, <2>2, <2>3 DEF Fits
<1>5. Places
  BY <1>2, <1>4 DEF Places, Opening, Copying
<1> QED BY <1>3, <1>5 DEF Filling

LEMMA NextFill ==
  ASSUME NamesTell, Made, RestoreInv, WholeInv, Laid, Waiting, History, FilesWait, FillInv,
         [RoundTripNext]_<<vars, readVars>>
  PROVE  FillInv' \/ (NotYet /\ FilesOK)'
<1>1. CASE MakeArchive
  <2>1. NotYet /\ FilesOK /\ UNCHANGED readVars
    BY <1>1, NoMoreArchiving DEF MakeArchive, Waiting, FilesWait
  <2> QED BY <2>1 DEF NotYet, FilesOK, readVars
<1>2. CASE ReadArchive
  <2> SUFFICES ASSUME (pc = "done" /\ cuts = 0 /\ Undisturbed)', rfaults' = 0,
                      function' = "extract", ~misled', unlink' => ~R!Said("name")'
               PROVE  Filling'
    BY DEF FillInv
  <2>1. UNCHANGED vars /\ R!RestoreNext /\ function = "extract" /\ unlink' = unlink
    BY <1>2, ExtractStays DEF ReadArchive, R!RestoreNext, R!NextHeader, R!Skip, R!UnlinkFirst,
                R!OpenFile, R!OpenFails, R!MakeNode, R!ReadContent, R!WriteContent,
                R!CloseFile, R!Continue, R!SameName, R!NewName, R!BadName, R!PromptEnds,
                R!PromptQuits, R!Reply, R!options
  <2>2. pc = "done" /\ cuts = 0 /\ Undisturbed /\ resizes = 0
    BY <2>1 DEF Undisturbed, vars, fileVars, loopVars, envVars
  <2>3. rfaults = 0
    BY NextHistory
  <2>4. (R!Said("name") => R!Said("name")') /\ (misled => misled')
    BY <2>1, HistoryStep DEF History
  <2>5. Filling
    BY <2>1, <2>2, <2>3, <2>4 DEF FillInv
  <2>6. Sound /\ Restoring
    BY <2>1, <2>2, LaidSound DEF RestoreInv
  <2>7. rpc = "header" /\ unlink => io = 1
    BY <2>1, <2>2, <2>3, <2>4 DEF WholeInv, Keeping
  <2> QED BY <2>1, <2>3, <2>5, <2>6, <2>7, StepFilling DEF History
<1>3. CASE VerifyArchive \/ Touch
  <2>1. function' = "verify"
    BY <1>3 DEF VerifyArchive, Touch, readVars
  <2> QED BY <2>1 DEF FillInv
<1>4. CASE Over \/ UNCHANGED <<vars, readVars>>
  <2> SUFFICES ASSUME (pc = "done" /\ cuts = 0 /\ Undisturbed)', rfaults' = 0,
                      function' = "extract", ~misled', unlink' => ~R!Said("name")'
               PROVE  Filling'
    BY DEF FillInv
  <2>1. UNCHANGED <<vars, readVars>>
    BY <1>4 DEF Over
  <2>2. /\ pc = "done" /\ cuts = 0 /\ Undisturbed /\ resizes = 0
        /\ rfaults = 0 /\ function = "extract" /\ ~misled /\ (unlink => ~R!Said("name"))
    BY <2>1 DEF Undisturbed, vars, fileVars, loopVars, envVars, readVars, R!Said
  <2>3. Filling /\ Restoring /\ Readable
    BY <2>2, LaidSound DEF FillInv, RestoreInv, Sound
  <2> QED BY <2>1, <2>3, FillingStays
<1> QED BY <1>1, <1>2, <1>3, <1>4 DEF RoundTripNext

LEMMA FillHolds == ASSUME NamesTell PROVE RoundTripSpec => []FillInv
<1>1. RoundTripSpec => []RestoreInv
  BY RestoringHolds
<1>2. RoundTripSpec => []WholeInv
  BY KeepingHolds
<1>3. RoundTripInit => NotYet /\ Laid /\ FilesOK
  <2>1. RoundTripInit => FilesOK
    <3> SUFFICES ASSUME RoundTripInit PROVE FilesOK
      OBVIOUS
    <3>1. pc # "done"
      BY DEF RoundTripInit, Init
    <3> QED BY <3>1, InitFiles DEF FilesWait
  <2> QED BY <2>1, InitNotYet, InitLaid
<1>4. Made /\ RestoreInv /\ WholeInv /\ Laid /\ Waiting /\ History /\ FilesWait /\ FillInv
        /\ [RoundTripNext]_<<vars, readVars>> => FillInv' \/ (NotYet /\ FilesOK)'
  BY NextFill
<1> QED BY <1>1, <1>2, <1>3, <1>4, FreshFill, MadeHolds, LaidHolds, WaitingHolds, HistoryHolds,
           FilesHold, PTL DEF RoundTripSpec

(* Without failures a file that was extracted holds what was archived under *)
(* its name, from its start and without a hole or a repetition, whatever    *)
(* volumes the operator mounts and wherever extract stops, as long as no    *)
(* volume of another file passed for its own.                               *)
THEOREM RestoredPrefix == ASSUME NamesTell PROVE RoundTripSpec => []Prefix
<1>1. Laid /\ FillInv /\ Waiting => Prefix
  <2> SUFFICES ASSUME Laid, FillInv, Waiting, Undisturbed, rfaults = 0, function = "extract",
                      ~misled, unlink => ~R!Said("name"),
                      NEW j \in DOMAIN shown, R!IsRegular(shown[j]), ~R!Short(shown[j]),
                      rpc \notin {"unlink", "restore"}
               PROVE  \A l \in DOMAIN R!Written(shown[j]) :
                        /\ R!Written(shown[j])[l].o = l - 1
                        /\ Entries[R!Written(shown[j])[l].f].ino = Entries[shown[j].f].ino
    BY DEF Prefix, R!Prefix
  <2>1. pc = "done" /\ cuts = 0
    <3>1. ~NotYet
      <4> SUFFICES ASSUME NotYet PROVE FALSE
        OBVIOUS
      <4>1. DOMAIN shown = {}
        BY DEF NotYet
      <4> QED BY <4>1
    <3>2. cuts \in Nat
      BY DEF Undisturbed, Laid, IInv, TypeOK
    <3> QED BY <3>1, <3>2 DEF Waiting
  <2>2. Sound /\ Readable /\ Filling
    BY <2>1, LaidSound DEF FillInv, Sound
  <2>3. PICK m \in DOMAIN log : shown[j] = log[m]
    BY <2>2 DEF Filling, Shows
  <2>4. /\ log[m].k \in {"hdr", "cont", "link"} /\ R!Name(log[m]) = Entries[log[m].f].name
        /\ log[m].f \in 1 .. Len(Entries) /\ Plain(log[m])
    <3>1. log[m].k \in {"hdr", "cont", "link"}
      BY <2>3 DEF R!IsRegular
    <3>2. log[m].f # 0 /\ log[m].f \in 1 .. Len(Entries)
      BY <2>2, <3>1, PlainName
    <3>3. R!Name(log[m]) = Entries[log[m].f].name
      BY <2>3, <3>2 DEF R!Name
    <3> QED BY <3>1, <3>2, <3>3 DEF Plain
  <2>5. PICK n : n = R!Name(shown[j]) /\ n = Entries[log[m].f].name
    BY <2>3, <2>4
  <2>6. Run(files[n].content, n, 0)
    BY <2>2, <2>3, <2>4, <2>5 DEF Filling, Shows, Named, Opening
  <2>7. ASSUME NEW l \in DOMAIN files[n].content
        PROVE  /\ files[n].content[l].o = l - 1
               /\ Entries[files[n].content[l].f].ino = Entries[log[m].f].ino
    <3>1. PICK d \in inode : d = files[n].content[l].f /\ Entries[d].name = n
      BY <2>6 DEF Run
    <3>2. files[n].content[l].o = l - 1
      <4>1. n \in R!Names
        BY <2>2, <2>3, <2>4, <2>5, NameKnown
      <4>2. files[n].content \in Seq(Piece)
        BY <2>2, <4>1 DEF Filling, FilesOK, R!Thing, Piece
      <4>3. l \in Nat
        BY <4>2, LenProperties
      <4>4. files[n].content[l].o = 0 + l - 1
        BY <2>6 DEF Run
      <4> QED BY <4>3, <4>4
    <3>3. KeyOf(d) = KeyOf(log[m].f)
      BY <2>2, <2>4, <2>5, <3>1 DEF NamesTell, Readable
    <3>4. CASE log[m].k = "link"
      <4>1. PICK g \in inode : /\ KeyOf(g) = KeyOf(log[m].f)
                               /\ Entries[g].name # Entries[log[m].f].name
        BY <2>2, <3>4 DEF Readable, AllFit, Fits, LinkedTo
      <4>2. g = d
        BY <2>2, <3>1, <3>3, <4>1 DEF Readable
      <4> QED BY <2>5, <3>1, <4>1, <4>2
    <3>5. CASE log[m].k \in {"hdr", "cont"}
      <4>1. log[m].f \in inode
        BY <2>2, <3>5 DEF Readable, AllFit, Fits
      <4>2. d = log[m].f
        BY <2>2, <3>1, <3>3, <4>1 DEF Readable
      <4> QED BY <3>1, <3>2, <4>2
    <3> QED BY <2>4, <3>4, <3>5
  <2> QED BY <2>3, <2>5, <2>7 DEF R!Written
<1>2. RoundTripSpec => []FillInv
  BY FillHolds
<1> QED BY <1>1, <1>2, LaidHolds, WaitingHolds, PTL

(* A volume of another file passes for the rest of one only when the        *)
(* operator mounted it, and its path and place look like that.              *)
MisledInv ==
    pc = "done" /\ cuts = 0 /\ Undisturbed /\ rfaults = 0 /\ function = "extract" /\ misled
        /\ (unlink => ~R!Said("name")) => R!Said("wrong") /\ ~R!Apart

LEMMA ContinueMisled ==
  ASSUME Sound, Restoring, Filling, NamesTell, UNCHANGED vars, R!Continue, misled', ~misled
  PROVE  R!Said("wrong") /\ ~R!Apart
<1>1. PICK result \in R!HeaderResults :
        /\ R!GetHeader(result) /\ result = "ok" /\ R!Accepted(R!Here) /\ ~R!SameFile(R!Here)
  BY DEF R!Continue
<1>2. rpc = "sub" /\ ReaderOK /\ Readable /\ Copying /\ AtCopy /\ AtSub /\ Places
  BY DEF R!Continue, Copying, Filling, Places, Sound, Restoring
<1>3. PICK g \in Starts : g = Cursor /\ R!Here = log[g] /\ log[g].v = io
  BY <1>1, <1>2, HeaderRead
<1>4. PICK w \in 1 .. volume, h \in Starts :
        /\ EndsAt(w, h, header.f, total)
        /\ Cursor > Ahead(io + 1) \/ (at = 0 /\ (io = w + 1 \/ R!Said("wrong")))
  BY <1>2 DEF AtSub
<1>5. io \in 1 .. volume /\ Ahead(io + 1) \in Nat /\ Ahead(io) \in Nat
  BY <1>2, Frames DEF ReaderOK
<1>6. ~(Cursor > Ahead(io + 1))
  <2>1. g <= Ahead(io + 1) /\ g \in Nat
    BY <1>3, <1>5, HeaderFacts, Frames
  <2> QED BY <1>3, <1>5, <2>1
<1>7. at = 0 /\ (io = w + 1 \/ R!Said("wrong"))
  BY <1>4, <1>6
<1>8. PICK t \in Nat, p \in Nat, z \in Nat, l \in Nat \ {0}, a \in Nat, b \in Nat :
        /\ t = total /\ p = log[h].p /\ z = log[h].s /\ l = HeadLength(log[h])
        /\ a = Ahead(w) /\ b = Ahead(w + 1) /\ h \in Nat
  <2>1. total \in Nat
    BY <1>2 DEF AtCopy
  <2>2. log[h].p \in Nat /\ log[h].s \in Nat /\ HeadLength(log[h]) \in Nat \ {0} /\ h \in Nat
    BY HeaderFacts
  <2>3. Ahead(w) \in Nat /\ Ahead(w + 1) \in Nat
    BY Frames
  <2> QED BY <2>1, <2>2, <2>3
<1>9. /\ log[h].v = w /\ log[h].f = header.f /\ b + 1 = h + l + (t - p) /\ t < p + z
      /\ IsHead(log[h]) /\ h > a /\ h + l - 1 <= b /\ h \in DOMAIN log
  BY <1>4, <1>8, HeaderFacts DEF EndsAt
<1>10. log[h].k \in {"hdr", "cont"}
  <2>1. header.k \in {"hdr", "cont", "link"} /\ header.f \in 1 .. Len(Entries)
    BY <1>2, CopyPlace
  <2>2. Fits(log[h]) /\ log[h].f # 0
    BY <1>9, <2>1, Frames
  <2>3. z > 0
    BY <1>8, <1>9
  <2>4. log[h].s > 0
    BY <1>8, <2>3
  <2>5. log[h].k \in {"hdr", "cont", "link", "label"}
    BY <1>9 DEF IsHead
  <2>6. log[h].k # "link" /\ log[h].k # "label"
    BY <2>2, <2>4 DEF Fits
  <2> QED BY <2>5, <2>6
<1>11. R!Said("wrong")
  <2> SUFFICES ASSUME io = w + 1 PROVE FALSE
    BY <1>7
  <2>1. g = b + 1
    BY <1>3, <1>5, <1>7, <1>8 DEF Cursor
  <2>2. Ending(log, h) > b + 1
    <3>1. PICK e \in Nat : e = RoundUp(log[h].s) /\ z <= e /\ Ending(log, h) = h + l + e
      BY <1>8, HeaderFacts
    <3> QED BY <1>8, <1>9, <3>1
  <2>3. w < volume
    <3>1. volume \in Nat /\ w \in Nat /\ w + 1 <= volume
      BY <1>5, Frames
    <3> QED BY <3>1
  <2>4. CutAt(h, b + 1)
    <3>1. PICK v \in 1 .. volume, c \in Int : v = w /\ c = Ahead(v + 1) + 1
      BY <1>8
    <3>2. CutAt(h, c)
      BY <1>8, <1>9, <2>2, <2>3, <3>1, CutHere
    <3> QED BY <1>8, <3>1, <3>2
  <2>5. log[g].f = header.f
    BY <1>9, <2>1, <2>4 DEF CutAt
  <2>6. header.f \in 1 .. Len(Entries)
    BY <1>2, CopyPlace
  <2> QED BY <1>1, <1>3, <2>5, <2>6 DEF R!SameFile
<1>12. ~R!Apart
  <2> SUFFICES ASSUME R!Apart PROVE FALSE
    OBVIOUS
  <2>1. DOMAIN Volumes = 1 .. volume
    BY DEF Volumes
  <2>2. Volumes[io] # <<>> /\ Volumes[io][1] = log[g]
    <3>1. R!Left > 0
      BY <1>1, <1>2, GetHeaderOK DEF vars, fileVars
    <3>2. R!Here = Volumes[io][1]
      BY <1>7 DEF R!Here, R!Volume
    <3>3. Volumes[io] # <<>>
      BY <1>7, <3>1 DEF R!Left, R!Volume
    <3> QED BY <1>3, <3>2, <3>3
  <2>3. PICK k \in Nat \ {0}, n \in Nat :
          /\ h = a + k /\ n = b - a /\ Len(Volumes[w]) = n /\ k \in DOMAIN Volumes[w]
          /\ Volumes[w][k] = log[h]
    <3>1. PICK k \in Nat \ {0}, n \in Nat : h = a + k /\ n = b - a /\ k <= n
      <4>1. h - a \in Nat \ {0} /\ b - a \in Nat /\ h - a <= b - a
        BY <1>8, <1>9
      <4>2. h = a + (h - a)
        BY <1>8
      <4> QED BY <4>1, <4>2
    <3>2. Len(Volumes[w]) = n
      BY <1>8, <3>1, Frames
    <3>3. k \in 1 .. Len(Volumes[w]) /\ DOMAIN Volumes[w] = 1 .. Len(Volumes[w])
      BY <3>1, <3>2, Frames, LenProperties
    <3>4. Volumes[w][k] = log[Ahead(w) + k]
      BY <3>3, VolumeUnits, Frames
    <3> QED BY <1>8, <3>1, <3>2, <3>3, <3>4
  <2>4. R!HeaderLength(Volumes[w][k]) = l
    BY <1>8, <2>3 DEF R!HeaderLength, HeadLength
  <2>5. PICK d \in Int : d = t - p /\ d < z /\ n + 1 = k + l + d
    <3>1. b + 1 = h + l + (t - p) /\ t < p + z
      BY <1>9
    <3>2. PICK d \in Int : d = t - p
      BY <1>8
    <3>3. b + 1 = h + l + d /\ d < z
      BY <1>8, <3>1, <3>2
    <3>4. a \in Nat /\ b \in Nat /\ k \in Nat /\ l \in Nat /\ d \in Int
      BY <1>8, <2>3, <3>2
    <3>5. n + 1 = k + l + d
      <4>1. b + 1 = a + k + l + d
        BY <2>3, <3>3, <3>4
      <4> QED BY <2>3, <3>4, <4>1
    <3> QED BY <3>2, <3>3, <3>5
  <2>6. R!EndsIn(w, k)
    <3>1. n < k + l - 1 + z
      BY <1>8, <2>5
    <3> QED BY <1>8, <1>9, <1>10, <2>3, <2>4, <3>1 DEF R!EndsIn, IsHead
  <2>7. R!Reached(w, k) = t
    <3>1. p + n - (k + l - 1) = t
      BY <1>8, <2>5
    <3> QED BY <1>8, <2>3, <2>4, <3>1 DEF R!Reached
  <2>8. R!Resembles(log[g], header.f)
    <3>1. log[g].f = 0 \/ Entries[log[g].f].name # Entries[header.f].name
      BY <1>1, <1>3 DEF R!SameFile
    <3>2. R!Name(header) \in {Entries[header.f].name, -Entries[header.f].name}
      <4>1. header.f \in 1 .. Len(Entries)
        BY <1>2, CopyPlace
      <4> QED BY <4>1 DEF R!Name
    <3>3. <<R!Name(log[g]), R!Name(header)>> \in Begins
      BY <1>1, <1>3 DEF R!Accepted
    <3> QED BY <3>1, <3>2, <3>3 DEF R!Resembles
  <2>9. log[g].p = t
    BY <1>1, <1>3, <1>8 DEF R!Accepted
  <2>10. Volumes[w][k].f = header.f
    BY <1>9, <2>3
  <2> QED BY <1>5, <2>1, <2>2, <2>3, <2>6, <2>7, <2>8, <2>9, <2>10 DEF R!Apart
<1> QED BY <1>11, <1>12

LEMMA OnlyContinue ==
  ASSUME R!RestoreNext, ~R!Continue
  PROVE  misled' = misled
  BY DEF R!RestoreNext, R!NextHeader, R!Skip, R!UnlinkFirst, R!OpenFile, R!OpenFails, R!MakeNode,
         R!ReadContent, R!WriteContent, R!CloseFile, R!SameName, R!NewName, R!BadName,
         R!PromptEnds, R!PromptQuits, R!Reply

LEMMA ApartAgain ==
  ASSUME log' = log, volume' = volume
  PROVE  R!Apart' <=> R!Apart
<1>1. Volumes' = Volumes
  BY DEF Volumes, Ahead
<1> QED BY <1>1 DEF R!Apart, R!EndsIn, R!Reached, R!Resembles, R!HeaderLength, R!Name, R!Short

LEMMA NextMisled ==
  ASSUME NamesTell, Made, RestoreInv, Laid, Waiting, History, FillInv, MisledInv,
         [RoundTripNext]_<<vars, readVars>>
  PROVE  MisledInv'
<1> SUFFICES ASSUME (pc = "done" /\ cuts = 0 /\ Undisturbed)', rfaults' = 0,
                    function' = "extract", misled', unlink' => ~R!Said("name")'
             PROVE  R!Said("wrong")' /\ ~R!Apart'
  BY DEF MisledInv
<1>1. CASE MakeArchive
  <2>1. ~misled /\ UNCHANGED readVars
    BY <1>1, NoMoreArchiving DEF MakeArchive, Waiting, NotYet
  <2> QED BY <2>1 DEF readVars
<1>2. CASE ReadArchive
  <2>1. UNCHANGED vars /\ R!RestoreNext /\ function = "extract" /\ unlink' = unlink
    BY <1>2, ExtractStays DEF ReadArchive, R!RestoreNext, R!NextHeader, R!Skip, R!UnlinkFirst,
                R!OpenFile, R!OpenFails, R!MakeNode, R!ReadContent, R!WriteContent,
                R!CloseFile, R!Continue, R!SameName, R!NewName, R!BadName, R!PromptEnds,
                R!PromptQuits, R!Reply, R!options
  <2>2. pc = "done" /\ cuts = 0 /\ Undisturbed /\ resizes = 0
    BY <2>1 DEF Undisturbed, vars, fileVars, loopVars, envVars
  <2>3. rfaults = 0
    BY NextHistory
  <2>4. \A x : R!Said(x) => R!Said(x)'
    BY <2>1, HistoryStep DEF History
  <2>5. Sound /\ Restoring
    BY <2>1, <2>2, LaidSound DEF RestoreInv
  <2>6. R!Said("wrong") /\ ~R!Apart
    <3>1. CASE misled
      BY <2>1, <2>2, <2>3, <2>4, <3>1 DEF MisledInv
    <3>2. CASE ~misled
      <4>1. R!Continue
        BY <2>1, <3>2, OnlyContinue
      <4>2. Filling
        BY <2>1, <2>2, <2>3, <2>4, <3>2 DEF FillInv
      <4> QED BY <2>1, <2>5, <3>2, <4>1, <4>2, ContinueMisled
    <3> QED BY <3>1, <3>2
  <2>7. log' = log /\ volume' = volume
    BY <2>1 DEF vars, fileVars
  <2> QED BY <2>4, <2>6, <2>7, ApartAgain
<1>3. CASE VerifyArchive \/ Touch
  BY <1>3 DEF VerifyArchive, Touch, readVars
<1>4. CASE Over \/ UNCHANGED <<vars, readVars>>
  <2>1. UNCHANGED <<vars, readVars>>
    BY <1>4 DEF Over
  <2>2. /\ pc = "done" /\ cuts = 0 /\ Undisturbed /\ rfaults = 0 /\ function = "extract"
        /\ misled /\ (unlink => ~R!Said("name"))
        /\ log' = log /\ volume' = volume /\ replies' = replies
    BY <2>1 DEF Undisturbed, vars, fileVars, loopVars, envVars, readVars, R!Said
  <2> QED BY <2>2, ApartAgain DEF MisledInv, R!Said
<1> QED BY <1>1, <1>2, <1>3, <1>4 DEF RoundTripNext

(* Without failures a file goes on with another file's content only after   *)
(* the operator mounted another volume than the next, and only when that    *)
(* volume begins with a path that the file's path begins with, at the place *)
(* where the file was left: extract.c:265-268 asks for no more.             *)
THEOREM OnlyMistaken == ASSUME NamesTell PROVE RoundTripSpec => []NotMisled
<1>1. RoundTripInit => MisledInv
  <2> SUFFICES ASSUME RoundTripInit PROVE ~misled
    BY DEF MisledInv
  <2> QED BY InitNotYet DEF NotYet
<1>2. Made /\ RestoreInv /\ Laid /\ Waiting /\ History /\ FillInv /\ MisledInv
        /\ [RoundTripNext]_<<vars, readVars>> => MisledInv'
  BY NextMisled
<1>3. MisledInv /\ Waiting /\ Laid => NotMisled
  <2> SUFFICES ASSUME MisledInv, Waiting, Laid, Undisturbed, misled, rfaults = 0,
                      function = "extract", unlink => ~R!Said("name")
               PROVE  R!Said("wrong") /\ ~R!Apart
    BY DEF NotMisled, R!NotMisled
  <2>1. ~NotYet /\ cuts \in Nat
    BY DEF NotYet, Undisturbed, Laid, IInv, TypeOK
  <2> QED BY <2>1 DEF Waiting, MisledInv
<1> QED BY <1>1, <1>2, <1>3, RestoringHolds, FillHolds, MadeHolds, LaidHolds, WaitingHolds,
           HistoryHolds, PTL DEF RoundTripSpec

----------------------------------------------------------------------------
(* On one volume extract passes over nothing that was asked for.            *)

(* The headers in front of c that were asked for are shown. *)
Seen(c) ==
    \A j \in Due(c) : R!Name(log[j]) \in wanted => \E l \in DOMAIN shown : shown[l] = log[j]

(* A directory is where a file is to be opened. *)
Blocked ==
    \E j \in Starts : /\ R!IsRegular(log[j]) /\ R!Name(log[j]) \in wanted
                      /\ files[R!Name(log[j])].kind = "dir"

(* The regular files that were shown are there, but for the one that is to  *)
(* be opened.                                                               *)
Present ==
    \A j \in DOMAIN shown : Regular(shown[j]) =>
        \/ files[R!Name(shown[j])].kind = "file"
        \/ Opening /\ R!Name(header) = R!Name(shown[j])

(* The reader ends where the file does whose header is at h, or is where    *)
(* the archive breaks off in front of that.                                 *)
Onward(h) ==
    \/ Cursor + skip_size = Ending(log, h) /\ (file_size = 0 => skip_size = 0)
    \/ Cursor > Len(log) /\ Ending(log, h) > Len(log)

(* Extract on its way. *)
Passing ==
    /\ rpc \in {"header", "skip", "unlink", "restore", "data", "write", "prompt", "done"}
    /\ Present
    /\ rpc = "header" => (Cursor \in Starts \/ Cursor > Len(log)) /\ Seen(Cursor)
    /\ rpc = "skip" => \E h \in Starts : Behind(h) /\ Seen(h + 1)
    /\ Opening => /\ R!Name(header) \in wanted
                  /\ \E h \in Starts : Behind(h) /\ Seen(h + 1) /\ log[h].k # "label"
    /\ rpc \in {"data", "write"} =>
         rfailed < 0 /\ \E h \in Starts : header = log[h] /\ Seen(h + 1) /\ Onward(h)
    /\ rpc = "done" => rfailed = 0 /\ Seen(Len(log) + 1)

TakeInv ==
    Given /\ volume = 1 /\ function = "extract" =>
        ~misled /\ (Passing \/ (rpc = "done" /\ Blocked))

(* There is no second volume to give a name to.                             *)
NeverNamed == resizes = 0 /\ volume = 1 /\ function = "extract" => ~R!Said("name")

LEMMA NextNamed ==
  ASSUME Made, RestoreInv, NeverNamed, [RoundTripNext]_<<vars, readVars>>
  PROVE  NeverNamed'
<1> SUFFICES ASSUME resizes' = 0, volume' = 1, function' = "extract" PROVE ~R!Said("name")'
  BY DEF NeverNamed
<1>1. [Next]_vars /\ resizes = 0 /\ IInv
  BY MadeSteps DEF Made
<1>2. volume = 1
  <2>1. volume \in Nat \ {0} /\ volume' \in {volume, volume + 1}
    BY <1>1, TableGrows
  <2> QED BY <2>1
<1>3. CASE ReadArchive
  <2>1. R!RestoreNext /\ function = "extract"
    BY <1>3, ExtractStays DEF ReadArchive
  <2>2. ~R!Said("name") /\ io = 1
    <3>1. io \in 1 .. volume
      BY <1>1, <2>1 DEF RestoreInv, Restoring, ReaderOK
    <3> QED BY <1>1, <1>2, <2>1, <3>1 DEF NeverNamed
  <2>3. ~R!NewName
    <3>1. Len(Volumes) = 1
      BY <1>2 DEF Volumes
    <3> QED BY <2>2, <3>1 DEF R!NewName
  <2>4. \/ replies' = replies
        \/ \E how \in {"same", "wrong", "badname", "eof", "quit"} :
             replies' = Append(replies, how)
    BY <2>1, <2>3 DEF R!RestoreNext, R!NextHeader, R!Skip, R!UnlinkFirst, R!OpenFile,
          R!OpenFails, R!MakeNode, R!ReadContent, R!WriteContent, R!CloseFile, R!Continue,
          R!SameName, R!BadName, R!PromptEnds, R!PromptQuits, R!Reply
  <2>5. CASE replies' = replies
    BY <2>2, <2>5 DEF R!Said
  <2>6. CASE replies' # replies
    <3>1. PICK how \in {"same", "wrong", "badname", "eof", "quit"} :
             replies' = Append(replies, how)
      BY <2>4, <2>6
    <3> QED BY <2>2, <3>1 DEF R!Said
  <2> QED BY <2>5, <2>6
<1>4. CASE MakeArchive \/ Over \/ UNCHANGED <<vars, readVars>>
  <2>1. replies' = replies /\ function' = function
    BY <1>4 DEF MakeArchive, Over, readVars
  <2> QED BY <1>1, <1>2, <2>1 DEF NeverNamed, R!Said
<1>5. CASE VerifyArchive \/ Touch
  BY <1>5 DEF VerifyArchive, Touch, readVars
<1> QED BY <1>3, <1>4, <1>5 DEF RoundTripNext

LEMMA NamedHolds == ASSUME NamesTell PROVE RoundTripSpec => []NeverNamed
<1>1. RoundTripInit => NeverNamed
  <2> SUFFICES ASSUME RoundTripInit PROVE ~R!Said("name")
    BY DEF NeverNamed
  <2>1. replies = <<>>
    BY DEF RoundTripInit, RestoreStarts, VerifyStarts, R!RestoreInit, V!VerifyInit
  <2> QED BY <2>1 DEF R!Said
<1>2. Made /\ RestoreInv /\ NeverNamed /\ [RoundTripNext]_<<vars, readVars>> => NeverNamed'
  BY NextNamed
<1>3. RoundTripSpec => []RestoreInv
  BY RestoringHolds
<1> QED BY <1>1, <1>2, <1>3, MadeHolds, PTL DEF RoundTripSpec

(* The headers of an archive on one volume. *)
LEMMA OnlyVolume ==
  ASSUME Sound, volume = 1
  PROVE  /\ Len(log) \in Nat /\ Ahead(2) = Len(log)
         /\ \A h \in Starts :
              /\ h \in 1 .. Len(log) /\ log[h].v = 1 /\ log[h].k # "cont"
              /\ \E e \in Nat, w \in Nat \ {0}, r \in Nat :
                   /\ e = Ending(log, h) /\ w = HeadLength(log[h]) /\ r = RoundUp(log[h].s)
                   /\ e = h + w + r /\ h + w - 1 <= Len(log)
                   /\ e <= Len(log) => e \in Starts
                   /\ \A j \in Starts : j > h => j >= e
<1>1. Len(log) \in Nat /\ Ahead(2) = Len(log) /\ DOMAIN log = 1 .. Len(log)
  <2>1. volume + 1 = 2
    OBVIOUS
  <2> QED BY <2>1, Frames
<1>2. ASSUME NEW h \in Starts
      PROVE  h \in 1 .. Len(log) /\ log[h].v = 1 /\ log[h].k # "cont"
  <2>1. h \in DOMAIN log
    BY HeaderFacts
  <2>2. log[h].v \in 1 .. 1 /\ Fits(log[h])
    BY <2>1, Frames
  <2> QED BY <1>1, <2>1, <2>2 DEF Fits
<1>3. ASSUME NEW h \in Starts
      PROVE  \E e \in Nat, w \in Nat \ {0}, r \in Nat :
               /\ e = Ending(log, h) /\ w = HeadLength(log[h]) /\ r = RoundUp(log[h].s)
               /\ e = h + w + r /\ h + w - 1 <= Len(log)
               /\ e <= Len(log) => e \in Starts
               /\ \A j \in Starts : j > h => j >= e
  <2>1. PICK e : e = Ending(log, h)
    OBVIOUS
  <2>2. PICK w, r : w = HeadLength(log[h]) /\ r = RoundUp(log[h].s)
    OBVIOUS
  <2>3. e \in Nat /\ w \in Nat \ {0} /\ r \in Nat /\ e = h + w + r
    BY <2>1, <2>2, HeaderFacts
  <2>4. log[h].v = 1 /\ log[h].v + 1 = 2
    BY <1>2
  <2>5. h + w - 1 <= Ahead(log[h].v + 1) /\ (e <= Ahead(log[h].v + 1) => e \in Starts)
    BY <2>1, <2>2, HeaderFacts
  <2>6. h + w - 1 <= Len(log) /\ (e <= Len(log) => e \in Starts)
    BY <1>1, <2>4, <2>5
  <2>7. \A j \in Starts : j > h => j >= e
    <3> SUFFICES ASSUME NEW j \in Starts, j > h, j < e PROVE FALSE
      BY <1>2, <2>3
    <3>1. log[j].v # log[h].v
      BY <2>1, HeaderFacts
    <3> QED BY <1>2, <3>1
  <2> QED BY <2>1, <2>2, <2>3, <2>6, <2>7
<1> QED BY <1>1, <1>2, <1>3

(* Behind a file on the only volume. *)
LEMMA DueBehind ==
  ASSUME Sound, volume = 1, NEW h \in Starts, NEW c \in Nat,
         c = Ending(log, h) \/ (c > Len(log) /\ Ending(log, h) > Len(log))
  PROVE  (c \in Starts \/ c > Len(log)) /\ Due(c) = Due(h + 1)
<1>1. PICK e \in Nat, w \in Nat \ {0}, r \in Nat :
        /\ e = Ending(log, h) /\ e = h + w + r
        /\ e <= Len(log) => e \in Starts
        /\ \A j \in Starts : j > h => j >= e
  BY OnlyVolume
<1>2. PICK n \in Nat : n = Len(log)
  BY OnlyVolume
<1>3. \A j \in Starts : j \in 1 .. n
  BY <1>2, OnlyVolume
<1>4. c = e \/ (c > n /\ e > n)
  BY <1>1, <1>2
<1>5. c \in Starts \/ c > n
  BY <1>1, <1>2, <1>4
<1>6. \A j \in Starts : j < c => j < h + 1
  <2> SUFFICES ASSUME NEW j \in Starts, j < c, j > h PROVE FALSE
    BY <1>3
  <2>1. j >= e /\ j \in 1 .. n
    BY <1>1, <1>3
  <2> QED BY <1>4, <2>1
<1>7. h + 1 \in Nat /\ h + 1 <= c
  BY <1>1, <1>3, <1>4
<1>8. Due(c) = Due(h + 1)
  BY <1>6, <1>7, DueFacts
<1> QED BY <1>2, <1>5, <1>8

(* get_header gives the header at hand, or what is behind the archive.      *)
LEMMA HeaderFound ==
  ASSUME Sound, volume = 1, io \in 1 .. volume, at \in Nat,
         NEW result \in R!HeaderResults, result # "fault",
         Cursor \in Starts \/ Cursor > Len(log)
  PROVE  \/ result = "ok"
         \/ result = "not_found" /\ Cursor > Len(log)
<1>1. PICK n \in Nat : n = Len(log) /\ Ahead(2) = n
  BY OnlyVolume
<1>2. io = 1 /\ io + 1 = 2
  OBVIOUS
<1>3. PICK c \in Nat : c = Cursor
  BY HereAt
<1>4. R!Left = (IF c <= n THEN n + 1 - c ELSE 0) /\ (c <= n => R!Here = log[c])
  BY <1>1, <1>2, <1>3, HereAt
<1>5. CASE c \in Starts
  <2>1. PICK w \in Nat \ {0} : w = HeadLength(log[c]) /\ c + w - 1 <= n
    BY <1>1, <1>5, OnlyVolume
  <2>2. IsHead(log[c])
    BY <1>5, HeaderFacts
  <2>3. c <= n /\ w <= n + 1 - c
    BY <2>1
  <2>4. R!Here = log[c] /\ R!Left = n + 1 - c /\ R!Left # 0
    BY <1>4, <2>3
  <2>5. R!IsHeader(R!Here) /\ R!HeaderLength(R!Here) <= R!Left
    BY <2>1, <2>2, <2>3, <2>4, StartsAre DEF R!HeaderLength, HeadLength
  <2> QED BY <2>4, <2>5 DEF R!HeaderResults
<1>6. CASE c > n
  <2>1. R!Left = 0
    BY <1>4, <1>6
  <2> QED BY <1>1, <1>3, <1>6, <2>1 DEF R!HeaderResults
<1> QED BY <1>1, <1>3, <1>5, <1>6

LEMMA SeenAgain ==
  ASSUME UNCHANGED <<log, shown, wanted, function>>, NEW c, NEW d, c = d, Seen(d)
  PROVE  Seen(c)' /\ Due(c)' = Due(c)
<1>1. Starts' = Starts
  BY DEF Starts
<1>2. Due(c)' = Due(c)
  BY <1>1 DEF Due
<1>3. \A j \in Due(c) : R!Name(log[j]) \in wanted => \E l \in DOMAIN shown : shown[l] = log[j]
  BY DEF Seen
<1> QED BY <1>2, <1>3 DEF Seen

(* One header more is shown. *)
LEMMA SeenMore ==
  ASSUME Sound, UNCHANGED <<log, wanted, function>>, function = "extract", NEW h \in Starts,
         Seen(h), shown \in Seq(Units), log[h] \in Units,
         shown' = IF R!Name(log[h]) \in wanted THEN Append(shown, log[h]) ELSE shown
  PROVE  Seen(h + 1)'
<1>1. Starts' = Starts
  BY DEF Starts
<1>2. Due(h + 1)' = Due(h + 1) /\ Due(h + 1) = Due(h) \cup {h}
  BY <1>1, DueNext DEF Due
<1>3. \A l \in DOMAIN shown : l \in DOMAIN shown' /\ shown'[l] = shown[l]
  <2>1. CASE R!Name(log[h]) \in wanted
    <3>1. /\ Len(shown) \in Nat /\ DOMAIN shown = 1 .. Len(shown)
          /\ shown' \in Seq(Units) /\ Len(shown') = Len(shown) + 1
          /\ \A n \in 1 .. Len(shown) : shown'[n] = shown[n]
      BY <2>1, AppendProperties, LenProperties
    <3>2. DOMAIN shown' = 1 .. Len(shown) + 1
      BY <3>1, LenProperties
    <3> QED BY <3>1, <3>2
  <2>2. CASE R!Name(log[h]) \notin wanted
    BY <2>2
  <2> QED BY <2>1, <2>2
<1>4. R!Name(log[h]) \in wanted => \E l \in DOMAIN shown' : shown'[l] = log[h]
  <2> SUFFICES ASSUME R!Name(log[h]) \in wanted
               PROVE  \E l \in DOMAIN shown' : shown'[l] = log[h]
    OBVIOUS
  <2>1. /\ Len(shown) \in Nat /\ shown' \in Seq(Units) /\ Len(shown') = Len(shown) + 1
        /\ shown'[Len(shown) + 1] = log[h]
    BY AppendProperties, LenProperties
  <2>2. Len(shown) + 1 \in DOMAIN shown'
    BY <2>1, LenProperties
  <2> QED BY <2>1, <2>2
<1>5. \A j \in Due(h) : R!Name(log[j]) \in wanted => \E l \in DOMAIN shown' : shown'[l] = log[j]
  BY <1>3 DEF Seen
<1> QED BY <1>2, <1>4, <1>5 DEF Seen

LEMMA PresentAgain ==
  ASSUME UNCHANGED <<files, shown, header>>, Present, Opening => Opening'
  PROVE  Present'
  BY DEF Present

LEMMA TakeHeader ==
  ASSUME Sound, volume = 1, Restoring, Keeping, Passing, function = "extract", UNCHANGED vars,
         R!NextHeader, rfaults \in Nat, rfaults' = 0
  PROVE  Passing'
<1>1. PICK result \in R!HeaderResults :
        /\ R!GetHeader(result)
        /\ CASE result = "ok" ->
                  /\ header' = R!Here
                  /\ rpc' = R!AfterHeader(R!Here)
                  /\ shown' = IF R!Name(R!Here) \in wanted THEN Append(shown, R!Here)
                              ELSE shown
                  /\ UNCHANGED rfailed
             [] result = "not_found" -> R!Ends(0) /\ UNCHANGED <<header, shown>>
             [] result = "bad_checksum" -> R!Ends(3) /\ UNCHANGED <<header, shown>>
             [] result \in {"bad_header", "fault"} ->
                  R!Ends(4) /\ UNCHANGED <<header, shown>>
  BY DEF R!NextHeader
<1>2. /\ rpc = "header" /\ ~Opening /\ ReaderOK /\ io \in 1 .. volume /\ at \in Nat
      /\ UNCHANGED <<log, volume, function, wanted, unlink, files>>
      /\ shown \in Seq(Units) /\ Present /\ Seen(Cursor)
      /\ (Cursor \in Starts \/ Cursor > Len(log))
  BY DEF R!NextHeader, R!options, vars, fileVars, Opening, Restoring, ReaderOK, Keeping, Passing
<1>3. result # "fault"
  BY <1>1 DEF R!GetHeader
<1>4. result = "ok" \/ (result = "not_found" /\ Cursor > Len(log))
  BY <1>1, <1>2, <1>3, HeaderFound
<1>5. CASE result = "not_found"
  <2>1. rpc' = "done" /\ rfailed' = 0 /\ header' = header /\ shown' = shown /\ Cursor > Len(log)
    BY <1>1, <1>4, <1>5 DEF R!Ends
  <2>2. Seen(Len(log) + 1)
    <3>1. PICK c \in Nat, n \in Nat : c = Cursor /\ n = Len(log) /\ c > n
      BY <1>2, <2>1, HereAt, Frames
    <3>2. \A j \in Starts : j \in 1 .. n
      BY <3>1, OnlyVolume
    <3>3. \A j \in Starts : j < c
      BY <3>1, <3>2
    <3>4. Due(n + 1) \subseteq Due(c)
      BY <3>3 DEF Due
    <3> QED BY <1>2, <3>1, <3>4 DEF Seen
  <2>3. Seen(Len(log) + 1)'
    <3>1. PICK c : c = Len(log) + 1
      OBVIOUS
    <3>2. Seen(c)'
      BY <1>2, <2>1, <2>2, <3>1, SeenAgain
    <3> QED BY <1>2, <3>1, <3>2 DEF Seen, Due
  <2>4. Present' /\ ~Opening'
    BY <1>2, <2>1, PresentAgain DEF Opening
  <2> QED BY <2>1, <2>3, <2>4 DEF Passing
<1>6. CASE result = "ok"
  <2>1. PICK h \in Starts :
           /\ h = Cursor /\ R!Here = log[h] /\ log[h].v = io /\ h \in DOMAIN log
           /\ log[h] \in Units
           /\ io' = io /\ at' > 0 /\ Cursor' = h + HeadLength(log[h])
           /\ file_size' = log[h].s /\ skip_size' = RoundUp(log[h].s)
    BY <1>1, <1>2, <1>6, HeaderRead
  <2>2. header' = log[h] /\ rpc' = R!AfterHeader(log[h])
        /\ shown' = IF R!Name(log[h]) \in wanted THEN Append(shown, log[h]) ELSE shown
    BY <1>1, <1>6, <2>1
  <2>3. Starts' = Starts /\ HeadLength(log[h])' = HeadLength(log[h])
    BY <1>2 DEF Starts, HeadLength
  <2>4. Seen(h + 1)'
    BY <1>2, <2>1, <2>2, SeenMore
  <2>5. Behind(h)'
    BY <1>2, <2>1, <2>2, <2>3 DEF Behind
  <2>6. \A j \in DOMAIN shown : Regular(shown[j]) => files[R!Name(shown[j])].kind = "file"
    BY <1>2 DEF Present
  <2>7. \A j \in DOMAIN shown' : Regular(shown'[j]) =>
          \/ files[R!Name(shown'[j])].kind = "file"
          \/ R!Name(log[h]) \in wanted /\ shown'[j] = log[h]
    <3>1. CASE R!Name(log[h]) \in wanted
      <4>1. /\ Len(shown) \in Nat /\ DOMAIN shown = 1 .. Len(shown)
            /\ shown' \in Seq(Units) /\ Len(shown') = Len(shown) + 1
            /\ \A n \in 1 .. Len(shown) : shown'[n] = shown[n]
            /\ shown'[Len(shown) + 1] = log[h]
        BY <1>2, <2>1, <2>2, <3>1, AppendProperties, LenProperties
      <4>2. DOMAIN shown' = 1 .. Len(shown) + 1
        BY <4>1, LenProperties
      <4>3. \A j \in DOMAIN shown' : \/ j \in DOMAIN shown /\ shown'[j] = shown[j]
                                     \/ shown'[j] = log[h]
        BY <4>1, <4>2
      <4> QED BY <2>6, <3>1, <4>3
    <3>2. CASE R!Name(log[h]) \notin wanted
      BY <2>2, <2>6, <3>2
    <3> QED BY <3>1, <3>2
  <2>8. CASE R!Name(log[h]) \notin wanted
    <3>1. rpc' = "skip" /\ ~Opening'
      BY <1>2, <2>2, <2>8 DEF R!AfterHeader, Opening
    <3>2. Present'
      BY <1>2, <2>7, <2>8 DEF Present
    <3>3. \E j \in Starts' : Behind(j)' /\ Seen(j + 1)'
      BY <2>3, <2>4, <2>5
    <3> QED BY <3>1, <3>2, <3>3 DEF Passing
  <2>9. CASE R!Name(log[h]) \in wanted /\ log[h].k = "label"
    <3>1. rpc' = "header" /\ ~Opening'
      BY <1>2, <2>2, <2>9 DEF R!AfterHeader, Opening
    <3>2. ~Regular(log[h])
      BY <2>9 DEF Regular
    <3>3. Present'
      BY <1>2, <2>7, <3>2 DEF Present
    <3>4. RoundUp(log[h].s) = 0
      <4>1. Fits(log[h])
        BY <2>1, Frames
      <4>2. log[h].s = 0 /\ R!SkipSize(0) = 0
        BY <2>9, <4>1 DEF Fits, R!SkipSize
      <4> QED BY <4>2, SkipIsRound
    <3>5. PICK c \in Nat : c = Cursor' /\ c = Ending(log, h)
      <4>1. PICK e \in Nat, w \in Nat \ {0}, r \in Nat :
              /\ e = Ending(log, h) /\ w = HeadLength(log[h]) /\ r = RoundUp(log[h].s)
              /\ e = h + w + r
        BY OnlyVolume
      <4>2. e = h + w /\ h \in Nat
        BY <3>4, <4>1, OnlyVolume
      <4> QED BY <2>1, <4>1, <4>2
    <3>6. (c \in Starts \/ c > Len(log)) /\ Due(c) = Due(h + 1)
      BY <3>5, DueBehind
    <3>7. Due(c)' = Due(h + 1)'
      BY <1>2, <2>3, <3>6 DEF Due
    <3>8. Seen(c)'
      BY <2>4, <3>7 DEF Seen
    <3>9. Seen(Cursor)'
      BY <3>5, <3>8 DEF Seen, Due
    <3> QED BY <1>2, <2>3, <3>1, <3>3, <3>5, <3>6, <3>9 DEF Passing
  <2>10. CASE R!Name(log[h]) \in wanted /\ log[h].k # "label"
    <3>1. rpc' \in {"unlink", "restore"} /\ Opening'
      BY <1>2, <2>2, <2>10 DEF R!AfterHeader, Opening
    <3>2. Present'
      BY <1>2, <2>2, <2>7, <3>1 DEF Present
    <3>3. \E j \in Starts' : Behind(j)' /\ Seen(j + 1)' /\ log'[j].k # "label"
      BY <1>2, <2>3, <2>4, <2>5, <2>10
    <3>4. R!Name(header') \in wanted'
      BY <1>2, <2>2, <2>10
    <3> QED BY <3>1, <3>2, <3>3, <3>4 DEF Passing
  <2> QED BY <2>8, <2>9, <2>10
<1> QED BY <1>4, <1>5, <1>6

LEMMA TakeSkip ==
  ASSUME Sound, NoEmptyRest, volume = 1, Restoring, Keeping, Passing, function = "extract",
         UNCHANGED vars, R!Skip, rfaults \in Nat, rfaults' = 0
  PROVE  Passing'
<1>1. PICK result \in R!SkipResults :
        /\ R!SkipFile(result)
        /\ CASE result = "ok" -> rpc' = "header" /\ UNCHANGED <<rfailed, rback>>
             [] result = "end_of_tape" ->
                  rpc' = "prompt" /\ rback' = "skip" /\ UNCHANGED rfailed
             [] result = "error" -> R!Ends(2) /\ UNCHANGED rback
  BY DEF R!Skip
<1>2. /\ rpc = "skip" /\ ~Opening /\ io \in 1 .. volume /\ at \in Nat
      /\ UNCHANGED <<log, volume, function, wanted, files, shown, header>> /\ Present
  BY DEF R!Skip, R!options, vars, fileVars, Opening, Restoring, ReaderOK, Passing
<1>3. PICK h \in Starts : Behind(h) /\ Seen(h + 1)
  BY <1>2 DEF Passing
<1>4. /\ io' = io
      /\ \/ /\ result = "ok"
            /\ \E d \in Nat : /\ d = Ahead(io) + at' + 1
                              /\ (d \in Starts /\ log[d].v = io) \/ (io = volume /\ d > Len(log))
                              /\ Due(d) = Due(h + 1)
         \/ result = "end_of_tape"
  BY <1>1, <1>2, <1>3, SkipStep
<1>5. CASE result = "ok"
  <2>1. PICK d \in Nat : /\ d = Ahead(io) + at' + 1
                         /\ d \in Starts \/ d > Len(log)
                         /\ Due(d) = Due(h + 1)
    BY <1>4, <1>5
  <2>2. Cursor' = d /\ Starts' = Starts
    BY <1>2, <1>4, <2>1, SamePlaces
  <2>3. Seen(d)
    BY <1>3, <2>1 DEF Seen
  <2>4. Seen(d)'
    BY <1>2, <2>3, SeenAgain
  <2>5. Seen(Cursor)'
    BY <2>2, <2>4 DEF Seen, Due
  <2>6. rpc' = "header" /\ ~Opening'
    BY <1>1, <1>5 DEF Opening
  <2>7. Present'
    BY <1>2, PresentAgain
  <2> QED BY <1>2, <2>1, <2>2, <2>5, <2>6, <2>7 DEF Passing
<1>6. CASE result = "end_of_tape"
  <2>1. rpc' = "prompt" /\ ~Opening'
    BY <1>1, <1>6 DEF Opening
  <2>2. Present'
    BY <1>2, PresentAgain
  <2> QED BY <2>1, <2>2 DEF Passing
<1> QED BY <1>4, <1>5, <1>6

(* Behind a header, after a step that does not read. *)
LEMMA BehindStays ==
  ASSUME UNCHANGED <<log, io, at, header, skip_size, function, wanted, shown>>, NEW h \in Starts,
         Behind(h), Seen(h + 1)
  PROVE  h \in Starts' /\ Behind(h)' /\ Seen(h + 1)'
<1>1. Starts' = Starts /\ Cursor' = Cursor
  BY SamePlaces DEF Cursor
<1>2. Behind(h)'
  BY <1>1 DEF Behind, HeadLength
<1>3. PICK c : c = h + 1
  OBVIOUS
<1>4. Seen(c)'
  BY <1>3, SeenAgain
<1> QED BY <1>1, <1>2, <1>3, <1>4 DEF Seen, Due

(* What is put at the name of the header that is opened. *)
LEMMA PresentMore ==
  ASSUME DOMAIN files = R!Names, NEW n \in R!Names, NEW T, files' = [files EXCEPT ![n] = T],
         UNCHANGED <<shown, header>>, n = R!Name(header), Present, Opening,
         T.kind = "file" \/ Opening'
  PROVE  Present' /\ DOMAIN files' = R!Names /\ files'[n] = T
<1>1. DOMAIN files' = R!Names /\ files'[n] = T /\ \A m \in R!Names : m # n => files'[m] = files[m]
  OBVIOUS
<1>2. \A m : m \notin R!Names => files'[m] = files[m]
  OBVIOUS
<1> QED BY <1>1, <1>2 DEF Present

LEMMA TakeUnlink ==
  ASSUME Sound, Restoring, Keeping, Passing, UNCHANGED vars, R!UnlinkFirst
  PROVE  Passing'
<1>1. /\ rpc = "unlink" /\ rpc' = "restore" /\ Opening /\ Opening' /\ Busy /\ Present
      /\ UNCHANGED <<log, io, at, header, skip_size, function, wanted, shown>>
  BY DEF R!UnlinkFirst, R!options, vars, fileVars, Opening, Busy, Passing
<1>2. R!Name(header) \in wanted
  BY <1>1 DEF Passing
<1>3. PICK h \in Starts : Behind(h) /\ Seen(h + 1) /\ log[h].k # "label"
  BY <1>1 DEF Passing
<1>4. h \in Starts' /\ Behind(h)' /\ Seen(h + 1)' /\ log'[h].k # "label"
  BY <1>1, <1>3, BehindStays
<1>5. R!Name(header) \in R!Names /\ DOMAIN files = R!Names
  <2>1. header.k \in {"hdr", "cont", "link"} /\ \E j \in DOMAIN log : header = log[j]
    BY <1>1 DEF Restoring
  <2> QED BY <2>1, NameKnown DEF Sound, Keeping
<1>6. Present'
  <2>1. CASE files' = files
    BY <1>1, <2>1, PresentAgain
  <2>2. CASE files' = [files EXCEPT ![R!Name(header)] = R!Empty("none")]
    BY <1>1, <1>5, <2>2, PresentMore
  <2> QED BY <2>1, <2>2 DEF R!UnlinkFirst
<1>7. R!Name(header') \in wanted'
  BY <1>1, <1>2
<1>8. \E j \in Starts' : Behind(j)' /\ Seen(j + 1)' /\ log'[j].k # "label"
  BY <1>4
<1> QED BY <1>1, <1>6, <1>7, <1>8 DEF Passing

(* What is not a regular file has no other header with its name that is. *)
LEMMA TakeNode ==
  ASSUME NamesTell, Sound, volume = 1, Restoring, Keeping, Passing, function = "extract",
         UNCHANGED vars, R!MakeNode
  PROVE  Passing'
<1>1. /\ rpc = "restore" /\ rpc' = "header" /\ Opening /\ ~Opening' /\ Busy /\ Present
      /\ ~R!IsRegular(header)
      /\ UNCHANGED <<log, volume, io, at, header, skip_size, function, wanted, shown>>
  BY DEF R!MakeNode, R!options, vars, fileVars, Opening, Busy, Passing
<1>2. PICK h \in Starts : Behind(h) /\ Seen(h + 1) /\ log[h].k # "label"
  BY <1>1 DEF Passing
<1>3. R!Name(header) \in R!Names /\ DOMAIN files = R!Names
  <2>1. header.k \in {"hdr", "cont", "link"} /\ \E j \in DOMAIN log : header = log[j]
    BY <1>1 DEF Restoring
  <2> QED BY <2>1, NameKnown DEF Sound, Keeping
<1>4. Present'
  <2> SUFFICES ASSUME NEW j \in DOMAIN shown, Regular(shown[j])
               PROVE  files'[R!Name(shown[j])].kind = "file"
    BY <1>1 DEF Present
  <2>1. PICK n : n = R!Name(shown[j])
    OBVIOUS
  <2>2. n \in R!Names /\ n # R!Name(header)
    BY <1>1, <2>1, ShownIs DEF Sound
  <2>3. files[n].kind = "file"
    BY <2>1, <2>2 DEF Present, Passing
  <2>4. files'[n] = files[n]
    BY <1>3, <2>2 DEF R!MakeNode
  <2> QED BY <2>1, <2>3, <2>4
<1>5. /\ log[h].s = 0 /\ RoundUp(log[h].s) = 0
  <2>1. log[h] = header /\ Fits(log[h]) /\ IsHead(log[h])
    BY <1>2, HeaderFacts, Frames DEF Behind
  <2>2. log[h].k = "hdr" /\ Entries[log[h].f].kind # "reg"
    BY <1>1, <1>2, <2>1 DEF R!IsRegular, IsHead
  <2>3. log[h].s = 0 /\ R!SkipSize(0) = 0
    BY <2>1, <2>2 DEF Fits, SizeOf, R!SkipSize
  <2> QED BY <2>3, SkipIsRound
<1>6. PICK c \in Nat : c = Cursor /\ c = Ending(log, h)
  <2>1. PICK e \in Nat, w \in Nat \ {0}, r \in Nat :
          /\ e = Ending(log, h) /\ w = HeadLength(log[h]) /\ r = RoundUp(log[h].s)
          /\ e = h + w + r
    BY OnlyVolume
  <2>2. e = h + w /\ h \in Nat
    BY <1>5, <2>1, OnlyVolume
  <2> QED BY <1>2, <2>1, <2>2 DEF Behind
<1>7. (c \in Starts \/ c > Len(log)) /\ Due(c) = Due(h + 1)
  BY <1>6, DueBehind
<1>8. Seen(c)
  BY <1>2, <1>7 DEF Seen
<1>9. Seen(c)' /\ Starts' = Starts /\ Cursor' = c
  BY <1>1, <1>6, <1>8, SeenAgain, SamePlaces DEF Cursor
<1>10. Seen(Cursor)'
  BY <1>9 DEF Seen, Due
<1> QED BY <1>1, <1>4, <1>7, <1>9, <1>10 DEF Passing

LEMMA TakeOpen ==
  ASSUME Sound, volume = 1, Restoring, Keeping, Passing, UNCHANGED vars, R!OpenFile
  PROVE  (Passing \/ (rpc = "done" /\ Blocked))'
<1>1. /\ rpc = "restore" /\ Opening /\ Busy /\ Present /\ R!IsRegular(header) /\ rfailed < 0
      /\ UNCHANGED <<log, volume, io, at, header, skip_size, file_size, function, wanted, shown>>
  BY DEF R!OpenFile, R!options, R!readerVars, vars, fileVars, Opening, Busy, Passing, Keeping
<1>2. PICK h \in Starts : Behind(h) /\ Seen(h + 1) /\ log[h].k # "label"
  BY <1>1 DEF Passing
<1>3. h \in Starts' /\ Behind(h)' /\ Seen(h + 1)' /\ header = log[h] /\ log' = log
  BY <1>1, <1>2, BehindStays DEF Behind
<1>4. PICK n \in R!Names : n = R!Name(header) /\ n \in wanted
  <2>1. header.k \in {"hdr", "cont", "link"} /\ \E j \in DOMAIN log : header = log[j]
    BY <1>1 DEF Restoring
  <2>2. R!Name(header) \in R!Names
    BY <2>1, NameKnown DEF Sound
  <2> QED BY <1>1, <2>2 DEF Passing
<1>5. header.p = 0
  <2>1. Fits(log[h]) /\ IsHead(log[h]) /\ log[h].k # "cont"
    BY OnlyVolume, HeaderFacts, Frames
  <2> QED BY <1>2, <1>3, <2>1 DEF Fits, IsHead
<1>6. CASE files[n].kind = "dir"
  <2>1. rpc' = "done" /\ files' = files
    BY <1>4, <1>6 DEF R!OpenFile, R!Ends, R!There
  <2>2. Blocked'
    BY <1>1, <1>3, <1>4, <1>6, <2>1 DEF Blocked
  <2> QED BY <2>1, <2>2
<1>7. CASE files[n].kind # "dir"
  <2>1. files' = [files EXCEPT ![n] = R!Empty("file")] /\ rpc' = "data" /\ rfailed' = rfailed
    BY <1>4, <1>5, <1>7 DEF R!OpenFile, R!There
  <2>2. Present' /\ ~Opening'
    BY <1>1, <1>4, <2>1, PresentMore, EmptyIs DEF Keeping, Opening
  <2>3. Onward(h)'
    <3>1. PICK e \in Nat, w \in Nat \ {0}, r \in Nat :
            /\ e = Ending(log, h) /\ w = HeadLength(log[h]) /\ r = RoundUp(log[h].s)
            /\ e = h + w + r
      BY OnlyVolume
    <3>2. Cursor = h + w /\ skip_size = r
      BY <1>2, <3>1 DEF Behind
    <3>3. file_size = 0 => skip_size = 0
      <4>1. file_size = log[h].s
        BY <1>1, <1>3 DEF Restoring
      <4>2. R!SkipSize(0) = 0 /\ log[h].s \in Nat
        BY HeaderFacts DEF R!SkipSize
      <4>3. log[h].s = 0 => r = 0
        BY <3>1, <4>2, SkipIsRound
      <4> QED BY <3>2, <4>1, <4>3
    <3>4. Cursor + skip_size = e
      BY <3>1, <3>2
    <3>5. Cursor' = Cursor /\ Ending(log, h)' = e
      BY <1>1, <3>1, SamePlaces DEF Cursor
    <3> QED BY <1>1, <3>3, <3>4, <3>5 DEF Onward
  <2>4. \E j \in Starts' : header' = log'[j] /\ Seen(j + 1)' /\ Onward(j)'
    BY <1>1, <1>3, <2>3
  <2> QED BY <1>1, <2>1, <2>2, <2>4 DEF Passing
<1> QED BY <1>6, <1>7

LEMMA TakeRead ==
  ASSUME Sound, volume = 1, Restoring, Keeping, Passing, UNCHANGED vars, R!ReadContent,
         rfaults \in Nat, rfaults' = 0, ~misled
  PROVE  Passing'
<1>1. PICK r \in R!ReadResults(BufferSize) :
        /\ R!Read(r)
        /\ rpc' = IF r.n > 0 THEN "write" ELSE IF r.n = 0 THEN "prompt" ELSE rpc
  BY DEF R!ReadContent
<1>2. /\ rpc = "data" /\ ~Opening /\ Busy /\ Present /\ rfailed < 0 /\ total < header.s
      /\ ReaderOK /\ Readable
      /\ UNCHANGED <<log, volume, function, wanted, files, shown, header, rfailed>>
  BY DEF R!ReadContent, R!More, R!options, vars, fileVars, Opening, Busy, Passing, Restoring,
         Sound
<1>3. PICK h \in Starts : header = log[h] /\ Seen(h + 1) /\ Onward(h)
  BY <1>2 DEF Passing
<1>4. PICK z \in Nat, d \in Nat, s \in Nat :
        z = at /\ d = file_size /\ s = skip_size /\ d <= s /\ d > 0
  <2>1. header.k # "cont" /\ header.s \in Nat /\ total \in Int
    BY <1>2, <1>3, OnlyVolume, HeaderFacts DEF Restoring
  <2>2. total + file_size = header.s
    BY <1>2, <2>1 DEF Restoring
  <2> QED BY <1>2, <2>1, <2>2 DEF ReaderOK
<1>5. PICK n \in Nat : n = Len(log) /\ Ahead(2) = n
  BY OnlyVolume
<1>6. /\ io = 1 /\ io + 1 = 2 /\ Ahead(io) = 0 /\ Ahead(io + 1) = n
      /\ Cursor = z + 1 /\ Len(R!Volume) = n
      /\ R!Left = IF z + 1 <= n THEN n + 1 - (z + 1) ELSE 0
  <2>1. io = 1 /\ io + 1 = 2 /\ Ahead(io) = 0 /\ Ahead(io + 1) = n
    BY <1>2, <1>5, Frames DEF ReaderOK
  <2>2. Cursor = z + 1
    BY <1>4, <2>1 DEF Cursor
  <2> QED BY <1>2, <1>4, <2>1, <2>2, HereAt DEF ReaderOK
<1>7. PICK k \in Nat : /\ r = [n |-> k, fault |-> "none"] /\ k = R!Taken(r)
                       /\ k <= d /\ k <= R!Left
  <2>1. r.fault = "none"
    BY <1>1 DEF R!Read
  <2>2. r = [n |-> R!AtMost(BufferSize), fault |-> "none"]
    BY <1>1, <1>4, <2>1 DEF R!ReadResults
  <2>3. R!Left \in Nat
    BY <1>2, HereIs
  <2>4. PICK k \in Nat : k = R!AtMost(BufferSize) /\ k <= d /\ k <= R!Left
    BY <1>4, <2>3, RoundTripAssumption DEF R!AtMost, R!Fewer
  <2> QED BY <2>2, <2>4 DEF R!Taken
<1>8. rpc' = (IF k > 0 THEN "write" ELSE "prompt") /\ io' = io /\ ~Opening'
  BY <1>1, <1>7 DEF R!Read, Opening
<1>9. Present'
  BY <1>2, PresentAgain
<1>10. CASE k = 0
  BY <1>8, <1>9, <1>10 DEF Passing, Opening
<1>11. CASE k > 0
  <2>1. PICK e \in Nat : e = Ending(log, h)
    BY OnlyVolume
  <2>2. z + 1 + s = e /\ z + 1 + k <= n + 1
    <3>1. Cursor <= n
      BY <1>6, <1>7, <1>11
    <3>2. Cursor + skip_size = e
      BY <1>3, <1>4, <1>5, <1>6, <2>1, <3>1 DEF Onward
    <3> QED BY <1>4, <1>6, <1>7, <1>11, <3>2
  <2>3. PICK left \in Nat : left = s - k /\ left = skip_size - k
    BY <1>4, <1>7
  <2>4. file_size' = d - k
    BY <1>1, <1>4, <1>7 DEF R!Read
  <2>5. PICK y : y = at'
    OBVIOUS
  <2>6. \/ y = z + k /\ skip_size' = left /\ (d - k = 0 => left = 0)
        \/ y = z + k + left /\ skip_size' = 0
        \/ y = n /\ n < z + k + left
    <3>1. CASE d - k > 0 \/ left = 0
      <4>1. at' = at + k /\ skip_size' \in {left, 0} /\ (d - k > 0 => skip_size' = left)
        BY <1>1, <1>4, <1>7, <2>3, <2>4, <3>1 DEF R!Read, R!HasPadding
      <4> QED BY <1>4, <1>7, <2>3, <2>5, <3>1, <4>1
    <3>2. CASE d - k = 0 /\ left > 0
      <4>1. /\ at' = R!ForwardTo(at + k, left)
            /\ skip_size' = IF at' = at + k + left THEN 0 ELSE left
        BY <1>1, <1>4, <1>7, <2>3, <2>4, <3>2 DEF R!Read, R!HasPadding
      <4>2. R!ForwardTo(at + k, left) \in {at + k + left, n}
            /\ (R!ForwardTo(at + k, left) # at + k + left => n < at + k + left)
        BY <1>6 DEF R!ForwardTo
      <4> QED BY <1>4, <2>5, <4>1, <4>2
    <3> QED BY <1>4, <1>7, <2>3, <3>1, <3>2
  <2>7. Starts' = Starts /\ Cursor' = y + 1 /\ Ending(log, h)' = e /\ Len(log') = n
    <3>1. Starts' = Starts /\ Cursor' = 0 + y + 1 /\ Ending(log, h)' = e
      BY <1>2, <1>6, <1>8, <2>1, <2>5, SamePlaces
    <3>2. y \in Int
      BY <1>4, <1>7, <2>3, <2>6
    <3> QED BY <1>2, <1>5, <3>1, <3>2
  <2>8. PICK x : x = skip_size'
    OBVIOUS
  <2>9. \/ y + 1 + x = e /\ (d - k = 0 => x = 0)
        \/ y + 1 > n /\ e > n
    BY <1>4, <1>7, <2>2, <2>3, <2>6, <2>8
  <2>10. Onward(h)'
    BY <2>4, <2>7, <2>8, <2>9 DEF Onward
  <2>11. Seen(h + 1)'
    <3>1. PICK c : c = h + 1
      OBVIOUS
    <3>2. Seen(c)'
      BY <1>2, <1>3, <3>1, SeenAgain
    <3> QED BY <3>1, <3>2 DEF Seen, Due
  <2>12. \E j \in Starts' : header' = log'[j] /\ Seen(j + 1)' /\ Onward(j)'
    BY <1>2, <1>3, <2>7, <2>10, <2>11
  <2>13. rpc' = "write" /\ rfailed' < 0
    BY <1>2, <1>8, <1>11
  <2> QED BY <1>8, <1>9, <2>12, <2>13 DEF Passing
<1> QED BY <1>10, <1>11

LEMMA TakeWrite ==
  ASSUME Sound, Restoring, Keeping, Passing, function = "extract", UNCHANGED vars,
         R!WriteContent
  PROVE  Passing'
<1>1. /\ rpc = "write" /\ rpc' = "data" /\ ~Opening /\ ~Opening' /\ Busy /\ Present
      /\ rfailed < 0
      /\ UNCHANGED <<log, function, wanted, shown, header, rfailed, io, at, file_size,
                     skip_size>>
  BY DEF R!WriteContent, R!options, vars, fileVars, Opening, Busy, Passing
<1>2. PICK h \in Starts : header = log[h] /\ Seen(h + 1) /\ Onward(h)
  BY <1>1 DEF Passing
<1>3. PICK n \in R!Names : n = R!Name(header)
  <2>1. header.k \in {"hdr", "cont", "link"} /\ \E j \in DOMAIN log : header = log[j]
    BY <1>1 DEF Restoring
  <2> QED BY <2>1, NameKnown DEF Sound
<1>4. PICK C \in Seq(Piece) : files[n] = RegularFile(C)
  BY <1>1, <1>3 DEF Keeping
<1>5. PICK D : files' = [files EXCEPT ![n].content = @ \o D]
  BY <1>3 DEF R!WriteContent
<1>6. PICK T : files' = [files EXCEPT ![n] = T] /\ T = [files[n] EXCEPT !.content = @ \o D]
  BY <1>5
<1>7. T.kind = "file"
  BY <1>4, <1>6 DEF RegularFile
<1>8. DOMAIN files = R!Names
  BY DEF Keeping
<1>9. \A m : files'[m].kind = "file" \/ files'[m] = files[m]
  BY <1>6, <1>7, <1>8
<1>10. Present'
  BY <1>1, <1>9 DEF Present
<1>11. Starts' = Starts /\ Cursor' = Cursor /\ Ending(log, h)' = Ending(log, h)
  BY <1>1, SamePlaces DEF Cursor
<1>12. Onward(h)'
  BY <1>1, <1>2, <1>11 DEF Onward
<1>13. Seen(h + 1)'
  <2>1. PICK c : c = h + 1
    OBVIOUS
  <2>2. Seen(c)'
    BY <1>1, <1>2, <2>1, SeenAgain
  <2> QED BY <2>1, <2>2 DEF Seen, Due
<1>14. \E j \in Starts' : header' = log'[j] /\ Seen(j + 1)' /\ Onward(j)'
  BY <1>1, <1>2, <1>11, <1>12, <1>13
<1> QED BY <1>1, <1>10, <1>14 DEF Passing

(* All that was announced is read. *)
LEMMA TakeClose ==
  ASSUME Sound, volume = 1, Restoring, Keeping, Passing, function = "extract",
         UNCHANGED vars, R!CloseFile, ~misled
  PROVE  Passing'
<1>1. /\ rpc = "data" /\ ~(total < header.s) /\ ~Opening /\ Busy /\ Present /\ rfailed < 0
      /\ ReaderOK
      /\ UNCHANGED <<log, volume, function, wanted, files, shown, header, rfailed, io, at>>
  BY DEF R!CloseFile, R!More, R!options, R!readerVars, vars, fileVars, Opening, Busy,
         Passing, Restoring
<1>2. rpc' = "header" /\ ~Opening'
  BY <1>1 DEF R!CloseFile, Opening
<1>3. PICK h \in Starts : header = log[h] /\ Seen(h + 1) /\ Onward(h)
  BY <1>1 DEF Passing
<1>4. file_size = 0
  <2>1. header.k # "cont" /\ header.s \in Nat /\ total \in Int /\ file_size \in Nat
    BY <1>1, <1>3, OnlyVolume, HeaderFacts DEF Restoring, ReaderOK
  <2>2. total + file_size = header.s
    BY <1>1, <2>1 DEF Restoring
  <2> QED BY <1>1, <2>1, <2>2
<1>5. PICK c \in Nat : c = Cursor
  BY <1>1, HereAt DEF ReaderOK
<1>6. c = Ending(log, h) \/ (c > Len(log) /\ Ending(log, h) > Len(log))
  BY <1>3, <1>4, <1>5 DEF Onward
<1>7. (c \in Starts \/ c > Len(log)) /\ Due(c) = Due(h + 1)
  BY <1>6, DueBehind
<1>8. Seen(c)
  BY <1>3, <1>7 DEF Seen
<1>9. Seen(c)' /\ Starts' = Starts /\ Cursor' = c
  BY <1>1, <1>5, <1>8, SeenAgain, SamePlaces DEF Cursor
<1>10. Seen(Cursor)'
  BY <1>9 DEF Seen, Due
<1>11. Present'
  BY <1>1, PresentAgain
<1> QED BY <1>1, <1>2, <1>7, <1>9, <1>10, <1>11 DEF Passing

(* No answer lets it go on. *)
LEMMA TakeReply ==
  ASSUME volume = 1, io \in 1 .. volume, History, Right',
         R!SameName \/ R!NewName \/ R!BadName \/ R!PromptEnds \/ R!PromptQuits
  PROVE  FALSE
<1>1. ASSUME NEW how, R!Reply(how) PROVE how \in {"same", "name"}
  <2>1. R!Said(how)'
    BY <1>1, Replied DEF History
  <2> QED BY <2>1 DEF R!Said, Right
<1>2. io < Len(Volumes)
  BY <1>1 DEF R!SameName, R!NewName, R!BadName, R!PromptEnds, R!PromptQuits
<1>3. Len(Volumes) = 1 /\ io = 1
  BY DEF Volumes
<1> QED BY <1>2, <1>3

LEMMA StepTake ==
  ASSUME NamesTell, Sound, NoEmptyRest, volume = 1, Restoring, Keeping, History, Right',
         function = "extract", UNCHANGED vars, R!RestoreNext, rfaults = 0, rfaults' = 0, ~misled,
         Passing \/ (rpc = "done" /\ Blocked)
  PROVE  misled' = misled /\ (Passing \/ (rpc = "done" /\ Blocked))'
<1>1. io \in 1 .. volume /\ rfaults \in Nat
  BY DEF Restoring, ReaderOK
<1>2. ~(R!SameName \/ R!NewName \/ R!BadName \/ R!PromptEnds \/ R!PromptQuits)
  BY <1>1, TakeReply
<1>3. ~R!OpenFails
  BY DEF R!OpenFails
<1>4. rpc # "done"
  BY <1>2, <1>3 DEF R!RestoreNext, R!NextHeader, R!Skip, R!UnlinkFirst, R!OpenFile, R!MakeNode,
                    R!ReadContent, R!WriteContent, R!CloseFile, R!Continue
<1>5. Passing
  BY <1>4
<1>6. ~R!Continue
  BY <1>5 DEF R!Continue, Passing
<1>7. CASE R!OpenFile
  BY <1>5, <1>7, TakeOpen DEF R!OpenFile
<1>8. misled' = misled
  BY <1>2, <1>3, <1>6 DEF R!RestoreNext, R!NextHeader, R!Skip, R!UnlinkFirst, R!OpenFile,
                          R!MakeNode, R!ReadContent, R!WriteContent, R!CloseFile
<1> QED BY <1>1, <1>2, <1>3, <1>5, <1>6, <1>7, <1>8, TakeHeader, TakeSkip, TakeUnlink, TakeNode,
           TakeRead, TakeWrite, TakeClose DEF R!RestoreNext

(* Nothing happens. *)
LEMMA TakeStays ==
  ASSUME UNCHANGED <<vars, readVars>>
  PROVE  (Passing => Passing') /\ (rpc = "done" /\ Blocked => (rpc = "done" /\ Blocked)')
<1>1. UNCHANGED <<log, volume, function, wanted, files, shown, header, rpc, rfailed, io, at,
                  file_size, skip_size>>
  BY DEF vars, fileVars, readVars
<1>2. Starts' = Starts /\ Cursor' = Cursor /\ \A j : Ending(log, j)' = Ending(log, j)
  BY <1>1, SamePlaces DEF Cursor
<1>3. ASSUME NEW c, Seen(c) PROVE Seen(c)'
  BY <1>1, <1>3, SeenAgain
<1>4. ASSUME NEW c, Onward(c) PROVE Onward(c)'
  BY <1>1, <1>2, <1>4 DEF Onward
<1>5. ASSUME NEW c, Behind(c) PROVE Behind(c)'
  BY <1>1, <1>2, <1>5 DEF Behind, HeadLength
<1>6. ASSUME Passing PROVE Passing'
  <2>1. Present'
    BY <1>1, <1>6, PresentAgain DEF Opening, Passing
  <2>2. rpc' = "header" => (Cursor' \in Starts' \/ Cursor' > Len(log')) /\ Seen(Cursor)'
    <3> SUFFICES ASSUME rpc = "header"
                 PROVE  (Cursor' \in Starts' \/ Cursor' > Len(log')) /\ Seen(Cursor)'
      BY <1>1
    <3>1. PICK c : c = Cursor
      OBVIOUS
    <3>2. (c \in Starts \/ c > Len(log)) /\ Seen(c)
      BY <1>6, <3>1 DEF Passing
    <3>3. Seen(c)' /\ Cursor' = c
      BY <1>2, <1>3, <3>1, <3>2
    <3>4. Seen(Cursor)'
      BY <3>3 DEF Seen, Due
    <3> QED BY <1>1, <1>2, <3>2, <3>3, <3>4
  <2>3. ASSUME NEW h, Seen(h + 1) PROVE Seen(h + 1)'
    <3>1. PICK c : c = h + 1
      OBVIOUS
    <3>2. Seen(c)'
      BY <1>3, <2>3, <3>1
    <3> QED BY <3>1, <3>2 DEF Seen, Due
  <2>4. rpc' = "skip" => \E h \in Starts' : Behind(h)' /\ Seen(h + 1)'
    BY <1>1, <1>2, <1>5, <1>6, <2>3 DEF Passing
  <2>5. Opening' => /\ R!Name(header') \in wanted'
                    /\ \E h \in Starts' : Behind(h)' /\ Seen(h + 1)' /\ log'[h].k # "label"
    BY <1>1, <1>2, <1>5, <1>6, <2>3 DEF Passing, Opening
  <2>6. rpc' \in {"data", "write"} =>
          rfailed' < 0 /\ \E h \in Starts' : header' = log'[h] /\ Seen(h + 1)' /\ Onward(h)'
    BY <1>1, <1>2, <1>4, <1>6, <2>3 DEF Passing
  <2>7. rpc' = "done" => rfailed' = 0 /\ Seen(Len(log) + 1)'
    <3> SUFFICES ASSUME rpc = "done" PROVE rfailed' = 0 /\ Seen(Len(log) + 1)'
      BY <1>1
    <3>1. PICK c : c = Len(log) + 1
      OBVIOUS
    <3>2. Seen(c)' /\ Len(log') + 1 = c
      BY <1>1, <1>3, <1>6, <3>1 DEF Passing
    <3> QED BY <1>1, <1>6, <3>2 DEF Passing, Seen, Due
  <2> QED BY <1>1, <1>6, <2>1, <2>2, <2>4, <2>5, <2>6, <2>7 DEF Passing
<1>7. Blocked => Blocked'
  BY <1>1, <1>2 DEF Blocked
<1> QED BY <1>1, <1>6, <1>7

LEMMA FreshTake == Laid /\ NotYet => TakeInv
<1> SUFFICES ASSUME Laid, NotYet, Given, volume = 1, function = "extract" PROVE Passing
  BY DEF TakeInv, NotYet
<1>1. Sound
  BY LaidSound DEF Given
<1>2. io = 1 /\ at = 0 /\ shown = <<>> /\ rpc = "header"
  BY DEF NotYet
<1>3. Present
  BY <1>2 DEF Present
<1>4. Cursor = 1
  BY <1>1, <1>2, FirstPlace DEF Cursor
<1>5. 1 \in Starts \/ 1 > Len(log)
  BY <1>1, <1>2, FirstPlace
<1>6. Seen(Cursor)
  <2>1. Due(1) = {}
    BY <1>1, HeaderFacts DEF Due
  <2> QED BY <1>4, <2>1 DEF Seen
<1> QED BY <1>2, <1>3, <1>4, <1>5, <1>6 DEF Passing, Opening

LEMMA NextTake ==
  ASSUME NamesTell, Made, RestoreInv, WholeInv, NeverNamed, Laid, Waiting, History, TakeInv,
         [RoundTripNext]_<<vars, readVars>>
  PROVE  TakeInv' \/ NotYet'
<1> SUFFICES ASSUME ~NotYet', Given', volume' = 1, function' = "extract"
             PROVE  ~misled' /\ (Passing \/ (rpc = "done" /\ Blocked))'
  BY DEF TakeInv
<1>1. CASE UNCHANGED <<vars, readVars>>
  <2>1. Given
    BY <1>1, GivenBefore
  <2>2. volume = 1 /\ function = "extract"
    BY <1>1 DEF vars, fileVars, readVars
  <2> QED BY <1>1, <2>1, <2>2, TakeStays DEF TakeInv, readVars
<1>2. CASE VerifyArchive
  BY <1>2 DEF VerifyArchive
<1>3. CASE ReadArchive
  <2>1. UNCHANGED vars /\ R!RestoreNext /\ function = "extract" /\ volume = 1
    BY <1>3, ExtractStays DEF ReadArchive, vars, fileVars
  <2>2. Given
    BY <2>1, GivenBefore
  <2>3. Sound /\ NoEmptyRest /\ resizes = 0 /\ rfaults = 0
    BY <2>2, LaidSound DEF Given, Undisturbed
  <2>4. ~misled /\ (Passing \/ (rpc = "done" /\ Blocked))
    BY <2>1, <2>2 DEF TakeInv
  <2>5. Restoring /\ Keeping
    BY <2>1, <2>3, <2>4 DEF RestoreInv, WholeInv, NeverNamed
  <2>6. rfaults' = 0 /\ Right'
    BY DEF Given
  <2> QED BY <2>1, <2>3, <2>4, <2>5, <2>6, StepTake
<1> QED BY <1>1, <1>2, <1>3, Elsewhere DEF Made

LEMMA TakeHolds == ASSUME NamesTell PROVE RoundTripSpec => []TakeInv
<1>1. RoundTripSpec => []RestoreInv
  BY RestoringHolds
<1>2. RoundTripSpec => []WholeInv
  BY KeepingHolds
<1>3. RoundTripSpec => []NeverNamed
  BY NamedHolds
<1>4. RoundTripInit => NotYet
  BY InitNotYet
<1>5. Made /\ RestoreInv /\ WholeInv /\ NeverNamed /\ Laid /\ Waiting /\ History /\ TakeInv
        /\ [RoundTripNext]_<<vars, readVars>> => TakeInv' \/ NotYet'
  BY NextTake
<1> QED BY <1>1, <1>2, <1>3, <1>4, <1>5, FreshTake, MadeHolds, LaidHolds, WaitingHolds,
           HistoryHolds, PTL DEF RoundTripSpec

(* From an archive on one volume every regular file that was asked for is   *)
(* there in the end with all of its content, unless a directory is where it *)
(* is to be opened: extract goes from header to header (reader.c:321-326,   *)
(* extract.c:125-302) and neither passes over one nor writes over a file it *)
(* has made.                                                                *)
THEOREM OneVolumeTaken == ASSUME NamesTell PROVE RoundTripSpec => []OneVolumeRestored
<1>1. Laid /\ Waiting /\ WholeInv /\ NeverNamed /\ TakeInv => OneVolumeRestored
  <2> SUFFICES ASSUME Laid, Waiting, WholeInv, NeverNamed, TakeInv, volume = 1, Undisturbed,
                      Extracted, NEW e \in inode, Entries[e].kind = "reg",
                      Entries[e].name \in wanted
               PROVE  /\ files[Entries[e].name].kind = "file"
                      /\ Len(files[Entries[e].name].content) = size[Entries[e].ino]
    BY DEF OneVolumeRestored, AllRestored
  <2>1. rpc = "done" /\ function = "extract" /\ rfaults = 0 /\ Right /\ resizes = 0
    BY DEF Extracted, Undisturbed
  <2>2. pc = "done" /\ cuts = 0
    <3>1. cuts \in Nat
      BY DEF Undisturbed, Laid, IInv, TypeOK
    <3> QED BY <2>1, <3>1 DEF Waiting, NotYet
  <2>3. Sound
    BY <2>2, LaidSound
  <2>4. NoEmptyRest
    BY <2>3, OnlyVolume DEF NoEmptyRest
  <2>5. Given
    BY <2>1, <2>2, <2>4 DEF Given
  <2>6. ~Blocked
    BY DEF Extracted, Blocked
  <2>7. Passing /\ Keeping
    BY <2>1, <2>5, <2>6 DEF TakeInv, WholeInv, NeverNamed
  <2>8. PICK h \in Starts : log[h].k = "hdr" /\ log[h].f = e
    <3>1. HasHdr(log, e)
      BY <2>2 DEF Laid, Undisturbed, LinkInv, LinksRight, Settled
    <3> QED BY <3>1, StartsAre DEF HasHdr, IsHead
  <2>9. R!Name(log[h]) = Entries[e].name /\ Regular(log[h]) /\ log[h].s = size[Entries[e].ino]
    <3>1. Fits(log[h]) /\ e \in 1 .. Len(Entries)
      BY <2>3, HeaderFacts, Frames DEF Sound, Readable
    <3> QED BY <2>8, <3>1 DEF R!Name, R!Short, Regular, R!IsRegular, Fits, SizeOf
  <2>10. PICK j \in DOMAIN shown : shown[j] = log[h]
    <3>1. h \in 1 .. Len(log) /\ Len(log) \in Nat
      BY <2>3, OnlyVolume
    <3>2. h \in Due(Len(log) + 1)
      BY <2>1, <3>1 DEF Due
    <3> QED BY <2>1, <2>7, <2>9, <3>2 DEF Passing, Seen
  <2>11. files[R!Name(log[h])].kind = "file"
    BY <2>1, <2>7, <2>9, <2>10 DEF Passing, Present, Opening
  <2>12. Filled(log[h])
    <3>1. ~InHand
      BY <2>1, <2>7 DEF InHand, Busy, Passing
    <3> QED BY <2>7, <2>9, <2>10, <3>1 DEF Keeping
  <2> QED BY <2>9, <2>11, <2>12 DEF Filled, R!Written
<1>2. RoundTripSpec => []WholeInv
  BY KeepingHolds
<1>3. RoundTripSpec => []NeverNamed
  BY NamedHolds
<1>4. RoundTripSpec => []TakeInv
  BY TakeHolds
<1> QED BY <1>1, <1>2, <1>3, <1>4, LaidHolds, WaitingHolds, PTL
=============================================================================
