----------------------------- MODULE MCMtfReader -----------------------------
(* Archives for MtfReader: whole ones, one with an empty stream of content,  *)
(* cut ones, and something else.                                             *)
EXTENDS MtfReader, SequencesExt

Fill(n) == [j \in 1 .. n |-> Data]

Padding(n, to) == (to - (n % to)) % to

Block(k, id) == <<Unit(k, id, 0)>> \o Fill(Boundary - 1)

AddStream(units, s) ==
    LET begun == units \o <<s>> \o Fill(StreamHead - 1 + s.len)
    IN  begun \o Fill(Padding(Len(begun), StreamAlign))

(* A file: its block, `gap' units, its streams, and the pad.                 *)
File(id, gap, streams) ==
    LET first == BlockHead + FileHead + NameLength + gap
        units == FoldLeft(AddStream, <<Unit("file", id, first)>> \o Fill(first - 1), streams)
        pad == Padding(Len(units) + StreamHead, Boundary)
    IN  units \o <<Unit("spad", 0, pad)>> \o Fill(StreamHead - 1 + pad)

Stan(n) == Unit("stan", 0, n)
Other(n) == Unit("other", 0, n)

Tape == Block("tape", 0)
Dir(d) == Block("dirb", d)
End == Block("espb", 0)

Exactly(units) == SubSeq(units \o Fill(Size), 1, Size)

Written ==
    {Exactly(Tape \o Dir(1) \o Dir(2) \o File(2, 0, <<Stan(2), Other(1)>>) \o File(1, 0, <<>>) \o End),
     Exactly(Dir(1) \o File(1, 0, <<Other(1), Stan(3)>>) \o File(1, 2, <<Stan(1)>>) \o End),
     Exactly(Dir(2) \o File(2, 0, <<Stan(0)>>) \o End)}

CutShort ==
    {Exactly(lead \o File(1, 0, <<Stan(5), Other(4), Other(4), Other(4), Other(4), Stan(4)>>)) :
        lead \in {Dir(1) \o Dir(2), Tape \o Dir(1) \o Dir(2), Tape \o Tape \o Dir(1) \o Dir(2)}}
    \cup {Exactly(Dir(1) \o Dir(2) \o Tape \o Tape \o Tape \o File(2, 0, <<Stan(6)>>) \o Dir(1)),
          Exactly(Dir(1) \o Dir(2) \o File(1, 0, <<Stan(1)>>) \o Tape \o File(1, 0, <<Other(6), Stan(1)>>))}

MtfArchives == Written \cup CutShort \cup {Fill(Size)}
=============================================================================
