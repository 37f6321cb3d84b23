------------------------------ MODULE MCCreate ------------------------------
(* Instances of Create: what the operator asks to archive.                  *)
EXTENDS Create

E(name, ino, kind, blocks) == [name |-> name, ino |-> ino, kind |-> kind, blocks |-> blocks]

(* A file, a long name, a directory, a hard link, a name given twice. *)
MCEntries == <<E(1, 1, "reg", 1), E(2, 2, "reg", 3), E(3, 3, "other", 1),
               E(4, 1, "reg", 1), E(5, 4, "sock", 1), E(1, 1, "reg", 1)>>
MCInodes == {1, 2, 3, 4}
MCKey == [n \in MCInodes |-> n]
MCSizes == {[n \in MCInodes |-> CASE n = 1 -> a [] n = 2 -> b [] OTHER -> 0] :
              a \in 0 .. 7, b \in {0, 1, 4, 5}}

SmallEntries == <<E(1, 1, "reg", 1), E(2, 2, "reg", 1)>>
SmallInodes == {1, 2}
SmallKey == [n \in SmallInodes |-> n]
SmallSizes == {[n \in SmallInodes |-> CASE n = 1 -> a [] OTHER -> b] : a \in 0..5, b \in {0, 3}}
=============================================================================
