----------------------------- MODULE MCRoundTrip -----------------------------
(* Instances of RoundTrip.                                                  *)
EXTENDS RoundTrip

E(name, ino, kind, blocks) == [name |-> name, ino |-> ino, kind |-> kind, blocks |-> blocks]

RTEntries == <<E(1, 1, "reg", 1), E(2, 2, "reg", 3), E(3, 3, "other", 1), E(4, 1, "reg", 1)>>
RTInodes == {1, 2, 3}
RTKey == [n \in RTInodes |-> n]
RTSizes == {[n \in RTInodes |-> CASE n = 1 -> a [] n = 2 -> b [] OTHER -> 0] :
              a \in {0, 3, 4, 7, 9, 12, 36}, b \in {0, 1, 4, 8}}

(* The first name begins the second, and so does the name of the label.     *)
RTBegins ==
    {<<n, n>> : n \in -4 .. 4} \cup {<<-n, n>> : n \in 1 .. 4}
        \cup ({0, 1} \X {2, -2})

RTSelections == {-4 .. 4, {0, 2, -2, 4}}
OldFile == [kind |-> "file", content |-> <<[f |-> 0, o |-> 0]>>]
RTBefore == {[n \in R!Names |-> IF n = 1 THEN x ELSE [kind |-> "none", content |-> <<>>]] :
               x \in {OldFile, [kind |-> "dir", content |-> <<>>]}}
=============================================================================
