-------------------------------- MODULE Names --------------------------------
(***************************************************************************)
(* Names and numbers of users and groups: src/src/mtar/file.c.              *)
(*                                                                          *)
(* They are looked for in the text of /etc/passwd and /etc/group, and       *)
(* what was found is kept in hash tables for the rest of the run.  A line   *)
(* of a database is the sequence of its fields; the search runs over the    *)
(* text, so that it meets other fields as well.                             *)
(*                                                                          *)
(* Both files can be read, and names and numbers fit the buffers of the     *)
(* program (31 and 7 characters).                                           *)
(***************************************************************************)
EXTENDS Integers, Sequences, FiniteSets

CONSTANTS
    Passwd, Group,  \* the lines of the databases
    Ending,         \* pairs of a text and a name it ends with
    NumberOf        \* NumberOf[text]: a text that is a number

Absent == -1

(* The places of a text in a database, in the order of the file.  The last  *)
(* field of a line has no colon behind it.                                  *)
Places(db) == {p \in (1 .. Len(db)) \X (1 .. 7) : p[2] < Len(db[p[1]])}

Before(p, q) == p[1] < q[1] \/ (p[1] = q[1] /\ p[2] < q[2])

First(places) == CHOOSE p \in places : \A q \in places : q = p \/ Before(p, q)

(* mtar_file_rlookup: the first "NAME:" of the file counts, and it must be  *)
(* at the start of a line.                                                  *)
Rlookup(db, name) ==
    LET found == {p \in Places(db) : db[p[1]][p[2]] = name \/ <<db[p[1]][p[2]], name>> \in Ending}
        line == db[First(found)[1]]
    IN  IF found # {} /\ First(found)[2] = 1 /\ line[1] = name
        THEN NumberOf[line[3]] ELSE Absent

(* mtar_file_lookup: the first line with ":ID:" in it.                      *)
Lookup(db, id) ==
    LET found == {p \in Places(db) : p[2] > 1 /\ db[p[1]][p[2]] = id}
    IN  IF found = {} THEN id ELSE db[First(found)[1]][1]

(* The tables.  mtar_file_groupCached is made and never used. *)
NoNames == [uid |-> <<>>, gid |-> <<>>, user |-> <<>>]

Put(table, key, value) ==
    [k \in DOMAIN table \cup {key} |-> IF k = key THEN value ELSE table[k]]

Uid2Name(c, id) ==
    IF id \in DOMAIN c.uid THEN c ELSE [c EXCEPT !.uid = Put(@, id, Lookup(Passwd, id))]

(* Mutant: the table of the users is asked for a group. *)
BadGid2Name(c, id) ==
    IF id \in DOMAIN c.uid THEN [c EXCEPT !.gid = Put(@, id, c.uid[id])]
    ELSE [c EXCEPT !.gid = Put(@, id, Lookup(Group, id))]

Gid2Name(c, id) ==
    IF id \in DOMAIN c.gid THEN c ELSE [c EXCEPT !.gid = Put(@, id, Lookup(Group, id))]

User2Uid(c, name) ==
    IF name \in DOMAIN c.user THEN c ELSE [c EXCEPT !.user = Put(@, name, Rlookup(Passwd, name))]

(* A group is looked for in the table of the users, and put there. *)
Group2Gid(c, name) ==
    IF name \in DOMAIN c.user THEN c ELSE [c EXCEPT !.user = Put(@, name, Rlookup(Group, name))]

=============================================================================
