----------------------------- MODULE MCPatterns -----------------------------
(* An instance of Patterns.  Name 0 is the directory ".", the string of 2   *)
(* begins with the one of 1, and 3 is in the lists of --exclude-backups and *)
(* --exclude-vcs.                                                           *)
EXTENDS Patterns

Paths == {<<0>>, <<0, 1>>, <<0, 1, 1>>, <<0, 1, 3>>, <<0, 2>>, <<0, 3>>, <<0, 3, 1>>}

Begins == {<<1, 2>>}

Linked == {<<0, 2>>}

Ex(name, anchored, glob) == [engine |-> name, anchored |-> anchored, glob |-> glob]
Tag(name, kind) == [name |-> name, option |-> kind]
Setting(excludes, hidden, tags) == [excludes |-> excludes, hidden |-> hidden, tags |-> tags]

Excluding ==
    {Setting({}, FALSE, {}),
     Setting({}, TRUE, {}),
     Setting({Ex("fnmatch", FALSE, {<<1>>})}, FALSE, {}),
     Setting({Ex("fnmatch", TRUE, {<<0>>, <<0, 1>>})}, FALSE, {}),
     Setting({Ex("pcre", TRUE, {<<0, 1, 1>>}), Ex("pcre", FALSE, {<<3>>})}, FALSE, {}),
     Setting({}, FALSE, {Tag(1, "tag")}),
     Setting({}, FALSE, {Tag(3, "tag_all")})}

Name(name, p, recurse, top, anchored, glob) ==
    [engine |-> name, path |-> p, recursion |-> recurse, top |-> top, anchored |-> anchored,
     glob |-> glob]

NoSuch == <<9>>

CommandLine ==
    {Name("fnmatch", <<0>>, TRUE, <<0>>, FALSE, {}),
     Name("fnmatch", <<0>>, FALSE, <<0>>, FALSE, {}),
     Name("fnmatch", <<0, 3>>, TRUE, <<0>>, FALSE, {}),
     Name("pcre", NoSuch, TRUE, <<0>>, FALSE, {p \in Paths : Last(p) \in {1, 2}}),
     Name("fnmatch", NoSuch, TRUE, <<0>>, FALSE, {p \in Paths : Last(p) = 3}),
     Name("fnmatch", NoSuch, TRUE, <<0, 1>>, TRUE, {<<0, 1, 1>>, <<0, 1, 3>>})}
=============================================================================
