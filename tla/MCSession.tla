------------------------------ MODULE MCSession ------------------------------
(* An instance of Session.  xz, diff and pcre are not installed, a copy of   *)
(* gzip and a filter for another program are, and the databases have a group *)
(* with the name of a user and the number of another, and names that others  *)
(* end with.                                                                 *)
EXTENDS Session

Lib(file, kind, name, level, writes) ==
    [file |-> file, kind |-> kind, name |-> name, api |-> [mtar |-> 1] @@ (kind :> level),
     writes |-> writes]

Gzip    == Lib("libfilter-gzip", "filter", "gzip", 1, TRUE)
Bzip2   == Lib("libfilter-bzip2", "filter", "bzip2", 1, TRUE)
Copy    == Lib("libfilter-gzip2", "filter", "gzip", 1, TRUE)
Old     == Lib("libfilter-old", "filter", "old", 2, TRUE)
Ustar   == Lib("libformat-ustar", "format", "ustar", 0, TRUE)
Mtf     == Lib("libformat-mtf", "format", "mtf", 1, FALSE)
Create  == Lib("libfunction-create", "function", "create", 1, TRUE)
Extract == Lib("libfunction-extract", "function", "extract", 1, TRUE)
List    == Lib("libfunction-list", "function", "list", 1, TRUE)
File    == Lib("libio-file", "io", "file", 1, TRUE)
Pipe    == Lib("libio-pipe", "io", "pipe", 1, TRUE)
Fnmatch == Lib("libpattern-fnmatch", "pattern", "fnmatch", 1, TRUE)

Installed == {Gzip, Bzip2, Copy, Old, Ustar, Mtf, Create, Extract, List, File, Pipe, Fnmatch}

ByName ==
    (<<"filter", "gzip">> :> Gzip) @@ (<<"filter", "gzip2">> :> Copy) @@
    (<<"filter", "bzip2">> :> Bzip2) @@ (<<"filter", "old">> :> Old) @@
    (<<"format", "ustar">> :> Ustar) @@ (<<"format", "mtf">> :> Mtf) @@
    (<<"function", "create">> :> Create) @@ (<<"function", "extract">> :> Extract) @@
    (<<"function", "list">> :> List) @@ (<<"io", "file">> :> File) @@
    (<<"io", "pipe">> :> Pipe) @@ (<<"pattern", "fnmatch">> :> Fnmatch)

Plugins ==
    [filter |-> <<Bzip2, Gzip, Copy, Old>>, format |-> <<Mtf, Ustar>>,
     function |-> <<Create, Extract, List>>, io |-> <<File, Pipe>>, pattern |-> <<Fnmatch>>]

Levels == [filter |-> 1, format |-> 1, function |-> 1, io |-> 1, mtar |-> 1, pattern |-> 1]

Names5 == {"a.tar", "a.tgz", "b.tgz", "names", "locked", "-"}
Kind == [f \in Names5 |-> IF f = "-" THEN "pipe" ELSE "file"]
Ext == [f \in Names5 |-> CASE f \in {"a.tgz", "b.tgz"} -> ".tgz" [] f = "a.tar" -> ".tar" [] OTHER -> ""]

Users ==
    <<<<"root", "x", "0", "0", "", "", "">>,
      <<"web-games", "x", "7", "5", "", "", "">>,
      <<"games", "x", "5", "60", "", "", "">>,
      <<"man", "x", "6", "12", "", "", "">>>>
Groups == <<<<"root", "x", "0", "">>, <<"games", "x", "60", "">>, <<"tape", "x", "26", "">>>>
Tails == {<<"web-games", "games">>}
Numbers == [n \in {"0", "5", "6", "7", "12", "26", "60"} |->
    CASE n = "0" -> 0 [] n = "5" -> 5 [] n = "6" -> 6 [] n = "7" -> 7 [] n = "12" -> 12
      [] n = "26" -> 26 [] n = "60" -> 60]
OwnersOfFiles == {<<"5", "60">>, <<"6", "5">>}

Texts == ("20" :> 20) @@ ("-1" :> -1) @@ ("0" :> 0) @@ ("9" :> 9)
LevelTexts == ("best" :> 9) @@ ("none at all" :> 0)

(* Stacks of several kinds, in the spellings of the command line; the same   *)
(* for a run that writes and one that reads.                                 *)
Stacks(function, l) ==
    {<<Bundle(<<l, "v", "f">>), Word("a.tgz")>>,
     <<Bundle(<<"-", l, "z", "f">>), Word("a.tar")>>,
     <<Opt(function, ""), Opt("file", "a.tar"), Opt("no_auto_compress", ""), Opt("gzip", "")>>,
     <<Opt("filter", "bzip2"), Opt("filter", "gzip"), Opt("filter_option", "best"),
       Opt(function, ""), Opt("file", "a.tgz")>>,
     <<Opt("compression_level", "9"), Opt("filter", "gzip"), Opt("filter_option", "none at all"),
       Opt(function, ""), Opt("file", "a.tar")>>,
     <<Opt(function, ""), Opt("filter", "gzip2"), Opt("filter", "old"), Opt("filter", "bzip2"), Opt("xz", "")>>,
     <<Opt(function, ""), Opt("filter", "gzip"), Opt("bzip2", "")>>}

(* Levels that a library refuses, as the one filter, under another and for   *)
(* the compression, and a bzip2 that cannot write, below and on top.         *)
Leveled ==
    {<<Opt("compression_level", "20"), Opt("filter", "gzip"), Opt("create", ""), Opt("file", "a.tar")>>,
     <<Opt("compression_level", "20"), Opt("filter", "gzip"), Opt("filter_option", "best"),
       Opt("filter", "bzip2"), Opt("filter_option", "best"), Opt("create", ""), Opt("file", "a.tar")>>,
     <<Opt("compression_level", "0"), Opt("create", ""), Opt("file", "a.tgz")>>,
     <<Opt("compression_level", "0"), Opt("create", ""), Opt("bzip2", "")>>,
     <<Opt("filter", "gzip"), Opt("filter", "bzip2"), Opt("filter_option", "none at all"),
       Opt("create", ""), Opt("file", "a.tar")>>}

(* Names with what is said of them before and behind. *)
Patterns ==
    {<<Opt("create", ""), Opt("directory", "names"), Word("a.tar"), Word("lost"),
       Opt("no_recursion", ""), Opt("directory", "none"), Opt("add_file", "names"),
       Opt("recursion", ""), EndOfOptions, Word("names")>>,
     <<Opt("list", ""), Opt("anchored", ""), Opt("exclude", "p"), Opt("pattern_engine", "pcre"),
       Word("lost"), Opt("no_anchored", ""), Opt("exclude", "q"), Opt("exclude_backups", ""),
       Opt("exclude_tag", "t"), Opt("exclude_caches", "")>>}

(* A pattern for an engine that is not there. *)
NoEngine(function) ==
    <<Opt("pattern_engine", "pcre"), Opt(function, ""), Opt("file", "a.tgz"), Word("lost")>>

Lists ==
    {<<Bundle(<<"c", "T", "X", "f">>), Word("names"), Word("b.tgz"), Word("a.tar")>>,
     <<Opt("files_from", "names"), Opt("exclude_from", "names"), Opt("diff", "")>>,
     <<Bundle(<<"T">>)>>}

Numeric ==
    {<<Bundle(<<"b", "L", "c">>), Word("20"), Word("x")>>, <<Bundle(<<"b">>)>>,
     <<Opt("compression_level", "-1"), Opt("tape_length", "x"), Opt("mode", "20")>>,
     <<Bundle(<<"C", "H", "V", "c">>), Word("names"), Word("mtf"), Word("label")>>}

Owned ==
    {<<Opt("create", ""), Opt("owner", "man"), Opt("group", "tape")>>,
     <<Opt("create", ""), Opt("owner", "games")>>,
     <<Opt("create", ""), Opt("group", "games")>>,
     <<Opt("create", ""), Opt("owner", "root"), Opt("group", "root")>>,
     <<Opt("create", ""), Opt("group", "nobody")>>}

Refused ==
    {<<>>, <<Word("quit")>>, <<Bundle(<<"?">>)>>, <<Bundle(<<"f", "f">>), Word("a.tar"), Word("a.tgz")>>,
     <<Bundle(<<"f">>)>>, <<Opt("file", "a.tar"), Opt("file", "a.tgz")>>, <<Opt("filter_option", "x")>>,
     <<Opt("create", ""), Opt("directory", "lost")>>, <<Opt("create", ""), Opt("file", "locked")>>,
     <<Opt("function", "extract"), Opt("directory", "lost"), Opt("file", "a.tgz")>>}

Telling ==
    {<<Opt("filter", "old"), Opt(t, "gzip")>> :
        t \in {"help", "full_version", "version", "filter_help", "function_help", "list_filters",
               "list_formats", "list_functions", "list_ios"}}

Lines1 ==
    Stacks("create", "c") \cup Leveled \cup {NoEngine("create")} \cup Patterns \cup Lists \cup Numeric \cup Owned \cup Refused \cup Telling

(* The reading of a file with one filter more or less than it was written with. *)
Filtered == <<Opt("filter", "gzip"), Opt("list", ""), Opt("file", "a.tar")>>

Lines2 ==
    Stacks("list", "t") \cup {NoEngine("extract"), Filtered} \cup Stacks("create", "c") \cup Lists \cup Refused
=============================================================================
