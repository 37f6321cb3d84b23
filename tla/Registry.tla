------------------------------- MODULE Registry -------------------------------
(***************************************************************************)
(* The drivers of mtar and how they are found: src/src/mtar/loader.c,       *)
(* plugin.c, and the five registries of function.c, filter.c, format.c,     *)
(* io.c and pattern.c.                                                      *)
(*                                                                          *)
(* A driver lives in a library lib<kind>-<name>.so, and its constructor     *)
(* puts it into the registry of its kind while dlopen maps the library.     *)
(* dlopen counts: a library that is mapped already is not constructed       *)
(* again.  A registry only tells the loader whether something was added,    *)
(* through one flag that all of them share.                                 *)
(*                                                                          *)
(* The operators take the state of a process and return it changed; its     *)
(* field `disk' is that of Chain and not looked at here.                    *)
(***************************************************************************)
EXTENDS Integers, Sequences, SequencesExt

CONSTANTS
    Libraries,  \* the libraries: records of kind, name (of the driver), api and writes
    Search,     \* Search[<<kind, name>>]: the library dlopen finds by its name
    Directory,  \* Directory[kind]: the libraries in PLUGINS_PATH, as glob sorts them
    ApiLevel    \* the levels of the program, by field of struct mtar_plugin

Kinds == {"filter", "format", "function", "io", "pattern"}

ASSUME RegistryAssumption ==
    /\ \A l \in Libraries : l.kind \in Kinds
    /\ \A key \in DOMAIN Search : Search[key] \in Libraries
    /\ \A kind \in Kinds : Directory[kind] \in Seq(Libraries)

(* What is known when the program starts. *)
NoDrivers(disk) ==
    [drivers |-> [kind \in Kinds |-> <<>>],
     held    |-> [l \in Libraries |-> 0],
     loaded  |-> FALSE,
     disk    |-> disk]

(* A level of 0 is of no concern to the driver. *)
PluginCheck(l) ==
    \A field \in DOMAIN l.api : l.api[field] > 0 => l.api[field] = ApiLevel[field]

(* The names under which the program can find a driver. *)
Usable(kind) == {l.name : l \in {l \in Libraries : l.kind = kind /\ PluginCheck(l)}}

(* A library has the name of its driver: src/module/*/*/Makefile.sub makes  *)
(* lib<kind>-<name>.so of the driver <name>, in the directory of the        *)
(* plugins.                                                                 *)
ASSUME InstalledAssumption ==
    /\ \A kind \in {"filter", "io"} : \A name \in Usable(kind) :
          /\ <<kind, name>> \in DOMAIN Search
          /\ LET l == Search[<<kind, name>>]
             IN  l.kind = kind /\ l.name = name /\ PluginCheck(l)
    /\ \A name \in Usable("format") : \E i \in DOMAIN Directory["format"] :
          LET l == Directory["format"][i]
          IN  l.kind = "format" /\ l.name = name /\ PluginCheck(l)

Known(s, kind, name) == \E i \in DOMAIN s.drivers[kind] : s.drivers[kind][i].name = name

Driver(s, kind, name) ==
    SelectSeq(s.drivers[kind], LAMBDA l : l.name = name)[1]

Entered(s, kind, l) == [s EXCEPT !.drivers[kind] = Append(@, l), !.loaded = TRUE]

FilterRegister(s, l) ==
    IF PluginCheck(l) /\ ~Known(s, "filter", l.name) THEN Entered(s, "filter", l) ELSE s

FormatRegister(s, l) ==
    IF PluginCheck(l) /\ ~Known(s, "format", l.name) THEN Entered(s, "format", l) ELSE s

FunctionRegister(s, l) ==
    IF PluginCheck(l) /\ ~Known(s, "function", l.name) THEN Entered(s, "function", l) ELSE s

IoRegister(s, l) ==
    IF PluginCheck(l) /\ ~Known(s, "io", l.name) THEN Entered(s, "io", l) ELSE s

PatternRegister(s, l) ==
    IF PluginCheck(l) /\ ~Known(s, "pattern", l.name) THEN Entered(s, "pattern", l) ELSE s

(* The constructor of a library. *)
Construct(s, l) ==
    CASE l.kind = "filter"   -> FilterRegister(s, l)
      [] l.kind = "format"   -> FormatRegister(s, l)
      [] l.kind = "function" -> FunctionRegister(s, l)
      [] l.kind = "io"       -> IoRegister(s, l)
      [] l.kind = "pattern"  -> PatternRegister(s, l)

Dlopen(s, l) ==
    LET mapped == [s EXCEPT !.held[l] = @ + 1]
    IN  IF s.held[l] = 0 THEN Construct(mapped, l) ELSE mapped

(* Mutant: the flag keeps what the library before it said. *)
BadLoadFile(s, l) ==
    LET opened == Dlopen(s, l)
    IN  IF opened.loaded THEN opened ELSE [opened EXCEPT !.held[l] = @ - 1]

(* A library that adds nothing is closed again. *)
LoadFile(s, l) ==
    LET opened == Dlopen([s EXCEPT !.loaded = FALSE], l)
    IN  IF opened.loaded THEN opened ELSE [opened EXCEPT !.held[l] = @ - 1]

Load(s, kind, name) ==
    IF <<kind, name>> \in DOMAIN Search
    THEN LoadFile(s, Search[<<kind, name>>]) ELSE [s EXCEPT !.loaded = FALSE]

LoadAll(s, kind) ==
    LET after[n \in 0 .. Len(Directory[kind])] ==
            IF n = 0 THEN s ELSE LoadFile(after[n - 1], Directory[kind][n])
    IN  after[Len(Directory[kind])]

----------------------------------------------------------------------------
(* Looking a driver up: the registry, then the library with its name, then  *)
(* the registry again.  The driver is Driver of what they return, if it is  *)
(* Known there.                                                             *)

FunctionGet(s, name) == IF Known(s, "function", name) THEN s ELSE Load(s, "function", name)

FilterGet(s, name) == IF Known(s, "filter", name) THEN s ELSE Load(s, "filter", name)

FormatGet(s, name) == IF Known(s, "format", name) THEN s ELSE Load(s, "format", name)

IoGet(s, name) == IF Known(s, "io", name) THEN s ELSE Load(s, "io", name)

PatternGet(s, name) == IF Known(s, "pattern", name) THEN s ELSE Load(s, "pattern", name)

----------------------------------------------------------------------------
(* What the program says of its drivers; what it prints is left out.        *)

FunctionShowDescription(s) == LoadAll(s, "function")
FunctionShowHelp(s, name) == FunctionGet(s, name)
FunctionShowVersion(s) == LoadAll(s, "function")

FilterShowDescription(s) == LoadAll(s, "filter")
FilterShowHelp(s, name) == FilterGet(s, name)
FilterShowVersion(s) == LoadAll(s, "filter")

FormatShowDescription(s) == LoadAll(s, "format")
FormatShowVersion(s) == LoadAll(s, "format")

IoShowDescription(s) == LoadAll(s, "io")
IoShowVersion(s) == LoadAll(s, "io")

PatternShowDescription(s) == LoadAll(s, "pattern")
PatternShowVersion(s) == LoadAll(s, "pattern")

----------------------------------------------------------------------------
Registered(s, l) == \E i \in DOMAIN s.drivers[l.kind] : s.drivers[l.kind][i] = l

(* The libraries that are held are those with a registered driver, each of  *)
(* them once: no registry points into a library that was closed, and none   *)
(* is held for nothing.  The names of a registry differ.                    *)
Sound(s) ==
    /\ \A l \in Libraries : s.held[l] = IF Registered(s, l) THEN 1 ELSE 0
    /\ \A kind \in Kinds : \A i, j \in DOMAIN s.drivers[kind] :
          s.drivers[kind][i].name = s.drivers[kind][j].name => i = j
=============================================================================
