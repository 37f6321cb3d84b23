---------------------------- MODULE SessionProofs ----------------------------
(***************************************************************************)
(* Proofs about Session, for every set of libraries, every command line and *)
(* every content of the user databases.  The libraries and their drivers    *)
(* stay as they should through whatever is looked up, refused or loaded     *)
(* (Good); a stack that writes stands on a volume of its run (Placed); the  *)
(* tables of names say what the databases say (Faithful); the parser has in *)
(* force, before each argument, what the arguments before it say (Heard);   *)
(* and what is on a file is what its writer was asked for (ReadBack).       *)
(***************************************************************************)
EXTENDS Session, FiniteSetTheorems, WellFoundedInduction, TLAPS

----------------------------------------------------------------------------
(* Numbers and sequences. *)

(* Of some numbers one is the least. *)
LEMMA LeastOf ==
    ASSUME NEW T, T \subseteq Nat, T # {}
    PROVE  \E x \in T : \A y \in T : x <= y
<1>1. \E x \in T : \A y \in T : ~(<<y, x>> \in OpToRel(<, Nat))
  BY WFMin, NatLessThanWellFounded, Zenon
<1>2. \E x \in T : \A y \in T : ~(y < x)
  BY <1>1 DEF OpToRel
<1> QED BY <1>2

(* Induction over a set of numbers. *)
LEMMA UpTo ==
    ASSUME NEW n \in Nat, NEW T, 0 \in T,
           \A i \in 1 .. n : i - 1 \in T => i \in T
    PROVE  \A i \in 0 .. n : i \in T
<1> SUFFICES ASSUME \E i \in 0 .. n : i \notin T PROVE FALSE
  OBVIOUS
<1> DEFINE U == {i \in 0 .. n : i \notin T}
<1>1. PICK x \in U : \A y \in U : x <= y
  <2>1. U \subseteq Nat /\ U # {}
    OBVIOUS
  <2> HIDE DEF U
  <2> QED BY <2>1, LeastOf
<1>2. x \in 1 .. n /\ x - 1 \notin U
  <2>1. x # 0 /\ x \in 0 .. n
    OBVIOUS
  <2>2. x - 1 \notin U
    <3> HIDE DEF U
    <3> QED BY <1>1, <2>1
  <2> QED BY <2>1, <2>2
<1> QED BY <1>1, <1>2

(* What LoadAll goes through. *)
LEMMA LoadAllSteps ==
    ASSUME NEW s, NEW kind, Len(Directory[kind]) \in Nat
    PROVE  \E after :
             /\ after[0] = s
             /\ \A n \in 1 .. Len(Directory[kind]) :
                   after[n] = LoadFile(after[n - 1], Directory[kind][n])
             /\ LoadAll(s, kind) = after[Len(Directory[kind])]
<1> DEFINE N == Len(Directory[kind])
           Is(f, m) == f = [n \in 0 .. m |->
                              IF n = 0 THEN s ELSE LoadFile(f[n - 1], Directory[kind][n])]
           T == {m \in 0 .. N : \E f : Is(f, m)}
           after == CHOOSE f : Is(f, N)
<1>1. 0 \in T
  <2> DEFINE f == [n \in 0 .. 0 |-> s]
  <2>1. Is(f, 0)
    OBVIOUS
  <2>2. 0 \in 0 .. N
    OBVIOUS
  <2> QED BY <2>1, <2>2
<1>2. ASSUME NEW i \in 1 .. N, i - 1 \in T PROVE i \in T
  <2>1. PICK f : Is(f, i - 1)
    BY <1>2
  <2> DEFINE g == [n \in 0 .. i |-> IF n = i THEN LoadFile(f[i - 1], Directory[kind][i]) ELSE f[n]]
  <2>2. \A n \in 0 .. i - 1 : f[n] = IF n = 0 THEN s ELSE LoadFile(f[n - 1], Directory[kind][n])
    BY <2>1
  <2>3. \A n \in 0 .. i : g[n] = IF n = 0 THEN s ELSE LoadFile(g[n - 1], Directory[kind][n])
    BY <2>2
  <2>4. Is(g, i)
    <3>1. g = [n \in 0 .. i |-> g[n]]
      OBVIOUS
    <3> QED BY <3>1, <2>3, Zenon
  <2>5. \E h : Is(h, i)
    <3> HIDE DEF g
    <3> QED BY <2>4
  <2>6. i \in 0 .. N
    OBVIOUS
  <2> QED BY <2>5, <2>6
<1>3. \E f : Is(f, N)
  <2>1. N \in Nat
    OBVIOUS
  <2>2. N \in T
    <3> HIDE DEF T
    <3>1. \A i \in 1 .. N : i - 1 \in T => i \in T
      BY <1>2
    <3>2. \A i \in 0 .. N : i \in T
      <4> HIDE DEF N
      <4> QED BY <1>1, <2>1, <3>1, UpTo
    <3> QED BY <2>1, <3>2
  <2> QED BY <2>2
<1>4. Is(after, N)
  BY <1>3, Zenon
<1>5. LoadAll(s, kind) = after[N]
  BY Zenon DEF LoadAll
<1>6. \A n \in 0 .. N : after[n] = IF n = 0 THEN s ELSE LoadFile(after[n - 1], Directory[kind][n])
  <2> HIDE DEF after
  <2> QED BY <1>4
<1>7. after[0] = s /\ \A n \in 1 .. N : after[n] = LoadFile(after[n - 1], Directory[kind][n])
  <2> HIDE DEF after
  <2> QED BY <1>6
<1> QED BY <1>5, <1>7, Zenon

----------------------------------------------------------------------------
(* The state of a process. *)

IsRecord(s) ==
    s = [drivers |-> s.drivers, held |-> s.held, loaded |-> s.loaded, disk |-> s.disk]

Driven(s) ==
    /\ s.drivers \in [Kinds -> Seq(Libraries)]
    /\ s.held \in [Libraries -> Int]
    /\ \A kind \in Kinds : \A i \in DOMAIN s.drivers[kind] :
          s.drivers[kind][i].kind = kind /\ PluginCheck(s.drivers[kind][i])

IsFile(c) ==
    /\ c = [exists |-> c.exists, layers |-> c.layers, data |-> c.data]
    /\ c.exists \in BOOLEAN

Disked(s) ==
    /\ s.disk = [f \in Files |-> s.disk[f]]
    /\ \A f \in Files : IsFile(s.disk[f])

Good(s) == IsRecord(s) /\ Driven(s) /\ Disked(s) /\ Sound(s)

(* What loading a library comes to. *)
Adds(s, l) == s.held[l] = 0 /\ PluginCheck(l) /\ ~Known(s, l.kind, l.name)

WithLibrary(s, l) ==
    [drivers |-> [s.drivers EXCEPT ![l.kind] = Append(@, l)],
     held |-> [s.held EXCEPT ![l] = 1], loaded |-> TRUE, disk |-> s.disk]

Unloaded(s) == [drivers |-> s.drivers, held |-> s.held, loaded |-> FALSE, disk |-> s.disk]

LEMMA RecordFields ==
    ASSUME NEW s, NEW d, NEW h, NEW b, NEW k,
           s = [drivers |-> d, held |-> h, loaded |-> b, disk |-> k]
    PROVE  IsRecord(s) /\ s.drivers = d /\ s.held = h /\ s.loaded = b /\ s.disk = k
BY DEF IsRecord

LEMMA SetLoaded ==
    ASSUME NEW s, IsRecord(s), NEW b
    PROVE  [s EXCEPT !.loaded = b] =
              [drivers |-> s.drivers, held |-> s.held, loaded |-> b, disk |-> s.disk]
BY DEF IsRecord

LEMMA SetHeld ==
    ASSUME NEW s, IsRecord(s), NEW h
    PROVE  [s EXCEPT !.held = h] =
              [drivers |-> s.drivers, held |-> h, loaded |-> s.loaded, disk |-> s.disk]
BY DEF IsRecord

LEMMA SetDrivers ==
    ASSUME NEW s, IsRecord(s), NEW d, NEW b
    PROVE  [s EXCEPT !.drivers = d, !.loaded = b] =
              [drivers |-> d, held |-> s.held, loaded |-> b, disk |-> s.disk]
<1> DEFINE t == [s EXCEPT !.drivers = d]
<1>1. t = [drivers |-> d, held |-> s.held, loaded |-> s.loaded, disk |-> s.disk]
  BY DEF IsRecord
<1> HIDE DEF t
<1>2. [t EXCEPT !.loaded = b] = [drivers |-> t.drivers, held |-> t.held, loaded |-> b, disk |-> t.disk]
  BY <1>1, RecordFields, SetLoaded, Zenon
<1>3. [t EXCEPT !.loaded = b] = [drivers |-> d, held |-> s.held, loaded |-> b, disk |-> s.disk]
  BY <1>1, <1>2, RecordFields, Zenon
<1> QED BY <1>3 DEF t

LEMMA SetDisk ==
    ASSUME NEW s, IsRecord(s), NEW d
    PROVE  [s EXCEPT !.disk = d] =
              [drivers |-> s.drivers, held |-> s.held, loaded |-> s.loaded, disk |-> d]
BY DEF IsRecord

LEMMA LoadFileIs ==
    ASSUME RegistryAssumption, NEW s, IsRecord(s), Driven(s), NEW l \in Libraries
    PROVE  LoadFile(s, l) = IF Adds(s, l) THEN WithLibrary(s, l) ELSE Unloaded(s)
<1> DEFINE start == [s EXCEPT !.loaded = FALSE]
           mapped == [start EXCEPT !.held = [start.held EXCEPT ![l] = start.held[l] + 1]]
           h == [s.held EXCEPT ![l] = s.held[l] + 1]
           opened == Dlopen(start, l)
<1>1. /\ start = Unloaded(s) /\ IsRecord(start) /\ start.held = s.held
      /\ start.drivers = s.drivers /\ start.disk = s.disk /\ start.loaded = FALSE
  <2>1. start = [drivers |-> s.drivers, held |-> s.held, loaded |-> FALSE, disk |-> s.disk]
    BY SetLoaded, Zenon
  <2> HIDE DEF start
  <2> QED BY <2>1, RecordFields, Zenon DEF Unloaded
<1> HIDE DEF start
<1>2. mapped = [drivers |-> s.drivers, held |-> h, loaded |-> FALSE, disk |-> s.disk]
  <2>1. [start.held EXCEPT ![l] = start.held[l] + 1] = h
    BY <1>1, Zenon
  <2> HIDE DEF h
  <2>2. mapped = [start EXCEPT !.held = h]
    BY <2>1, Zenon
  <2>3. mapped = [drivers |-> start.drivers, held |-> h, loaded |-> start.loaded, disk |-> start.disk]
    <3> HIDE DEF mapped
    <3> QED BY <1>1, <2>2, SetHeld, Zenon
  <2> QED BY <1>1, <2>3, Zenon
<1>3. l.kind \in Kinds
  BY DEF RegistryAssumption
<1>4. opened = IF s.held[l] = 0 THEN Construct(mapped, l) ELSE mapped
  BY <1>1, Zenon DEF Dlopen
<1>5. LoadFile(s, l) = IF opened.loaded THEN opened
                       ELSE [opened EXCEPT !.held = [opened.held EXCEPT ![l] = opened.held[l] - 1]]
  BY Zenon DEF LoadFile, start
<1> HIDE DEF mapped
<1>6. Construct(mapped, l) = IF PluginCheck(l) /\ ~Known(mapped, l.kind, l.name)
                             THEN Entered(mapped, l.kind, l) ELSE mapped
  BY <1>3 DEF Construct, Kinds, FilterRegister, FormatRegister, FunctionRegister,
              IoRegister, PatternRegister
<1>7. /\ IsRecord(mapped) /\ mapped.held = h /\ mapped.drivers = s.drivers
      /\ mapped.disk = s.disk
  <2> HIDE DEF h
  <2> QED BY <1>2, RecordFields, Zenon
<1>8. mapped.loaded = FALSE
  <2> HIDE DEF h
  <2> QED BY <1>2, RecordFields, Zenon
<1>9. Known(mapped, l.kind, l.name) <=> Known(s, l.kind, l.name)
  BY <1>7 DEF Known
<1> HIDE DEF opened, h
<1>10. CASE Adds(s, l)
  <2> DEFINE d == [s.drivers EXCEPT ![l.kind] = Append(s.drivers[l.kind], l)]
  <2>1. opened = Entered(mapped, l.kind, l)
    BY <1>4, <1>6, <1>9, <1>10 DEF Adds
  <2>2. Entered(mapped, l.kind, l) = [mapped EXCEPT !.drivers = d, !.loaded = TRUE]
    BY <1>7, Zenon DEF Entered
  <2>3. h = [s.held EXCEPT ![l] = 1]
    BY <1>10 DEF Adds, Driven, h
  <2>4. opened = [drivers |-> d, held |-> h, loaded |-> TRUE, disk |-> s.disk]
    <3> HIDE DEF d
    <3>1. [mapped EXCEPT !.drivers = d, !.loaded = TRUE] =
             [drivers |-> d, held |-> mapped.held, loaded |-> TRUE, disk |-> mapped.disk]
      BY <1>7, SetDrivers, Zenon
    <3> QED BY <1>7, <2>1, <2>2, <3>1, Zenon
  <2>5. opened = WithLibrary(s, l)
    BY <2>3, <2>4, Zenon DEF WithLibrary
  <2>6. opened.loaded = TRUE
    <3> HIDE DEF d
    <3> QED BY <2>4, RecordFields, Zenon
  <2> QED BY <1>5, <1>10, <2>5, <2>6, Zenon
<1>11. CASE ~Adds(s, l)
  <2>1. opened = mapped
    BY <1>4, <1>6, <1>9, <1>11 DEF Adds
  <2>2. ~opened.loaded
    BY <1>8, <2>1, Zenon
  <2>3. [opened.held EXCEPT ![l] = opened.held[l] - 1] = s.held
    <3>1. opened.held = h
      BY <1>7, <2>1
    <3>2. s.held \in [Libraries -> Int]
      BY DEF Driven
    <3>3. [h EXCEPT ![l] = h[l] - 1] = s.held
      BY <3>2 DEF h
    <3> QED BY <3>1, <3>3
  <2>4. LoadFile(s, l) = [mapped EXCEPT !.held = s.held]
    BY <1>5, <2>1, <2>2, <2>3, Zenon
  <2>5. LoadFile(s, l) =
           [drivers |-> mapped.drivers, held |-> s.held, loaded |-> mapped.loaded, disk |-> mapped.disk]
    BY <1>7, <2>4, SetHeld, Zenon
  <2> QED BY <1>7, <1>8, <1>11, <2>5, Zenon DEF Unloaded
<1> QED BY <1>10, <1>11

LEMMA UnloadedGood ==
    ASSUME NEW s, Good(s)
    PROVE  Good(Unloaded(s))
BY DEF Good, Unloaded, IsRecord, Driven, Disked, Sound, Registered

LEMMA WithLibraryGood ==
    ASSUME RegistryAssumption, NEW s, Good(s), NEW l \in Libraries, Adds(s, l)
    PROVE  Good(WithLibrary(s, l))
<1> DEFINE t == WithLibrary(s, l)
<1>1. l.kind \in Kinds
  BY DEF RegistryAssumption
<1>2. IsRecord(t) /\ Disked(t) /\ t.drivers = [s.drivers EXCEPT ![l.kind] = Append(@, l)]
      /\ t.held = [s.held EXCEPT ![l] = 1]
  BY DEF WithLibrary, IsRecord, Disked, Good
<1> HIDE DEF t
<1>3. t.drivers \in [Kinds -> Seq(Libraries)] /\ t.held \in [Libraries -> Int]
  BY <1>1, <1>2 DEF Good, Driven
<1>4. /\ Len(t.drivers[l.kind]) = Len(s.drivers[l.kind]) + 1
      /\ \A i \in 1 .. Len(s.drivers[l.kind]) : t.drivers[l.kind][i] = s.drivers[l.kind][i]
      /\ t.drivers[l.kind][Len(s.drivers[l.kind]) + 1] = l
      /\ \A kind \in Kinds : kind # l.kind => t.drivers[kind] = s.drivers[kind]
      /\ \A kind \in Kinds : t.drivers[kind] \in Seq(Libraries) /\ s.drivers[kind] \in Seq(Libraries)
  BY <1>1, <1>2, <1>3 DEF Good, Driven
<1> DEFINE old == s.drivers[l.kind]
           new == t.drivers[l.kind]
           N == Len(old)
<1>5. /\ N \in Nat /\ DOMAIN old = 1 .. N /\ DOMAIN new = 1 .. N + 1
      /\ new[N + 1] = l /\ \A i \in 1 .. N : new[i] = old[i]
  BY <1>1, <1>4
<1> HIDE DEF old, new, N
<1>6. \A m \in Libraries : Registered(t, m) <=> Registered(s, m) \/ m = l
  <2> TAKE m \in Libraries
  <2>1. m.kind \in Kinds
    BY DEF RegistryAssumption
  <2>2. CASE m.kind # l.kind
    BY <1>4, <2>1, <2>2 DEF Registered
  <2>3. CASE m.kind = l.kind
    <3>1. (\E i \in DOMAIN new : new[i] = m) <=> (\E i \in DOMAIN old : old[i] = m) \/ m = l
      BY <1>5
    <3> QED BY <2>3, <3>1 DEF Registered, old, new
  <2> QED BY <2>2, <2>3
<1>7. ~Registered(s, l)
  BY DEF Good, Sound, Adds
<1>8. \A m \in Libraries : t.held[m] = IF Registered(t, m) THEN 1 ELSE 0
  BY <1>2, <1>6, <1>7 DEF Good, Sound, Driven
<1>9. \A kind \in Kinds : \A i, j \in DOMAIN t.drivers[kind] :
          t.drivers[kind][i].name = t.drivers[kind][j].name => i = j
  <2> TAKE kind \in Kinds
  <2>1. CASE kind # l.kind
    BY <1>4, <2>1 DEF Good, Sound
  <2>2. CASE kind = l.kind
    <3>1. \A x \in DOMAIN old : old[x].name # l.name
      BY DEF Adds, Known, old
    <3>2. \A x, y \in DOMAIN old : old[x].name = old[y].name => x = y
      BY <1>1 DEF Good, Sound, old
    <3>3. \A i, j \in DOMAIN new : new[i].name = new[j].name => i = j
      BY <1>5, <3>1, <3>2
    <3> QED BY <2>2, <3>3 DEF new
  <2> QED BY <2>1, <2>2
<1>10. \A kind \in Kinds : \A i \in DOMAIN t.drivers[kind] :
          t.drivers[kind][i].kind = kind /\ PluginCheck(t.drivers[kind][i])
  <2> TAKE kind \in Kinds
  <2>1. CASE kind # l.kind
    BY <1>4, <2>1 DEF Good, Driven
  <2>2. CASE kind = l.kind
    <3>1. \A x \in DOMAIN old : old[x].kind = l.kind /\ PluginCheck(old[x])
      BY <1>1 DEF Good, Driven, old
    <3>2. \A i \in DOMAIN new : new[i].kind = l.kind /\ PluginCheck(new[i])
      BY <1>5, <3>1 DEF Adds
    <3> QED BY <2>2, <3>2 DEF new
  <2> QED BY <2>1, <2>2
<1>11. Good(t)
  BY <1>2, <1>3, <1>8, <1>9, <1>10 DEF Good, Sound, Driven
<1> QED BY <1>11 DEF t

(* The operators of the registries keep a state good, and the files as they *)
(* are.                                                                     *)
LEMMA LoadFileGood ==
    ASSUME RegistryAssumption, NEW s, Good(s), NEW l \in Libraries
    PROVE  Good(LoadFile(s, l)) /\ LoadFile(s, l).disk = s.disk
<1>1. LoadFile(s, l) = IF Adds(s, l) THEN WithLibrary(s, l) ELSE Unloaded(s)
  BY LoadFileIs DEF Good
<1>2. Adds(s, l) => Good(WithLibrary(s, l)) /\ WithLibrary(s, l).disk = s.disk
  BY WithLibraryGood DEF WithLibrary
<1>3. Good(Unloaded(s)) /\ Unloaded(s).disk = s.disk
  BY UnloadedGood DEF Unloaded
<1> QED BY <1>1, <1>2, <1>3

LEMMA LoadGood ==
    ASSUME RegistryAssumption, NEW s, Good(s), NEW kind, NEW name
    PROVE  Good(Load(s, kind, name)) /\ Load(s, kind, name).disk = s.disk
<1>1. CASE <<kind, name>> \in DOMAIN Search
  <2>1. Search[<<kind, name>>] \in Libraries
    BY <1>1 DEF RegistryAssumption
  <2> QED BY <1>1, <2>1, LoadFileGood DEF Load
<1>2. CASE <<kind, name>> \notin DOMAIN Search
  <2>1. Load(s, kind, name) = Unloaded(s)
    BY <1>2 DEF Load, Good, IsRecord, Unloaded
  <2> QED BY <2>1, UnloadedGood DEF Unloaded
<1> QED BY <1>1, <1>2

LEMMA LoadAllGood ==
    ASSUME RegistryAssumption, NEW s, Good(s), NEW kind \in Kinds
    PROVE  Good(LoadAll(s, kind)) /\ LoadAll(s, kind).disk = s.disk
<1> DEFINE N == Len(Directory[kind])
<1>1. N \in Nat /\ \A n \in 1 .. N : Directory[kind][n] \in Libraries
  BY DEF RegistryAssumption
<1>2. PICK after :
        /\ after[0] = s
        /\ \A n \in 1 .. N : after[n] = LoadFile(after[n - 1], Directory[kind][n])
        /\ LoadAll(s, kind) = after[N]
  BY <1>1, LoadAllSteps
<1> HIDE DEF N
<1> DEFINE T == {n \in 0 .. N : Good(after[n]) /\ after[n].disk = s.disk}
<1>3. 0 \in T
  BY <1>1, <1>2
<1>4. \A n \in 1 .. N : n - 1 \in T => n \in T
  <2> SUFFICES ASSUME NEW n \in 1 .. N, n - 1 \in T PROVE n \in T
    OBVIOUS
  <2>1. Good(after[n - 1]) /\ after[n - 1].disk = s.disk
    OBVIOUS
  <2>2. Good(LoadFile(after[n - 1], Directory[kind][n]))
        /\ LoadFile(after[n - 1], Directory[kind][n]).disk = s.disk
    BY <1>1, <2>1, LoadFileGood
  <2>3. after[n] = LoadFile(after[n - 1], Directory[kind][n]) /\ n \in 0 .. N
    BY <1>1, <1>2
  <2> QED BY <2>2, <2>3
<1>5. N \in T
  <2> HIDE DEF T
  <2>1. \A n \in 0 .. N : n \in T
    BY <1>1, <1>3, <1>4, UpTo
  <2> QED BY <1>1, <2>1
<1> QED BY <1>2, <1>5

LEMMA GetsGood ==
    ASSUME RegistryAssumption, NEW s, Good(s), NEW name
    PROVE  /\ Good(FunctionGet(s, name)) /\ FunctionGet(s, name).disk = s.disk
           /\ Good(FilterGet(s, name)) /\ FilterGet(s, name).disk = s.disk
           /\ Good(FormatGet(s, name)) /\ FormatGet(s, name).disk = s.disk
           /\ Good(IoGet(s, name)) /\ IoGet(s, name).disk = s.disk
           /\ Good(PatternGet(s, name)) /\ PatternGet(s, name).disk = s.disk
BY LoadGood DEF FunctionGet, FilterGet, FormatGet, IoGet, PatternGet

(* What FilterGetReaders goes through. *)
LEMMA ReadersSteps ==
    ASSUME NEW io, NEW opt, Len(opt.filters) \in Nat
    PROVE  \E put :
             /\ put[0] = io
             /\ \A n \in 1 .. Len(opt.filters) :
                   put[n] = PutReader(FromEnd(opt.filters, n), put[n - 1])
             /\ FilterGetReaders(io, opt) = put[Len(opt.filters)]
<1> DEFINE N == Len(opt.filters)
           Is(f, m) == f = [n \in 0 .. m |->
                              IF n = 0 THEN io ELSE PutReader(FromEnd(opt.filters, n), f[n - 1])]
           T == {m \in 0 .. N : \E f : Is(f, m)}
           put == CHOOSE f : Is(f, N)
<1>1. 0 \in T
  <2> DEFINE f == [n \in 0 .. 0 |-> io]
  <2>1. Is(f, 0)
    OBVIOUS
  <2>2. 0 \in 0 .. N
    OBVIOUS
  <2> QED BY <2>1, <2>2
<1>2. ASSUME NEW i \in 1 .. N, i - 1 \in T PROVE i \in T
  <2>1. PICK f : Is(f, i - 1)
    BY <1>2
  <2> DEFINE g == [n \in 0 .. i |-> IF n = i THEN PutReader(FromEnd(opt.filters, i), f[i - 1]) ELSE f[n]]
  <2>2. \A n \in 0 .. i - 1 : f[n] = IF n = 0 THEN io ELSE PutReader(FromEnd(opt.filters, n), f[n - 1])
    BY <2>1
  <2>3. \A n \in 0 .. i : g[n] = IF n = 0 THEN io ELSE PutReader(FromEnd(opt.filters, n), g[n - 1])
    BY <2>2
  <2>4. Is(g, i)
    <3>1. g = [n \in 0 .. i |-> g[n]]
      OBVIOUS
    <3> QED BY <3>1, <2>3, Zenon
  <2>5. \E h : Is(h, i)
    <3> HIDE DEF g
    <3> QED BY <2>4
  <2>6. i \in 0 .. N
    OBVIOUS
  <2> QED BY <2>5, <2>6
<1>3. \E f : Is(f, N)
  <2>1. N \in Nat
    OBVIOUS
  <2>2. N \in T
    <3> HIDE DEF T
    <3>1. \A i \in 1 .. N : i - 1 \in T => i \in T
      BY <1>2
    <3>2. \A i \in 0 .. N : i \in T
      <4> HIDE DEF N
      <4> QED BY <1>1, <2>1, <3>1, UpTo
    <3> QED BY <2>1, <3>2
  <2> QED BY <2>2
<1>4. Is(put, N)
  BY <1>3, Zenon
<1>5. FilterGetReaders(io, opt) = put[N]
  BY Zenon DEF FilterGetReaders
<1>6. \A n \in 0 .. N : put[n] = IF n = 0 THEN io ELSE PutReader(FromEnd(opt.filters, n), put[n - 1])
  <2> HIDE DEF put
  <2> QED BY <1>4
<1>7. put[0] = io /\ \A n \in 1 .. N : put[n] = PutReader(FromEnd(opt.filters, n), put[n - 1])
  <2> HIDE DEF put
  <2> QED BY <1>6
<1> QED BY <1>5, <1>7, Zenon

(* What FilterGetWriters goes through. *)
LEMMA WritersSteps ==
    ASSUME NEW io, NEW opt, Len(opt.filters) \in Nat
    PROVE  \E put :
             /\ put[0] = io
             /\ \A n \in 1 .. Len(opt.filters) :
                   put[n] = PutWriter(n, put[n - 1], opt)
             /\ FilterGetWriters(io, opt) = put[Len(opt.filters)]
<1> DEFINE N == Len(opt.filters)
           Is(f, m) == f = [n \in 0 .. m |->
                              IF n = 0 THEN io ELSE PutWriter(n, f[n - 1], opt)]
           T == {m \in 0 .. N : \E f : Is(f, m)}
           put == CHOOSE f : Is(f, N)
<1>1. 0 \in T
  <2> DEFINE f == [n \in 0 .. 0 |-> io]
  <2>1. Is(f, 0)
    OBVIOUS
  <2>2. 0 \in 0 .. N
    OBVIOUS
  <2> QED BY <2>1, <2>2
<1>2. ASSUME NEW i \in 1 .. N, i - 1 \in T PROVE i \in T
  <2>1. PICK f : Is(f, i - 1)
    BY <1>2
  <2> DEFINE g == [n \in 0 .. i |-> IF n = i THEN PutWriter(i, f[i - 1], opt) ELSE f[n]]
  <2>2. \A n \in 0 .. i - 1 : f[n] = IF n = 0 THEN io ELSE PutWriter(n, f[n - 1], opt)
    BY <2>1
  <2>3. \A n \in 0 .. i : g[n] = IF n = 0 THEN io ELSE PutWriter(n, g[n - 1], opt)
    BY <2>2
  <2>4. Is(g, i)
    <3>1. g = [n \in 0 .. i |-> g[n]]
      OBVIOUS
    <3> QED BY <3>1, <2>3, Zenon
  <2>5. \E h : Is(h, i)
    <3> HIDE DEF g
    <3> QED BY <2>4
  <2>6. i \in 0 .. N
    OBVIOUS
  <2> QED BY <2>5, <2>6
<1>3. \E f : Is(f, N)
  <2>1. N \in Nat
    OBVIOUS
  <2>2. N \in T
    <3> HIDE DEF T
    <3>1. \A i \in 1 .. N : i - 1 \in T => i \in T
      BY <1>2
    <3>2. \A i \in 0 .. N : i \in T
      <4> HIDE DEF N
      <4> QED BY <1>1, <2>1, <3>1, UpTo
    <3> QED BY <2>1, <3>2
  <2> QED BY <2>2
<1>4. Is(put, N)
  BY <1>3, Zenon
<1>5. FilterGetWriters(io, opt) = put[N]
  BY Zenon DEF FilterGetWriters
<1>6. \A n \in 0 .. N : put[n] = IF n = 0 THEN io ELSE PutWriter(n, put[n - 1], opt)
  <2> HIDE DEF put
  <2> QED BY <1>4
<1>7. put[0] = io /\ \A n \in 1 .. N : put[n] = PutWriter(n, put[n - 1], opt)
  <2> HIDE DEF put
  <2> QED BY <1>6
<1> QED BY <1>5, <1>7, Zenon

----------------------------------------------------------------------------
(* Files are opened. *)

Kept(s, t) == \A f \in Files : s.disk[f].exists => t.disk[f] = s.disk[f]

KeptBut(s, t, g) == \A f \in Files : f # g => t.disk[f] = s.disk[f]

Fresh(f) == [on |-> f, layers |-> <<>>, good |-> TRUE, data |-> ""]

Puts(s, t, f, c) == t = [s EXCEPT !.disk = [s.disk EXCEPT ![f] = c]]

LEMMA DiskChangeGood ==
    ASSUME NEW s, Good(s), NEW f, NEW c, f \in Files => IsFile(c),
           NEW t, Puts(s, t, f, c)
    PROVE  /\ Good(t) /\ KeptBut(s, t, f)
           /\ t.drivers = s.drivers /\ t.held = s.held
           /\ f \in Files => t.disk[f] = c
<1> DEFINE d == [s.disk EXCEPT ![f] = c]
<1>1. d = [g \in Files |-> d[g]] /\ \A g \in Files : d[g] = IF g = f THEN c ELSE s.disk[g]
  BY DEF Good, Disked
<1>2. t = [s EXCEPT !.disk = d]
  BY DEF Puts
<1> HIDE DEF d
<1>3. IsRecord(t) /\ t.drivers = s.drivers /\ t.held = s.held /\ t.disk = d
  <2>1. t = [drivers |-> s.drivers, held |-> s.held, loaded |-> s.loaded, disk |-> d]
    BY <1>2, SetDisk DEF Good
  <2> QED BY <2>1, RecordFields
<1>4. Driven(t) /\ Disked(t)
  BY <1>1, <1>3 DEF Good, Driven, Disked
<1>5. Sound(t)
  BY <1>3 DEF Good, Sound, Registered
<1>6. KeptBut(s, t, f) /\ (f \in Files => t.disk[f] = c)
  BY <1>1, <1>3 DEF KeptBut
<1> QED BY <1>3, <1>4, <1>5, <1>6 DEF Good

LEMMA DiskKept ==
    ASSUME NEW s, Good(s), NEW f, NEW c, f \in Files => IsFile(c),
           f \in Files /\ s.disk[f].exists => c = s.disk[f],
           NEW t, Puts(s, t, f, c)
    PROVE  Good(t) /\ Kept(s, t)
<1>1. Good(t) /\ KeptBut(s, t, f) /\ (f \in Files => t.disk[f] = c)
  BY DiskChangeGood
<1> QED BY <1>1 DEF Kept, KeptBut

LEMMA IoOpenGood ==
    ASSUME NEW s, Good(s), NEW f
    PROVE  /\ Good(IoOpen(s, f, TRUE)) /\ KeptBut(s, IoOpen(s, f, TRUE), f)
           /\ Good(IoOpen(s, f, FALSE)) /\ Kept(s, IoOpen(s, f, FALSE))
<1>1. CASE f = "-"
  BY <1>1 DEF IoOpen, Kept, KeptBut
<1>2. CASE f # "-"
  <2>1. Good(IoOpen(s, f, TRUE)) /\ KeptBut(s, IoOpen(s, f, TRUE), f)
    <3> DEFINE c == [exists |-> TRUE, layers |-> <<>>, data |-> ""]
    <3>1. IsFile(c)
      BY Zenon DEF IsFile
    <3>2. Puts(s, IoOpen(s, f, TRUE), f, c)
      BY <1>2, Zenon DEF IoOpen, Puts
    <3> HIDE DEF c
    <3> QED BY <3>1, <3>2, DiskChangeGood, Zenon
  <2>2. Good(IoOpen(s, f, FALSE)) /\ Kept(s, IoOpen(s, f, FALSE))
    <3> DEFINE c == [s.disk[f] EXCEPT !.exists = TRUE]
    <3>1. ASSUME f \in Files PROVE IsFile(c) /\ (s.disk[f].exists => c = s.disk[f])
      <4> DEFINE e == s.disk[f]
      <4>1. e = [exists |-> e.exists, layers |-> e.layers, data |-> e.data] /\ e.exists \in BOOLEAN
        BY <3>1 DEF Good, Disked, IsFile
      <4> HIDE DEF e
      <4>2. ASSUME NEW b PROVE [e EXCEPT !.exists = b] = [exists |-> b, layers |-> e.layers, data |-> e.data]
        BY <4>1
      <4>3. [e EXCEPT !.exists = TRUE] = [exists |-> TRUE, layers |-> e.layers, data |-> e.data]
        BY <4>2, Zenon
      <4>4. IsFile([exists |-> TRUE, layers |-> e.layers, data |-> e.data])
        BY Zenon DEF IsFile
      <4>5. e.exists => e = [exists |-> TRUE, layers |-> e.layers, data |-> e.data]
        <5> SUFFICES ASSUME e.exists PROVE e = [exists |-> TRUE, layers |-> e.layers, data |-> e.data]
          OBVIOUS
        <5>1. e.exists = TRUE
          BY <4>1, Zenon
        <5> QED BY <4>1, <5>1, Zenon
      <4> QED BY <4>3, <4>4, <4>5, Zenon DEF e
    <3>2. Puts(s, IoOpen(s, f, FALSE), f, c)
      BY <1>2, Zenon DEF IoOpen, Puts
    <3> HIDE DEF c
    <3>3. (f \in Files => IsFile(c)) /\ (f \in Files /\ s.disk[f].exists => c = s.disk[f])
      BY <3>1
    <3> QED BY <3>2, <3>3, DiskKept, Zenon
  <2> QED BY <2>1, <2>2
<1> QED BY <1>1, <1>2

LEMMA IoGetFdGood ==
    ASSUME RegistryAssumption, NEW s, Good(s), NEW f
    PROVE  /\ Good(IoReaderGetFd(s, f).state) /\ IoReaderGetFd(s, f).state.disk = s.disk
           /\ Good(IoWriterGetFd(s, f).state) /\ IoWriterGetFd(s, f).state.disk = s.disk
           /\ IoWriterGetFd(s, f).stack \in {NoStack, Fresh(f)}
<1>1. Good(IoGet(s, FileKind[f])) /\ IoGet(s, FileKind[f]).disk = s.disk
  BY GetsGood
<1>2. IoReaderGetFd(s, f).state = IoGet(s, FileKind[f]) /\ IoWriterGetFd(s, f).state = IoGet(s, FileKind[f])
  BY DEF IoReaderGetFd, IoWriterGetFd, With
<1>3. IoWriterGetFd(s, f).stack \in {NoStack, Fresh(f)}
  BY Zenon DEF IoWriterGetFd, With, Fresh
<1> QED BY <1>1, <1>2, <1>3

LEMMA IoGetFileGood ==
    ASSUME RegistryAssumption, NEW s, Good(s), NEW f
    PROVE  /\ Good(IoReaderGetFile(s, f).state) /\ Kept(s, IoReaderGetFile(s, f).state)
           /\ Good(IoWriterGetFile(s, f).state) /\ KeptBut(s, IoWriterGetFile(s, f).state, f)
           /\ IoWriterGetFile(s, f).stack \in {NoStack, Fresh(f)}
<1>1. CASE f \in Locked
  BY <1>1 DEF IoReaderGetFile, IoWriterGetFile, With, Kept, KeptBut
<1>2. CASE f \notin Locked
  <2> DEFINE r == IoOpen(s, f, FALSE)
             w == IoOpen(s, f, TRUE)
  <2>1. Good(r) /\ Kept(s, r) /\ Good(w) /\ KeptBut(s, w, f)
    BY IoOpenGood
  <2>2. IoReaderGetFile(s, f) = IoReaderGetFd(r, f) /\ IoWriterGetFile(s, f) = IoWriterGetFd(w, f)
    BY <1>2 DEF IoReaderGetFile, IoWriterGetFile
  <2> HIDE DEF r, w
  <2> QED BY <2>1, <2>2, IoGetFdGood DEF Kept, KeptBut
<1> QED BY <1>1, <1>2

----------------------------------------------------------------------------
(* Filters and formats. *)

IsStack(x) == x = [on |-> x.on, layers |-> x.layers, good |-> x.good, data |-> x.data]

LEMMA FreshIsStack ==
    ASSUME NEW f
    PROVE  /\ IsStack(Fresh(f)) /\ Fresh(f).on = f
           /\ IsStack(NoStack)
BY Zenon DEF IsStack, Fresh, NoStack

LEMMA NewWriterOn ==
    ASSUME NEW x, IsStack(x), NEW filter, NEW opt, NEW parameters
    PROVE  LET y == NewWriter(filter, x, opt, parameters)
           IN  y # NoStack => /\ IsStack(y) /\ y.on = x.on
                              /\ y.layers = Append(x.layers, filter)
<1> DEFINE level == LevelOf(opt, parameters)
           a == Append(x.layers, filter)
           g == x.good /\ (filter = "bzip2" => level \in 1 .. 9)
           y == NewWriter(filter, x, opt, parameters)
<1> SUFFICES ASSUME y # NoStack PROVE IsStack(y) /\ y.on = x.on /\ y.layers = a
  BY Zenon
<1>1. y = [x EXCEPT !.layers = a, !.good = g]
  BY Zenon DEF NewWriter
<1> HIDE DEF a, g, y
<1>2. y = [on |-> x.on, layers |-> a, good |-> g, data |-> x.data]
  BY <1>1 DEF IsStack
<1>3. y.on = x.on /\ y.layers = a /\ y.good = g /\ y.data = x.data
  BY <1>2, Zenon
<1>4. IsStack(y)
  BY <1>2, <1>3, Zenon DEF IsStack
<1> QED BY <1>3, <1>4

(* A level that the help allows. *)
Documented(opt) == opt.compress_level \in 1 .. 9

LEMMA DocumentedLevel ==
    ASSUME ChainAssumption, NEW opt, Documented(opt), NEW x, IsStack(x), NEW filter, NEW parameters
    PROVE  NewWriter(filter, x, opt, parameters) # NoStack
<1> DEFINE level == LevelOf(opt, parameters)
           a == Append(x.layers, filter)
           g == x.good /\ (filter = "bzip2" => level \in 1 .. 9)
           y == NewWriter(filter, x, opt, parameters)
<1>1. level \in 0 .. 9 /\ opt.compress_level \in 1 .. 9
  BY DEF LevelOf, ChainAssumption, Documented
<1>2. ~LevelRefused(filter, level, opt.compress_level)
  BY <1>1 DEF LevelRefused
<1>3. y = [x EXCEPT !.layers = a, !.good = g]
  BY <1>2, Zenon DEF NewWriter
<1> HIDE DEF level, g, y
<1>4. y.layers = a
  BY <1>3 DEF IsStack
<1>5. a # <<>>
  BY DEF a
<1>6. NoStack.layers = <<>>
  BY DEF NoStack
<1> QED BY <1>4, <1>5, <1>6 DEF y

LEMMA PutReaderGood ==
    ASSUME RegistryAssumption, NEW below, Good(below.state), NEW filter
    PROVE  Good(PutReader(filter, below).state) /\ PutReader(filter, below).state.disk = below.state.disk
<1>1. PutReader(filter, below).state = FilterGet(below.state, filter)
  BY Zenon DEF PutReader, With
<1> QED BY <1>1, GetsGood

LEMMA PutWriterGood ==
    ASSUME RegistryAssumption, NEW below, Good(below.state), IsStack(below.stack), NEW n, NEW opt
    PROVE  LET io == PutWriter(n, below, opt)
           IN  /\ Good(io.state) /\ io.state.disk = below.state.disk
               /\ IsStack(io.stack) /\ io.stack.on = below.stack.on
<1> DEFINE filter == FromEnd(opt.filters, n)
           s == FilterGet(below.state, filter)
           io == PutWriter(n, below, opt)
           new == NewWriter(filter, below.stack, opt, OptionFromEnd(opt.filters, n))
<1>1. io.state = s /\ (io.stack = below.stack \/ (io.stack = new /\ new # NoStack))
  BY Zenon DEF PutWriter, With
<1>2. new # NoStack => IsStack(new) /\ new.on = below.stack.on
  BY NewWriterOn
<1> HIDE DEF io, new
<1>3. IsStack(io.stack) /\ io.stack.on = below.stack.on
  BY <1>1, <1>2, Zenon
<1>4. Good(io.state) /\ io.state.disk = below.state.disk
  BY <1>1, GetsGood
<1> QED BY <1>3, <1>4 DEF io

LEMMA FilterGetReadersGood ==
    ASSUME RegistryAssumption, NEW io, Good(io.state), NEW opt, Len(opt.filters) \in Nat
    PROVE  /\ Good(FilterGetReaders(io, opt).state)
           /\ FilterGetReaders(io, opt).state.disk = io.state.disk
<1> DEFINE N == Len(opt.filters)
<1>1. PICK put :
        /\ put[0] = io
        /\ \A n \in 1 .. N : put[n] = PutReader(FromEnd(opt.filters, n), put[n - 1])
        /\ FilterGetReaders(io, opt) = put[N]
  BY ReadersSteps
<1>2. N \in Nat
  OBVIOUS
<1> HIDE DEF N
<1> DEFINE T == {n \in 0 .. N : Good(put[n].state) /\ put[n].state.disk = io.state.disk}
<1>3. 0 \in T
  BY <1>1, <1>2
<1>4. \A n \in 1 .. N : n - 1 \in T => n \in T
  <2> SUFFICES ASSUME NEW n \in 1 .. N, n - 1 \in T PROVE n \in T
    OBVIOUS
  <2>1. Good(put[n - 1].state) /\ put[n - 1].state.disk = io.state.disk
    OBVIOUS
  <2>2. put[n] = PutReader(FromEnd(opt.filters, n), put[n - 1]) /\ n \in 0 .. N
    BY <1>1, <1>2
  <2> QED BY <2>1, <2>2, PutReaderGood
<1>5. N \in T
  <2> HIDE DEF T
  <2>1. \A n \in 0 .. N : n \in T
    BY <1>2, <1>3, <1>4, UpTo
  <2> QED BY <1>2, <2>1
<1> QED BY <1>1, <1>5

LEMMA FilterGetWritersGood ==
    ASSUME RegistryAssumption, NEW io, Good(io.state), IsStack(io.stack),
           NEW opt, Len(opt.filters) \in Nat
    PROVE  /\ Good(FilterGetWriters(io, opt).state)
           /\ FilterGetWriters(io, opt).state.disk = io.state.disk
           /\ IsStack(FilterGetWriters(io, opt).stack)
           /\ FilterGetWriters(io, opt).stack.on = io.stack.on
<1> DEFINE N == Len(opt.filters)
<1>1. PICK put :
        /\ put[0] = io
        /\ \A n \in 1 .. N : put[n] = PutWriter(n, put[n - 1], opt)
        /\ FilterGetWriters(io, opt) = put[N]
  BY WritersSteps
<1>2. N \in Nat
  OBVIOUS
<1> HIDE DEF N
<1> DEFINE T == {n \in 0 .. N : /\ Good(put[n].state) /\ put[n].state.disk = io.state.disk
                                /\ IsStack(put[n].stack) /\ put[n].stack.on = io.stack.on}
<1>3. 0 \in T
  BY <1>1, <1>2
<1>4. \A n \in 1 .. N : n - 1 \in T => n \in T
  <2> SUFFICES ASSUME NEW n \in 1 .. N, n - 1 \in T PROVE n \in T
    OBVIOUS
  <2>1. /\ Good(put[n - 1].state) /\ put[n - 1].state.disk = io.state.disk
        /\ IsStack(put[n - 1].stack) /\ put[n - 1].stack.on = io.stack.on
    OBVIOUS
  <2>2. put[n] = PutWriter(n, put[n - 1], opt) /\ n \in 0 .. N
    BY <1>1, <1>2
  <2> QED BY <2>1, <2>2, PutWriterGood
<1>5. N \in T
  <2> HIDE DEF T
  <2>1. \A n \in 0 .. N : n \in T
    BY <1>2, <1>3, <1>4, UpTo
  <2> QED BY <1>2, <2>1
<1> QED BY <1>1, <1>5

LEMMA CompressionGood ==
    ASSUME RegistryAssumption, NEW io, Good(io.state), NEW module, NEW opt
    PROVE  /\ Good(Uncompress(io, module).state) /\ Uncompress(io, module).state.disk = io.state.disk
           /\ LET w == Compress(io, module, opt)
              IN  /\ Good(w.state) /\ w.state.disk = io.state.disk
                  /\ IsStack(io.stack) => w.stack = NoStack \/ w.stack.on = io.stack.on
<1> DEFINE s == FilterGet(io.state, module)
           w == Compress(io, module, opt)
           new == NewWriter(module, io.stack, opt, "none")
<1>1. Uncompress(io, module).state \in {s, io.state} /\ w.state \in {s, io.state}
  BY Zenon DEF Uncompress, Compress, With
<1>2. w.stack \in {io.stack, new, NoStack}
  BY Zenon DEF Compress, With
<1>3. IsStack(io.stack) => new = NoStack \/ new.on = io.stack.on
  BY NewWriterOn
<1> HIDE DEF w, new
<1>4. IsStack(io.stack) => w.stack = NoStack \/ w.stack.on = io.stack.on
  BY <1>2, <1>3
<1>5. Good(w.state) /\ w.state.disk = io.state.disk
  BY <1>1, GetsGood
<1>6. Good(Uncompress(io, module).state) /\ Uncompress(io, module).state.disk = io.state.disk
  BY <1>1, GetsGood
<1> QED BY <1>4, <1>5, <1>6 DEF w

(* A reader leaves what is there, a writer all but its file. *)
Reads(s, io) == Good(io.state) /\ Kept(s, io.state)

Writes(s, io, f) ==
    /\ Good(io.state) /\ KeptBut(s, io.state, f)
    /\ io.stack = NoStack \/ io.stack.on = f

LEMMA FilterGetReader23 ==
    ASSUME RegistryAssumption, NEW s, Good(s), NEW opt, Len(opt.filters) \in Nat
    PROVE  /\ \A io : Reads(s, io) => Reads(s, FilterGetReader2(io, opt))
           /\ \A f : Reads(s, FilterGetReader3(s, f, opt))
<1>1. ASSUME NEW io, Reads(s, io), NEW module
      PROVE  Reads(s, Uncompress(FilterGetReaders(io, opt), module))
  <2> DEFINE filtered == FilterGetReaders(io, opt)
             r == Uncompress(filtered, module)
  <2>1. Good(filtered.state) /\ filtered.state.disk = io.state.disk
    BY <1>1, FilterGetReadersGood DEF Reads
  <2> HIDE DEF filtered
  <2>2. Good(r.state) /\ r.state.disk = filtered.state.disk
    BY <2>1, CompressionGood
  <2> HIDE DEF r
  <2>3. Reads(s, r)
    BY <1>1, <2>1, <2>2 DEF Reads, Kept
  <2> QED BY <2>3 DEF r, filtered
<1>2. ASSUME NEW io, Reads(s, io) PROVE Reads(s, FilterGetReader2(io, opt))
  BY <1>1, <1>2 DEF FilterGetReader2
<1>3. ASSUME NEW f PROVE Reads(s, FilterGetReader3(s, f, opt))
  <2>1. Reads(s, IoReaderGetFile(s, f))
    BY IoGetFileGood DEF Reads
  <2> QED BY <1>1, <2>1 DEF FilterGetReader3
<1> QED BY <1>2, <1>3

LEMMA FilterGetWriter23 ==
    ASSUME RegistryAssumption, NEW s, Good(s), NEW opt, Len(opt.filters) \in Nat
    PROVE  /\ \A io, f : Good(io.state) /\ KeptBut(s, io.state, f) /\ io.stack \in {NoStack, Fresh(f)}
                            => Writes(s, FilterGetWriter2(io, opt), f)
           /\ \A f : Writes(s, FilterGetWriter3(s, f, opt), f)
<1>1. ASSUME NEW io, NEW f, Good(io.state), KeptBut(s, io.state, f), io.stack = Fresh(f), NEW module
      PROVE  Writes(s, Compress(FilterGetWriters(io, opt), module, opt), f)
  <2>1. IsStack(io.stack) /\ io.stack.on = f
    BY <1>1, FreshIsStack
  <2> QED BY <1>1, <2>1, FilterGetWritersGood, CompressionGood DEF Writes, KeptBut
<1>2. ASSUME NEW io, NEW f, Good(io.state), KeptBut(s, io.state, f), io.stack \in {NoStack, Fresh(f)}
      PROVE  Writes(s, FilterGetWriter2(io, opt), f)
  <2>1. CASE io.stack = NoStack
    BY <1>2, <2>1 DEF FilterGetWriter2, Writes
  <2>2. CASE io.stack # NoStack
    <3>1. io.stack = Fresh(f)
      BY <1>2, <2>2
    <3> QED BY <1>1, <1>2, <2>2, <3>1 DEF FilterGetWriter2
  <2> QED BY <2>1, <2>2
<1>3. ASSUME NEW f PROVE Writes(s, FilterGetWriter3(s, f, opt), f)
  <2> DEFINE io == IoWriterGetFile(s, f)
  <2>1. Good(io.state) /\ KeptBut(s, io.state, f) /\ io.stack \in {NoStack, Fresh(f)}
    BY IoGetFileGood
  <2>2. FilterGetWriter3(s, f, opt) = IF io.stack = NoStack THEN io
                                      ELSE Compress(FilterGetWriters(io, opt), FilterGetModule(f), opt)
    BY Zenon DEF FilterGetWriter3
  <2> HIDE DEF io
  <2>3. CASE io.stack = NoStack
    BY <2>1, <2>2, <2>3 DEF Writes
  <2>4. CASE io.stack # NoStack
    <3>1. io.stack = Fresh(f)
      BY <2>1, <2>4
    <3> QED BY <1>1, <2>1, <2>2, <2>4, <3>1
  <2> QED BY <2>3, <2>4
<1> QED BY <1>2, <1>3

TargetOf(opt) == IF opt.filename = "none" THEN "-" ELSE opt.filename

LEMMA FilterGetGood ==
    ASSUME RegistryAssumption, NEW s, Good(s), NEW opt, Len(opt.filters) \in Nat
    PROVE  /\ Reads(s, FilterGetReader(s, opt))
           /\ Writes(s, FilterGetWriter(s, opt), TargetOf(opt))
<1>1. Reads(s, FilterGetReader(s, opt))
  <2>1. Reads(s, IoReaderGetFile(s, opt.filename)) /\ Reads(s, IoReaderGetFd(s, "-"))
    BY IoGetFileGood, IoGetFdGood DEF Reads, Kept
  <2> QED BY <2>1, FilterGetReader23, Zenon DEF FilterGetReader
<1>2. Writes(s, FilterGetWriter(s, opt), TargetOf(opt))
  <2>1. CASE opt.filename # "none"
    <3> DEFINE io == IoWriterGetFile(s, opt.filename)
    <3>1. Good(io.state) /\ KeptBut(s, io.state, opt.filename) /\ io.stack \in {NoStack, Fresh(opt.filename)}
      BY IoGetFileGood
    <3>2. Writes(s, FilterGetWriter2(io, opt), opt.filename) /\ Writes(s, FilterGetWriter3(s, opt.filename, opt), opt.filename)
      <4> HIDE DEF io
      <4> QED BY <3>1, FilterGetWriter23, Zenon
    <3> QED BY <2>1, <3>2, Zenon DEF FilterGetWriter, TargetOf
  <2>2. CASE opt.filename = "none"
    <3> DEFINE io == IoWriterGetFd(s, "-")
    <3>1. Good(io.state) /\ KeptBut(s, io.state, "-") /\ io.stack \in {NoStack, Fresh("-")}
      BY IoGetFdGood DEF KeptBut
    <3>2. Writes(s, FilterGetWriter2(io, opt), "-")
      <4> HIDE DEF io
      <4> QED BY <3>1, FilterGetWriter23, Zenon
    <3> QED BY <2>2, <3>2, Zenon DEF FilterGetWriter, TargetOf
  <2> QED BY <2>1, <2>2
<1> QED BY <1>1, <1>2

LEMMA FormatGetGood ==
    ASSUME RegistryAssumption, NEW s, Good(s), NEW opt, Len(opt.filters) \in Nat
    PROVE  /\ Reads(s, FormatGetReader(s, opt))
           /\ Writes(s, FormatGetWriter(s, opt), TargetOf(opt))
<1>1. Reads(s, FilterGetReader(s, opt))
  BY FilterGetGood
<1>2. Writes(s, FilterGetWriter(s, opt), TargetOf(opt))
  BY FilterGetGood
<1>3. ASSUME NEW io, Reads(s, io) PROVE Reads(s, FormatGetReader2(io, opt))
  <2>1. FormatGetReader2(io, opt).state \in {io.state, LoadAll(io.state, "format"), FormatGet(io.state, opt.format)}
    BY Zenon DEF FormatGetReader2, With
  <2>2. "format" \in Kinds
    BY DEF Kinds
  <2> QED BY <1>3, <2>1, <2>2, LoadAllGood, GetsGood DEF Reads, Kept
<1>4. ASSUME NEW io, NEW f, Writes(s, io, f) PROVE Writes(s, FormatGetWriter2(io, opt), f)
  <2>1. /\ FormatGetWriter2(io, opt).state \in {io.state, FormatGet(io.state, opt.format)}
        /\ FormatGetWriter2(io, opt).stack \in {io.stack, NoStack}
    BY Zenon DEF FormatGetWriter2, With
  <2> QED BY <1>4, <2>1, GetsGood DEF Writes, KeptBut
<1> QED BY <1>1, <1>2, <1>3, <1>4 DEF FormatGetReader, FormatGetWriter

----------------------------------------------------------------------------
(* The command line. *)

IsSeq(s) == \E S : s \in Seq(S)

Optioned ==
    /\ DOMAIN Defaults \subseteq DOMAIN option
    /\ IsSeq(option.filters) /\ IsSeq(option.files) /\ IsSeq(option.excludes)

LEMMA SeqAppend ==
    ASSUME NEW s, IsSeq(s), NEW e
    PROVE  /\ IsSeq(Append(s, e)) /\ Len(Append(s, e)) = Len(s) + 1
           /\ Append(s, e)[Len(s) + 1] = e
           /\ \A i \in 1 .. Len(s) : Append(s, e)[i] = s[i]
           /\ Len(s) \in Nat /\ DOMAIN s = 1 .. Len(s)
<1>1. PICK S : s \in Seq(S)
  BY DEF IsSeq
<1>2. Append(s, e) \in Seq(S \cup {e})
  <2>1. s \in Seq(S \cup {e}) /\ e \in S \cup {e}
    BY <1>1
  <2> QED BY <2>1
<1> QED BY <1>1, <1>2 DEF IsSeq

LEMMA DefaultFields ==
    DOMAIN Defaults =
      {"do_work", "recursive_unlink", "unlink_first", "verify", "atime_preserve", "group", "mode",
       "owner", "filename", "tape_length", "multi_volume", "block_factor", "auto_detect_format",
       "format", "label", "auto_compress", "compress_module", "compress_level", "filters", "files",
       "working_directory", "excludes", "exclude_option", "exclude_tags", "delimiter", "verbose"}
BY DEF Defaults

LEMMA SetIs ==
    ASSUME Optioned, NEW fields, Set(fields)
    PROVE  /\ DOMAIN Defaults \subseteq DOMAIN option'
           /\ \A x \in DOMAIN Defaults :
                 option'[x] = IF x \in DOMAIN fields THEN fields[x] ELSE option[x]
           /\ UNCHANGED <<system, pattern>>
BY DEF Set, Optioned

(* What the parser does to the state: it reads. *)
Parsed == Good(system') /\ Kept(system, system') /\ Optioned'

LEMMA LoadsKept ==
    ASSUME NEW s, NEW t, t.disk = s.disk
    PROVE  Kept(s, t)
BY DEF Kept

LEMMA ShowGood ==
    ASSUME RegistryAssumption, NEW s, Good(s)
    PROVE  /\ Good(ShowHelp(s)) /\ ShowHelp(s).disk = s.disk
           /\ Good(ShowFullVersion(s)) /\ ShowFullVersion(s).disk = s.disk
<1>1. \A t, kind : Good(t) /\ kind \in Kinds => Good(LoadAll(t, kind)) /\ LoadAll(t, kind).disk = t.disk
  BY LoadAllGood
<1>2. {"pattern", "filter", "format", "function", "io"} \subseteq Kinds
  BY DEF Kinds
<1>3. Good(ShowHelp(s)) /\ ShowHelp(s).disk = s.disk
  BY <1>1, <1>2 DEF ShowHelp, PatternShowDescription, FilterShowDescription, FormatShowDescription,
                    FunctionShowDescription
<1>4. Good(ShowFullVersion(s)) /\ ShowFullVersion(s).disk = s.disk
  BY <1>1, <1>2 DEF ShowFullVersion, PatternShowVersion, IoShowVersion, FunctionShowVersion,
                    FormatShowVersion, FilterShowVersion
<1> QED BY <1>3, <1>4

LEMMA ToldGood ==
    ASSUME RegistryAssumption, Good(system), NEW name \in DOMAIN Told
    PROVE  Good(Told[name]) /\ Told[name].disk = system.disk
<1>1. \A t, kind : Good(t) /\ kind \in Kinds => Good(LoadAll(t, kind)) /\ LoadAll(t, kind).disk = t.disk
  BY LoadAllGood
<1>2. {"pattern", "filter", "format", "function", "io"} \subseteq Kinds
  BY DEF Kinds
<1>3. Told[name] \in {ShowHelp(system), ShowFullVersion(system), system, FilterShowHelp(system, Value),
                      FunctionShowHelp(system, Value), FilterShowDescription(system),
                      FormatShowDescription(system), FunctionShowDescription(system),
                      IoShowDescription(system)}
  BY DEF Told
<1> HIDE DEF Told
<1> QED BY <1>1, <1>2, <1>3, ShowGood, GetsGood
        DEF FilterShowHelp, FunctionShowHelp, FilterShowDescription, FormatShowDescription,
            FunctionShowDescription, IoShowDescription

(* Fields that are set, none of them a list, or a list to which something   *)
(* was appended.                                                            *)
LEMMA SetOptioned ==
    ASSUME Optioned, NEW fields, Set(fields),
           \A x \in {"filters", "files", "excludes"} \cap DOMAIN fields : IsSeq(fields[x])
    PROVE  Optioned' /\ UNCHANGED <<system, pattern>>
<1>1. /\ DOMAIN Defaults \subseteq DOMAIN option'
      /\ \A x \in DOMAIN Defaults : option'[x] = IF x \in DOMAIN fields THEN fields[x] ELSE option[x]
      /\ UNCHANGED <<system, pattern>>
  BY SetIs
<1>2. {"filters", "files", "excludes"} \subseteq DOMAIN Defaults
  BY DefaultFields
<1>3. IsSeq(option'["filters"]) /\ IsSeq(option'["files"]) /\ IsSeq(option'["excludes"])
  BY <1>1, <1>2 DEF Optioned
<1> QED BY <1>1, <1>3 DEF Optioned

LEMMA FlagFields ==
    ASSUME NEW name \in DOMAIN Flags
    PROVE  DOMAIN Flags[name] \cap {"filters", "files", "excludes", "working_directory"} = {}
BY DEF Flags

LEMMA CacheTagFields ==
    ASSUME NEW name \in DOMAIN CacheTags
    PROVE  DOMAIN CacheTags[name] = {"exclude_tags"}
BY DEF CacheTags, Tagged

LEMMA ValueFields ==
    ASSUME NEW v, NEW name \in DOMAIN Values(v)
    PROVE  /\ DOMAIN Values(v)[name] \cap {"files", "excludes"} = {}
           /\ "filters" \in DOMAIN Values(v)[name] =>
                 Values(v)[name].filters = Append(option.filters, [name |-> v, option |-> "none"])
           /\ IF name = "directory" THEN Values(v)[name] = [working_directory |-> v]
              ELSE "working_directory" \notin DOMAIN Values(v)[name]
<1>1. DOMAIN Values(v) = {"blocking_factor", "compression_level", "directory", "format", "group",
         "owner", "label", "mode", "tape_length", "filter", "exclude_tag", "exclude_tag_all",
         "exclude_tag_under"}
  BY DEF Values
<1>2. Values(v)["directory"] = [working_directory |-> v]
      /\ Values(v)["filter"] = [filters |-> Append(option.filters, [name |-> v, option |-> "none"])]
  BY DEF Values
<1>3. /\ DOMAIN Values(v)["blocking_factor"] = {"block_factor"}
      /\ DOMAIN Values(v)["compression_level"] = {"compress_level"}
      /\ DOMAIN Values(v)["format"] = {"format", "auto_detect_format"}
      /\ DOMAIN Values(v)["group"] = {"group"}
      /\ DOMAIN Values(v)["owner"] = {"owner"}
      /\ DOMAIN Values(v)["label"] = {"label"}
      /\ DOMAIN Values(v)["mode"] = {"mode"}
      /\ DOMAIN Values(v)["tape_length"] = {"tape_length"}
      /\ DOMAIN Values(v)["exclude_tag"] = {"exclude_tags"}
      /\ DOMAIN Values(v)["exclude_tag_all"] = {"exclude_tags"}
      /\ DOMAIN Values(v)["exclude_tag_under"] = {"exclude_tags"}
  BY DEF Values, Tagged
<1>4. /\ DOMAIN Values(v)["directory"] = {"working_directory"}
      /\ DOMAIN Values(v)["filter"] = {"filters"}
      /\ Values(v)["filter"].filters = Append(option.filters, [name |-> v, option |-> "none"])
  BY <1>2
<1>5. name \in DOMAIN Values(v)
  OBVIOUS
<1> DEFINE V == Values(v)
<1> HIDE DEF V
<1> QED BY <1>1, <1>2, <1>3, <1>4, <1>5

LEMMA SystemSame ==
    ASSUME Good(system), NEW t, t = system
    PROVE  Good(t) /\ Kept(system, t)
BY DEF Kept

LEMMA OptionSame ==
    ASSUME Optioned, UNCHANGED option
    PROVE  Optioned'
BY DEF Optioned

(* One field of the options. *)
LEMMA FieldSet ==
    ASSUME Optioned, NEW x \in DOMAIN Defaults, NEW v, option' = [option EXCEPT ![x] = v],
           x \in {"filters", "files", "excludes"} => IsSeq(v)
    PROVE  /\ Optioned' /\ option'[x] = v
           /\ \A y \in DOMAIN Defaults : y # x => option'[y] = option[y]
<1>1. /\ DOMAIN option' = DOMAIN option /\ option'[x] = v
      /\ \A y \in DOMAIN Defaults : y # x => option'[y] = option[y]
  BY DEF Optioned
<1>2. {"filters", "files", "excludes"} \subseteq DOMAIN Defaults
  BY DefaultFields
<1>3. IsSeq(option'["filters"]) /\ IsSeq(option'["files"]) /\ IsSeq(option'["excludes"])
  BY <1>1, <1>2 DEF Optioned
<1> QED BY <1>1, <1>3 DEF Optioned

(* What the name of a file adds. *)
IsInclude(v, name) ==
    /\ v.name = name /\ v.dir = option.working_directory /\ v.flags = pattern.include
    /\ v.engine \in {"default", "none", pattern.engine}

LEMMA IncludeIs ==
    ASSUME NEW name
    PROVE  IsInclude(Include(name), name) /\ IsInclude([Include(name) EXCEPT !.engine = "none"], name)
BY DEF IsInclude, Include

LEMMA AddIncludeIs ==
    ASSUME RegistryAssumption, Good(system), Optioned, NEW name, AddInclude(name)
    PROVE  /\ Parsed /\ UNCHANGED pattern
           /\ \E v : IsInclude(v, name) /\ option'.files = Append(option.files, v)
           /\ \A y \in DOMAIN Defaults : y # "files" => option'[y] = option[y]
<1>1. \E v : IsInclude(v, name) /\ option' = [option EXCEPT !.files = Append(option.files, v)]
  <2> DEFINE a == Include(name)
             b == [Include(name) EXCEPT !.engine = "none"]
  <2>1. IsInclude(a, name) /\ IsInclude(b, name)
    BY IncludeIs
  <2>2. \/ option' = [option EXCEPT !.files = Append(option.files, a)]
        \/ option' = [option EXCEPT !.files = Append(option.files, b)]
    BY Zenon DEF AddInclude
  <2> HIDE DEF a, b
  <2> QED BY <2>1, <2>2, Zenon
<1>2. PICK v : IsInclude(v, name) /\ option' = [option EXCEPT !.files = Append(option.files, v)]
  BY <1>1, Zenon
<1>3. "files" \in DOMAIN Defaults
  BY DefaultFields
<1>4. IsSeq(Append(option.files, v))
  BY SeqAppend DEF Optioned
<1>5. /\ Optioned' /\ option'["files"] = Append(option.files, v)
      /\ \A y \in DOMAIN Defaults : y # "files" => option'[y] = option[y]
  BY <1>2, <1>3, <1>4, FieldSet
<1>6. Good(system') /\ Kept(system, system')
  <2>1. system' \in {system, PatternGet(system, pattern.engine)}
    BY Zenon DEF AddInclude
  <2> QED BY <2>1, GetsGood, LoadsKept
<1>7. UNCHANGED pattern
  BY DEF AddInclude
<1>8. option'.files = Append(option.files, v)
  BY <1>5
<1> QED BY <1>2, <1>5, <1>6, <1>7, <1>8 DEF Parsed

LEMMA AddExcludeIs ==
    ASSUME RegistryAssumption, Good(system), Optioned, NEW name, AddExclude(name)
    PROVE  /\ Parsed /\ UNCHANGED pattern
           /\ \A y \in DOMAIN Defaults : y # "excludes" => option'[y] = option[y]
<1>1. \E v : option' = [option EXCEPT !.excludes = Append(option.excludes, v)]
  <2> DEFINE a == Exclude(name)
             b == [Exclude(name) EXCEPT !.engine = "none"]
  <2>1. \/ option' = [option EXCEPT !.excludes = Append(option.excludes, a)]
        \/ option' = [option EXCEPT !.excludes = Append(option.excludes, b)]
    BY Zenon DEF AddExclude
  <2> HIDE DEF a, b
  <2> QED BY <2>1, Zenon
<1>2. PICK v : option' = [option EXCEPT !.excludes = Append(option.excludes, v)]
  BY <1>1, Zenon
<1>3. "excludes" \in DOMAIN Defaults
  BY DefaultFields
<1>4. IsSeq(Append(option.excludes, v))
  BY SeqAppend DEF Optioned
<1>5. /\ Optioned' /\ \A y \in DOMAIN Defaults : y # "excludes" => option'[y] = option[y]
  BY <1>2, <1>3, <1>4, FieldSet
<1>6. Good(system') /\ Kept(system, system')
  <2>1. system' = PatternGet(system, pattern.engine)
    BY Zenon DEF AddExclude
  <2> QED BY <2>1, GetsGood, LoadsKept
<1>7. UNCHANGED pattern
  BY DEF AddExclude
<1> QED BY <1>5, <1>6, <1>7 DEF Parsed


(* A list of names adds none. *)
LEMMA AddFromFileIs ==
    ASSUME RegistryAssumption, Good(system), Optioned, NEW file,
           AddIncludeFromFile(file) \/ AddExcludeFromFile(file)
    PROVE  /\ Parsed /\ UNCHANGED pattern
           /\ \A y \in DOMAIN Defaults : option'[y] = option[y]
<1>1. [i \in DOMAIN Lines(file) |-> Include(Lines(file)[i])] = <<>>
      /\ [i \in DOMAIN Lines(file) |-> Exclude(Lines(file)[i])] = <<>>
  BY DEF Lines
<1>2. option.files \o <<>> = option.files /\ option.excludes \o <<>> = option.excludes
  BY DEF Optioned, IsSeq
<1>3. \/ option' = [option EXCEPT !.files = option.files]
      \/ option' = [option EXCEPT !.excludes = option.excludes]
  BY <1>1, <1>2, Zenon DEF AddIncludeFromFile, AddExcludeFromFile
<1>4. "files" \in DOMAIN Defaults /\ "excludes" \in DOMAIN Defaults
  BY DefaultFields
<1>5. Optioned' /\ \A y \in DOMAIN Defaults : option'[y] = option[y]
  <2>1. CASE option' = [option EXCEPT !.files = option.files]
    BY <1>4, <2>1, FieldSet DEF Optioned
  <2>2. CASE option' = [option EXCEPT !.excludes = option.excludes]
    BY <1>4, <2>2, FieldSet DEF Optioned
  <2> QED BY <1>3, <2>1, <2>2
<1>6. Good(system') /\ Kept(system, system')
  <2>1. system' = FilterGetReader3(system, file, option).state
    BY Zenon DEF AddIncludeFromFile, AddExcludeFromFile
  <2>2. Len(option.filters) \in Nat
    BY DEF Optioned, IsSeq
  <2> QED BY <2>1, <2>2, FilterGetReader23 DEF Reads
<1>7. UNCHANGED pattern
  BY DEF AddIncludeFromFile, AddExcludeFromFile
<1> QED BY <1>5, <1>6, <1>7 DEF Parsed

LEMMA SetFunctionIs ==
    ASSUME RegistryAssumption, Good(system), Optioned, NEW name, SetFunction(name)
    PROVE  /\ Parsed /\ UNCHANGED pattern
           /\ \A y \in DOMAIN Defaults : y # "do_work" => option'[y] = option[y]
<1>1. PICK v : option' = [option EXCEPT !.do_work = v]
  BY Zenon DEF SetFunction
<1>2. "do_work" \in DOMAIN Defaults
  BY DefaultFields
<1>3. Optioned' /\ \A y \in DOMAIN Defaults : y # "do_work" => option'[y] = option[y]
  BY <1>1, <1>2, FieldSet
<1>4. Good(system') /\ Kept(system, system')
  <2>1. system' = FunctionGet(system, name)
    BY Zenon DEF SetFunction
  <2> QED BY <2>1, GetsGood, LoadsKept
<1>5. UNCHANGED pattern
  BY DEF SetFunction
<1> QED BY <1>3, <1>4, <1>5 DEF Parsed

LEMMA SetGood ==
    ASSUME Good(system), Optioned, NEW fields, Set(fields),
           \A x \in {"filters", "files", "excludes"} \cap DOMAIN fields : IsSeq(fields[x])
    PROVE  Parsed
<1>1. Optioned' /\ system' = system
  BY SetOptioned
<1> QED BY <1>1, SystemSame DEF Parsed

LEMMA SetFlagGood ==
    ASSUME Good(system), Optioned, NEW name,
           \/ name \in DOMAIN Flags /\ Set(Flags[name])
           \/ name \in DOMAIN CacheTags /\ Set(CacheTags[name])
    PROVE  Parsed
<1>1. CASE name \in DOMAIN Flags /\ Set(Flags[name])
  <2> DEFINE fields == Flags[name]
  <2>1. {"filters", "files", "excludes"} \cap DOMAIN fields = {} /\ Set(fields)
    BY <1>1, FlagFields
  <2> HIDE DEF fields
  <2> QED BY <2>1, SetGood
<1>2. CASE name \in DOMAIN CacheTags /\ Set(CacheTags[name])
  <2> DEFINE fields == CacheTags[name]
  <2>1. {"filters", "files", "excludes"} \cap DOMAIN fields = {} /\ Set(fields)
    BY <1>2, CacheTagFields
  <2> HIDE DEF fields
  <2> QED BY <2>1, SetGood
<1> QED BY <1>1, <1>2

LEMMA SetValueGood ==
    ASSUME Good(system), Optioned, NEW v, NEW name \in DOMAIN Values(v), Set(Values(v)[name])
    PROVE  Parsed
<1> DEFINE fields == Values(v)[name]
<1>1. /\ DOMAIN fields \cap {"files", "excludes"} = {}
      /\ "filters" \in DOMAIN fields =>
            fields.filters = Append(option.filters, [name |-> v, option |-> "none"])
  BY ValueFields
<1>2. Set(fields)
  OBVIOUS
<1> HIDE DEF fields
<1>3. IsSeq(Append(option.filters, [name |-> v, option |-> "none"]))
  BY SeqAppend DEF Optioned
<1>4. \A x \in {"filters", "files", "excludes"} \cap DOMAIN fields : IsSeq(fields[x])
  BY <1>1, <1>3
<1> QED BY <1>2, <1>4, SetGood

LEMMA SetOneGood ==
    ASSUME Good(system), Optioned, NEW v,
           \/ Set([block_factor |-> v]) \/ Set([tape_length |-> v]) \/ Set([filename |-> v])
    PROVE  Parsed
<1>1. CASE Set([block_factor |-> v])
  <2>1. {"filters", "files", "excludes"} \cap DOMAIN [block_factor |-> v] = {}
    OBVIOUS
  <2> QED BY <1>1, <2>1, SetGood
<1>2. CASE Set([tape_length |-> v])
  <2>1. {"filters", "files", "excludes"} \cap DOMAIN [tape_length |-> v] = {}
    OBVIOUS
  <2> QED BY <1>2, <2>1, SetGood
<1>3. CASE Set([filename |-> v])
  <2>1. {"filters", "files", "excludes"} \cap DOMAIN [filename |-> v] = {}
    OBVIOUS
  <2> QED BY <1>3, <2>1, SetGood
<1> QED BY <1>1, <1>2, <1>3

LEMMA FilterOptionGood ==
    ASSUME Good(system), Optioned, NEW v, FilterOption(v)
    PROVE  Parsed
<1> DEFINE fs == [option.filters EXCEPT ![Len(option.filters)].option = v]
           fields == [filters |-> fs]
<1>1. IsSeq(fs)
  <2>1. PICK S : option.filters \in Seq(S)
    BY DEF Optioned, IsSeq
  <2> DEFINE w == [option.filters[Len(option.filters)] EXCEPT !.option = v]
  <2>2. fs = [option.filters EXCEPT ![Len(option.filters)] = w]
    OBVIOUS
  <2> HIDE DEF fs, w
  <2>3. fs \in Seq(S \cup {w})
    <3> DEFINE N == Len(option.filters)
    <3>1. N \in Nat /\ DOMAIN option.filters = 1 .. N /\ \A i \in 1 .. N : option.filters[i] \in S
      BY <2>1
    <3> HIDE DEF N
    <3>2. fs \in [1 .. N -> S \cup {w}]
      BY <2>2, <3>1
    <3> QED BY <3>1, <3>2
  <2> QED BY <2>3 DEF IsSeq
<1>2. Set(fields)
  BY DEF FilterOption
<1> HIDE DEF fs
<1>3. DOMAIN fields = {"filters"} /\ fields["filters"] = fs
  OBVIOUS
<1> HIDE DEF fields
<1> QED BY <1>1, <1>2, <1>3, SetGood

LEMMA HelpGood ==
    ASSUME RegistryAssumption, Good(system), Optioned, NEW n, ShowHelpAndReturn(n), UNCHANGED option
    PROVE  Parsed
BY ShowGood, LoadsKept, OptionSame DEF ShowHelpAndReturn, Parsed

LEMMA NothingParsed ==
    ASSUME Good(system), Optioned, UNCHANGED <<system, option>>
    PROVE  Parsed
BY SystemSame, OptionSame DEF Parsed

(* The parser opens files to be read and loads libraries.                   *)
LEMMA ParseGood ==
    ASSUME RegistryAssumption, Good(system), Optioned, Parse
    PROVE  Parsed
<1>1. ASSUME Refuse PROVE Parsed
  BY <1>1, HelpGood DEF Refuse
<1>2. ASSUME NoTerminal \/ StartParse \/ BundleDash \/ BundleEnds \/ PatternOption \/ StopOption
             \/ OptionsEnd \/ Check
      PROVE  Parsed
  <2>1. UNCHANGED <<system, option>>
    BY <1>2 DEF NoTerminal, StartParse, BundleDash, BundleEnds, PatternOption, StopOption,
                OptionsEnd, Check
  <2> QED BY <2>1, NothingParsed
<1>3. ASSUME BundleFlag PROVE Parsed
  <2>1. PICK l \in DOMAIN LetterOption \ WithParameter :
           IF LetterOption[l] \in Functions THEN SetFunction(LetterOption[l])
           ELSE Set(Flags[LetterOption[l]])
    BY <1>3 DEF BundleFlag
  <2>2. CASE LetterOption[l] \in Functions
    BY <2>1, <2>2, SetFunctionIs
  <2>3. CASE LetterOption[l] \notin Functions
    <3>1. LetterOption[l] \in DOMAIN Flags
      BY <2>3 DEF LetterOption, WithParameter, Functions, Flags
    <3> QED BY <2>1, <2>3, <3>1, SetFlagGood
  <2> QED BY <2>2, <2>3
<1>4. ASSUME BundleNumber PROVE Parsed
  <2>1. \/ UNCHANGED <<system, option>>
        \/ Set([block_factor |-> Atoi(Parameter)])
        \/ Set([tape_length |-> Atoi(Parameter)])
    BY <1>4 DEF BundleNumber
  <2> QED BY <2>1, NothingParsed, SetOneGood
<1>5. ASSUME BundleValue PROVE Parsed
  <2>1. PICK l \in {"C", "H", "V"} :
           Set(Values(IF Parameter = "NULL" THEN "none" ELSE Parameter)[LetterOption[l]])
    BY <1>5 DEF BundleValue
  <2>2. ASSUME NEW v PROVE LetterOption[l] \in DOMAIN Values(v)
    BY DEF LetterOption, Values
  <2> QED BY <2>1, <2>2, SetValueGood
<1>6. ASSUME BundleFile PROVE Parsed
  <2>1. \/ ShowHelpAndReturn(2) /\ UNCHANGED option
        \/ Set([filename |-> Parameter])
    BY <1>6 DEF BundleFile
  <2> QED BY <2>1, HelpGood, SetOneGood
<1>7. ASSUME BundleList PROVE Parsed
  <2>1. \/ UNCHANGED <<system, option>>
        \/ AddIncludeFromFile(Parameter) \/ AddExcludeFromFile(Parameter)
    BY <1>7 DEF BundleList
  <2> QED BY <2>1, NothingParsed, AddFromFileIs
<1>8. ASSUME BundleHelp PROVE Parsed
  BY <1>8, HelpGood DEF BundleHelp
<1>9. ASSUME FileName \/ Rest PROVE Parsed
  <2>1. UNCHANGED <<system, option>> \/ \E name : AddInclude(name)
    BY <1>9 DEF FileName, Rest
  <2> QED BY <2>1, NothingParsed, AddIncludeIs
<1>10. ASSUME SimpleOption PROVE Parsed
  <2>1. \/ Name \in DOMAIN Flags /\ Set(Flags[Name])
        \/ Name \in DOMAIN CacheTags /\ Set(CacheTags[Name])
    BY <1>10 DEF SimpleOption, Simple
  <2> QED BY <2>1, SetFlagGood
<1>11. ASSUME ValueOption PROVE Parsed
  <2>1. Name \in DOMAIN Values(Value) /\ Set(Values(Value)[Name])
    BY <1>11 DEF ValueOption, Values
  <2> QED BY <2>1, SetValueGood
<1>12. ASSUME FunctionOption PROVE Parsed
  BY <1>12, SetFunctionIs DEF FunctionOption
<1>13. ASSUME ListOption PROVE Parsed
  <2>1. \/ AddInclude(Value) \/ AddExclude(Value) \/ AddIncludeFromFile(Value)
        \/ UNCHANGED <<system, option>>
    BY <1>13 DEF ListOption
  <2> QED BY <2>1, AddIncludeIs, AddExcludeIs, AddFromFileIs, NothingParsed
<1>14. ASSUME FileOption PROVE Parsed
  <2>1. \/ ShowHelpAndReturn(2) /\ UNCHANGED option
        \/ Set([filename |-> Value])
    BY <1>14 DEF FileOption
  <2> QED BY <2>1, HelpGood, SetOneGood
<1>15. ASSUME FilterOptionOption PROVE Parsed
  <2>1. UNCHANGED <<system, option>> \/ FilterOption(Value)
    BY <1>15 DEF FilterOptionOption
  <2> QED BY <2>1, NothingParsed, FilterOptionGood
<1>16. ASSUME TellOption PROVE Parsed
  <2>1. Name \in DOMAIN Told /\ system' = Told[Name] /\ UNCHANGED option
    BY <1>16 DEF TellOption
  <2>2. Good(Told[Name]) /\ Told[Name].disk = system.disk
    BY <2>1, ToldGood
  <2> QED BY <2>1, <2>2, LoadsKept, OptionSame DEF Parsed
<1> QED BY <1>1, <1>2, <1>3, <1>4, <1>5, <1>6, <1>7, <1>8, <1>9, <1>10, <1>11, <1>12, <1>13,
           <1>14, <1>15, <1>16 DEF Parse

ParserPc == {"start", "bundle", "options", "rest", "check"}

LEMMA ParsePc ==
    ASSUME Parse
    PROVE  /\ pc \in ParserPc /\ pc' \in ParserPc \cup {"work", "exit", "crashed"}
           /\ UNCHANGED argv
           /\ pc # "check" => UNCHANGED caches /\ pc' # "work"
           /\ pc = "check" => UNCHANGED option /\ Check
<1> USE DEF ParserPc
<1>1. ASSUME Refuse \/ NoTerminal \/ StartParse
      PROVE  /\ pc = "start" /\ pc' \in {"bundle", "options", "exit"} /\ UNCHANGED <<argv, caches>>
  BY <1>1 DEF Refuse, NoTerminal, StartParse, ShowHelpAndReturn, ParseReturns, Return
<1>2. ASSUME BundleFlag \/ BundleNumber \/ BundleValue \/ BundleFile \/ BundleList \/ BundleHelp
             \/ BundleDash \/ BundleEnds
      PROVE  /\ pc = "bundle" /\ pc' \in {"bundle", "options", "exit", "crashed"}
             /\ UNCHANGED <<argv, caches>>
  BY <1>2 DEF BundleFlag, BundleNumber, BundleValue, BundleFile, BundleList, BundleHelp, BundleDash,
              BundleEnds, InBundle, ShowHelpAndReturn, ParseReturns, Return
<1>3. ASSUME FileName \/ SimpleOption \/ ValueOption \/ PatternOption \/ FunctionOption
             \/ ListOption \/ FileOption \/ FilterOptionOption \/ TellOption \/ StopOption
             \/ OptionsEnd
      PROVE  /\ pc = "options" /\ pc' \in {"options", "rest", "exit"} /\ UNCHANGED <<argv, caches>>
  BY <1>3 DEF FileName, SimpleOption, ValueOption, PatternOption, FunctionOption, ListOption,
              FileOption, FilterOptionOption, TellOption, StopOption, OptionsEnd, Next1,
              ShowHelpAndReturn, ParseReturns, Return
<1>4. ASSUME Rest PROVE pc = "rest" /\ pc' \in {"rest", "check"} /\ UNCHANGED <<argv, caches>>
  BY <1>4 DEF Rest
<1>5. ASSUME Check
      PROVE  /\ pc = "check" /\ pc' \in {"work", "exit"} /\ UNCHANGED <<argv, option>> /\ Check
  BY <1>5 DEF Check, Return
<1> QED BY <1>1, <1>2, <1>3, <1>4, <1>5 DEF Parse

----------------------------------------------------------------------------
(* The runs. *)

LEMMA NoDriversGood ==
    ASSUME RegistryAssumption, NEW d, d = [f \in Files |-> d[f]], \A f \in Files : IsFile(d[f])
    PROVE  Good(NoDrivers(d))
<1> DEFINE t == NoDrivers(d)
<1>1. /\ IsRecord(t) /\ t.drivers = [kind \in Kinds |-> <<>>]
      /\ t.held = [l \in Libraries |-> 0] /\ t.disk = d
  BY RecordFields, Zenon DEF NoDrivers
<1> HIDE DEF t
<1>2. Driven(t) /\ Disked(t)
  BY <1>1 DEF Driven, Disked
<1>3. Sound(t)
  <2>1. \A l \in Libraries : ~Registered(t, l)
    <3> SUFFICES ASSUME NEW l \in Libraries, Registered(t, l) PROVE FALSE
      OBVIOUS
    <3>1. PICK i \in DOMAIN t.drivers[l.kind] : t.drivers[l.kind][i] = l
      BY DEF Registered
    <3>2. l.kind \in Kinds
      BY DEF RegistryAssumption
    <3> QED BY <1>1, <3>1, <3>2
  <2>2. \A l \in Libraries : t.held[l] = 0
    BY <1>1
  <2>3. \A kind \in Kinds : DOMAIN t.drivers[kind] = {}
    BY <1>1
  <2> QED BY <2>1, <2>2, <2>3 DEF Sound
<1> QED BY <1>1, <1>2, <1>3 DEF Good, t

LEMMA WrittenGood ==
    ASSUME NEW s, Good(s)
    PROVE  Good(Written(s)) /\ KeptBut(s, Written(s), stack.on)
<1> DEFINE c == [exists |-> TRUE, layers |-> stack.layers, data |-> option.format]
<1>1. IsFile(c)
  BY Zenon DEF IsFile
<1>2. Puts(s, Written(s), stack.on, c)
  BY Zenon DEF Written, Puts
<1> HIDE DEF c
<1> QED BY <1>1, <1>2, DiskChangeGood, Zenon

LEMMA DefaultsOptioned ==
    ASSUME option' = Defaults
    PROVE  Optioned'
<1>1. Defaults.filters = <<>> /\ Defaults.files = <<>> /\ Defaults.excludes = <<>>
  BY DEF Defaults
<1>2. IsSeq(<<>>)
  BY DEF IsSeq
<1> HIDE DEF Defaults
<1> QED BY <1>1, <1>2 DEF Optioned

Held == Good(system) /\ Optioned

LEMMA WritesPair ==
    ASSUME NEW s, NEW io, NEW f, Writes(s, io, f), NEW t, NEW x, t = io.state, x = io.stack
    PROVE  Good(t) /\ KeptBut(s, t, f) /\ (x = NoStack \/ x.on = f)
BY DEF Writes

(* What the steps do to the files.                                          *)
LEMMA OpenTouches ==
    ASSUME RegistryAssumption, Held, Open
    PROVE  /\ Held'
           /\ Writing => /\ KeptBut(system, system', Target)
                         /\ stack' = NoStack \/ stack'.on = Target
           /\ ~Writing => Kept(system, system')
<1> USE DEF Held
<1> DEFINE w == FormatGetWriter(system, option)
           r == FormatGetReader(system, option)
<1>1. Len(option.filters) \in Nat
  BY DEF Optioned, IsSeq
<1>2. Reads(system, r) /\ Writes(system, w, Target)
  BY <1>1, FormatGetGood DEF TargetOf, Target
<1>3. Optioned'
  BY OptionSame DEF Open
<1>4. CASE Writing
  <2>1. system' = w.state /\ stack' = w.stack
    BY <1>4, Zenon DEF Open
  <2> HIDE DEF w
  <2> QED BY <1>2, <1>3, <1>4, <2>1, WritesPair
<1>5. CASE ~Writing
  <2>1. system' = r.state
    BY <1>5, Zenon DEF Open
  <2> HIDE DEF r
  <2> QED BY <1>2, <1>3, <1>5, <2>1 DEF Reads
<1> QED BY <1>4, <1>5

LEMMA ChangeVolumeTouches ==
    ASSUME RegistryAssumption, Held, ChangeVolume
    PROVE  /\ Held'
           /\ \E f : /\ volumes' = Append(volumes, f)
                     /\ \A g \in Files : g \notin {f, stack.on} => system'.disk[g] = system.disk[g]
                     /\ stack' = NoStack \/ stack'.on = f
<1> USE DEF Held
<1>1. PICK f \in Files \ (ToSet(volumes) \cup {"-"}) :
         /\ system' = FilterGetWriter3(Written(system), f, option).state
         /\ stack' = FilterGetWriter3(Written(system), f, option).stack
         /\ volumes' = Append(volumes, f)
  BY DEF ChangeVolume
<1>2. Good(Written(system)) /\ KeptBut(system, Written(system), stack.on)
  BY WrittenGood
<1>3. Writes(Written(system), FilterGetWriter3(Written(system), f, option), f)
  <2>1. Len(option.filters) \in Nat
    BY DEF Optioned, IsSeq
  <2> QED BY <1>2, <2>1, FilterGetWriter23
<1>4. Good(system') /\ KeptBut(Written(system), system', f) /\ (stack' = NoStack \/ stack'.on = f)
  BY <1>1, <1>3, WritesPair
<1>5. Optioned'
  BY OptionSame DEF ChangeVolume
<1>6. \A g \in Files : g \notin {f, stack.on} => system'.disk[g] = system.disk[g]
  BY <1>2, <1>4 DEF KeptBut
<1> QED BY <1>1, <1>4, <1>5, <1>6

LEMMA CreateEndsTouches ==
    ASSUME Held, CreateEnds
    PROVE  Held' /\ KeptBut(system, system', stack.on)
<1>1. system' = Written(system) /\ Optioned'
  BY OptionSame DEF CreateEnds, Held
<1> QED BY <1>1, WrittenGood DEF Held

LEMMA RestartTouches ==
    ASSUME RegistryAssumption, Held, Restart
    PROVE  Held' /\ system'.disk = system.disk
<1>1. system' = NoDrivers(system.disk) /\ option' = Defaults
  BY DEF Restart
<1>2. Good(NoDrivers(system.disk))
  BY NoDriversGood DEF Good, Disked, Held
<1>3. NoDrivers(system.disk).disk = system.disk
  BY RecordFields, Zenon DEF NoDrivers
<1> QED BY <1>1, <1>2, <1>3, DefaultsOptioned DEF Held

LEMMA OthersTouch ==
    ASSUME RegistryAssumption, Held,
           Parsing \/ Configure \/ AddFile \/ NextVolume \/ ReadingEnds \/ CannotWrite \/ UNCHANGED vars
    PROVE  Held' /\ Kept(system, system')
<1> USE DEF Held
<1>1. ASSUME Parsing PROVE Parsed
  BY <1>1, ParseGood DEF Parsing
<1>2. ASSUME Configure \/ AddFile \/ ReadingEnds \/ CannotWrite \/ UNCHANGED vars PROVE Parsed
  <2>1. UNCHANGED <<system, option>>
    BY <1>2 DEF Configure, AddFile, ReadingEnds, CannotWrite, vars, optionVars
  <2> QED BY <2>1, NothingParsed
<1>3. ASSUME NextVolume PROVE Parsed
  <2>1. PICK f \in Files \ {"-"} : system' = FilterGetReader3(system, f, option).state
    BY <1>3 DEF NextVolume
  <2>2. Reads(system, FilterGetReader3(system, f, option))
    <3>1. Len(option.filters) \in Nat
      BY DEF Optioned, IsSeq
    <3> QED BY <3>1, FilterGetReader23
  <2>3. Optioned'
    BY <1>3, OptionSame DEF NextVolume
  <2> QED BY <2>1, <2>2, <2>3 DEF Parsed, Reads
<1> QED BY <1>1, <1>2, <1>3 DEF Parsed

LEMMA HeldStep ==
    ASSUME RegistryAssumption, Held, [Next]_vars
    PROVE  Held'
BY OpenTouches, ChangeVolumeTouches, CreateEndsTouches, RestartTouches, OthersTouch DEF Next

LEMMA HeldInit ==
    ASSUME RegistryAssumption, Init
    PROVE  Held
<1> DEFINE d == [f \in Files |-> IF f \in Present \cup {"-"}
                   THEN [exists |-> TRUE, layers |-> <<>>, data |-> "text"] ELSE Nothing]
<1>1. IsFile(Nothing) /\ IsFile([exists |-> TRUE, layers |-> <<>>, data |-> "text"])
  <2>1. IsFile(Nothing)
    BY Zenon DEF IsFile, Nothing
  <2>2. IsFile([exists |-> TRUE, layers |-> <<>>, data |-> "text"])
    BY Zenon DEF IsFile
  <2> QED BY <2>1, <2>2, Zenon
<1>2. d = [f \in Files |-> d[f]] /\ \A f \in Files : IsFile(d[f])
  BY <1>1
<1>3. system = NoDrivers(d)
  BY Zenon DEF Init
<1> HIDE DEF d
<1>4. Good(system)
  BY <1>2, <1>3, NoDriversGood
<1>5. Optioned
  <2>1. option = Defaults
    BY DEF Init, ProcessInit
  <2>2. Defaults.filters = <<>> /\ Defaults.files = <<>> /\ Defaults.excludes = <<>>
    BY DEF Defaults
  <2>3. IsSeq(<<>>)
    BY DEF IsSeq
  <2> HIDE DEF Defaults
  <2> QED BY <2>1, <2>2, <2>3 DEF Optioned
<1> QED BY <1>4, <1>5 DEF Held

(* Libraries that are held are those with a registered driver, once each,   *)
(* and the names in a registry differ, after whatever was loaded, refused   *)
(* or closed, for every set of libraries: loader.c:92 may call no driver of *)
(* a library that it closed.                                                *)
THEOREM HeldLibraries == Spec => []LibrariesHeld
<1>1. Init => Held
  BY HeldInit, RegistryAssumption
<1>2. Held /\ [Next]_vars => Held'
  BY HeldStep, RegistryAssumption
<1>3. Held => LibrariesHeld
  BY DEF Held, Good, LibrariesHeld
<1> QED BY <1>1, <1>2, <1>3, PTL DEF Spec

----------------------------------------------------------------------------
(* Who writes what. *)

(* The stack stands on a volume of the run. *)
Placed ==
    /\ IsSeq(volumes)
    /\ pc = "opened" /\ Writing => stack = NoStack \/ stack.on \in ToSet(volumes)
    /\ pc = "writing" => Writing /\ stack.on \in ToSet(volumes)

LEMMA VolumeAppended ==
    ASSUME IsSeq(volumes), NEW f, volumes' = Append(volumes, f)
    PROVE  IsSeq(volumes') /\ ToSet(volumes') = ToSet(volumes) \cup {f}
<1> DEFINE v == Append(volumes, f)
<1>1. /\ IsSeq(v) /\ Len(v) = Len(volumes) + 1 /\ v[Len(volumes) + 1] = f
      /\ \A i \in 1 .. Len(volumes) : v[i] = volumes[i]
      /\ Len(volumes) \in Nat /\ DOMAIN volumes = 1 .. Len(volumes)
  BY SeqAppend
<1> HIDE DEF v
<1>2. DOMAIN v = 1 .. Len(volumes) + 1
  BY <1>1 DEF IsSeq
<1>3. ToSet(v) = ToSet(volumes) \cup {f}
  BY <1>1, <1>2 DEF ToSet
<1> QED BY <1>1, <1>3 DEF v

LEMMA SeqOfOne ==
    ASSUME NEW v, NEW s, s = <<v>>
    PROVE  IsSeq(s) /\ v \in ToSet(s)
<1>1. s \in Seq({v}) /\ DOMAIN s = {1} /\ s[1] = v
  OBVIOUS
<1> QED BY <1>1 DEF IsSeq, ToSet

LEMMA PlacedStep ==
    ASSUME RegistryAssumption, Held, Placed, [Next]_vars
    PROVE  Placed'
<1> USE DEF Placed
<1>1. ASSUME Parsing PROVE Placed'
  <2>1. pc' \notin {"opened", "writing"} /\ UNCHANGED volumes
    BY <1>1, ParsePc DEF Parsing, ParserPc
  <2> QED BY <2>1
<1>2. ASSUME Open PROVE Placed'
  <2>1. pc' = "opened" /\ volumes' = <<Target>> /\ (Writing' <=> Writing)
    BY <1>2 DEF Open, Writing
  <2>2. Writing => stack' = NoStack \/ stack'.on = Target
    BY <1>2, OpenTouches
  <2>3. IsSeq(volumes') /\ Target \in ToSet(volumes')
    BY <2>1, SeqOfOne
  <2> QED BY <2>1, <2>2, <2>3
<1>3. ASSUME Configure PROVE Placed'
  BY <1>3 DEF Configure, Finish, Crashed, Return, Writing
<1>4. ASSUME ChangeVolume PROVE Placed'
  <2>1. PICK f : volumes' = Append(volumes, f) /\ (stack' = NoStack \/ stack'.on = f)
    BY <1>4, ChangeVolumeTouches
  <2>2. pc = "writing" /\ UNCHANGED option
        /\ pc' = (IF stack' = NoStack THEN "crashed" ELSE pc)
    BY <1>4, Zenon DEF ChangeVolume
  <2>3. IsSeq(volumes') /\ ToSet(volumes') = ToSet(volumes) \cup {f}
    BY <2>1, VolumeAppended
  <2> QED BY <2>1, <2>2, <2>3 DEF Writing
<1>5. ASSUME CreateEnds PROVE Placed'
  BY <1>5 DEF CreateEnds, Finish, Crashed, Return, Writing
<1>6. ASSUME AddFile \/ UNCHANGED vars PROVE Placed'
  <2>1. UNCHANGED <<pc, option, stack, volumes>>
    BY <1>6 DEF AddFile, vars, optionVars
  <2> QED BY <2>1 DEF Writing
<1>7. ASSUME NextVolume PROVE Placed'
  <2>1. pc = "reading" /\ pc' \in {"reading", "exit", "crashed"}
        /\ (UNCHANGED volumes \/ \E f : volumes' = Append(volumes, f))
    BY <1>7 DEF NextVolume, Finish, Crashed, Return
  <2>2. IsSeq(volumes')
    BY <2>1, VolumeAppended
  <2> QED BY <2>1, <2>2
<1>8. ASSUME ReadingEnds \/ CannotWrite PROVE Placed'
  BY <1>8 DEF ReadingEnds, CannotWrite, Finish, Crashed, Return, Writing
<1>9. ASSUME Restart PROVE Placed'
  <2>1. pc' = "start" /\ volumes' = <<>>
    BY <1>9 DEF Restart
  <2> QED BY <2>1 DEF IsSeq
<1> QED BY <1>1, <1>2, <1>3, <1>4, <1>5, <1>6, <1>7, <1>8, <1>9 DEF Next

LEMMA OthersStep ==
    ASSUME RegistryAssumption, Held, Placed, [Next]_vars,
           NEW f \in Files, system.disk[f].exists, system'.disk[f] # system.disk[f]
    PROVE  Writing /\ f \in ToSet(volumes') \cup {Target}
<1>1. ASSUME Open PROVE Writing /\ f = Target
  BY <1>1, OpenTouches DEF Kept, KeptBut
<1>2. ASSUME ChangeVolume PROVE Writing /\ f \in ToSet(volumes')
  <2>1. PICK g : /\ volumes' = Append(volumes, g)
                 /\ \A h \in Files : h \notin {g, stack.on} => system'.disk[h] = system.disk[h]
    BY <1>2, ChangeVolumeTouches
  <2>2. Writing /\ stack.on \in ToSet(volumes)
    BY <1>2 DEF ChangeVolume, Placed
  <2>3. ToSet(volumes') = ToSet(volumes) \cup {g}
    BY <2>1, VolumeAppended DEF Placed
  <2> QED BY <2>1, <2>2, <2>3
<1>3. ASSUME CreateEnds PROVE Writing /\ f \in ToSet(volumes')
  <2>1. KeptBut(system, system', stack.on)
    BY <1>3, CreateEndsTouches
  <2>2. pc = "writing" /\ UNCHANGED volumes
    BY <1>3 DEF CreateEnds
  <2> QED BY <2>1, <2>2 DEF Placed, KeptBut
<1>4. ~Restart
  BY RestartTouches
<1>5. ~(Parsing \/ Configure \/ AddFile \/ NextVolume \/ ReadingEnds \/ CannotWrite \/ UNCHANGED vars)
  BY OthersTouch DEF Kept
<1> QED BY <1>1, <1>2, <1>3, <1>4, <1>5 DEF Next

(* Only a run that creates changes what is in a file, and only in its own   *)
(* volumes, whatever the command line asks for: mtar_io_open (io.c:124-153) *)
(* makes a file that is not there also when it is asked to read, but it     *)
(* leaves one that is there as it was, for extract, list and the lists of   *)
(* names alike.                                                             *)
THEOREM OthersAreKept == Spec => OthersKept
<1>1. Init => Held /\ Placed
  <2>1. Init => Placed
    BY DEF Init, ProcessInit, Placed, IsSeq
  <2> QED BY <2>1, HeldInit, RegistryAssumption
<1>2. Held /\ Placed /\ [Next]_vars => Held' /\ Placed'
  BY HeldStep, PlacedStep, RegistryAssumption
<1>3. Held /\ Placed /\ [Next]_vars =>
        [\A f \in Files :
            system.disk[f].exists /\ system'.disk[f] # system.disk[f] =>
              Writing /\ f \in ToSet(volumes') \cup {Target}]_vars
  BY OthersStep, RegistryAssumption
<1> QED BY <1>1, <1>2, <1>3, PTL DEF Spec, OthersKept


----------------------------------------------------------------------------
(* Names and numbers. *)

IsCaches(c) == c = [uid |-> c.uid, gid |-> c.gid, user |-> c.user]

(* The tables say what the databases say; of the one that owner and group   *)
(* share only the owner, and a group with another name, can be said.        *)
Faithful(c, owner, group) ==
    /\ IsCaches(c)
    /\ \A id \in DOMAIN c.uid : c.uid[id] = Lookup(Passwd, id)
    /\ \A id \in DOMAIN c.gid : c.gid[id] = Lookup(Group, id)
    /\ owner # "none" /\ owner \in DOMAIN c.user => c.user[owner] = Rlookup(Passwd, owner)
    /\ group \notin {"none", owner} /\ group \in DOMAIN c.user => c.user[group] = Rlookup(Group, group)

Includes(c, d) ==
    /\ DOMAIN c.uid \subseteq DOMAIN d.uid
    /\ DOMAIN c.gid \subseteq DOMAIN d.gid
    /\ DOMAIN c.user \subseteq DOMAIN d.user

LEMMA Uid2NameFaithful ==
    ASSUME NEW c, NEW o, NEW g, Faithful(c, o, g), NEW id
    PROVE  /\ Faithful(Uid2Name(c, id), o, g) /\ Includes(c, Uid2Name(c, id))
           /\ id \in DOMAIN Uid2Name(c, id).uid
<1>1. CASE id \in DOMAIN c.uid
  BY <1>1 DEF Uid2Name, Includes
<1>2. CASE id \notin DOMAIN c.uid
  <2> DEFINE t == Put(c.uid, id, Lookup(Passwd, id))
             d == [c EXCEPT !.uid = t]
  <2>1. Uid2Name(c, id) = d
    BY <1>2, Zenon DEF Uid2Name
  <2>2. /\ DOMAIN t = DOMAIN c.uid \cup {id} /\ t[id] = Lookup(Passwd, id)
        /\ \A x \in DOMAIN c.uid : x # id => t[x] = c.uid[x]
    BY DEF Put
  <2> HIDE DEF t
  <2>3. IsCaches(d) /\ d.uid = t /\ d.gid = c.gid /\ d.user = c.user
    <3>1. IsCaches(c)
      BY DEF Faithful
    <3> QED BY <3>1 DEF IsCaches
  <2> HIDE DEF d
  <2> QED BY <2>1, <2>2, <2>3 DEF Faithful, Includes
<1> QED BY <1>1, <1>2

LEMMA Gid2NameFaithful ==
    ASSUME NEW c, NEW o, NEW g, Faithful(c, o, g), NEW id
    PROVE  /\ Faithful(Gid2Name(c, id), o, g) /\ Includes(c, Gid2Name(c, id))
           /\ id \in DOMAIN Gid2Name(c, id).gid
<1>1. CASE id \in DOMAIN c.gid
  BY <1>1 DEF Gid2Name, Includes
<1>2. CASE id \notin DOMAIN c.gid
  <2> DEFINE t == Put(c.gid, id, Lookup(Group, id))
             d == [c EXCEPT !.gid = t]
  <2>1. Gid2Name(c, id) = d
    BY <1>2, Zenon DEF Gid2Name
  <2>2. /\ DOMAIN t = DOMAIN c.gid \cup {id} /\ t[id] = Lookup(Group, id)
        /\ \A x \in DOMAIN c.gid : x # id => t[x] = c.gid[x]
    BY DEF Put
  <2> HIDE DEF t
  <2>3. IsCaches(d) /\ d.uid = c.uid /\ d.gid = t /\ d.user = c.user
    <3>1. IsCaches(c)
      BY DEF Faithful
    <3> QED BY <3>1 DEF IsCaches
  <2> HIDE DEF d
  <2> QED BY <2>1, <2>2, <2>3 DEF Faithful, Includes
<1> QED BY <1>1, <1>2

LEMMA User2UidFaithful ==
    ASSUME NEW c, NEW o, NEW g, Faithful(c, o, g)
    PROVE  /\ Faithful(User2Uid(c, o), o, g) /\ Includes(c, User2Uid(c, o))
           /\ o \in DOMAIN User2Uid(c, o).user
<1>1. CASE o \in DOMAIN c.user
  BY <1>1 DEF User2Uid, Includes
<1>2. CASE o \notin DOMAIN c.user
  <2> DEFINE t == Put(c.user, o, Rlookup(Passwd, o))
             d == [c EXCEPT !.user = t]
  <2>1. User2Uid(c, o) = d
    BY <1>2, Zenon DEF User2Uid
  <2>2. /\ DOMAIN t = DOMAIN c.user \cup {o} /\ t[o] = Rlookup(Passwd, o)
        /\ \A x \in DOMAIN c.user : x # o => t[x] = c.user[x]
    BY DEF Put
  <2> HIDE DEF t
  <2>3. IsCaches(d) /\ d.uid = c.uid /\ d.gid = c.gid /\ d.user = t
    <3>1. IsCaches(c)
      BY DEF Faithful
    <3> QED BY <3>1 DEF IsCaches
  <2> HIDE DEF d
  <2> QED BY <2>1, <2>2, <2>3 DEF Faithful, Includes
<1> QED BY <1>1, <1>2

(* The group is looked for behind the owner. *)
LEMMA Group2GidFaithful ==
    ASSUME NEW c, NEW o, NEW g, Faithful(c, o, g), o = "none" \/ o \in DOMAIN c.user
    PROVE  /\ Faithful(Group2Gid(c, g), o, g) /\ Includes(c, Group2Gid(c, g))
           /\ g \in DOMAIN Group2Gid(c, g).user
<1>1. CASE g \in DOMAIN c.user
  BY <1>1 DEF Group2Gid, Includes
<1>2. CASE g \notin DOMAIN c.user
  <2> DEFINE t == Put(c.user, g, Rlookup(Group, g))
             d == [c EXCEPT !.user = t]
  <2>1. Group2Gid(c, g) = d
    BY <1>2, Zenon DEF Group2Gid
  <2>2. /\ DOMAIN t = DOMAIN c.user \cup {g} /\ t[g] = Rlookup(Group, g)
        /\ \A x \in DOMAIN c.user : x # g => t[x] = c.user[x]
    BY DEF Put
  <2> HIDE DEF t
  <2>3. IsCaches(d) /\ d.uid = c.uid /\ d.gid = c.gid /\ d.user = t
    <3>1. IsCaches(c)
      BY DEF Faithful
    <3> QED BY <3>1 DEF IsCaches
  <2> HIDE DEF d
  <2> QED BY <1>2, <2>1, <2>2, <2>3 DEF Faithful, Includes
<1> QED BY <1>1, <1>2

LEMMA NoNamesFaithful ==
    ASSUME NEW o, NEW g
    PROVE  Faithful(NoNames, o, g)
<1>1. IsCaches(NoNames) /\ NoNames.uid = <<>> /\ NoNames.gid = <<>> /\ NoNames.user = <<>>
  BY DEF IsCaches, NoNames
<1>2. DOMAIN <<>> = {}
  OBVIOUS
<1> QED BY <1>1, <1>2 DEF Faithful

FaithfulNow(c) == Faithful(c, option.owner, option.group)

(* The tables of a file that is archived, and what they are asked for. *)
LEMMA OwnerAndGroup ==
    ASSUME NEW c, FaithfulNow(c), NEW uid, NEW gid, NEW long
    PROVE  LET d == SetOwnerAndGroup(c, uid, gid, long)
           IN  /\ FaithfulNow(d)
               /\ option.owner # "none" => option.owner \in DOMAIN d.user
               /\ option.owner = "none" => uid \in DOMAIN d.uid
               /\ option.group # "none" => option.group \in DOMAIN d.user
               /\ option.group = "none" => gid \in DOMAIN d.gid
<1> USE DEF FaithfulNow
<1> DEFINE d == SetOwnerAndGroup(c, uid, gid, long)
<1>1. PICK looked : /\ looked = IF long THEN Gid2Name(Uid2Name(c, uid), gid) ELSE c
  OBVIOUS
<1>2. PICK user : user = IF option.owner # "none" THEN User2Uid(looked, option.owner)
                         ELSE Uid2Name(looked, uid)
  OBVIOUS
<1>3. d = IF option.group # "none" THEN Group2Gid(user, option.group) ELSE Gid2Name(user, gid)
  BY <1>1, <1>2 DEF SetOwnerAndGroup
<1> HIDE DEF d
<1>4. Faithful(looked, option.owner, option.group)
  BY <1>1, Uid2NameFaithful, Gid2NameFaithful
<1>5. /\ Faithful(user, option.owner, option.group)
      /\ option.owner # "none" => option.owner \in DOMAIN user.user
      /\ option.owner = "none" => uid \in DOMAIN user.uid
  BY <1>2, <1>4, Uid2NameFaithful, User2UidFaithful
<1>6. /\ Faithful(d, option.owner, option.group) /\ Includes(user, d)
      /\ option.group # "none" => option.group \in DOMAIN d.user
      /\ option.group = "none" => gid \in DOMAIN d.gid
  BY <1>3, <1>5, Gid2NameFaithful, Group2GidFaithful
<1>7. /\ option.owner # "none" => option.owner \in DOMAIN d.user
      /\ option.owner = "none" => uid \in DOMAIN d.uid
  BY <1>5, <1>6 DEF Includes
<1> QED BY <1>6, <1>7 DEF d

OwnHeader(h) ==
    /\ option.owner # "none" => h.uid = Rlookup(Passwd, option.owner)
    /\ option.owner = "none" => h.uname = Lookup(Passwd, h.of[1])
    /\ option.group \notin {"none", option.owner} => h.gid = Rlookup(Group, option.group)
    /\ option.group = "none" => h.gname = Lookup(Group, h.of[2])

LEMMA HeaderIsOwn ==
    ASSUME NEW c, FaithfulNow(c), NEW uid, NEW gid,
           option.owner # "none" => option.owner \in DOMAIN c.user,
           option.owner = "none" => uid \in DOMAIN c.uid,
           option.group # "none" => option.group \in DOMAIN c.user,
           option.group = "none" => gid \in DOMAIN c.gid
    PROVE  OwnHeader(Header(c, uid, gid))
<1> DEFINE h == Header(c, uid, gid)
<1>1. /\ h.of = <<uid, gid>>
      /\ h.uid = IF option.owner # "none" THEN c.user[option.owner] ELSE NumberOf[uid]
      /\ h.uname = IF option.owner # "none" THEN option.owner ELSE c.uid[uid]
      /\ h.gid = IF option.group # "none" THEN c.user[option.group] ELSE NumberOf[gid]
      /\ h.gname = IF option.group # "none" THEN option.group ELSE c.gid[gid]
  BY DEF Header
<1>2. h.of[1] = uid /\ h.of[2] = gid
  BY <1>1
<1> HIDE DEF h
<1>3. OwnHeader(h)
  BY <1>1, <1>2 DEF OwnHeader, FaithfulNow, Faithful
<1> QED BY <1>3 DEF h

Named ==
    /\ IsSeq(headers) /\ FaithfulNow(caches)
    /\ \A i \in DOMAIN headers : OwnHeader(headers[i])
    /\ pc \in ParserPc => caches = NoNames /\ headers = <<>>

LEMMA NamedKept ==
    ASSUME Named, UNCHANGED <<caches, headers, option>>, pc' \in ParserPc => pc \in ParserPc
    PROVE  Named'
BY DEF Named, FaithfulNow, OwnHeader

LEMMA NothingNamed ==
    ASSUME caches' = NoNames, headers' = <<>>
    PROVE  Named'
<1>1. FaithfulNow(NoNames)'
  BY NoNamesFaithful DEF FaithfulNow
<1>2. DOMAIN <<>> = {} /\ IsSeq(<<>>)
  BY DEF IsSeq
<1> QED BY <1>1, <1>2 DEF Named, FaithfulNow

LEMMA NamedStep ==
    ASSUME Named, [Next]_vars
    PROVE  Named'
<1>1. ASSUME Parsing, pc # "check" PROVE Named'
  <2>1. UNCHANGED <<caches, headers>> /\ pc \in ParserPc
    BY <1>1, ParsePc DEF Parsing
  <2> QED BY <2>1, NothingNamed DEF Named
<1>2. ASSUME Parsing, pc = "check" PROVE Named'
  <2>1. UNCHANGED <<headers, option>> /\ Check /\ headers = <<>>
    BY <1>2, ParsePc DEF Parsing, ParserPc, Named
  <2>2. pc' \notin ParserPc
    BY <2>1 DEF Check, Return, ParserPc
  <2> DEFINE users == IF option.owner = "none" THEN caches ELSE User2Uid(caches, option.owner)
             groups == IF option.group = "none" THEN users ELSE Group2Gid(users, option.group)
  <2>3. caches' \in {caches, users, groups}
    BY <2>1, Zenon DEF Check
  <2>4. FaithfulNow(caches) /\ FaithfulNow(users) /\ (option.owner # "none" => option.owner \in DOMAIN users.user)
    BY User2UidFaithful DEF Named, FaithfulNow
  <2> HIDE DEF users
  <2>5. FaithfulNow(groups)
    BY <2>4, Group2GidFaithful DEF FaithfulNow
  <2> HIDE DEF groups
  <2>6. FaithfulNow(caches')
    BY <2>3, <2>4, <2>5
  <2>7. (FaithfulNow(caches))'
    BY <2>1, <2>6 DEF FaithfulNow
  <2>8. DOMAIN <<>> = {} /\ IsSeq(<<>>)
    BY DEF IsSeq
  <2> QED BY <2>1, <2>2, <2>7, <2>8 DEF Named
<1>3. ASSUME AddFile PROVE Named'
  <2>1. PICK owner \in Owners, long \in BOOLEAN :
           /\ caches' = SetOwnerAndGroup(caches, owner[1], owner[2], long)
           /\ headers' = Append(headers, Header(caches', owner[1], owner[2]))
    BY <1>3 DEF AddFile
  <2>2. UNCHANGED <<option, pc>> /\ pc = "writing"
    BY <1>3 DEF AddFile
  <2> DEFINE d == SetOwnerAndGroup(caches, owner[1], owner[2], long)
             h == Header(caches', owner[1], owner[2])
  <2>3. FaithfulNow(d) /\ OwnHeader(Header(d, owner[1], owner[2]))
    BY OwnerAndGroup, HeaderIsOwn DEF Named
  <2>4. caches' = d
    BY <2>1
  <2> HIDE DEF d
  <2>5. FaithfulNow(caches') /\ OwnHeader(h)
    BY <2>3, <2>4
  <2>6. headers' = Append(headers, h)
    BY <2>1
  <2> HIDE DEF h
  <2>7. /\ IsSeq(headers') /\ Len(headers') = Len(headers) + 1 /\ headers'[Len(headers) + 1] = h
        /\ \A i \in 1 .. Len(headers) : headers'[i] = headers[i]
        /\ Len(headers) \in Nat /\ DOMAIN headers = 1 .. Len(headers)
    BY <2>6, SeqAppend DEF Named
  <2>8. DOMAIN headers' = 1 .. Len(headers) + 1
    BY <2>7 DEF IsSeq
  <2>9. \A i \in DOMAIN headers' : OwnHeader(headers'[i])
    BY <2>5, <2>7, <2>8 DEF Named
  <2>10. (FaithfulNow(caches))' /\ \A i \in DOMAIN headers' : (OwnHeader(headers[i]))'
    BY <2>2, <2>5, <2>9 DEF FaithfulNow, OwnHeader
  <2> QED BY <2>2, <2>7, <2>10 DEF Named, ParserPc
<1>4. ASSUME Restart PROVE Named'
  BY <1>4, NothingNamed DEF Restart
<1>5. ASSUME Open \/ Configure \/ ChangeVolume \/ CreateEnds \/ CannotWrite \/ NextVolume \/ ReadingEnds
      PROVE  Named'
  <2>1. UNCHANGED <<caches, headers, option>> /\ pc' \notin ParserPc
    BY <1>5 DEF Open, Configure, ChangeVolume, CreateEnds, CannotWrite, NextVolume, ReadingEnds, Finish, Crashed,
                Return, ParserPc
  <2> QED BY <2>1, NamedKept
<1>6. ASSUME UNCHANGED vars PROVE Named'
  BY <1>6, NamedKept DEF vars, optionVars
<1> QED BY <1>1, <1>2, <1>3, <1>4, <1>5, <1>6 DEF Next

(* The header of a file has the numbers and names of the databases, whatever*)
(* they hold and however many lookups the tables of file.c answered before  *)
(* it, but for the group with the name of the owner: mtar_file_group2gid    *)
(* asks the table of the users.                                             *)
THEOREM NumbersAreOwn == Spec => []OwnNumbers
<1>1. Init => Named
  <2> SUFFICES ASSUME Init PROVE Named
    OBVIOUS
  <2>1. caches = NoNames /\ headers = <<>>
    BY DEF Init, ProcessInit
  <2>2. FaithfulNow(NoNames)
    BY NoNamesFaithful DEF FaithfulNow
  <2>3. DOMAIN <<>> = {} /\ IsSeq(<<>>)
    BY DEF IsSeq
  <2> QED BY <2>1, <2>2, <2>3 DEF Named
<1>2. Named /\ [Next]_vars => Named'
  BY NamedStep
<1>3. Named => OwnNumbers
  BY DEF Named, OwnNumbers, OwnHeader
<1> QED BY <1>1, <1>2, <1>3, PTL DEF Spec

----------------------------------------------------------------------------
(* What is said of names. *)

LEMMA StopIs ==
    ASSUME NEW line, IsSeq(line), FirstArgument(line) = 1
    PROVE  /\ Stop(line) \in 1 .. Len(line) + 1
           /\ Stop(line) = Len(line) + 1 \/ line[Stop(line)].form = "end"
           /\ \A i \in 1 .. Stop(line) - 1 : line[i].form # "end"
<1> DEFINE N == Len(line) + 1
           T == {n \in 1 .. N : n = N \/ line[n].form = "end"}
           Is(n) == /\ n = N \/ line[n].form = "end"
                    /\ \A i \in 1 .. n - 1 : i >= 1 => line[i].form # "end"
                    /\ n >= 1
<1>1. N \in Nat /\ N >= 1
  BY DEF IsSeq
<1>2. Stop(line) = CHOOSE n \in 1 .. N : Is(n)
  BY Zenon DEF Stop
<1> HIDE DEF N
<1>3. T \subseteq Nat /\ N \in T
  BY <1>1
<1>4. PICK x \in T : \A y \in T : x <= y
  <2> HIDE DEF T
  <2>1. T # {}
    BY <1>3
  <2> QED BY <1>3, <2>1, LeastOf
<1>5. x \in 1 .. N /\ Is(x)
  <2>1. ASSUME NEW i \in 1 .. x - 1, line[i].form = "end" PROVE FALSE
    <3>1. i \in T /\ ~(x <= i)
      BY <1>1, <2>1
    <3> HIDE DEF T
    <3> QED BY <1>4, <3>1
  <2> QED BY <1>1, <2>1
<1> HIDE DEF Is
<1>6. Stop(line) \in 1 .. N /\ Is(Stop(line))
  BY <1>2, <1>5, Zenon
<1>7. Stop(line) \in 1 .. N /\ Stop(line) >= 1
  BY <1>6 DEF Is
<1>8. \A i \in 1 .. Stop(line) - 1 : line[i].form # "end"
  BY <1>1, <1>6 DEF Is
<1> QED BY <1>6, <1>8 DEF Is, N

LEMMA LastSaidStays ==
    ASSUME NEW line, FirstArgument(line) = 1, NEW n \in Nat, NEW names, ~Says(line, n, names)
    PROVE  LastSaid(line, n + 1, names) = LastSaid(line, n, names)
<1>1. SaidBefore(line, n + 1, names) = SaidBefore(line, n, names)
  <2> SUFFICES ASSUME NEW j \in 1 .. n + 1 - 1, Says(line, j, names) PROVE j \in 1 .. n - 1
    BY DEF SaidBefore
  <2>1. j # n
    OBVIOUS
  <2> QED BY <2>1
<1> DEFINE Of(B) == IF B = {} THEN 0 ELSE CHOOSE j \in B : \A k \in B : k <= j
<1>2. /\ LastSaid(line, n, names) = Of(SaidBefore(line, n, names))
      /\ LastSaid(line, n + 1, names) = Of(SaidBefore(line, n + 1, names))
  BY Zenon DEF LastSaid
<1> HIDE DEF Of
<1> QED BY <1>1, <1>2

LEMMA LastSaidNow ==
    ASSUME NEW line, FirstArgument(line) = 1, NEW n \in Nat, n >= 1, NEW names, Says(line, n, names)
    PROVE  LastSaid(line, n + 1, names) = n
<1> DEFINE B == SaidBefore(line, n + 1, names)
<1>1. n \in B /\ \A k \in B : k \in Nat /\ k <= n
  BY DEF SaidBefore
<1>2. LastSaid(line, n + 1, names) =
        IF B = {} THEN 0 ELSE CHOOSE j \in B : \A k \in B : k <= j
  BY Zenon DEF LastSaid
<1> HIDE DEF B
<1>3. ASSUME NEW j \in B, \A k \in B : k <= j PROVE j = n
  BY <1>1, <1>3
<1> QED BY <1>1, <1>2, <1>3

LEMMA NothingSaid ==
    ASSUME NEW line, FirstArgument(line) = 1
    PROVE  /\ DirectoryAt(line, 1) = "none" /\ EngineAt(line, 1) = "fnmatch"
           /\ FlagsAt(line, 1) = {"recursion"} /\ Given(line, 1) = {}
<1>1. ASSUME NEW names PROVE LastSaid(line, 1, names) = 0
  <2>1. SaidBefore(line, 1, names) = {}
    BY DEF SaidBefore
  <2> QED BY <2>1 DEF LastSaid
<1>2. Given(line, 1) = {}
  BY DEF Given
<1> QED BY <1>1, <1>2 DEF DirectoryAt, EngineAt, FlagsAt

(* Is the argument the name of a file? *)
IsName(line, i) ==
    /\ i # Stop(line)
    /\ i > Stop(line) \/ line[i].form = "word" \/ Says(line, i, {"add_file"})

LEMMA GivenStep ==
    ASSUME NEW line, FirstArgument(line) = 1, NEW n \in Nat, n >= 1
    PROVE  /\ Given(line, n + 1) = IF IsName(line, n) THEN Given(line, n) \cup {n} ELSE Given(line, n)
           /\ IsFiniteSet(Given(line, n)) /\ Given(line, n) \subseteq 1 .. n - 1
           /\ Cardinality(Given(line, n)) \in Nat
           /\ IsName(line, n) => Cardinality(Given(line, n + 1)) = Cardinality(Given(line, n)) + 1
<1>1. \A m \in Nat : Given(line, m) = {i \in 1 .. m - 1 : IsName(line, i)}
  BY DEF Given, IsName
<1>2. Given(line, n + 1) = IF IsName(line, n) THEN Given(line, n) \cup {n} ELSE Given(line, n)
  <2>1. 1 .. n + 1 - 1 = (1 .. n - 1) \cup {n}
    OBVIOUS
  <2>2. Given(line, n + 1) = {i \in (1 .. n - 1) \cup {n} : IsName(line, i)}
    BY <1>1, <2>1
  <2> QED BY <1>1, <2>2
<1>3. Given(line, n) \subseteq 1 .. n - 1 /\ n \notin Given(line, n)
  BY <1>1
<1>4. IsFiniteSet(Given(line, n)) /\ Cardinality(Given(line, n)) \in Nat
  <2>1. IsFiniteSet(1 .. n - 1)
    BY FS_Interval
  <2>2. IsFiniteSet(Given(line, n))
    BY <1>3, <2>1, FS_Subset
  <2> QED BY <2>2, FS_CardinalityType
<1>5. IsName(line, n) => Cardinality(Given(line, n + 1)) = Cardinality(Given(line, n)) + 1
  BY <1>2, <1>3, <1>4, FS_AddElement
<1> QED BY <1>2, <1>3, <1>4, <1>5

LEMMA GivenRank ==
    ASSUME NEW line, FirstArgument(line) = 1, NEW n \in Nat, n >= 1, NEW i \in Given(line, n)
    PROVE  /\ i \in Nat /\ i >= 1
           /\ Cardinality(Given(line, i + 1)) \in 1 .. Cardinality(Given(line, n))
<1>1. \A m \in Nat : Given(line, m) = {j \in 1 .. m - 1 : IsName(line, j)}
  BY DEF Given, IsName
<1>2. i \in 1 .. n - 1 /\ IsName(line, i)
  BY <1>1
<1>3. Given(line, i + 1) \subseteq Given(line, n)
  BY <1>1, <1>2
<1>4. IsFiniteSet(Given(line, n)) /\ Cardinality(Given(line, n)) \in Nat
  BY GivenStep
<1>5. /\ Cardinality(Given(line, i)) \in Nat
      /\ Cardinality(Given(line, i + 1)) = Cardinality(Given(line, i)) + 1
  <2>1. i \in Nat /\ i >= 1
    BY <1>2
  <2> QED BY <1>2, <2>1, GivenStep
<1>6. Cardinality(Given(line, i + 1)) <= Cardinality(Given(line, n))
  BY <1>3, <1>4, FS_Subset
<1> QED BY <1>2, <1>4, <1>5, <1>6

(* A file of the list, and the argument it is for. *)
IsFor(file, line, i) ==
    /\ file.name = GivenName(line, i)
    /\ file.dir = DirectoryAt(line, i)
    /\ file.engine \in {"default", "none", EngineAt(line, i)}
    /\ file.flags = FlagsAt(line, i)

(* What is in force before an argument, and what was added to the list. *)
InForceAt(line, n, dir, engine, flags) ==
    /\ dir = DirectoryAt(line, n)
    /\ engine = EngineAt(line, n)
    /\ flags = FlagsAt(line, n)

ListedAt(line, n, files) ==
    /\ IsSeq(files) /\ Len(files) = Cardinality(Given(line, n))
    /\ \A i \in Given(line, n) : IsFor(files[Cardinality(Given(line, i + 1))], line, i)

LEMMA ListedStays ==
    ASSUME NEW line, FirstArgument(line) = 1, NEW n \in Nat, n >= 1, NEW files,
           ListedAt(line, n, files), ~IsName(line, n)
    PROVE  ListedAt(line, n + 1, files)
<1>1. Given(line, n + 1) = Given(line, n)
  BY GivenStep
<1> QED BY <1>1 DEF ListedAt

LEMMA ListedMore ==
    ASSUME NEW line, FirstArgument(line) = 1, NEW n \in Nat, n >= 1, NEW files,
           ListedAt(line, n, files), IsName(line, n), NEW file, IsFor(file, line, n)
    PROVE  ListedAt(line, n + 1, Append(files, file))
<1> DEFINE g == Append(files, file)
           C(i) == Cardinality(Given(line, i))
<1>1. /\ IsSeq(g) /\ Len(g) = Len(files) + 1 /\ g[Len(files) + 1] = file
      /\ \A i \in 1 .. Len(files) : g[i] = files[i]
  BY SeqAppend DEF ListedAt
<1>2. Len(files) = C(n) /\ C(n + 1) = C(n) + 1 /\ Given(line, n + 1) = Given(line, n) \cup {n}
  BY GivenStep DEF ListedAt
<1>3. ASSUME NEW i \in Given(line, n) PROVE C(i + 1) \in 1 .. C(n) /\ IsFor(files[C(i + 1)], line, i)
  BY <1>3, GivenRank DEF ListedAt
<1> HIDE DEF g
<1>4. \A i \in Given(line, n + 1) : IsFor(g[C(i + 1)], line, i)
  <2> SUFFICES ASSUME NEW i \in Given(line, n + 1) PROVE IsFor(g[C(i + 1)], line, i)
    OBVIOUS
  <2>1. CASE i = n
    <3>1. g[C(n + 1)] = file
      BY <1>1, <1>2
    <3> QED BY <2>1, <3>1
  <2>2. CASE i # n
    <3>1. i \in Given(line, n)
      BY <1>2, <2>2
    <3>2. C(i + 1) \in 1 .. C(n) /\ IsFor(files[C(i + 1)], line, i)
      BY <1>3, <3>1
    <3>3. g[C(i + 1)] = files[C(i + 1)]
      BY <1>1, <1>2, <3>2
    <3> QED BY <3>2, <3>3
  <2> QED BY <2>1, <2>2
<1>5. ListedAt(line, n + 1, g)
  BY <1>1, <1>2, <1>4 DEF ListedAt
<1> QED BY <1>5 DEF g

Telling == {"directory", "pattern_engine", "recursion", "no_recursion"}

LEMMA InForceStays ==
    ASSUME NEW line, FirstArgument(line) = 1, NEW n \in Nat, NEW d, NEW e, NEW f,
           InForceAt(line, n, d, e, f), ~Says(line, n, Telling)
    PROVE  InForceAt(line, n + 1, d, e, f)
<1>1. /\ ~Says(line, n, {"directory"}) /\ ~Says(line, n, {"pattern_engine"})
      /\ ~Says(line, n, {"recursion", "no_recursion"})
  BY DEF Says, Telling
<1>2. /\ LastSaid(line, n + 1, {"directory"}) = LastSaid(line, n, {"directory"})
      /\ LastSaid(line, n + 1, {"pattern_engine"}) = LastSaid(line, n, {"pattern_engine"})
      /\ LastSaid(line, n + 1, {"recursion", "no_recursion"}) =
            LastSaid(line, n, {"recursion", "no_recursion"})
  BY <1>1, LastSaidStays
<1> QED BY <1>2 DEF InForceAt, DirectoryAt, EngineAt, FlagsAt

LEMMA InForceSays ==
    ASSUME NEW line, FirstArgument(line) = 1, NEW n \in Nat, n >= 1, NEW d, NEW e, NEW f,
           InForceAt(line, n, d, e, f), Says(line, n, Telling)
    PROVE  InForceAt(line, n + 1,
              IF line[n].name = "directory" THEN line[n].value ELSE d,
              IF line[n].name = "pattern_engine" THEN line[n].value ELSE e,
              IF line[n].name = "recursion" THEN {"recursion"}
              ELSE IF line[n].name = "no_recursion" THEN {} ELSE f)
<1> DEFINE Old(names) == LastSaid(line, n, names)
           New(names) == LastSaid(line, n + 1, names)
<1>1. ASSUME NEW names, names \subseteq Telling
      PROVE  New(names) = IF line[n].name \in names THEN n ELSE Old(names)
  <2>1. Says(line, n, names) <=> line[n].name \in names
    BY DEF Says
  <2> QED BY <2>1, LastSaidStays, LastSaidNow
<1>2. /\ New({"directory"}) = IF line[n].name = "directory" THEN n ELSE Old({"directory"})
      /\ New({"pattern_engine"}) = IF line[n].name = "pattern_engine" THEN n ELSE Old({"pattern_engine"})
      /\ New({"recursion", "no_recursion"}) =
            IF line[n].name \in {"recursion", "no_recursion"} THEN n ELSE Old({"recursion", "no_recursion"})
  BY <1>1 DEF Telling
<1> HIDE DEF Old, New
<1>3. /\ DirectoryAt(line, n) = IF Old({"directory"}) = 0 THEN "none" ELSE line[Old({"directory"})].value
      /\ DirectoryAt(line, n + 1) = IF New({"directory"}) = 0 THEN "none" ELSE line[New({"directory"})].value
      /\ EngineAt(line, n) =
            IF Old({"pattern_engine"}) = 0 THEN "fnmatch" ELSE line[Old({"pattern_engine"})].value
      /\ EngineAt(line, n + 1) =
            IF New({"pattern_engine"}) = 0 THEN "fnmatch" ELSE line[New({"pattern_engine"})].value
  BY DEF DirectoryAt, EngineAt, Old, New
<1>4. ASSUME NEW m
      PROVE  FlagsAt(line, m) =
               IF /\ LastSaid(line, m, {"recursion", "no_recursion"}) # 0
                  /\ line[LastSaid(line, m, {"recursion", "no_recursion"})].name = "no_recursion"
               THEN {} ELSE {"recursion"}
  BY DEF FlagsAt
<1>5. /\ FlagsAt(line, n) =
            IF /\ Old({"recursion", "no_recursion"}) # 0
               /\ line[Old({"recursion", "no_recursion"})].name = "no_recursion"
            THEN {} ELSE {"recursion"}
      /\ FlagsAt(line, n + 1) =
            IF /\ New({"recursion", "no_recursion"}) # 0
               /\ line[New({"recursion", "no_recursion"})].name = "no_recursion"
            THEN {} ELSE {"recursion"}
  BY <1>4 DEF Old, New
<1>6. n # 0
  OBVIOUS
<1> QED BY <1>2, <1>3, <1>5, <1>6 DEF InForceAt

----------------------------------------------------------------------------
(* The parser hears what the command line says. *)

IsPattern ==
    /\ pattern = [engine |-> pattern.engine, include |-> pattern.include, exclude |-> pattern.exclude]
    /\ pattern.include \subseteq {"recursion"}

HeardAt(n, opt, pat) ==
    /\ InForceAt(argv, n, opt.working_directory, pat.engine, pat.include)
    /\ ListedAt(argv, n, opt.files)

Heard ==
    /\ IsSeq(argv) /\ IsPattern
    /\ pc = "start" => option = Defaults /\ pattern = DefaultPattern
    /\ FirstForm = "option" =>
          /\ pc # "bundle"
          /\ pc \in {"options", "rest", "check"} =>
                optind \in 1 .. Len(argv) + 1 /\ HeardAt(optind, option, pattern)
          /\ pc = "options" => optind <= Stop(argv)
          /\ pc = "rest" => optind > Stop(argv) \/ optind = Len(argv) + 1
          /\ pc = "check" => optind = Len(argv) + 1

LEMMA FirstIs ==
    ASSUME FirstForm = "option"
    PROVE  FirstArgument(argv) = 1
BY DEF FirstForm, FirstArgument

(* What an option does to what is heard. *)
Deaf == /\ option'.working_directory = option.working_directory
        /\ option'.files = option.files
        /\ pattern'.engine = pattern.engine /\ pattern'.include = pattern.include
        /\ IsPattern => IsPattern'

LEMMA SetDeaf ==
    ASSUME Optioned, NEW fields, Set(fields), DOMAIN fields \cap {"files", "working_directory"} = {}
    PROVE  Deaf
<1>1. /\ \A x \in DOMAIN Defaults :
            option'[x] = IF x \in DOMAIN fields THEN fields[x] ELSE option[x]
      /\ UNCHANGED pattern
  BY SetIs
<1>2. "files" \in DOMAIN Defaults /\ "working_directory" \in DOMAIN Defaults
  BY DefaultFields
<1>3. option'["files"] = option["files"] /\ option'["working_directory"] = option["working_directory"]
  BY <1>1, <1>2
<1> QED BY <1>1, <1>3 DEF Deaf, IsPattern

LEMMA OthersDeaf ==
    ASSUME Optioned, UNCHANGED pattern,
           \A y \in DOMAIN Defaults : y \notin {"excludes", "do_work"} => option'[y] = option[y]
    PROVE  Deaf
<1>1. "files" \in DOMAIN Defaults /\ "working_directory" \in DOMAIN Defaults
  BY DefaultFields
<1>2. option'["files"] = option["files"] /\ option'["working_directory"] = option["working_directory"]
  BY <1>1
<1> QED BY <1>2 DEF Deaf, IsPattern

LEMMA OptionNames ==
    /\ DOMAIN Flags \cap (Telling \cup {"add_file"}) = {}
    /\ DOMAIN CacheTags \cap (Telling \cup {"add_file"}) = {}
    /\ Functions \cap (Telling \cup {"add_file"}) = {}
    /\ \A v : DOMAIN Values(v) \cap (Telling \cup {"add_file"}) = {"directory"}
BY DEF Flags, CacheTags, Functions, Values, Telling

LEMMA ArgumentAt ==
    ASSUME Heard, FirstForm = "option", pc = "options", optind <= Len(argv), argv[optind].form # "end"
    PROVE  /\ optind \in Nat /\ optind >= 1 /\ optind < Stop(argv)
           /\ optind + 1 \in 1 .. Len(argv) + 1 /\ optind + 1 <= Stop(argv)
           /\ HeardAt(optind, option, pattern) /\ FirstArgument(argv) = 1
<1>1. /\ IsSeq(argv) /\ optind \in 1 .. Len(argv) + 1 /\ optind <= Stop(argv)
      /\ HeardAt(optind, option, pattern)
  BY DEF Heard
<1>2. FirstArgument(argv) = 1
  BY FirstIs
<1>3. Len(argv) \in Nat
  BY <1>1 DEF IsSeq
<1>4. Stop(argv) \in 1 .. Len(argv) + 1 /\ (Stop(argv) = Len(argv) + 1 \/ argv[Stop(argv)].form = "end")
  BY <1>1, <1>2, StopIs
<1>5. optind # Stop(argv)
  BY <1>1, <1>3, <1>4
<1> QED BY <1>1, <1>2, <1>3, <1>4, <1>5

(* An option that says nothing of names. *)
LEMMA DeafStep ==
    ASSUME NEW n \in Nat, n >= 1, FirstArgument(argv) = 1, HeardAt(n, option, pattern), Deaf,
           ~IsName(argv, n), ~Says(argv, n, Telling)
    PROVE  HeardAt(n + 1, option', pattern')
<1>1. InForceAt(argv, n + 1, option.working_directory, pattern.engine, pattern.include)
  BY InForceStays DEF HeardAt
<1>2. ListedAt(argv, n + 1, option.files)
  BY ListedStays DEF HeardAt
<1> QED BY <1>1, <1>2 DEF HeardAt, Deaf

(* A name. *)
LEMMA NameStep ==
    ASSUME RegistryAssumption, Held, NEW n \in Nat, n >= 1, FirstArgument(argv) = 1,
           HeardAt(n, option, pattern), IsName(argv, n), ~Says(argv, n, Telling),
           AddInclude(GivenName(argv, n))
    PROVE  HeardAt(n + 1, option', pattern') /\ UNCHANGED pattern
<1>1. /\ UNCHANGED pattern
      /\ \A y \in DOMAIN Defaults : y # "files" => option'[y] = option[y]
  BY AddIncludeIs DEF Held
<1>2. PICK v : IsInclude(v, GivenName(argv, n)) /\ option'.files = Append(option.files, v)
  BY AddIncludeIs DEF Held
<1>3. option'.working_directory = option.working_directory
  <2>1. "working_directory" \in DOMAIN Defaults
    BY DefaultFields
  <2>2. option'["working_directory"] = option["working_directory"]
    BY <1>1, <2>1
  <2> QED BY <2>2
<1>4. InForceAt(argv, n, option.working_directory, pattern.engine, pattern.include)
  BY DEF HeardAt
<1>5. InForceAt(argv, n + 1, option.working_directory, pattern.engine, pattern.include)
  BY <1>4, InForceStays
<1>6. IsFor(v, argv, n)
  BY <1>2, <1>4 DEF IsFor, IsInclude, InForceAt
<1>7. ListedAt(argv, n + 1, Append(option.files, v))
  BY <1>6, ListedMore DEF HeardAt
<1> QED BY <1>1, <1>2, <1>3, <1>5, <1>7 DEF HeardAt

LEMMA HeardArgument ==
    ASSUME Heard, pc = "options", UNCHANGED <<argv, pc>>, optind <= Len(argv),
           argv[optind].form # "end", optind' = optind + 1, IsPattern',
           FirstForm = "option" => HeardAt(optind + 1, option', pattern')
    PROVE  Heard'
<1>1. CASE FirstForm # "option"
  BY <1>1 DEF Heard, FirstForm
<1>2. CASE FirstForm = "option"
  <2>1. optind + 1 \in 1 .. Len(argv) + 1 /\ optind + 1 <= Stop(argv)
    BY <1>2, ArgumentAt
  <2>2. (HeardAt(optind, option, pattern))'
    BY <1>2 DEF HeardAt
  <2> QED BY <1>2, <2>1, <2>2 DEF Heard, FirstForm
<1> QED BY <1>1, <1>2

LEMMA HeardNoMore ==
    ASSUME Heard, UNCHANGED <<argv, pattern>>, pc' \notin ParserPc
    PROVE  Heard'
BY DEF Heard, IsPattern, FirstForm, ParserPc

LEMMA NoListAdded ==
    ASSUME RegistryAssumption, Held, NEW v,
           AddExclude(v) \/ AddIncludeFromFile(v) \/ AddExcludeFromFile(v) \/ SetFunction(v)
    PROVE  Deaf
<1>1. /\ UNCHANGED pattern
      /\ \A y \in DOMAIN Defaults : y \notin {"excludes", "do_work"} => option'[y] = option[y]
  BY AddExcludeIs, AddFromFileIs, SetFunctionIs DEF Held
<1> QED BY <1>1, OthersDeaf DEF Held

(* An option that is not one of those that say something of names.          *)
LEMMA DeafOption ==
    ASSUME Heard, Next1("option"), UNCHANGED pc, Deaf,
           Name \notin Telling \cup {"add_file"}
    PROVE  Heard'
<1>1. pc = "options" /\ optind <= Len(argv) /\ argv[optind].form = "option"
      /\ optind' = optind + 1 /\ UNCHANGED argv
  BY DEF Next1
<1>2. IsPattern'
  BY DEF Heard, IsPattern, Deaf
<1>3. ASSUME FirstForm = "option" PROVE HeardAt(optind + 1, option', pattern')
  <2>1. /\ optind \in Nat /\ optind >= 1 /\ optind < Stop(argv)
        /\ HeardAt(optind, option, pattern) /\ FirstArgument(argv) = 1
    BY <1>1, <1>3, ArgumentAt
  <2>2. ~Says(argv, optind, Telling) /\ ~Says(argv, optind, {"add_file"})
    BY DEF Says, Name
  <2>3. ~IsName(argv, optind)
    <3>1. Stop(argv) \in Nat
      BY <1>3, FirstIs, StopIs DEF Heard, IsSeq
    <3> QED BY <1>1, <2>1, <2>2, <3>1 DEF IsName
  <2> QED BY <2>1, <2>2, <2>3, DeafStep
<1> QED BY <1>1, <1>2, <1>3, HeardArgument

(* A name between the options, or behind --add-file.                        *)
LEMMA NameArgument ==
    ASSUME RegistryAssumption, Held, Heard, NEW form \in {"word", "option"}, Next1(form),
           UNCHANGED pc, form = "option" => Name = "add_file", AddInclude(Value)
    PROVE  Heard'
<1>1. pc = "options" /\ optind <= Len(argv) /\ argv[optind].form = form
      /\ optind' = optind + 1 /\ UNCHANGED argv
  BY DEF Next1
<1>2. IsPattern'
  BY AddIncludeIs DEF Heard, IsPattern, Held
<1>3. ASSUME FirstForm = "option" PROVE HeardAt(optind + 1, option', pattern')
  <2>1. /\ optind \in Nat /\ optind >= 1 /\ optind < Stop(argv)
        /\ HeardAt(optind, option, pattern) /\ FirstArgument(argv) = 1
    BY <1>1, <1>3, ArgumentAt
  <2>2. ~Says(argv, optind, Telling)
    BY <1>1 DEF Says, Name, Telling
  <2>3. Stop(argv) \in Nat
    BY <1>3, FirstIs, StopIs DEF Heard, IsSeq
  <2>4. IsName(argv, optind)
    BY <1>1, <2>1, <2>3 DEF IsName, Says, Name
  <2>5. GivenName(argv, optind) = Value
    BY <2>1, <2>3 DEF GivenName, Value
  <2> QED BY <2>1, <2>2, <2>4, <2>5, NameStep
<1> QED BY <1>1, <1>2, <1>3, HeardArgument

(* --directory, --pattern-engine, --recursion and --no-recursion.           *)
LEMMA TellingArgument ==
    ASSUME Heard, Next1("option"), UNCHANGED pc, IsPattern', option'.files = option.files,
           option'.working_directory = IF Name = "directory" THEN Value ELSE option.working_directory,
           pattern'.engine = IF Name = "pattern_engine" THEN Value ELSE pattern.engine,
           pattern'.include = IF Name = "recursion" THEN {"recursion"}
                              ELSE IF Name = "no_recursion" THEN {} ELSE pattern.include,
           Name \in Telling
    PROVE  Heard'
<1>1. pc = "options" /\ optind <= Len(argv) /\ argv[optind].form = "option"
      /\ optind' = optind + 1 /\ UNCHANGED argv
  BY DEF Next1
<1>2. ASSUME FirstForm = "option" PROVE HeardAt(optind + 1, option', pattern')
  <2>1. /\ optind \in Nat /\ optind >= 1 /\ optind < Stop(argv)
        /\ HeardAt(optind, option, pattern) /\ FirstArgument(argv) = 1
    BY <1>1, <1>2, ArgumentAt
  <2>2. Says(argv, optind, Telling) /\ ~Says(argv, optind, {"add_file"})
    BY <1>1, <2>1 DEF Says, Name, Telling
  <2>3. ~IsName(argv, optind)
    <3>1. Stop(argv) \in Nat
      BY <1>2, FirstIs, StopIs DEF Heard, IsSeq
    <3> QED BY <1>1, <2>1, <2>2, <3>1 DEF IsName
  <2>4. InForceAt(argv, optind + 1, option'.working_directory, pattern'.engine, pattern'.include)
    <3>1. InForceAt(argv, optind, option.working_directory, pattern.engine, pattern.include)
      BY <2>1 DEF HeardAt
    <3>2. InForceAt(argv, optind + 1,
              IF Name = "directory" THEN Value ELSE option.working_directory,
              IF Name = "pattern_engine" THEN Value ELSE pattern.engine,
              IF Name = "recursion" THEN {"recursion"}
              ELSE IF Name = "no_recursion" THEN {} ELSE pattern.include)
      BY <2>1, <2>2, <3>1, InForceSays DEF Name, Value
    <3> QED BY <3>2
  <2>5. ListedAt(argv, optind + 1, option'.files)
    BY <2>1, <2>3, ListedStays DEF HeardAt
  <2> QED BY <2>4, <2>5 DEF HeardAt
<1> QED BY <1>1, <1>2, HeardArgument

LEMMA ValueHeard ==
    ASSUME Held, Heard, ValueOption
    PROVE  Heard'
<1> DEFINE fields == Values(Value)[Name]
<1>1. /\ Next1("option") /\ Name \in DOMAIN Values(Value) /\ Set(fields) /\ UNCHANGED <<pc, pattern>>
  BY DEF ValueOption, Values, Set
<1>2. /\ DOMAIN fields \cap {"files", "excludes"} = {}
      /\ IF Name = "directory" THEN fields = [working_directory |-> Value]
         ELSE "working_directory" \notin DOMAIN fields
  BY <1>1, ValueFields
<1> HIDE DEF fields
<1>3. CASE Name # "directory"
  <2>1. Deaf
    BY <1>1, <1>2, <1>3, SetDeaf DEF Held
  <2>2. Name \notin Telling \cup {"add_file"}
    BY <1>1, <1>3, OptionNames
  <2> QED BY <1>1, <2>1, <2>2, DeafOption
<1>4. CASE Name = "directory"
  <2>1. "files" \in DOMAIN Defaults /\ "working_directory" \in DOMAIN Defaults
    BY DefaultFields
  <2>2. option'["files"] = option["files"] /\ option'["working_directory"] = Value
    BY <1>1, <1>2, <1>4, <2>1, SetIs DEF Held
  <2>3. option'.files = option.files /\ option'.working_directory = Value
    BY <2>2
  <2>4. Name \in Telling /\ IsPattern'
    BY <1>1, <1>4 DEF Telling, Heard, IsPattern
  <2> QED BY <1>1, <1>4, <2>3, <2>4, TellingArgument
<1> QED BY <1>3, <1>4

LEMMA PatternHeard ==
    ASSUME Held, Heard, PatternOption
    PROVE  Heard'
<1>1. Next1("option") /\ UNCHANGED <<option, pc>>
  BY DEF PatternOption
<1>2. \/ Name = "pattern_engine" /\ pattern' = [pattern EXCEPT !.engine = Value]
      \/ Name \in DOMAIN PatternFlags /\ pattern' = PatternFlags[Name]
  BY DEF PatternOption
<1>3. /\ pattern = [engine |-> pattern.engine, include |-> pattern.include, exclude |-> pattern.exclude]
      /\ pattern.include \subseteq {"recursion"}
  BY DEF Heard, IsPattern
<1>4. ASSUME NEW e, NEW i, NEW x, i \subseteq {"recursion"},
             pattern' = [engine |-> e, include |-> i, exclude |-> x]
      PROVE  pattern'.engine = e /\ pattern'.include = i /\ pattern'.exclude = x /\ IsPattern'
  BY <1>4 DEF IsPattern
<1>5. CASE Name = "pattern_engine"
  <2>1. pattern' = [pattern EXCEPT !.engine = Value]
    BY <1>2, <1>5 DEF PatternFlags
  <2>2. pattern' = [engine |-> Value, include |-> pattern.include, exclude |-> pattern.exclude]
    BY <1>3, <2>1
  <2>3. pattern'.engine = Value /\ pattern'.include = pattern.include /\ IsPattern'
    BY <1>3, <1>4, <2>2
  <2> QED BY <1>1, <1>5, <2>3, TellingArgument DEF Telling
<1>6. CASE Name \in DOMAIN PatternFlags
  <2>1. pattern' = PatternFlags[Name] /\ Name \in {"anchored", "no_anchored", "recursion", "no_recursion"}
    BY <1>2, <1>6 DEF PatternFlags
  <2>2. \E x : pattern' = [engine |-> pattern.engine,
                           include |-> IF Name = "recursion" THEN pattern.include \cup {"recursion"}
                                       ELSE IF Name = "no_recursion" THEN pattern.include \ {"recursion"}
                                       ELSE pattern.include,
                           exclude |-> x]
    <3>1. CASE Name = "anchored"
      <4>1. pattern' = [pattern EXCEPT !.exclude = @ \cup {"anchored"}]
        BY <2>1, <3>1 DEF PatternFlags
      <4> QED BY <1>3, <3>1, <4>1
    <3>2. CASE Name = "no_anchored"
      <4>1. pattern' = [pattern EXCEPT !.exclude = @ \ {"anchored"}]
        BY <2>1, <3>2 DEF PatternFlags
      <4> QED BY <1>3, <3>2, <4>1
    <3>3. CASE Name = "recursion"
      <4>1. pattern' = [pattern EXCEPT !.exclude = @ \cup {"recursion"}, !.include = @ \cup {"recursion"}]
        BY <2>1, <3>3 DEF PatternFlags
      <4> QED BY <1>3, <3>3, <4>1
    <3>4. CASE Name = "no_recursion"
      <4>1. pattern' = [pattern EXCEPT !.exclude = @ \ {"recursion"}, !.include = @ \ {"recursion"}]
        BY <2>1, <3>4 DEF PatternFlags
      <4> QED BY <1>3, <3>4, <4>1
    <3> QED BY <2>1, <3>1, <3>2, <3>3, <3>4
  <2> DEFINE new == IF Name = "recursion" THEN {"recursion"}
                    ELSE IF Name = "no_recursion" THEN {} ELSE pattern.include
  <2>3. PICK x : pattern' = [engine |-> pattern.engine, include |-> new, exclude |-> x]
    <3>1. new = IF Name = "recursion" THEN pattern.include \cup {"recursion"}
                ELSE IF Name = "no_recursion" THEN pattern.include \ {"recursion"}
                ELSE pattern.include
      BY <1>3
    <3> HIDE DEF new
    <3> QED BY <2>2, <3>1, Zenon
  <2>4. new \subseteq {"recursion"}
    BY <1>3
  <2> HIDE DEF new
  <2>5. pattern'.engine = pattern.engine /\ pattern'.include = new /\ IsPattern'
    BY <1>4, <2>3, <2>4
  <2>6. CASE Name \in {"recursion", "no_recursion"}
    BY <1>1, <2>5, <2>6, TellingArgument DEF Telling, new
  <2>7. CASE Name \in {"anchored", "no_anchored"}
    <3>1. pattern'.include = pattern.include /\ Name \notin Telling \cup {"add_file"}
      BY <2>5, <2>7 DEF Telling, new
    <3>2. Deaf
      BY <1>1, <2>5, <3>1 DEF Deaf
    <3> QED BY <1>1, <3>1, <3>2, DeafOption
  <2> QED BY <2>1, <2>6, <2>7
<1> QED BY <1>2, <1>5, <1>6

LEMMA StartHeard ==
    ASSUME Heard, StartParse
    PROVE  Heard'
<1>1. /\ pc = "start" /\ option = Defaults /\ pattern = DefaultPattern
      /\ UNCHANGED <<argv, option, pattern>>
      /\ IF FirstForm = "bundle" THEN pc' = "bundle" ELSE pc' = "options" /\ optind' = 1
  BY DEF StartParse, Heard
<1>2. IsSeq(argv) /\ IsPattern /\ IsPattern'
  BY <1>1 DEF Heard, IsPattern
<1>3. CASE FirstForm # "option"
  BY <1>1, <1>2, <1>3 DEF Heard, FirstForm
<1>4. CASE FirstForm = "option"
  <2>1. FirstArgument(argv) = 1
    BY <1>4, FirstIs
  <2>2. Len(argv) \in Nat /\ Stop(argv) >= 1
    BY <1>2, <2>1, StopIs DEF IsSeq
  <2>3. InForceAt(argv, 1, option.working_directory, pattern.engine, pattern.include)
    <3>1. option.working_directory = "none" /\ pattern.engine = "fnmatch" /\ pattern.include = {"recursion"}
      BY <1>1 DEF Defaults, DefaultPattern
    <3> QED BY <2>1, <3>1, NothingSaid DEF InForceAt
  <2>4. ListedAt(argv, 1, option.files)
    <3>1. option.files = <<>>
      BY <1>1 DEF Defaults
    <3>2. IsSeq(<<>>) /\ Len(<<>>) = 0
      BY DEF IsSeq
    <3>3. Given(argv, 1) = {} /\ Cardinality({}) = 0
      BY <2>1, NothingSaid, FS_EmptySet
    <3> QED BY <3>1, <3>2, <3>3 DEF ListedAt
  <2>5. (HeardAt(1, option, pattern))'
    BY <1>1, <2>3, <2>4 DEF HeardAt
  <2>6. 1 \in 1 .. Len(argv) + 1
    BY <2>2
  <2> QED BY <1>1, <1>2, <1>4, <2>2, <2>5, <2>6 DEF Heard, FirstForm
<1> QED BY <1>3, <1>4

LEMMA StopHeard ==
    ASSUME Heard, StopOption \/ OptionsEnd
    PROVE  Heard'
<1>1. /\ pc = "options" /\ pc' = "rest" /\ UNCHANGED <<argv, option, pattern>>
      /\ \/ argv[optind].form = "end" /\ optind <= Len(argv) /\ optind' = optind + 1
         \/ optind > Len(argv) /\ optind' = optind
  BY DEF StopOption, OptionsEnd, Next1
<1>2. IsSeq(argv) /\ IsPattern'
  BY <1>1 DEF Heard, IsPattern
<1>3. CASE FirstForm # "option"
  BY <1>1, <1>2, <1>3 DEF Heard, FirstForm
<1>4. CASE FirstForm = "option"
  <2>1. FirstArgument(argv) = 1 /\ Len(argv) \in Nat
    BY <1>2, <1>4, FirstIs DEF IsSeq
  <2>2. /\ optind \in 1 .. Len(argv) + 1 /\ HeardAt(optind, option, pattern) /\ optind <= Stop(argv)
    BY <1>1, <1>4 DEF Heard
  <2>3. /\ Stop(argv) \in 1 .. Len(argv) + 1
        /\ \A i \in 1 .. Stop(argv) - 1 : argv[i].form # "end"
    BY <1>2, <2>1, StopIs
  <2>4. CASE optind > Len(argv) /\ optind' = optind
    <3>1. optind' \in 1 .. Len(argv) + 1 /\ optind' = Len(argv) + 1
      BY <2>1, <2>2, <2>4
    <3>2. (HeardAt(optind, option, pattern))'
      BY <1>1, <2>2, <2>4 DEF HeardAt
    <3> QED BY <1>1, <1>2, <1>4, <3>1, <3>2 DEF Heard, FirstForm
  <2>5. CASE argv[optind].form = "end" /\ optind <= Len(argv) /\ optind' = optind + 1
    <3>1. optind = Stop(argv)
      BY <2>1, <2>2, <2>3, <2>5
    <3>2. optind' \in 1 .. Len(argv) + 1 /\ optind' > Stop(argv)
      BY <2>1, <2>2, <2>5, <3>1
    <3>3. HeardAt(optind + 1, option', pattern')
      <4>1. ~IsName(argv, optind) /\ ~Says(argv, optind, Telling)
        BY <2>3, <3>1 DEF IsName, Says
      <4>2. Deaf
        BY <1>1, <1>2 DEF Deaf
      <4> QED BY <2>1, <2>2, <4>1, <4>2, DeafStep
    <3>4. (HeardAt(optind, option, pattern))'
      BY <1>1, <2>5, <3>3 DEF HeardAt
    <3> QED BY <1>1, <1>2, <1>4, <3>2, <3>4 DEF Heard, FirstForm
  <2> QED BY <1>1, <2>4, <2>5
<1> QED BY <1>3, <1>4

LEMMA RestHeard ==
    ASSUME RegistryAssumption, Held, Heard, Rest
    PROVE  Heard'
<1>1. CASE optind <= Len(argv)
  <2>1. /\ pc = "rest" /\ pc' = "rest" /\ AddInclude(Text(argv[optind])) /\ optind' = optind + 1
        /\ UNCHANGED argv
    BY <1>1 DEF Rest
  <2>2. IsSeq(argv) /\ IsPattern'
    BY <2>1, AddIncludeIs DEF Heard, IsPattern, Held
  <2>3. CASE FirstForm # "option"
    BY <2>1, <2>2, <2>3 DEF Heard, FirstForm
  <2>4. CASE FirstForm = "option"
    <3>1. FirstArgument(argv) = 1 /\ Len(argv) \in Nat
      BY <2>2, <2>4, FirstIs DEF IsSeq
    <3>2. /\ optind \in 1 .. Len(argv) + 1 /\ HeardAt(optind, option, pattern)
          /\ optind > Stop(argv) \/ optind = Len(argv) + 1
      BY <2>1, <2>4 DEF Heard
    <3>3. Stop(argv) \in 1 .. Len(argv) + 1
      BY <2>2, <3>1, StopIs
    <3>4. optind > Stop(argv) /\ optind \in Nat /\ optind >= 1
      BY <1>1, <3>1, <3>2, <3>3
    <3>5. IsName(argv, optind) /\ ~Says(argv, optind, Telling) /\ GivenName(argv, optind) = Text(argv[optind])
      BY <3>3, <3>4 DEF IsName, Says, GivenName
    <3>6. HeardAt(optind + 1, option', pattern')
      BY <2>1, <3>1, <3>2, <3>4, <3>5, NameStep
    <3>7. (HeardAt(optind, option, pattern))'
      BY <2>1, <3>6 DEF HeardAt
    <3>8. optind' \in 1 .. Len(argv) + 1 /\ optind' > Stop(argv)
      BY <1>1, <2>1, <3>1, <3>2, <3>3, <3>4
    <3> QED BY <2>1, <2>2, <2>4, <3>7, <3>8 DEF Heard, FirstForm
  <2> QED BY <2>3, <2>4
<1>2. CASE ~(optind <= Len(argv))
  <2>1. pc = "rest" /\ pc' = "check" /\ UNCHANGED <<argv, optind, option, pattern>>
    BY <1>2 DEF Rest
  <2>2. IsSeq(argv) /\ IsPattern' /\ Len(argv) \in Nat
    BY <2>1 DEF Heard, IsPattern, IsSeq
  <2>3. CASE FirstForm # "option"
    BY <2>1, <2>2, <2>3 DEF Heard, FirstForm
  <2>4. CASE FirstForm = "option"
    <3>1. optind \in 1 .. Len(argv) + 1 /\ HeardAt(optind, option, pattern)
      BY <2>1, <2>4 DEF Heard
    <3>2. optind = Len(argv) + 1
      BY <1>2, <2>2, <3>1
    <3>3. (HeardAt(optind, option, pattern))'
      BY <2>1, <3>1 DEF HeardAt
    <3> QED BY <2>1, <2>2, <2>4, <3>1, <3>2, <3>3 DEF Heard, FirstForm
  <2> QED BY <2>3, <2>4
<1> QED BY <1>1, <1>2

LEMMA BundleHeard ==
    ASSUME RegistryAssumption, Held, Heard,
           BundleFlag \/ BundleNumber \/ BundleValue \/ BundleFile \/ BundleList \/ BundleHelp
             \/ BundleDash \/ BundleEnds
    PROVE  Heard'
<1>1. pc = "bundle" /\ pc' # "start" /\ UNCHANGED argv
  BY DEF BundleFlag, BundleNumber, BundleValue, BundleFile, BundleList, BundleHelp, BundleDash,
         BundleEnds, InBundle, ShowHelpAndReturn, ParseReturns, Return
<1>2. UNCHANGED pattern
  BY DEF BundleFlag, BundleNumber, BundleValue, BundleFile, BundleList, BundleHelp, BundleDash,
         BundleEnds, Set, SetFunction, AddIncludeFromFile, AddExcludeFromFile
<1> QED BY <1>1, <1>2 DEF Heard, IsPattern, FirstForm

LEMMA OptionHeard ==
    ASSUME RegistryAssumption, Held, Heard,
           SimpleOption \/ FunctionOption \/ ListOption \/ FileOption \/ FilterOptionOption \/ TellOption
    PROVE  Heard'
<1>1. ASSUME SimpleOption PROVE Heard'
  <2>1. Next1("option") /\ UNCHANGED pc
    BY <1>1 DEF SimpleOption
  <2>2. CASE Name \in DOMAIN Flags
    <3> DEFINE fields == Flags[Name]
    <3>1. Set(fields) /\ DOMAIN fields \cap {"files", "working_directory"} = {}
      BY <1>1, <2>2, FlagFields DEF SimpleOption
    <3> HIDE DEF fields
    <3>2. Deaf
      BY <3>1, SetDeaf DEF Held
    <3>3. Name \notin Telling \cup {"add_file"}
      BY <2>2, OptionNames
    <3> QED BY <2>1, <3>2, <3>3, DeafOption
  <2>3. CASE Name \notin DOMAIN Flags
    <3>0. Name \in DOMAIN CacheTags
      BY <1>1, <2>3 DEF SimpleOption, Simple
    <3> DEFINE fields == CacheTags[Name]
    <3>1. Set(fields) /\ DOMAIN fields \cap {"files", "working_directory"} = {}
      BY <1>1, <2>3, <3>0, CacheTagFields DEF SimpleOption
    <3> HIDE DEF fields
    <3>2. Deaf
      BY <3>1, SetDeaf DEF Held
    <3>3. Name \notin Telling \cup {"add_file"}
      BY <3>0, OptionNames
    <3> QED BY <2>1, <3>2, <3>3, DeafOption
  <2> QED BY <2>2, <2>3
<1>2. ASSUME FunctionOption PROVE Heard'
  <2>1. Next1("option") /\ UNCHANGED pc /\ (SetFunction(Name) \/ SetFunction(Value))
        /\ Name \in Functions \cup {"function"}
    BY <1>2 DEF FunctionOption
  <2>2. Deaf
    BY <2>1, NoListAdded
  <2>3. Name \notin Telling \cup {"add_file"}
    BY <2>1 DEF Functions, Telling
  <2> QED BY <2>1, <2>2, <2>3, DeafOption
<1>3. ASSUME ListOption PROVE Heard'
  <2>1. Next1("option") /\ UNCHANGED pc
    BY <1>3 DEF ListOption
  <2>2. CASE Name = "add_file"
    <3>1. AddInclude(Value)
      BY <1>3, <2>2 DEF ListOption
    <3> QED BY <2>1, <2>2, <3>1, NameArgument
  <2>3. CASE Name # "add_file"
    <3>1. /\ Name \in {"exclude", "files_from", "exclude_from"}
          /\ AddExclude(Value) \/ AddIncludeFromFile(Value) \/ UNCHANGED <<option, pattern>>
      BY <1>3, <2>3 DEF ListOption
    <3>2. Deaf
      <4>1. UNCHANGED <<option, pattern>> => Deaf
        BY DEF Deaf, IsPattern
      <4> QED BY <3>1, <4>1, NoListAdded
    <3>3. Name \notin Telling \cup {"add_file"}
      BY <3>1 DEF Telling
    <3> QED BY <2>1, <3>2, <3>3, DeafOption
  <2> QED BY <2>2, <2>3
<1>4. ASSUME FileOption PROVE Heard'
  <2>1. Next1("option") /\ Name = "file"
    BY <1>4 DEF FileOption
  <2>2. CASE option.filename # "none"
    <3>1. UNCHANGED <<argv, pattern>> /\ pc' = "exit"
      BY <1>4, <2>1, <2>2 DEF FileOption, ShowHelpAndReturn, ParseReturns, Return, Next1
    <3> QED BY <3>1, HeardNoMore DEF ParserPc
  <2>3. CASE option.filename = "none"
    <3> DEFINE fields == [filename |-> Value]
    <3>1. Set(fields) /\ UNCHANGED pc
      BY <1>4, <2>3 DEF FileOption
    <3>2. DOMAIN fields \cap {"files", "working_directory"} = {}
      OBVIOUS
    <3> HIDE DEF fields
    <3>3. Deaf
      BY <3>1, <3>2, SetDeaf DEF Held
    <3> QED BY <2>1, <3>1, <3>3, DeafOption DEF Telling
  <2> QED BY <2>2, <2>3
<1>5. ASSUME FilterOptionOption PROVE Heard'
  <2>1. Next1("option") /\ Name = "filter_option"
    BY <1>5 DEF FilterOptionOption
  <2>2. CASE option.filters = <<>>
    <3>1. UNCHANGED <<argv, pattern>> /\ pc' = "exit"
      BY <1>5, <2>1, <2>2 DEF FilterOptionOption, ParseReturns, Return, Next1
    <3> QED BY <3>1, HeardNoMore DEF ParserPc
  <2>3. CASE option.filters # <<>>
    <3>1. PICK fs : Set([filters |-> fs])
      BY <1>5, <2>3 DEF FilterOptionOption, FilterOption
    <3> DEFINE fields == [filters |-> fs]
    <3>2. Set(fields) /\ DOMAIN fields \cap {"files", "working_directory"} = {}
      BY <3>1
    <3> HIDE DEF fields
    <3>3. Deaf
      BY <3>2, SetDeaf DEF Held
    <3>4. UNCHANGED pc
      BY <1>5, <2>3 DEF FilterOptionOption
    <3> QED BY <2>1, <3>3, <3>4, DeafOption DEF Telling
  <2> QED BY <2>2, <2>3
<1>6. ASSUME TellOption PROVE Heard'
  <2>1. UNCHANGED <<argv, pattern>> /\ pc' = "exit"
    BY <1>6 DEF TellOption, ParseReturns, Return, Next1
  <2> QED BY <2>1, HeardNoMore DEF ParserPc
<1> QED BY <1>1, <1>2, <1>3, <1>4, <1>5, <1>6

LEMMA HeardStep ==
    ASSUME RegistryAssumption, SessionAssumption, Held, Heard, [Next]_vars
    PROVE  Heard'
<1>1. ASSUME Parse PROVE Heard'
  <2>1. ASSUME Refuse \/ NoTerminal \/ Check PROVE Heard'
    <3>1. UNCHANGED <<argv, pattern>> /\ pc' \in {"exit", "work"}
      BY <2>1 DEF Refuse, NoTerminal, Check, ShowHelpAndReturn, ParseReturns, Return
    <3> QED BY <3>1, HeardNoMore DEF ParserPc
  <2>2. ASSUME FileName PROVE Heard'
    BY <2>2, NameArgument DEF FileName
  <2> QED BY <1>1, <2>1, <2>2, StartHeard, BundleHeard, ValueHeard, PatternHeard, OptionHeard,
             StopHeard, RestHeard DEF Parse
<1>2. ASSUME \/ Open \/ Configure \/ AddFile \/ ChangeVolume \/ CreateEnds \/ CannotWrite
             \/ NextVolume \/ ReadingEnds
      PROVE  Heard'
  <2>1. UNCHANGED <<argv, pattern>> /\ pc' \notin ParserPc
    BY <1>2 DEF Open, Configure, AddFile, ChangeVolume, CreateEnds, NextVolume, ReadingEnds,
                CannotWrite, Finish, Crashed, Return, ParserPc
  <2> QED BY <2>1, HeardNoMore
<1>3. ASSUME Restart PROVE Heard'
  <2>1. /\ argv' \in NextLines /\ pc' = "start" /\ option' = Defaults /\ pattern' = DefaultPattern
    BY <1>3 DEF Restart
  <2>2. IsSeq(argv')
    BY <2>1 DEF SessionAssumption, IsSeq
  <2>3. IsPattern'
    BY <2>1 DEF IsPattern, DefaultPattern
  <2> QED BY <2>1, <2>2, <2>3 DEF Heard
<1>4. ASSUME UNCHANGED vars PROVE Heard'
  BY <1>4 DEF vars, optionVars, Heard, HeardAt, IsPattern, FirstForm
<1> QED BY <1>1, <1>2, <1>3, <1>4 DEF Next, Parsing

LEMMA HeardInit ==
    ASSUME SessionAssumption, Init
    PROVE  Heard
<1>1. argv \in FirstLines /\ pc = "start" /\ option = Defaults /\ pattern = DefaultPattern
  BY DEF Init, ProcessInit
<1>2. IsSeq(argv)
  BY <1>1 DEF SessionAssumption, IsSeq
<1>3. IsPattern
  BY <1>1 DEF IsPattern, DefaultPattern
<1> QED BY <1>1, <1>2, <1>3 DEF Heard

(* A name is looked for with what was said of patterns to its left and not  *)
(* with what is said to its right, on every command line that begins with   *)
(* an option: mtar_option_add_include_pattern (option.c:442-449) makes the  *)
(* pattern where the name is met.                                           *)
THEOREM NamesInForce == Spec => []InForce
<1>1. Init => Held /\ Heard
  BY HeldInit, HeardInit, RegistryAssumption, SessionAssumption
<1>2. Held /\ Heard /\ [Next]_vars => Held' /\ Heard'
  BY HeldStep, HeardStep, RegistryAssumption, SessionAssumption
<1>3. Heard => InForce
  <2> SUFFICES ASSUME Heard, pc = "check", FirstForm = "option"
               PROVE  /\ Len(option.files) = Cardinality(Given(argv, Len(argv) + 1))
                      /\ \A i \in Given(argv, Len(argv) + 1) :
                            IsFor(option.files[Cardinality(Given(argv, i + 1))], argv, i)
    BY Zenon DEF InForce, IsFor
  <2>1. ListedAt(argv, Len(argv) + 1, option.files)
    BY DEF Heard, HeardAt
  <2> QED BY <2>1 DEF ListedAt
<1> QED BY <1>1, <1>2, <1>3, PTL DEF Spec

----------------------------------------------------------------------------
(* Which drivers are found. *)

LEMMA KnownUsable ==
    ASSUME NEW s, Good(s), NEW kind \in Kinds, NEW name, Known(s, kind, name)
    PROVE  name \in Usable(kind)
<1>1. PICK i \in DOMAIN s.drivers[kind] : s.drivers[kind][i].name = name
  BY DEF Known
<1>2. s.drivers[kind] \in Seq(Libraries)
  BY DEF Good, Driven
<1>3. s.drivers[kind][i] \in Libraries
  BY <1>1, <1>2
<1>4. s.drivers[kind][i].kind = kind /\ PluginCheck(s.drivers[kind][i])
  BY <1>1 DEF Good, Driven
<1> QED BY <1>1, <1>3, <1>4 DEF Usable

LEMMA LoadFileKnows ==
    ASSUME RegistryAssumption, NEW s, Good(s), NEW l \in Libraries, PluginCheck(l)
    PROVE  Known(LoadFile(s, l), l.kind, l.name)
<1> DEFINE t == LoadFile(s, l)
<1>1. t = IF Adds(s, l) THEN WithLibrary(s, l) ELSE Unloaded(s)
  BY LoadFileIs DEF Good
<1>2. l.kind \in Kinds
  BY DEF RegistryAssumption
<1> HIDE DEF t
<1>3. CASE Adds(s, l)
  <2>1. t.drivers = [s.drivers EXCEPT ![l.kind] = Append(s.drivers[l.kind], l)]
    BY <1>1, <1>3 DEF WithLibrary
  <2>2. s.drivers[l.kind] \in Seq(Libraries) /\ s.drivers \in [Kinds -> Seq(Libraries)]
    BY <1>2 DEF Good, Driven
  <2>3. t.drivers[l.kind] = Append(s.drivers[l.kind], l)
    BY <1>2, <2>1, <2>2
  <2> DEFINE n == Len(s.drivers[l.kind]) + 1
  <2>4. n \in DOMAIN t.drivers[l.kind] /\ t.drivers[l.kind][n] = l
    BY <2>2, <2>3
  <2> QED BY <2>4 DEF Known, t
<1>4. CASE ~Adds(s, l)
  <2>1. t.drivers = s.drivers
    BY <1>1, <1>4 DEF Unloaded
  <2>2. Known(s, l.kind, l.name)
    <3>1. CASE s.held[l] # 0
      BY <3>1 DEF Good, Sound, Registered, Known
    <3>2. CASE s.held[l] = 0
      BY <1>4, <3>2 DEF Adds
    <3> QED BY <3>1, <3>2
  <2> QED BY <2>1, <2>2 DEF Known, t
<1> QED BY <1>3, <1>4

LEMMA LoadFileKeeps ==
    ASSUME RegistryAssumption, NEW s, Good(s), NEW l \in Libraries, NEW kind \in Kinds, NEW name,
           Known(s, kind, name)
    PROVE  Known(LoadFile(s, l), kind, name)
<1> DEFINE t == LoadFile(s, l)
<1>1. t = IF Adds(s, l) THEN WithLibrary(s, l) ELSE Unloaded(s)
  BY LoadFileIs DEF Good
<1>2. l.kind \in Kinds
  BY DEF RegistryAssumption
<1>3. PICK i \in DOMAIN s.drivers[kind] : s.drivers[kind][i].name = name
  BY DEF Known
<1> HIDE DEF t
<1>4. i \in DOMAIN t.drivers[kind] /\ t.drivers[kind][i] = s.drivers[kind][i]
  <2>1. CASE Adds(s, l)
    <3>1. t.drivers = [s.drivers EXCEPT ![l.kind] = Append(s.drivers[l.kind], l)]
      BY <1>1, <2>1 DEF WithLibrary
    <3>2. s.drivers[kind] \in Seq(Libraries) /\ s.drivers \in [Kinds -> Seq(Libraries)]
      BY DEF Good, Driven
    <3> QED BY <1>2, <1>3, <3>1, <3>2
  <2>2. CASE ~Adds(s, l)
    BY <1>1, <1>3, <2>2 DEF Unloaded
  <2> QED BY <2>1, <2>2
<1> QED BY <1>3, <1>4 DEF Known, t

(* A filter is found if and only if there is a library for it.              *)
LEMMA FilterKnown ==
    ASSUME RegistryAssumption, InstalledAssumption, NEW s, Good(s), NEW name
    PROVE  Known(FilterGet(s, name), "filter", name) <=> name \in Usable("filter")
<1>1. "filter" \in Kinds
  BY DEF Kinds
<1>2. Good(FilterGet(s, name))
  BY GetsGood
<1>3. ASSUME name \in Usable("filter"), ~Known(s, "filter", name)
      PROVE  Known(Load(s, "filter", name), "filter", name)
  <2> DEFINE l == Search[<<"filter", name>>]
  <2>1. <<"filter", name>> \in DOMAIN Search /\ l.kind = "filter" /\ l.name = name /\ PluginCheck(l)
    BY <1>3, Zenon DEF InstalledAssumption
  <2>2. l \in Libraries
    BY <2>1, Zenon DEF RegistryAssumption
  <2>3. Load(s, "filter", name) = LoadFile(s, l)
    BY <2>1, Zenon DEF Load
  <2> HIDE DEF l
  <2> QED BY <2>1, <2>2, <2>3, LoadFileKnows
<1> QED BY <1>1, <1>2, <1>3, KnownUsable DEF FilterGet

LEMMA IoKnown ==
    ASSUME RegistryAssumption, InstalledAssumption, NEW s, Good(s), NEW name
    PROVE  Known(IoGet(s, name), "io", name) <=> name \in Usable("io")
<1>1. "io" \in Kinds
  BY DEF Kinds
<1>2. Good(IoGet(s, name))
  BY GetsGood
<1>3. ASSUME name \in Usable("io"), ~Known(s, "io", name)
      PROVE  Known(Load(s, "io", name), "io", name)
  <2> DEFINE l == Search[<<"io", name>>]
  <2>1. <<"io", name>> \in DOMAIN Search /\ l.kind = "io" /\ l.name = name /\ PluginCheck(l)
    BY <1>3, Zenon DEF InstalledAssumption
  <2>2. l \in Libraries
    BY <2>1, Zenon DEF RegistryAssumption
  <2>3. Load(s, "io", name) = LoadFile(s, l)
    BY <2>1, Zenon DEF Load
  <2> HIDE DEF l
  <2> QED BY <2>1, <2>2, <2>3, LoadFileKnows
<1> QED BY <1>1, <1>2, <1>3, KnownUsable DEF IoGet

(* Once all libraries for formats are loaded, each format is known.         *)
LEMMA FormatsKnown ==
    ASSUME RegistryAssumption, InstalledAssumption, NEW s, Good(s), NEW name \in Usable("format")
    PROVE  Known(LoadAll(s, "format"), "format", name)
<1> DEFINE N == Len(Directory["format"])
<1>1. "format" \in Kinds
  BY DEF Kinds
<1>2. /\ N \in Nat /\ DOMAIN Directory["format"] = 1 .. N
      /\ \A n \in 1 .. N : Directory["format"][n] \in Libraries
  BY <1>1 DEF RegistryAssumption
<1>3. PICK i \in 1 .. N : /\ Directory["format"][i].kind = "format"
                          /\ Directory["format"][i].name = name
                          /\ PluginCheck(Directory["format"][i])
  BY <1>2 DEF InstalledAssumption
<1>4. PICK after :
        /\ after[0] = s
        /\ \A n \in 1 .. N : after[n] = LoadFile(after[n - 1], Directory["format"][n])
        /\ LoadAll(s, "format") = after[N]
  BY <1>1, <1>2, LoadAllSteps
<1> HIDE DEF N
<1> DEFINE T == {n \in 0 .. N : Good(after[n]) /\ (n >= i => Known(after[n], "format", name))}
<1>5. 0 \in T
  BY <1>2, <1>4
<1>6. \A n \in 1 .. N : n - 1 \in T => n \in T
  <2> SUFFICES ASSUME NEW n \in 1 .. N, n - 1 \in T PROVE n \in T
    OBVIOUS
  <2> DEFINE l == Directory["format"][n]
  <2>1. Good(after[n - 1]) /\ (n - 1 >= i => Known(after[n - 1], "format", name))
    OBVIOUS
  <2>2. l \in Libraries /\ after[n] = LoadFile(after[n - 1], l) /\ n \in 0 .. N
    BY <1>2, <1>4
  <2>3. n = i => l.kind = "format" /\ l.name = name /\ PluginCheck(l)
    BY <1>3
  <2> HIDE DEF l
  <2>4. Good(after[n])
    BY <2>1, <2>2, LoadFileGood
  <2>5. n = i => Known(after[n], "format", name)
    BY <2>1, <2>2, <2>3, LoadFileKnows
  <2>6. n - 1 >= i => Known(after[n], "format", name)
    BY <1>1, <2>1, <2>2, LoadFileKeeps
  <2>7. n >= i => n = i \/ n - 1 >= i
    BY <1>2, <1>3
  <2> QED BY <2>2, <2>4, <2>5, <2>6, <2>7
<1>7. N \in T
  <2> HIDE DEF T
  <2>1. \A n \in 0 .. N : n \in T
    BY <1>2, <1>5, <1>6, UpTo
  <2> QED BY <1>2, <2>1
<1> QED BY <1>2, <1>3, <1>4, <1>7

----------------------------------------------------------------------------
(* What writers put on and readers take off. *)

UsableFilters == Usable("filter")

(* The layers after each of the filters that are put on, the last one given *)
(* first.                                                                   *)
Laid(lay, names) ==
    /\ lay[0] = <<>>
    /\ \A n \in 1 .. Len(names) :
          LET name == names[Len(names) + 1 - n]
          IN  lay[n] = IF name \in UsableFilters THEN Append(lay[n - 1], name) ELSE lay[n - 1]

(* The layers of a file that was asked for with these names and this module. *)
IsLayers(layers, asked) ==
    \E lay : /\ Laid(lay, asked.filters)
             /\ IF asked.module = "none" THEN layers = lay[Len(asked.filters)]
                ELSE /\ asked.module \in UsableFilters
                     /\ layers = Append(lay[Len(asked.filters)], asked.module)

(* One sequence begins another. *)
Begins(a, b) ==
    /\ a \in Seq(UsableFilters) /\ b \in Seq(UsableFilters)
    /\ Len(a) <= Len(b)
    /\ \A x \in 1 .. Len(a) : b[x] = a[x]

(* A stack from which the first k layers were taken. *)
Left(f, data, layers, k) ==
    [on |-> f, layers |-> SubSeq(layers, k + 1, Len(layers)), good |-> TRUE, data |-> data]

NamesAre(opt, names) ==
    /\ Len(opt.filters) \in Nat /\ Len(names) = Len(opt.filters)
    /\ \A n \in 1 .. Len(names) : names[n] = opt.filters[n].name

LEMMA LaidSeqs ==
    ASSUME NEW names, Len(names) \in Nat, NEW lay, Laid(lay, names)
    PROVE  \A n \in 0 .. Len(names) : lay[n] \in Seq(UsableFilters)
<1> DEFINE N == Len(names)
           T == {n \in 0 .. N : lay[n] \in Seq(UsableFilters)}
<1>1. 0 \in T
  <2>1. lay[0] = <<>>
    BY DEF Laid
  <2>2. <<>> \in Seq(UsableFilters) /\ 0 \in 0 .. N
    OBVIOUS
  <2> QED BY <2>1, <2>2, Zenon
<1>2. \A n \in 1 .. N : n - 1 \in T => n \in T
  <2> SUFFICES ASSUME NEW n \in 1 .. N, n - 1 \in T PROVE n \in T
    OBVIOUS
  <2> DEFINE name == names[Len(names) + 1 - n]
  <2>1. lay[n] = IF name \in UsableFilters THEN Append(lay[n - 1], name) ELSE lay[n - 1]
    BY DEF Laid
  <2>2. lay[n - 1] \in Seq(UsableFilters)
    OBVIOUS
  <2> HIDE DEF name
  <2>3. lay[n] \in Seq(UsableFilters)
    BY <2>1, <2>2
  <2> QED BY <2>3
<1>3. \A n \in 0 .. N : n \in T
  <2> HIDE DEF T, N
  <2>1. N \in Nat
    BY DEF N
  <2> QED BY <1>1, <1>2, <2>1, UpTo
<1> QED BY <1>3

LEMMA LaidBegins ==
    ASSUME NEW names, Len(names) \in Nat, NEW lay, Laid(lay, names),
           NEW layers, Begins(lay[Len(names)], layers)
    PROVE  \A n \in 0 .. Len(names) : Begins(lay[n], layers)
<1> DEFINE N == Len(names)
           T == {m \in 0 .. N : Begins(lay[N - m], layers)}
<1>1. \A n \in 0 .. N : lay[n] \in Seq(UsableFilters)
  BY LaidSeqs
<1>2. 0 \in T
  <2>1. N - 0 = N /\ 0 \in 0 .. N
    OBVIOUS
  <2> QED BY <2>1
<1>3. \A m \in 1 .. N : m - 1 \in T => m \in T
  <2> SUFFICES ASSUME NEW m \in 1 .. N, m - 1 \in T PROVE m \in T
    OBVIOUS
  <2> DEFINE n == N - (m - 1)
             name == names[Len(names) + 1 - n]
             a == lay[n - 1]
  <2>1. n \in 1 .. N /\ n - 1 = N - m /\ n - 1 \in 0 .. N /\ m \in 0 .. N
    OBVIOUS
  <2>2. Begins(lay[n], layers)
    OBVIOUS
  <2>3. lay[n] = IF name \in UsableFilters THEN Append(a, name) ELSE a
    BY <2>1 DEF Laid
  <2>4. a \in Seq(UsableFilters)
    BY <1>1, <2>1
  <2> HIDE DEF a, name, n
  <2>5. Begins(a, layers)
    <3>1. CASE name \in UsableFilters
      <4>1. Len(Append(a, name)) = Len(a) + 1 /\ \A x \in 1 .. Len(a) : Append(a, name)[x] = a[x]
        BY <2>4, <3>1
      <4> QED BY <2>2, <2>3, <2>4, <3>1, <4>1 DEF Begins
    <3>2. CASE name \notin UsableFilters
      BY <2>2, <2>3, <3>2
    <3> QED BY <3>1, <3>2
  <2>6. Begins(lay[N - m], layers)
    BY <2>1, <2>5 DEF a
  <2> QED BY <2>1, <2>6
<1>4. \A m \in 0 .. N : m \in T
  <2> HIDE DEF T, N
  <2>1. N \in Nat
    BY DEF N
  <2> QED BY <1>2, <1>3, <2>1, UpTo
<1>5. \A n \in 0 .. N : N - n \in 0 .. N /\ N - (N - n) = n
  OBVIOUS
<1>6. \A m \in 0 .. N : Begins(lay[N - m], layers)
  BY <1>4
<1> HIDE DEF N, T
<1>7. ASSUME NEW n \in 0 .. N PROVE Begins(lay[n], layers)
  BY <1>5, <1>6
<1> QED BY <1>7 DEF N

LEMMA SubSeqTaken ==
    ASSUME NEW layers \in Seq(UsableFilters), NEW k \in Nat, k < Len(layers)
    PROVE  LET rest == SubSeq(layers, k + 1, Len(layers))
           IN  /\ rest # <<>> /\ Head(rest) = layers[k + 1]
               /\ Tail(rest) = SubSeq(layers, k + 1 + 1, Len(layers))
<1> DEFINE rest == SubSeq(layers, k + 1, Len(layers))
           tail == SubSeq(layers, k + 1 + 1, Len(layers))
           n == Len(layers)
<1>1. n \in Nat /\ k + 1 \in 1 .. n
  OBVIOUS
<1>2. /\ rest \in Seq(UsableFilters) /\ Len(rest) = n - k
      /\ \A x \in 1 .. n - k : rest[x] = layers[k + x]
  BY <1>1
<1>3. /\ tail \in Seq(UsableFilters) /\ Len(tail) = n - k - 1
      /\ \A x \in 1 .. n - k - 1 : tail[x] = layers[k + 1 + x]
  BY <1>1
<1> HIDE DEF rest, tail
<1>4. rest # <<>> /\ Head(rest) = layers[k + 1]
  <2>1. rest[1] = layers[k + 1]
    BY <1>1, <1>2
  <2> QED BY <1>1, <1>2, <2>1
<1>5. /\ Tail(rest) \in Seq(UsableFilters) /\ Len(Tail(rest)) = n - k - 1
      /\ \A x \in 1 .. n - k - 1 : Tail(rest)[x] = rest[x + 1]
  BY <1>1, <1>2, <1>4
<1>6. \A x \in 1 .. n - k - 1 : Tail(rest)[x] = tail[x]
  <2> TAKE x \in 1 .. n - k - 1
  <2>1. x + 1 \in 1 .. n - k /\ k + (x + 1) = k + 1 + x
    BY <1>1
  <2> QED BY <1>2, <1>3, <1>5, <2>1
<1>7. Tail(rest) = tail
  <2> HIDE DEF n
  <2>1. DOMAIN Tail(rest) = 1 .. n - k - 1 /\ DOMAIN tail = 1 .. n - k - 1
    BY <1>3, <1>5
  <2> QED BY <1>3, <1>5, <1>6, <2>1
<1> QED BY <1>4, <1>7 DEF rest, tail

LEMMA LeftFields ==
    ASSUME NEW f, NEW data, NEW layers, NEW k
    PROVE  LET x == Left(f, data, layers, k)
           IN  /\ IsStack(x) /\ x.good = TRUE
               /\ x.layers = SubSeq(layers, k + 1, Len(layers))
               /\ x.on = f /\ x.data = data
<1> DEFINE x == Left(f, data, layers, k)
           rest == SubSeq(layers, k + 1, Len(layers))
<1>1. x = [on |-> f, layers |-> rest, good |-> TRUE, data |-> data]
  BY Zenon DEF Left
<1> HIDE DEF x, rest
<1>2. x.on = f /\ x.layers = rest /\ x.good = TRUE /\ x.data = data
  BY <1>1, Zenon
<1>3. IsStack(x)
  BY <1>1, <1>2, Zenon DEF IsStack
<1> QED BY <1>2, <1>3 DEF x, rest

LEMMA LeftIsSome ==
    ASSUME NEW f, NEW data, NEW layers, NEW k
    PROVE  Left(f, data, layers, k) # NoStack
<1> DEFINE x == Left(f, data, layers, k)
           rest == SubSeq(layers, k + 1, Len(layers))
<1>1. x = [on |-> f, layers |-> rest, good |-> TRUE, data |-> data]
  BY Zenon DEF Left
<1> HIDE DEF x, rest
<1>2. x.good = TRUE
  BY <1>1, Zenon
<1>3. NoStack.good = FALSE
  BY Zenon DEF NoStack
<1>4. x # NoStack
  <2> SUFFICES ASSUME x = NoStack PROVE FALSE
    OBVIOUS
  <2>1. x.good = FALSE
    BY <1>3, Zenon
  <2> QED BY <1>2, <2>1
<1> QED BY <1>4 DEF x

LEMMA SetLayers ==
    ASSUME NEW x, IsStack(x), NEW new
    PROVE  [x EXCEPT !.layers = new] =
              [on |-> x.on, layers |-> new, good |-> x.good, data |-> x.data]
BY DEF IsStack

(* A reader takes off the layer that comes next. *)
LEMMA NewReaderTakes ==
    ASSUME NEW layers \in Seq(UsableFilters), NEW k \in Nat, k < Len(layers), NEW f, NEW data
    PROVE  NewReader(layers[k + 1], Left(f, data, layers, k)) = Left(f, data, layers, k + 1)
<1> DEFINE x == Left(f, data, layers, k)
           rest == SubSeq(layers, k + 1, Len(layers))
           tail == SubSeq(layers, k + 1 + 1, Len(layers))
<1>1. IsStack(x) /\ x.good = TRUE /\ x.layers = rest /\ x.on = f /\ x.data = data
  <2>1. x = [on |-> f, layers |-> rest, good |-> TRUE, data |-> data]
    BY Zenon DEF Left
  <2>2. IsStack(x)
    BY LeftFields
  <2> HIDE DEF x, rest
  <2> QED BY <2>1, <2>2, Zenon
<1>2. rest # <<>> /\ Head(rest) = layers[k + 1] /\ Tail(rest) = tail
  BY SubSeqTaken
<1>3. x = [on |-> f, layers |-> rest, good |-> TRUE, data |-> data]
  BY Zenon DEF Left
<1>4. Left(f, data, layers, k + 1) = [on |-> f, layers |-> tail, good |-> TRUE, data |-> data]
  BY Zenon DEF Left
<1> HIDE DEF x, rest, tail
<1>5. NewReader(layers[k + 1], x) = [x EXCEPT !.layers = Tail(x.layers)]
  BY <1>1, <1>2, Zenon DEF NewReader
<1>6. NewReader(layers[k + 1], x) = [on |-> f, layers |-> tail, good |-> TRUE, data |-> data]
  <2>1. NewReader(layers[k + 1], x) = [x EXCEPT !.layers = tail]
    BY <1>1, <1>2, <1>5, Zenon
  <2>2. [x EXCEPT !.layers = tail] = [on |-> x.on, layers |-> tail, good |-> x.good, data |-> x.data]
    BY <1>1, SetLayers, Zenon
  <2>3. [x EXCEPT !.layers = tail] = [on |-> f, layers |-> tail, good |-> TRUE, data |-> data]
    BY <1>1, <2>2, Zenon
  <2> QED BY <2>1, <2>3, Zenon
<1> QED BY <1>4, <1>6, Zenon DEF x

LEMMA PutReaderTakes ==
    ASSUME RegistryAssumption, InstalledAssumption, NEW below, Good(below.state),
           NEW layers \in Seq(UsableFilters), NEW k \in Nat, NEW f, NEW data,
           below.stack = Left(f, data, layers, k), NEW name,
           name \in UsableFilters => k < Len(layers) /\ layers[k + 1] = name
    PROVE  PutReader(name, below).stack =
              Left(f, data, layers, IF name \in UsableFilters THEN k + 1 ELSE k)
<1> DEFINE s == FilterGet(below.state, name)
           x == below.stack
           new == NewReader(name, x)
<1>1. Known(s, "filter", name) <=> name \in UsableFilters
  BY FilterKnown DEF UsableFilters
<1>2. PutReader(name, below) = IF ~Known(s, "filter", name) THEN With(s, x)
                               ELSE IF new = NoStack THEN With(s, [x EXCEPT !.good = FALSE])
                               ELSE With(s, new)
  BY Zenon DEF PutReader
<1>3. \A t, y : With(t, y).stack = y
  BY DEF With
<1>4. CASE name \in UsableFilters
  <2>1. new = Left(f, data, layers, k + 1)
    BY <1>4, NewReaderTakes
  <2>2. new # NoStack
    BY <2>1, LeftIsSome
  <2> HIDE DEF new, s, x
  <2>3. PutReader(name, below) = With(s, new)
    BY <1>1, <1>2, <1>4, <2>2
  <2> QED BY <1>3, <1>4, <2>1, <2>3
<1>5. CASE name \notin UsableFilters
  <2> HIDE DEF new, s
  <2>1. PutReader(name, below) = With(s, x)
    BY <1>1, <1>2, <1>5
  <2> QED BY <1>3, <1>5, <2>1
<1> QED BY <1>4, <1>5

LEMMA ReadersTake ==
    ASSUME RegistryAssumption, InstalledAssumption, NEW io, Good(io.state),
           NEW opt, NEW names, NamesAre(opt, names), NEW lay, Laid(lay, names),
           NEW layers, Begins(lay[Len(names)], layers), NEW f, NEW data,
           io.stack = Left(f, data, layers, 0)
    PROVE  FilterGetReaders(io, opt).stack = Left(f, data, layers, Len(lay[Len(names)]))
<1> DEFINE N == Len(names)
<1>1. N \in Nat /\ N = Len(opt.filters)
  BY DEF NamesAre
<1>2. PICK put :
        /\ put[0] = io
        /\ \A n \in 1 .. N : put[n] = PutReader(FromEnd(opt.filters, n), put[n - 1])
        /\ FilterGetReaders(io, opt) = put[N]
  BY <1>1, ReadersSteps
<1>3. \A n \in 0 .. N : Begins(lay[n], layers)
  BY <1>1, LaidBegins
<1> DEFINE T == {n \in 0 .. N : /\ Good(put[n].state)
                                /\ put[n].stack = Left(f, data, layers, Len(lay[n]))}
<1>4. 0 \in T
  <2>1. Len(lay[0]) = 0
    BY DEF Laid
  <2>2. 0 \in 0 .. N
    BY <1>1
  <2> QED BY <1>2, <2>1, <2>2
<1>5. \A n \in 1 .. N : n - 1 \in T => n \in T
  <2> SUFFICES ASSUME NEW n \in 1 .. N, n - 1 \in T PROVE n \in T
    OBVIOUS
  <2> DEFINE name == names[N + 1 - n]
             a == lay[n - 1]
             below == put[n - 1]
  <2>1. N + 1 - n \in 1 .. N /\ n - 1 \in 0 .. N /\ n \in 0 .. N
    BY <1>1
  <2>2. FromEnd(opt.filters, n) = name
    <3>1. names[N + 1 - n] = opt.filters[N + 1 - n].name
      BY <2>1 DEF NamesAre
    <3> QED BY <1>1, <3>1 DEF FromEnd
  <2>3. Good(below.state) /\ below.stack = Left(f, data, layers, Len(a))
    OBVIOUS
  <2>4. put[n] = PutReader(name, below)
    BY <1>2, <2>2
  <2>5. lay[n] = IF name \in UsableFilters THEN Append(a, name) ELSE a
    BY <1>1 DEF Laid
  <2>6. Begins(a, layers) /\ Begins(lay[n], layers)
    BY <1>3, <2>1
  <2> HIDE DEF name, a, below
  <2>7. Len(a) \in Nat /\ layers \in Seq(UsableFilters)
    BY <2>6 DEF Begins
  <2>8. ASSUME name \in UsableFilters
        PROVE  /\ Len(a) < Len(layers) /\ layers[Len(a) + 1] = name
               /\ Len(lay[n]) = Len(a) + 1
    <3>1. a \in Seq(UsableFilters) /\ lay[n] = Append(a, name)
      BY <2>5, <2>6, <2>8 DEF Begins
    <3>2. Len(lay[n]) = Len(a) + 1 /\ lay[n][Len(a) + 1] = name
      BY <2>8, <3>1
    <3>3. Len(lay[n]) <= Len(layers) /\ \A x \in 1 .. Len(lay[n]) : layers[x] = lay[n][x]
      BY <2>6 DEF Begins
    <3>4. Len(layers) \in Nat /\ Len(a) + 1 \in 1 .. Len(lay[n])
      BY <2>7, <3>2
    <3> QED BY <2>7, <3>2, <3>3, <3>4
  <2>9. Len(lay[n]) = IF name \in UsableFilters THEN Len(a) + 1 ELSE Len(a)
    BY <2>5, <2>8
  <2>10. PutReader(name, below).stack =
            Left(f, data, layers, IF name \in UsableFilters THEN Len(a) + 1 ELSE Len(a))
    BY <2>3, <2>7, <2>8, PutReaderTakes
  <2>11. Good(put[n].state)
    BY <2>3, <2>4, PutReaderGood
  <2> QED BY <2>1, <2>4, <2>9, <2>10, <2>11
<1>6. N \in T
  <2> HIDE DEF T, N
  <2>1. \A n \in 0 .. N : n \in T
    BY <1>1, <1>4, <1>5, UpTo
  <2> QED BY <1>1, <2>1
<1> QED BY <1>2, <1>6

LEMMA BeginsItself ==
    ASSUME NEW a \in Seq(UsableFilters)
    PROVE  Begins(a, a)
BY DEF Begins

LEMMA BeginsAppended ==
    ASSUME NEW a \in Seq(UsableFilters), NEW e \in UsableFilters
    PROVE  /\ Begins(a, Append(a, e)) /\ Append(a, e) \in Seq(UsableFilters)
           /\ Len(Append(a, e)) = Len(a) + 1 /\ Append(a, e)[Len(a) + 1] = e
BY DEF Begins

(* All layers of a file come off again. *)
LEMMA AllTaken ==
    ASSUME RegistryAssumption, InstalledAssumption, NEW io, Good(io.state),
           NEW opt, NEW names, NamesAre(opt, names), NEW asked, asked.filters = names,
           NEW layers, IsLayers(layers, asked), NEW f, NEW data,
           io.stack = [on |-> f, layers |-> layers, good |-> TRUE, data |-> data]
    PROVE  Uncompress(FilterGetReaders(io, opt), asked.module).stack =
              [on |-> f, layers |-> <<>>, good |-> TRUE, data |-> data]
<1> DEFINE N == Len(names)
           module == asked.module
           filtered == FilterGetReaders(io, opt)
           s == FilterGet(filtered.state, module)
<1>1. PICK lay : /\ Laid(lay, names)
                 /\ IF module = "none" THEN layers = lay[N]
                    ELSE module \in UsableFilters /\ layers = Append(lay[N], module)
  BY DEF IsLayers
<1>2. N \in Nat /\ N = Len(opt.filters)
  BY DEF NamesAre
<1>3. lay[N] \in Seq(UsableFilters)
  <2>1. N \in 0 .. N
    BY <1>2
  <2> QED BY <1>1, <1>2, <2>1, LaidSeqs
<1> DEFINE a == lay[N]
<1> HIDE DEF N, module, a
<1>4. Begins(a, layers) /\ layers \in Seq(UsableFilters)
  <2>1. CASE module = "none"
    BY <1>1, <1>3, <2>1, BeginsItself DEF a
  <2>2. CASE module # "none"
    <3>1. a \in Seq(UsableFilters) /\ module \in UsableFilters /\ layers = Append(a, module)
      BY <1>1, <1>3, <2>2 DEF a
    <3>2. Begins(a, Append(a, module)) /\ Append(a, module) \in Seq(UsableFilters)
      BY <3>1, BeginsAppended, Zenon
    <3> QED BY <3>1, <3>2, Zenon
  <2> QED BY <2>1, <2>2
<1>5. SubSeq(layers, 0 + 1, Len(layers)) = layers /\ SubSeq(layers, Len(layers) + 1, Len(layers)) = <<>>
  BY <1>4
<1>6. io.stack = Left(f, data, layers, 0)
  BY <1>5, Zenon DEF Left
<1>7. filtered.stack = Left(f, data, layers, Len(a))
  BY <1>1, <1>4, <1>6, ReadersTake DEF N, a
<1>8. Good(filtered.state)
  BY <1>2, FilterGetReadersGood
<1> HIDE DEF filtered
<1>9. Left(f, data, layers, Len(layers)) = [on |-> f, layers |-> <<>>, good |-> TRUE, data |-> data]
  BY <1>5, Zenon DEF Left
<1>10. CASE module = "none"
  <2>1. Uncompress(filtered, module) = filtered
    BY <1>10, Zenon DEF Uncompress
  <2>2. layers = a
    BY <1>1, <1>10 DEF a
  <2>3. Uncompress(filtered, module).stack = Left(f, data, layers, Len(layers))
    BY <1>7, <2>1, <2>2, Zenon
  <2> QED BY <1>9, <2>3, Zenon DEF module, filtered
<1>11. CASE module # "none"
  <2>1. module \in UsableFilters /\ layers = Append(a, module) /\ a \in Seq(UsableFilters)
    BY <1>1, <1>3, <1>11 DEF a
  <2>2. Len(layers) = Len(a) + 1 /\ layers[Len(a) + 1] = module /\ Len(a) \in Nat /\ Len(a) < Len(layers)
    BY <2>1, BeginsAppended
  <2>3. Known(s, "filter", module)
    BY <1>8, <2>1, FilterKnown DEF UsableFilters
  <2>4. Uncompress(filtered, module).stack = NewReader(module, filtered.stack)
    BY <1>11, <2>3, Zenon DEF Uncompress, With
  <2>5. NewReader(layers[Len(a) + 1], Left(f, data, layers, Len(a))) = Left(f, data, layers, Len(a) + 1)
    BY <1>4, <2>2, NewReaderTakes
  <2>6. Uncompress(filtered, module).stack = Left(f, data, layers, Len(layers))
    BY <1>7, <2>2, <2>4, <2>5, Zenon
  <2> QED BY <1>9, <2>6, Zenon DEF module, filtered
<1> QED BY <1>10, <1>11

LEMMA PutWriterPuts ==
    ASSUME RegistryAssumption, InstalledAssumption, ChainAssumption, NEW below, Good(below.state),
           IsStack(below.stack), NEW opt, Documented(opt), NEW n,
           NEW name, FromEnd(opt.filters, n) = name
    PROVE  PutWriter(n, below, opt).stack.layers =
              IF name \in UsableFilters THEN Append(below.stack.layers, name)
              ELSE below.stack.layers
<1> DEFINE s == FilterGet(below.state, name)
           new == NewWriter(name, below.stack, opt, OptionFromEnd(opt.filters, n))
           io == PutWriter(n, below, opt)
<1>1. Known(s, "filter", name) <=> name \in UsableFilters
  BY FilterKnown DEF UsableFilters
<1>2. io.stack = IF Known(s, "filter", name) /\ new # NoStack THEN new ELSE below.stack
  BY Zenon DEF PutWriter, With
<1>3. new # NoStack /\ new.layers = Append(below.stack.layers, name)
  BY NewWriterOn, DocumentedLevel
<1> HIDE DEF s, new, io
<1>4. io.stack.layers = IF name \in UsableFilters THEN Append(below.stack.layers, name)
                        ELSE below.stack.layers
  BY <1>1, <1>2, <1>3
<1> QED BY <1>4 DEF io

LEMMA WritersPut ==
    ASSUME RegistryAssumption, InstalledAssumption, ChainAssumption, NEW io, Good(io.state),
           IsStack(io.stack), io.stack.layers = <<>>, NEW opt, Documented(opt), NEW names, NamesAre(opt, names)
    PROVE  \E lay : Laid(lay, names) /\ FilterGetWriters(io, opt).stack.layers = lay[Len(names)]
<1> DEFINE N == Len(names)
<1>1. N \in Nat /\ N = Len(opt.filters)
  BY DEF NamesAre
<1>2. PICK put :
        /\ put[0] = io
        /\ \A n \in 1 .. N : put[n] = PutWriter(n, put[n - 1], opt)
        /\ FilterGetWriters(io, opt) = put[N]
  BY <1>1, WritersSteps
<1> DEFINE lay == [n \in 0 .. N |-> put[n].stack.layers]
           T == {n \in 0 .. N : Good(put[n].state) /\ IsStack(put[n].stack)}
<1>3. 0 \in T
  BY <1>1, <1>2
<1>4. \A n \in 1 .. N : n - 1 \in T => n \in T
  <2> SUFFICES ASSUME NEW n \in 1 .. N, n - 1 \in T PROVE n \in T
    OBVIOUS
  <2>1. Good(put[n - 1].state) /\ IsStack(put[n - 1].stack)
    OBVIOUS
  <2>2. put[n] = PutWriter(n, put[n - 1], opt) /\ n \in 0 .. N
    BY <1>1, <1>2
  <2> QED BY <2>1, <2>2, PutWriterGood
<1>5. \A n \in 0 .. N : Good(put[n].state) /\ IsStack(put[n].stack)
  <2>1. \A n \in 0 .. N : n \in T
    <3> HIDE DEF T, N
    <3> QED BY <1>1, <1>3, <1>4, UpTo
  <2> QED BY <2>1
<1>6. lay[0] = <<>> /\ lay[N] = FilterGetWriters(io, opt).stack.layers
  <2>1. 0 \in 0 .. N /\ N \in 0 .. N
    BY <1>1
  <2> QED BY <1>2, <2>1
<1>7. ASSUME NEW n \in 1 .. N
      PROVE  lay[n] = IF names[N + 1 - n] \in UsableFilters THEN Append(lay[n - 1], names[N + 1 - n])
                      ELSE lay[n - 1]
  <2> DEFINE name == names[N + 1 - n]
             below == put[n - 1]
  <2>1. N + 1 - n \in 1 .. N /\ n - 1 \in 0 .. N /\ n \in 0 .. N
    BY <1>1
  <2>2. FromEnd(opt.filters, n) = name
    <3>1. names[N + 1 - n] = opt.filters[N + 1 - n].name
      BY <2>1 DEF NamesAre
    <3> QED BY <1>1, <3>1 DEF FromEnd
  <2>3. /\ put[n] = PutWriter(n, below, opt)
        /\ Good(below.state) /\ IsStack(below.stack)
    BY <1>2, <1>5, <2>1, <2>2
  <2>4. lay[n] = put[n].stack.layers /\ lay[n - 1] = below.stack.layers
    BY <2>1
  <2> HIDE DEF name, below, lay
  <2>5. lay[n] = IF name \in UsableFilters THEN Append(lay[n - 1], name) ELSE lay[n - 1]
    BY <2>2, <2>3, <2>4, PutWriterPuts
  <2> QED BY <2>5 DEF name
<1> HIDE DEF lay
<1>8. Laid(lay, names)
  BY <1>6, <1>7 DEF Laid
<1> QED BY <1>6, <1>8

LEMMA AllPut ==
    ASSUME RegistryAssumption, InstalledAssumption, ChainAssumption, NEW io, Good(io.state), NEW f,
           io.stack = Fresh(f), NEW opt, Documented(opt), NEW names, NamesAre(opt, names),
           NEW asked, asked.filters = names,
           Compress(FilterGetWriters(io, opt), asked.module, opt).stack # NoStack
    PROVE  IsLayers(Compress(FilterGetWriters(io, opt), asked.module, opt).stack.layers, asked)
<1> DEFINE module == asked.module
           filtered == FilterGetWriters(io, opt)
           s == FilterGet(filtered.state, module)
           w == Compress(filtered, module, opt)
           new == NewWriter(module, filtered.stack, opt, "none")
<1>1. IsStack(io.stack) /\ io.stack.layers = <<>>
  <2>1. Fresh(f).layers = <<>>
    BY Zenon DEF Fresh
  <2> QED BY <2>1, FreshIsStack
<1>2. Len(opt.filters) \in Nat
  BY DEF NamesAre
<1>3. Good(filtered.state) /\ IsStack(filtered.stack)
  BY <1>1, <1>2, FilterGetWritersGood
<1>4. PICK lay : Laid(lay, names) /\ filtered.stack.layers = lay[Len(names)]
  BY <1>1, WritersPut
<1> HIDE DEF filtered
<1>5. CASE module = "none"
  <2>1. w = filtered
    BY <1>5, Zenon DEF Compress
  <2>2. w.stack.layers = lay[Len(names)]
    BY <1>4, <2>1, Zenon
  <2> HIDE DEF w
  <2>3. IsLayers(w.stack.layers, asked)
    BY <1>4, <1>5, <2>2 DEF IsLayers, module
  <2> QED BY <2>3 DEF w, filtered, module
<1>6. CASE module # "none"
  <2>1. w.stack = IF Known(s, "filter", module) THEN new ELSE NoStack
    BY <1>6, Zenon DEF Compress, With
  <2>2. w.stack # NoStack
    BY DEF w, filtered, module
  <2>3. Known(s, "filter", module)
    BY <2>1, <2>2
  <2>4. module \in UsableFilters
    BY <1>3, <2>3, FilterKnown DEF UsableFilters
  <2>5. w.stack.layers = Append(lay[Len(names)], module)
    <3>1. new # NoStack => new.layers = Append(filtered.stack.layers, module)
      BY <1>3, NewWriterOn
    <3> HIDE DEF w, new, s
    <3> QED BY <1>4, <2>1, <2>2, <2>3, <3>1
  <2> HIDE DEF w, s
  <2>6. IsLayers(w.stack.layers, asked)
    BY <1>4, <1>6, <2>4, <2>5 DEF IsLayers, module
  <2> QED BY <2>6 DEF w, filtered, module
<1> QED BY <1>5, <1>6

NamesOf(opt) == [i \in DOMAIN opt.filters |-> opt.filters[i].name]

(* What the stack of the nth volume is asked for with. *)
AskedOf(opt, f, n) ==
    [filters |-> NamesOf(opt),
     module |-> IF n = 1 /\ (opt.filename = "none" \/ ~opt.auto_compress)
                THEN opt.compress_module ELSE FilterGetModule(f)]

Openable(f) == FileKind[f] \in Usable("io") /\ f \notin Locked

Detects(opt) == opt.auto_detect_format

(* What was asked for is on the file. *)
Stored(s, f, asked) ==
    /\ s.disk[f].exists
    /\ IsLayers(s.disk[f].layers, asked)
    /\ s.disk[f].data \in Usable("format")
    /\ Openable(f)

Whole(f, data) == [on |-> f, layers |-> <<>>, good |-> TRUE, data |-> data]

LEMMA NamesOfAre ==
    ASSUME NEW opt, IsSeq(opt.filters)
    PROVE  NamesAre(opt, NamesOf(opt)) /\ Len(opt.filters) \in Nat
<1> DEFINE fs == opt.filters
           names == NamesOf(opt)
<1>1. PICK S : fs \in Seq(S)
  BY DEF IsSeq
<1>2. names = [i \in DOMAIN fs |-> fs[i].name]
  BY DEF NamesOf
<1> HIDE DEF fs, names
<1>3. Len(fs) \in Nat /\ DOMAIN fs = 1 .. Len(fs)
  BY <1>1
<1> DEFINE T == {fs[i].name : i \in 1 .. Len(fs)}
<1>4. names \in [1 .. Len(fs) -> T]
  BY <1>2, <1>3
<1> HIDE DEF T
<1>5. names \in Seq(T) /\ Len(names) = Len(fs)
  BY <1>3, <1>4
<1> QED BY <1>2, <1>3, <1>5 DEF NamesAre, fs, names

LEMMA WriterOpens ==
    ASSUME RegistryAssumption, InstalledAssumption, NEW s, Good(s), NEW f
    PROVE  /\ IoWriterGetFd(s, f).stack # NoStack => FileKind[f] \in Usable("io")
           /\ IoWriterGetFile(s, f).stack # NoStack => Openable(f)
<1>1. ASSUME NEW t, Good(t), IoWriterGetFd(t, f).stack # NoStack
      PROVE  FileKind[f] \in Usable("io")
  <2>1. Known(IoGet(t, FileKind[f]), "io", FileKind[f])
    BY <1>1, Zenon DEF IoWriterGetFd, With
  <2> QED BY <1>1, <2>1, IoKnown
<1>2. ASSUME IoWriterGetFile(s, f).stack # NoStack PROVE Openable(f)
  <2> DEFINE t == IoOpen(s, f, TRUE)
  <2>1. f \notin Locked
    BY <1>2, Zenon DEF IoWriterGetFile, With
  <2>2. IoWriterGetFile(s, f) = IoWriterGetFd(t, f)
    BY <2>1, Zenon DEF IoWriterGetFile
  <2>3. Good(t)
    BY IoOpenGood
  <2> HIDE DEF t
  <2>4. IoWriterGetFd(t, f).stack # NoStack
    BY <1>2, <2>2, Zenon
  <2>5. FileKind[f] \in Usable("io")
    BY <1>1, <2>3, <2>4, Zenon
  <2> QED BY <2>1, <2>5, Zenon DEF Openable
<1>3. IoWriterGetFd(s, f).stack # NoStack => FileKind[f] \in Usable("io")
  BY <1>1, Zenon
<1> QED BY <1>2, <1>3, Zenon

(* What a writer is opened with is what it puts on. *)
LEMMA Writer2Puts ==
    ASSUME RegistryAssumption, InstalledAssumption, ChainAssumption, NEW io, Good(io.state), NEW f,
           io.stack \in {NoStack, Fresh(f)}, NEW opt, Documented(opt), IsSeq(opt.filters),
           NEW asked, asked.filters = NamesOf(opt), asked.module = opt.compress_module,
           FilterGetWriter2(io, opt).stack # NoStack
    PROVE  io.stack # NoStack /\ IsLayers(FilterGetWriter2(io, opt).stack.layers, asked)
<1> DEFINE w == FilterGetWriter2(io, opt)
           c == Compress(FilterGetWriters(io, opt), opt.compress_module, opt)
           d == Compress(FilterGetWriters(io, opt), asked.module, opt)
<1>1. w = IF io.stack = NoStack THEN io ELSE c
  BY Zenon DEF FilterGetWriter2
<1>2. c = d
  OBVIOUS
<1> HIDE DEF w, c
<1>3. w.stack # NoStack
  BY DEF w
<1>4. io.stack # NoStack /\ w = d
  <2> HIDE DEF d
  <2> QED BY <1>1, <1>2, <1>3, Zenon
<1>5. io.stack = Fresh(f) /\ d.stack # NoStack
  BY <1>3, <1>4
<1>6. NamesAre(opt, NamesOf(opt))
  BY NamesOfAre
<1>7. IsLayers(d.stack.layers, asked)
  BY <1>5, <1>6, AllPut
<1> HIDE DEF d
<1>8. IsLayers(w.stack.layers, asked)
  BY <1>4, <1>7, Zenon
<1> QED BY <1>4, <1>8 DEF w

LEMMA Writer3Puts ==
    ASSUME RegistryAssumption, InstalledAssumption, ChainAssumption, NEW s, Good(s), NEW f,
           NEW opt, Documented(opt), IsSeq(opt.filters),
           NEW asked, asked.filters = NamesOf(opt), asked.module = FilterGetModule(f),
           FilterGetWriter3(s, f, opt).stack # NoStack
    PROVE  Openable(f) /\ IsLayers(FilterGetWriter3(s, f, opt).stack.layers, asked)
<1> DEFINE io == IoWriterGetFile(s, f)
           w == FilterGetWriter3(s, f, opt)
           c == Compress(FilterGetWriters(io, opt), FilterGetModule(f), opt)
           d == Compress(FilterGetWriters(io, opt), asked.module, opt)
<1>1. w = IF io.stack = NoStack THEN io ELSE c
  BY Zenon DEF FilterGetWriter3
<1>2. c = d
  OBVIOUS
<1>3. Good(io.state) /\ io.stack \in {NoStack, Fresh(f)}
  BY IoGetFileGood
<1>4. io.stack # NoStack => Openable(f)
  BY WriterOpens
<1> HIDE DEF w, c, io
<1>5. w.stack # NoStack
  BY DEF w
<1>6. io.stack # NoStack /\ w = d
  <2> HIDE DEF d
  <2> QED BY <1>1, <1>2, <1>5, Zenon
<1>7. io.stack = Fresh(f) /\ d.stack # NoStack
  BY <1>3, <1>5, <1>6
<1>8. NamesAre(opt, NamesOf(opt))
  BY NamesOfAre
<1>9. IsLayers(d.stack.layers, asked)
  BY <1>3, <1>7, <1>8, AllPut
<1> HIDE DEF d
<1>10. IsLayers(w.stack.layers, asked)
  BY <1>6, <1>9, Zenon
<1> QED BY <1>4, <1>6, <1>10 DEF w

LEMMA VolumeWriter ==
    ASSUME RegistryAssumption, InstalledAssumption, ChainAssumption, NEW s, Good(s), NEW opt, Documented(opt), IsSeq(opt.filters),
           NEW f, FilterGetWriter3(s, f, opt).stack # NoStack, NEW n, n # 1
    PROVE  IsLayers(FilterGetWriter3(s, f, opt).stack.layers, AskedOf(opt, f, n)) /\ Openable(f)
<1> DEFINE asked == AskedOf(opt, f, n)
<1>1. asked.filters = NamesOf(opt) /\ asked.module = FilterGetModule(f)
  BY Zenon DEF AskedOf
<1> HIDE DEF asked
<1>2. IsLayers(FilterGetWriter3(s, f, opt).stack.layers, asked) /\ Openable(f)
  BY <1>1, Writer3Puts
<1> QED BY <1>2 DEF asked

LEMMA ArchiveWriter ==
    ASSUME RegistryAssumption, InstalledAssumption, ChainAssumption,
           NEW s, Good(s), NEW opt, Documented(opt), IsSeq(opt.filters),
           FormatGetWriter(s, opt).stack # NoStack
    PROVE  /\ IsLayers(FormatGetWriter(s, opt).stack.layers, AskedOf(opt, TargetOf(opt), 1))
           /\ Openable(TargetOf(opt)) /\ opt.format \in Usable("format")
<1> DEFINE f == TargetOf(opt)
           asked == AskedOf(opt, f, 1)
           w == FilterGetWriter(s, opt)
           named == FormatGet(w.state, opt.format)
<1>1. FormatGetWriter(s, opt) =
         IF w.stack = NoStack THEN w
         ELSE With(named, IF /\ Known(named, "format", opt.format)
                             /\ Driver(named, "format", opt.format).writes
                          THEN w.stack ELSE NoStack)
  BY Zenon DEF FormatGetWriter, FormatGetWriter2
<1>2. /\ w.stack # NoStack /\ FormatGetWriter(s, opt).stack = w.stack
      /\ Known(named, "format", opt.format)
  <2> DEFINE fw == FormatGetWriter(s, opt)
             found == /\ Known(named, "format", opt.format)
                      /\ Driver(named, "format", opt.format).writes
  <2>1. fw = IF w.stack = NoStack THEN w ELSE With(named, IF found THEN w.stack ELSE NoStack)
    BY <1>1, Zenon
  <2>2. fw.stack # NoStack
    OBVIOUS
  <2>3. found => Known(named, "format", opt.format)
    OBVIOUS
  <2> HIDE DEF w, named, fw, found
  <2>4. w.stack # NoStack
    BY <2>1, <2>2, Zenon
  <2>5. fw.stack = IF found THEN w.stack ELSE NoStack
    BY <2>1, <2>4, Zenon DEF With
  <2>6. found /\ fw.stack = w.stack
    BY <2>2, <2>5, Zenon
  <2> QED BY <2>3, <2>4, <2>6, Zenon DEF fw
<1>3. Len(opt.filters) \in Nat
  BY NamesOfAre
<1>4. Good(w.state)
  BY <1>3, FilterGetGood DEF Writes
<1>5. opt.format \in Usable("format")
  <2>1. Good(named)
    BY <1>4, GetsGood
  <2>2. "format" \in Kinds
    BY DEF Kinds
  <2> HIDE DEF named
  <2> QED BY <1>2, <2>1, <2>2, KnownUsable
<1>6. asked.filters = NamesOf(opt)
      /\ asked.module = IF opt.filename = "none" \/ ~opt.auto_compress
                        THEN opt.compress_module ELSE FilterGetModule(f)
  BY Zenon DEF AskedOf
<1>7. CASE opt.filename = "none"
  <2> DEFINE io == IoWriterGetFd(s, "-")
  <2>1. Good(io.state) /\ io.stack \in {NoStack, Fresh("-")}
    BY IoGetFdGood
  <2>2. w = FilterGetWriter2(io, opt)
    BY <1>7, Zenon DEF FilterGetWriter
  <2>3. f = "-" /\ asked.module = opt.compress_module
    BY <1>6, <1>7, Zenon DEF TargetOf
  <2>4. io.stack # NoStack => FileKind["-"] \in Usable("io")
    BY WriterOpens
  <2> HIDE DEF io, w, asked, f
  <2>5. FilterGetWriter2(io, opt).stack # NoStack
    BY <1>2, <2>2, Zenon
  <2>6. io.stack # NoStack /\ IsLayers(FilterGetWriter2(io, opt).stack.layers, asked)
    BY <1>6, <2>1, <2>3, <2>5, Writer2Puts
  <2>7. Openable(f)
    BY <2>3, <2>4, <2>6 DEF Openable, ChainAssumption
  <2>8. IsLayers(FormatGetWriter(s, opt).stack.layers, asked)
    BY <1>2, <2>2, <2>6, Zenon
  <2> QED BY <1>5, <2>7, <2>8, Zenon DEF f, asked
<1>8. CASE opt.filename # "none"
  <2> DEFINE io == IoWriterGetFile(s, f)
  <2>1. Good(io.state) /\ io.stack \in {NoStack, Fresh(f)}
    BY IoGetFileGood
  <2>2. f = opt.filename
    BY <1>8, Zenon DEF TargetOf
  <2>3. io.stack # NoStack => Openable(f)
    BY WriterOpens
  <2>4. CASE opt.auto_compress
    <3>1. w = FilterGetWriter3(s, f, opt)
      BY <1>8, <2>2, <2>4, Zenon DEF FilterGetWriter
    <3>2. asked.module = FilterGetModule(f)
      BY <1>6, <1>8, <2>4, Zenon
    <3> HIDE DEF io, w, asked, f
    <3>3. FilterGetWriter3(s, f, opt).stack # NoStack
      BY <1>2, <3>1, Zenon
    <3>4. Openable(f) /\ IsLayers(FilterGetWriter3(s, f, opt).stack.layers, asked)
      BY <1>6, <3>2, <3>3, Writer3Puts
    <3>5. IsLayers(FormatGetWriter(s, opt).stack.layers, asked)
      BY <1>2, <3>1, <3>4, Zenon
    <3> QED BY <1>5, <3>4, <3>5, Zenon DEF f, asked
  <2>5. CASE ~opt.auto_compress
    <3>1. w = FilterGetWriter2(io, opt)
      BY <1>8, <2>2, <2>5, Zenon DEF FilterGetWriter
    <3>2. asked.module = opt.compress_module
      BY <1>6, <2>5, Zenon
    <3> HIDE DEF io, w, asked, f
    <3>3. FilterGetWriter2(io, opt).stack # NoStack
      BY <1>2, <3>1, Zenon
    <3>4. io.stack # NoStack /\ IsLayers(FilterGetWriter2(io, opt).stack.layers, asked)
      BY <1>6, <2>1, <3>2, <3>3, Writer2Puts
    <3>5. IsLayers(FormatGetWriter(s, opt).stack.layers, asked)
      BY <1>2, <3>1, <3>4, Zenon
    <3> QED BY <1>5, <2>3, <3>4, <3>5, Zenon DEF f, asked
  <2> QED BY <2>4, <2>5, Zenon
<1> QED BY <1>7, <1>8, Zenon

----------------------------------------------------------------------------
(* What is stored is read. *)

(* What a reader of a file begins with. *)
Opened(f, c) == [on |-> f, layers |-> c.layers, good |-> TRUE, data |-> c.data]

LEMMA OpenedFields ==
    ASSUME NEW f, NEW c
    PROVE  Opened(f, c).layers = c.layers /\ Opened(f, c).data = c.data /\ Opened(f, c) # NoStack
<1>1. Opened(f, c).good = TRUE /\ NoStack.good = FALSE
  BY Zenon DEF Opened, NoStack
<1>2. Opened(f, c) # NoStack
  BY <1>1, Zenon
<1> QED BY <1>2, Zenon DEF Opened

LEMMA WholeFields ==
    ASSUME NEW f, NEW data
    PROVE  /\ Whole(f, data).layers = <<>> /\ Whole(f, data).data = data
           /\ Whole(f, data).good /\ Whole(f, data) # NoStack
<1>1. Whole(f, data).good = TRUE /\ NoStack.good = FALSE
  BY Zenon DEF Whole, NoStack
<1>2. Whole(f, data) # NoStack
  BY <1>1, Zenon
<1>3. Whole(f, data).good
  BY <1>1, Zenon
<1>4. Whole(f, data).layers = <<>> /\ Whole(f, data).data = data
  BY Zenon DEF Whole
<1> QED BY <1>2, <1>3, <1>4, Zenon

LEMMA ReaderOpens ==
    ASSUME RegistryAssumption, InstalledAssumption, NEW s, Good(s), NEW f \in Files, NEW asked,
           Stored(s, f, asked)
    PROVE  /\ IoReaderGetFd(s, f).stack = Opened(f, s.disk[f])
           /\ IoReaderGetFile(s, f).stack = Opened(f, s.disk[f])
<1>1. s.disk[f].exists /\ FileKind[f] \in Usable("io") /\ f \notin Locked
  BY Zenon DEF Stored, Openable
<1>2. ASSUME NEW t, Good(t), t.disk[f] = s.disk[f]
      PROVE  IoReaderGetFd(t, f).stack = Opened(f, s.disk[f])
  <2> DEFINE found == IoGet(t, FileKind[f])
  <2>1. Known(found, "io", FileKind[f])
    BY <1>1, <1>2, IoKnown
  <2>2. found.disk = t.disk
    BY <1>2, GetsGood
  <2>3. IoReaderGetFd(t, f).stack = IF Known(found, "io", FileKind[f])
                                    THEN Opened(f, found.disk[f])
                                    ELSE NoStack
    BY Zenon DEF IoReaderGetFd, With, Opened
  <2> HIDE DEF found
  <2>4. found.disk[f] = s.disk[f]
    BY <1>2, <2>2, Zenon
  <2>5. IoReaderGetFd(t, f).stack = Opened(f, found.disk[f])
    BY <2>1, <2>3, Zenon
  <2> QED BY <2>4, <2>5, Zenon
<1> DEFINE t == IoOpen(s, f, FALSE)
<1>3. Good(t) /\ Kept(s, t)
  BY IoOpenGood
<1>4. IoReaderGetFile(s, f) = IoReaderGetFd(t, f)
  BY <1>1, Zenon DEF IoReaderGetFile
<1> HIDE DEF t
<1>5. t.disk[f] = s.disk[f]
  BY <1>1, <1>3 DEF Kept
<1>6. IoReaderGetFd(t, f).stack = Opened(f, s.disk[f])
  BY <1>2, <1>3, <1>5, Zenon
<1>7. IoReaderGetFd(s, f).stack = Opened(f, s.disk[f])
  BY <1>2, Zenon
<1> QED BY <1>4, <1>6, <1>7, Zenon

(* A reader that is asked for the same takes everything off.                *)
LEMMA StoredTaken ==
    ASSUME RegistryAssumption, InstalledAssumption, NEW s, NEW f \in Files, NEW asked,
           Stored(s, f, asked), NEW opt, IsSeq(opt.filters), asked.filters = NamesOf(opt),
           NEW io, Good(io.state),
           io.stack = Opened(f, s.disk[f])
    PROVE  /\ io.stack # NoStack
           /\ Uncompress(FilterGetReaders(io, opt), asked.module).stack = Whole(f, s.disk[f].data)
<1> DEFINE layers == s.disk[f].layers
           data == s.disk[f].data
<1>1. IsLayers(layers, asked)
  BY DEF Stored
<1>2. NamesAre(opt, NamesOf(opt))
  BY NamesOfAre
<1>3. io.stack # NoStack
  <2>1. Opened(f, s.disk[f]) # NoStack
    BY OpenedFields
  <2> QED BY <2>1, Zenon
<1> HIDE DEF layers, data
<1>4. Uncompress(FilterGetReaders(io, opt), asked.module).stack =
         [on |-> f, layers |-> <<>>, good |-> TRUE, data |-> data]
  <2>1. io.stack = [on |-> f, layers |-> layers, good |-> TRUE, data |-> data]
    BY Zenon DEF layers, data, Opened
  <2> QED BY <1>1, <1>2, <2>1, AllTaken
<1> QED BY <1>3, <1>4, Zenon DEF Whole, data

LEMMA Reader3Takes ==
    ASSUME RegistryAssumption, InstalledAssumption, NEW s, Good(s), NEW f \in Files, NEW asked,
           Stored(s, f, asked), NEW opt, IsSeq(opt.filters), asked.filters = NamesOf(opt),
           asked.module = FilterGetModule(f)
    PROVE  FilterGetReader3(s, f, opt).stack = Whole(f, s.disk[f].data)
<1> DEFINE io == IoReaderGetFile(s, f)
           c == Uncompress(FilterGetReaders(io, opt), FilterGetModule(f))
           d == Uncompress(FilterGetReaders(io, opt), asked.module)
           r == FilterGetReader3(s, f, opt)
<1>1. Good(io.state)
  BY IoGetFileGood
<1>2. io.stack = Opened(f, s.disk[f])
  BY ReaderOpens
<1>3. r = IF io.stack = NoStack THEN io ELSE c
  BY Zenon DEF FilterGetReader3
<1>4. c = d
  OBVIOUS
<1> HIDE DEF io, c, r
<1>5. io.stack # NoStack /\ d.stack = Whole(f, s.disk[f].data)
  BY <1>1, <1>2, StoredTaken
<1> HIDE DEF d
<1>6. r.stack = Whole(f, s.disk[f].data)
  BY <1>3, <1>4, <1>5, Zenon
<1> QED BY <1>6 DEF r

LEMMA Reader2Takes ==
    ASSUME RegistryAssumption, InstalledAssumption, NEW s, NEW f \in Files, NEW asked,
           Stored(s, f, asked), NEW opt, IsSeq(opt.filters), asked.filters = NamesOf(opt),
           asked.module = opt.compress_module, NEW io, Good(io.state),
           io.stack = Opened(f, s.disk[f])
    PROVE  FilterGetReader2(io, opt).stack = Whole(f, s.disk[f].data)
<1> DEFINE c == Uncompress(FilterGetReaders(io, opt), opt.compress_module)
           d == Uncompress(FilterGetReaders(io, opt), asked.module)
           r == FilterGetReader2(io, opt)
<1>1. r = IF io.stack = NoStack THEN io ELSE c
  BY Zenon DEF FilterGetReader2
<1>2. c = d
  OBVIOUS
<1> HIDE DEF c, r
<1>3. io.stack # NoStack /\ d.stack = Whole(f, s.disk[f].data)
  BY StoredTaken
<1> HIDE DEF d
<1>4. r.stack = Whole(f, s.disk[f].data)
  BY <1>1, <1>2, <1>3, Zenon
<1> QED BY <1>4 DEF r

(* The format of a file that comes out whole is detected.                   *)
LEMMA DetectedWhole ==
    ASSUME RegistryAssumption, InstalledAssumption, NEW io, Good(io.state), NEW f,
           NEW data \in Usable("format"), io.stack = Whole(f, data),
           NEW opt, Detects(opt)
    PROVE  FormatGetReader2(io, opt).stack = Whole(f, data)
<1> DEFINE detecting == LoadAll(io.state, "format")
           r == FormatGetReader2(io, opt)
<1>1. Known(detecting, "format", data)
  BY FormatsKnown
<1>2. PICK i \in DOMAIN detecting.drivers["format"] : detecting.drivers["format"][i].name = data
  BY <1>1, Zenon DEF Known
<1>3. r = IF io.stack = NoStack THEN io
          ELSE IF opt.auto_detect_format
          THEN With(detecting, IF AutoDetect(detecting, io.stack) THEN io.stack ELSE NoStack)
          ELSE With(FormatGet(io.state, opt.format),
                    IF Known(FormatGet(io.state, opt.format), "format", opt.format)
                    THEN io.stack ELSE NoStack)
  BY Zenon DEF FormatGetReader2
<1>4. io.stack.good /\ io.stack.layers = <<>> /\ io.stack.data = data /\ io.stack # NoStack
  <2> DEFINE x == Whole(f, data)
  <2>1. x.layers = <<>> /\ x.data = data /\ x.good /\ x # NoStack
    BY WholeFields
  <2> HIDE DEF x
  <2>2. io.stack = x
    BY DEF x
  <2> QED BY <2>1, <2>2, Zenon
<1> HIDE DEF detecting, r
<1>6. AutoDetect(detecting, io.stack)
  <2>1. io.stack.data = detecting.drivers["format"][i].name
    BY <1>2, <1>4, Zenon
  <2> QED BY <1>4, <2>1, Zenon DEF AutoDetect
<1>5. r = With(detecting, io.stack)
  BY <1>3, <1>4, <1>6, Zenon DEF Detects
<1>7. r.stack = Whole(f, data)
  BY <1>5, Zenon DEF With
<1> QED BY <1>7 DEF r

LEMMA ArchiveReader ==
    ASSUME RegistryAssumption, InstalledAssumption, NEW s, Good(s), NEW opt, IsSeq(opt.filters),
           TargetOf(opt) \in Files, Detects(opt),
           Stored(s, TargetOf(opt), AskedOf(opt, TargetOf(opt), 1))
    PROVE  FormatGetReader(s, opt).stack = Whole(TargetOf(opt), s.disk[TargetOf(opt)].data)
<1> DEFINE f == TargetOf(opt)
           asked == AskedOf(opt, f, 1)
           r == FilterGetReader(s, opt)
           data == s.disk[f].data
<1>1. asked.filters = NamesOf(opt)
      /\ asked.module = IF opt.filename = "none" \/ ~opt.auto_compress
                        THEN opt.compress_module ELSE FilterGetModule(f)
  BY Zenon DEF AskedOf
<1>2. Stored(s, f, asked) /\ f \in Files
  OBVIOUS
<1>3. Len(opt.filters) \in Nat
  BY NamesOfAre
<1>4. Good(r.state)
  BY <1>3, FilterGetGood DEF Reads
<1>5. FormatGetReader(s, opt) = FormatGetReader2(r, opt)
  BY Zenon DEF FormatGetReader
<1>6. data \in Usable("format")
  BY <1>2 DEF Stored
<1>7. CASE opt.filename = "none"
  <2> DEFINE io == IoReaderGetFd(s, "-")
  <2>1. Good(io.state)
    BY IoGetFdGood
  <2>2. r = FilterGetReader2(io, opt)
    BY <1>7, Zenon DEF FilterGetReader
  <2>3. f = "-" /\ asked.module = opt.compress_module
    BY <1>1, <1>7, Zenon DEF TargetOf
  <2> HIDE DEF r, f, asked
  <2>4. io.stack = Opened(f, s.disk[f])
    BY <1>2, <2>3, ReaderOpens
  <2> HIDE DEF io
  <2>5. r.stack = Whole(f, s.disk[f].data)
    BY <1>1, <1>2, <2>1, <2>2, <2>3, <2>4, Reader2Takes
  <2>6. FormatGetReader(s, opt).stack = Whole(f, data)
    BY <1>4, <1>5, <1>6, <2>5, DetectedWhole
  <2> QED BY <2>6 DEF f
<1>8. CASE opt.filename # "none"
  <2> DEFINE io == IoReaderGetFile(s, f)
  <2>1. Good(io.state)
    BY IoGetFileGood
  <2>2. f = opt.filename
    BY <1>8, Zenon DEF TargetOf
  <2>3. r = IF opt.auto_compress THEN FilterGetReader3(s, f, opt) ELSE FilterGetReader2(io, opt)
    BY <1>8, <2>2, Zenon DEF FilterGetReader
  <2> HIDE DEF r, f, asked
  <2>4. io.stack = Opened(f, s.disk[f])
    BY <1>2, ReaderOpens
  <2> HIDE DEF io
  <2>5. ASSUME opt.auto_compress PROVE r.stack = Whole(f, s.disk[f].data)
    <3>1. asked.module = FilterGetModule(f)
      BY <1>1, <1>8, <2>5, Zenon
    <3>2. r = FilterGetReader3(s, f, opt)
      BY <2>3, <2>5, Zenon
    <3>3. r.stack = Whole(f, s.disk[f].data)
      BY <1>1, <1>2, <3>1, <3>2, Reader3Takes
    <3> QED BY <3>3
  <2>6. ASSUME ~opt.auto_compress PROVE r.stack = Whole(f, s.disk[f].data)
    <3>1. asked.module = opt.compress_module
      BY <1>1, <2>6, Zenon
    <3>2. r = FilterGetReader2(io, opt)
      BY <2>3, <2>6, Zenon
    <3>3. r.stack = Whole(f, s.disk[f].data)
      BY <1>1, <1>2, <2>1, <2>4, <3>1, <3>2, Reader2Takes
    <3> QED BY <3>3
  <2>7. r.stack = Whole(f, data)
    BY <2>5, <2>6, Zenon
  <2>8. FormatGetReader(s, opt).stack = Whole(f, data)
    BY <1>4, <1>5, <1>6, <2>7, DetectedWhole
  <2> QED BY <2>8 DEF f
<1> QED BY <1>7, <1>8, Zenon

----------------------------------------------------------------------------
(* From one run to another. *)

(* What a run that is closed left on its file, with a level that the help   *)
(* allows, whatever ran after it.                                           *)
AllStored(s, m) ==
    /\ m = [f \in Files |-> m[f]]
    /\ \A f \in Files : m[f].level \in 1 .. 9 => Stored(s, f, m[f].asked)

(* What a run that writes will leave. *)
WritesAsked ==
    /\ IsLayers(stack.layers, AskedOf(option, stack.on, Len(volumes)))
    /\ option.format \in Usable("format")
    /\ Openable(stack.on)

ReadBack ==
    /\ AllStored(system, made)
    /\ pc \in {"opened", "writing", "reading"} => Len(volumes) >= 1
    /\ pc = "opened" /\ Writing /\ Documented(option) => stack = NoStack \/ WritesAsked
    /\ pc = "writing" /\ Documented(option) => WritesAsked
    /\ ReadsBack

LEMMA AskedIs ==
    ASSUME NEW f
    PROVE  Asked(f, Len(volumes) = 1) = AskedOf(option, f, Len(volumes))
BY Zenon DEF Asked, AskedOf, NamesOf

LEMMA StoredKept ==
    ASSUME NEW s, NEW t, NEW f, NEW asked, Stored(s, f, asked), t.disk[f] = s.disk[f]
    PROVE  Stored(t, f, asked)
BY DEF Stored

LEMMA AllStoredKept ==
    ASSUME NEW s, NEW t, NEW m, AllStored(s, m), Kept(s, t)
    PROVE  AllStored(t, m)
<1>1. ASSUME NEW f \in Files, m[f].level \in 1 .. 9 PROVE Stored(t, f, m[f].asked)
  <2>1. Stored(s, f, m[f].asked)
    BY <1>1 DEF AllStored
  <2>2. t.disk[f] = s.disk[f]
    BY <2>1 DEF Stored, Kept
  <2> QED BY <2>1, <2>2, StoredKept
<1>2. m = [f \in Files |-> m[f]]
  BY DEF AllStored
<1> QED BY <1>1, <1>2 DEF AllStored

LEMMA AllStoredBut ==
    ASSUME NEW s, NEW t, NEW m, AllStored(s, m), NEW g, KeptBut(s, t, g)
    PROVE  AllStored(t, [m EXCEPT ![g] = Unwritten])
<1> DEFINE n == [m EXCEPT ![g] = Unwritten]
<1>1. m = [f \in Files |-> m[f]]
  BY DEF AllStored
<1>2. n = [f \in Files |-> n[f]] /\ \A f \in Files : n[f] = IF f = g THEN Unwritten ELSE m[f]
  BY <1>1
<1> HIDE DEF n
<1>3. ASSUME NEW f \in Files, n[f].level \in 1 .. 9 PROVE Stored(t, f, n[f].asked)
  <2>1. f # g /\ n[f] = m[f]
    BY <1>2, <1>3 DEF Unwritten
  <2>2. Stored(s, f, m[f].asked)
    BY <1>3, <2>1 DEF AllStored
  <2>3. t.disk[f] = s.disk[f]
    BY <2>1 DEF KeptBut
  <2>4. Stored(t, f, m[f].asked)
    BY <2>2, <2>3, StoredKept
  <2> QED BY <2>1, <2>4
<1>4. AllStored(t, n)
  BY <1>2, <1>3 DEF AllStored
<1> QED BY <1>4 DEF n

LEMMA WrittenStored ==
    ASSUME Good(system), AllStored(system, made), Documented(option) => WritesAsked
    PROVE  AllStored(Written(system), Record(made))
<1> DEFINE t == Written(system)
           c == [exists |-> TRUE, layers |-> stack.layers, data |-> option.format]
           asked == Asked(stack.on, Len(volumes) = 1)
           entry == [asked |-> asked, level |-> option.compress_level]
           n == [made EXCEPT ![stack.on] = entry]
           g == stack.on
<1>1. t.disk[g] = c \/ g \notin Files
  <2>1. IsFile(c)
    BY Zenon DEF IsFile
  <2>2. Puts(system, t, g, c)
    BY Zenon DEF Written, Puts
  <2> HIDE DEF c, t
  <2> QED BY <2>1, <2>2, DiskChangeGood
<1>2. KeptBut(system, t, g)
  BY WrittenGood
<1>3. c.layers = stack.layers /\ c.data = option.format /\ c.exists
  BY Zenon
<1>4. made = [f \in Files |-> made[f]]
  BY DEF AllStored
<1>5. n = [f \in Files |-> n[f]] /\ \A f \in Files : n[f] = IF f = g THEN entry ELSE made[f]
  BY <1>4
<1>6. asked = AskedOf(option, g, Len(volumes))
  BY AskedIs
<1>7. Documented(option) => IsLayers(stack.layers, asked)
  BY <1>6 DEF WritesAsked
<1>11. entry.asked = asked /\ entry.level = option.compress_level
  BY Zenon
<1>8. Record(made) = n
  BY DEF Record
<1> HIDE DEF t, c, n, entry, asked, g
<1>9. ASSUME NEW f \in Files, n[f].level \in 1 .. 9 PROVE Stored(t, f, n[f].asked)
  <2>1. CASE f = g
    <3>1. t.disk[f] = c /\ n[f].asked = asked /\ Documented(option)
      BY <1>1, <1>5, <1>9, <1>11, <2>1 DEF Documented
    <3>2. Openable(f) /\ option.format \in Usable("format")
      BY <2>1, <3>1 DEF WritesAsked, g
    <3>3. Stored(t, f, asked)
      BY <1>3, <1>7, <3>1, <3>2 DEF Stored
    <3> QED BY <3>1, <3>3
  <2>2. CASE f # g
    <3>1. n[f] = made[f] /\ t.disk[f] = system.disk[f]
      BY <1>2, <1>5, <2>2 DEF KeptBut
    <3>2. Stored(system, f, made[f].asked)
      BY <1>9, <3>1 DEF AllStored
    <3>3. Stored(t, f, made[f].asked)
      BY <3>1, <3>2, StoredKept
    <3> QED BY <3>1, <3>3
  <2> QED BY <2>1, <2>2
<1>10. AllStored(t, n)
  BY <1>5, <1>9 DEF AllStored
<1> QED BY <1>8, <1>10 DEF t

LEMMA NotReading ==
    ASSUME pc' \notin {"opened", "reading"} \/ Writing'
    PROVE  ReadsBack'
BY DEF ReadsBack

LEMMA ReadsBackNow ==
    ASSUME NEW f, volumes' # <<>>, Last(volumes') = f,
           /\ f \in Files /\ made'[f].level \in 1 .. 9
           /\ made'[f].asked = AskedOf(option', f, Len(volumes'))
           /\ Detects(option')
           => stack'.good /\ stack'.layers = <<>>
    PROVE  ReadsBack'
<1>1. (Asked(f, Len(volumes) = 1))' = AskedOf(option', f, Len(volumes'))
  BY Zenon DEF Asked, AskedOf, NamesOf
<1>2. (IF volumes' = <<>> THEN "-" ELSE Last(volumes')) = f
  BY Zenon
<1> QED BY <1>1, <1>2, Zenon DEF ReadsBack, Detects

LEMMA ParsingReads ==
    ASSUME RegistryAssumption, Held, ReadBack, Parsing
    PROVE  ReadBack'
<1>1. pc' \notin {"opened", "writing", "reading"} /\ UNCHANGED made
  BY ParsePc DEF Parsing, ParserPc
<1>2. Kept(system, system')
  BY OthersTouch
<1>3. AllStored(system', made')
  BY <1>1, <1>2, AllStoredKept DEF ReadBack
<1>4. ReadsBack'
  BY <1>1, NotReading
<1> QED BY <1>1, <1>3, <1>4 DEF ReadBack, AllStored, Stored

LEMMA OpenReads ==
    ASSUME RegistryAssumption, InstalledAssumption, ChainAssumption, Held, ReadBack, Open
    PROVE  ReadBack'
<1>1. /\ pc' = "opened" /\ volumes' = <<Target>> /\ UNCHANGED option
      /\ (Writing' <=> Writing)
      /\ made' = IF Writing THEN [made EXCEPT ![Target] = Unwritten] ELSE made
  BY DEF Open, Writing
<1>2. Len(volumes') = 1 /\ Last(volumes') = Target /\ volumes' # <<>>
  BY <1>1 DEF Last
<1>3. Target = TargetOf(option) /\ IsSeq(option.filters)
  BY DEF Target, TargetOf, Held, Optioned
<1>4. CASE Writing
  <2> DEFINE w == FormatGetWriter(system, option)
  <2>1. AllStored(system', made')
    <3>1. KeptBut(system, system', Target)
      BY <1>4, OpenTouches
    <3>2. AllStored(system', [made EXCEPT ![Target] = Unwritten])
      BY <3>1, AllStoredBut DEF ReadBack
    <3> QED BY <1>1, <1>4, <3>2
  <2>2. ReadsBack'
    BY <1>1, <1>4, NotReading
  <2>3. ASSUME stack' # NoStack, Documented(option') PROVE WritesAsked'
    <3>1. stack' = w.stack
      BY <1>4, Zenon DEF Open
    <3> HIDE DEF w
    <3>2. w.stack # NoStack
      BY <2>3, <3>1
    <3>3. /\ IsLayers(w.stack.layers, AskedOf(option, Target, 1))
          /\ Openable(Target) /\ option.format \in Usable("format")
      <4>1. Documented(option)
        BY <1>1, <2>3
      <4> QED BY <1>3, <3>2, <4>1, ArchiveWriter DEF Held, w
    <3>4. stack'.on = Target
      BY <1>4, <2>3, OpenTouches
    <3>5. IsLayers(stack'.layers, AskedOf(option, stack'.on, 1))
      BY <3>1, <3>3, <3>4, Zenon
    <3>6. IsLayers(stack'.layers, AskedOf(option', stack'.on, Len(volumes')))
      BY <1>1, <1>2, <3>5, Zenon
    <3>7. option'.format \in Usable("format") /\ Openable(stack'.on)
      BY <1>1, <3>3, <3>4, Zenon
    <3> QED BY <3>6, <3>7, Zenon DEF WritesAsked
  <2> QED BY <1>1, <1>2, <2>1, <2>2, <2>3 DEF ReadBack, AllStored, Stored
<1>5. CASE ~Writing
  <2> DEFINE r == FormatGetReader(system, option)
  <2>1. AllStored(system', made')
    <3>1. Kept(system, system')
      BY <1>5, OpenTouches
    <3>2. AllStored(system', made)
      BY <3>1, AllStoredKept DEF ReadBack
    <3> QED BY <1>1, <1>5, <3>2
  <2> DEFINE t == TargetOf(option)
             asked == AskedOf(option, t, 1)
             data == system.disk[t].data
  <2>3. ASSUME t \in Files, made[t].level \in 1 .. 9, made[t].asked = asked, Detects(option)
        PROVE  stack'.good /\ stack'.layers = <<>>
    <3>1. AllStored(system, made)
      BY DEF ReadBack
    <3>2. Stored(system, t, asked)
      <4> HIDE DEF asked, t
      <4> QED BY <2>3, <3>1 DEF AllStored
    <3>3. Good(system) /\ IsSeq(option.filters)
      BY <1>3 DEF Held
    <3>4. r.stack = Whole(t, data)
      BY <2>3, <3>2, <3>3, ArchiveReader
    <3>5. stack' = r.stack
      BY <1>5, Zenon DEF Open
    <3> HIDE DEF r, data
    <3>6. stack' = Whole(t, data)
      BY <3>4, <3>5, Zenon
    <3> QED BY <3>6, WholeFields
  <2>4. volumes' # <<>> /\ Last(volumes') = t
    BY <1>2, <1>3
  <2> HIDE DEF t, asked
  <2>5. AskedOf(option', t, Len(volumes')) = asked
    BY <1>1, <1>2, Zenon DEF asked
  <2>6. made' = made /\ option' = option
    BY <1>1, <1>5
  <2>7. ReadsBack'
    BY <2>3, <2>4, <2>5, <2>6, ReadsBackNow, Zenon
  <2> QED BY <1>1, <1>2, <1>5, <2>1, <2>7 DEF ReadBack
<1> QED BY <1>4, <1>5

LEMMA ChangeVolumeReads ==
    ASSUME RegistryAssumption, InstalledAssumption, ChainAssumption, Held, Placed, ReadBack,
           ChangeVolume
    PROVE  ReadBack'
<1>1. PICK f \in Files \ (ToSet(volumes) \cup {"-"}) :
         /\ system' = FilterGetWriter3(Written(system), f, option).state
         /\ stack' = FilterGetWriter3(Written(system), f, option).stack
         /\ volumes' = Append(volumes, f)
         /\ made' = [Record(made) EXCEPT ![f] = Unwritten]
         /\ IF stack' = NoStack THEN pc' = "crashed" ELSE UNCHANGED pc
  BY Zenon DEF ChangeVolume
<1>2. pc = "writing" /\ UNCHANGED option
  BY DEF ChangeVolume
<1>3. Good(Written(system)) /\ AllStored(Written(system), Record(made))
  BY <1>2, WrittenGood, WrittenStored DEF Held, ReadBack
<1>4. Writes(Written(system), FilterGetWriter3(Written(system), f, option), f)
  <2>1. Len(option.filters) \in Nat
    BY DEF Held, Optioned, IsSeq
  <2> QED BY <1>3, <2>1, FilterGetWriter23
<1>5. Good(system') /\ KeptBut(Written(system), system', f) /\ (stack' = NoStack \/ stack'.on = f)
  BY <1>1, <1>4, WritesPair
<1>6. AllStored(system', made')
  <2>1. AllStored(system', [Record(made) EXCEPT ![f] = Unwritten])
    BY <1>3, <1>5, AllStoredBut
  <2> QED BY <1>1, <2>1
<1>7. Len(volumes) >= 1 /\ Len(volumes') = Len(volumes) + 1
  <2>1. Len(volumes) >= 1 /\ IsSeq(volumes)
    BY <1>2 DEF ReadBack, Placed
  <2> QED BY <1>1, <2>1, SeqAppend
<1>8. pc' \in {"writing", "crashed"} /\ (pc' = "writing" => stack' # NoStack)
  BY <1>1, <1>2
<1>9. ASSUME pc' = "writing", Documented(option') PROVE WritesAsked'
  <2> DEFINE w == FilterGetWriter3(Written(system), f, option)
  <2>1. w.stack # NoStack /\ stack' = w.stack
    BY <1>1, <1>8, <1>9, Zenon
  <2>2. IsSeq(option.filters)
    BY DEF Held, Optioned
  <2>3. IsLayers(w.stack.layers, AskedOf(option, f, Len(volumes'))) /\ Openable(f)
    <3>1. Len(volumes') # 1
      <4>1. Len(volumes) \in Nat
        BY DEF Placed, IsSeq
      <4> QED BY <1>7, <4>1
    <3> DEFINE t == Written(system)
               n == Len(volumes')
    <3>2. Good(t) /\ FilterGetWriter3(t, f, option).stack # NoStack
      BY <1>3, <2>1
    <3> HIDE DEF t, n
    <3>3. IsLayers(FilterGetWriter3(t, f, option).stack.layers, AskedOf(option, f, n)) /\ Openable(f)
      <4>1. n # 1 /\ Documented(option)
        BY <1>2, <1>9, <3>1 DEF n
      <4> QED BY <2>2, <3>2, <4>1, VolumeWriter, SMT
    <3> QED BY <3>3 DEF t, n
  <2> HIDE DEF w
  <2>4. stack'.on = f /\ option'.format \in Usable("format")
    <3>1. Documented(option)
      BY <1>2, <1>9
    <3> QED BY <1>2, <1>5, <1>8, <1>9, <3>1 DEF ReadBack, WritesAsked
  <2>5. IsLayers(stack'.layers, AskedOf(option', stack'.on, Len(volumes')))
    BY <1>2, <2>1, <2>3, <2>4, Zenon
  <2>6. Openable(stack'.on)
    BY <2>3, <2>4, Zenon
  <2> QED BY <2>4, <2>5, <2>6, Zenon DEF WritesAsked
<1>10. ReadsBack'
  BY <1>8, NotReading
<1>11. Len(volumes') >= 1
  <2>1. Len(volumes) \in Nat
    BY DEF Placed, IsSeq
  <2> QED BY <1>7, <2>1
<1> QED BY <1>6, <1>8, <1>9, <1>10, <1>11 DEF ReadBack

LEMMA CreateEndsReads ==
    ASSUME Held, ReadBack, CreateEnds
    PROVE  ReadBack'
<1>1. system' = Written(system) /\ made' = Record(made) /\ pc = "writing"
  BY DEF CreateEnds
<1>2. pc' \in {"exit", "crashed"}
  BY DEF CreateEnds, Finish, Crashed, Return
<1>3. AllStored(system', made')
  BY <1>1, WrittenStored DEF Held, ReadBack
<1>4. ReadsBack'
  BY <1>2, NotReading
<1> QED BY <1>2, <1>3, <1>4 DEF ReadBack

LEMMA NextVolumeReads ==
    ASSUME RegistryAssumption, InstalledAssumption, Held, Placed, ReadBack, NextVolume
    PROVE  ReadBack'
<1>1. PICK f \in Files \ {"-"} :
         /\ system' = FilterGetReader3(system, f, option).state
         /\ IF FilterGetReader3(system, f, option).stack = NoStack
            THEN Finish(0) /\ UNCHANGED <<stack, volumes>>
            ELSE /\ stack' = FilterGetReader3(system, f, option).stack
                 /\ volumes' = Append(volumes, f)
                 /\ UNCHANGED <<pc, status>>
  BY Zenon DEF NextVolume
<1>2. pc = "reading" /\ UNCHANGED <<option, made>>
  BY DEF NextVolume
<1>3. AllStored(system', made')
  <2>1. Kept(system, system')
    BY OthersTouch
  <2> QED BY <1>2, <2>1, AllStoredKept DEF ReadBack
<1>4. Len(volumes) >= 1 /\ IsSeq(volumes) /\ Len(volumes) \in Nat
  BY <1>2 DEF ReadBack, Placed, IsSeq
<1> DEFINE r == FilterGetReader3(system, f, option)
<1>5. CASE r.stack = NoStack
  <2>1. pc' \in {"exit", "crashed"}
    BY <1>1, <1>5 DEF Finish, Crashed, Return
  <2>2. ReadsBack'
    BY <2>1, NotReading
  <2> QED BY <1>3, <2>1, <2>2 DEF ReadBack
<1>6. CASE r.stack # NoStack
  <2>1. stack' = r.stack /\ volumes' = Append(volumes, f) /\ UNCHANGED pc
    BY <1>1, <1>6
  <2>2. Len(volumes') = Len(volumes) + 1 /\ volumes'[Len(volumes) + 1] = f
    BY <1>4, <2>1, SeqAppend
  <2>3. Last(volumes') = f /\ volumes' # <<>> /\ Len(volumes') >= 1 /\ Len(volumes') # 1
    BY <1>4, <2>2 DEF Last
  <2>4. ReadsBack'
    <3> DEFINE asked == AskedOf(option, f, Len(volumes'))
               data == system.disk[f].data
    <3>1. AskedOf(option', f, Len(volumes')) = asked
      BY <1>2, Zenon
    <3>3. asked.filters = NamesOf(option) /\ asked.module = FilterGetModule(f)
      BY <2>3, Zenon DEF AskedOf
    <3> HIDE DEF asked
    <3>4. ASSUME made'[f].level \in 1 .. 9, made'[f].asked = asked
          PROVE  stack'.good /\ stack'.layers = <<>>
      <4>1. made[f].level \in 1 .. 9 /\ made[f].asked = asked
        BY <1>2, <3>4, Zenon
      <4>2. Stored(system, f, asked)
        BY <4>1 DEF ReadBack, AllStored
      <4>3. IsSeq(option.filters) /\ Good(system)
        BY DEF Held, Optioned
      <4>4. r.stack = Whole(f, data)
        BY <3>3, <4>2, <4>3, Reader3Takes
      <4> HIDE DEF r, data
      <4>5. stack' = Whole(f, data)
        BY <2>1, <4>4, Zenon
      <4> QED BY <4>5, WholeFields
    <3> HIDE DEF r
    <3> QED BY <2>3, <3>1, <3>4, ReadsBackNow, Zenon
  <2> QED BY <1>2, <1>3, <2>1, <2>3, <2>4 DEF ReadBack
<1> QED BY <1>5, <1>6

LEMMA OthersRead ==
    ASSUME ReadBack, Configure \/ AddFile \/ ReadingEnds \/ CannotWrite \/ UNCHANGED vars
    PROVE  ReadBack'
<1>1. UNCHANGED <<system, made, option, stack, volumes>>
  BY DEF Configure, AddFile, ReadingEnds, CannotWrite, vars, optionVars
<1>2. \/ pc' = pc \/ pc' \in {"exit", "crashed", "hangs"}
      \/ pc = "opened" /\ stack # NoStack /\ pc' = IF Writing THEN "writing" ELSE "reading"
  BY DEF Configure, AddFile, ReadingEnds, CannotWrite, vars, optionVars, Finish, Crashed, Return
<1>3. (AllStored(system, made) <=> AllStored(system, made)') /\ (WritesAsked <=> WritesAsked')
      /\ (Writing <=> Writing')
  BY <1>1 DEF AllStored, Stored, WritesAsked, Writing
<1>4. ReadsBack'
  <2>1. CASE pc' \in {"opened", "reading"} /\ ~Writing'
    <3>1. pc \in {"opened", "reading"} /\ ~Writing
      BY <1>2, <1>3, <2>1
    <3>2. \A f, first : Asked(f, first)' = Asked(f, first)
      BY <1>1 DEF Asked
    <3> QED BY <1>1, <3>1, <3>2 DEF ReadBack, ReadsBack
  <2>2. CASE pc' \notin {"opened", "reading"} \/ Writing'
    BY <2>2, NotReading
  <2> QED BY <2>1, <2>2
<1> QED BY <1>1, <1>2, <1>3, <1>4 DEF ReadBack

LEMMA RestartReads ==
    ASSUME RegistryAssumption, Held, ReadBack, Restart
    PROVE  ReadBack'
<1>1. pc' = "start" /\ UNCHANGED made
  BY DEF Restart
<1>2. Kept(system, system')
  BY RestartTouches DEF Kept
<1>3. AllStored(system', made')
  BY <1>1, <1>2, AllStoredKept DEF ReadBack
<1>4. ReadsBack'
  BY <1>1, NotReading
<1> QED BY <1>1, <1>3, <1>4 DEF ReadBack

LEMMA ReadBackInit ==
    ASSUME Init
    PROVE  ReadBack
<1>1. pc = "start" /\ made = [f \in Files |-> Unwritten]
  BY DEF Init, ProcessInit
<1>2. AllStored(system, made)
  BY <1>1 DEF AllStored, Unwritten
<1> QED BY <1>1, <1>2 DEF ReadBack, ReadsBack

(* What a run wrote, another one that is asked for the same takes out of    *)
(* its layers again, however many runs, with whatever command lines, and    *)
(* however many volumes there were in between, for every choice of files,   *)
(* filters and compressions: filter.c:92-165 takes off what filter.c:197-   *)
(* 270 puts on.  It needs each installed library to be found by the name of *)
(* its driver (InstalledAssumption): a filter that only comes with all      *)
(* libraries of its kind is left out of a stack or not by what else the run *)
(* has done.                                                                *)
THEOREM StacksReadBack == Spec => []ReadsBack
<1>1. Init => Held /\ Placed /\ ReadBack
  <2>1. Init => Placed
    BY DEF Init, ProcessInit, Placed, IsSeq
  <2> QED BY <2>1, HeldInit, ReadBackInit, RegistryAssumption
<1>2. Held /\ Placed /\ ReadBack /\ [Next]_vars => Held' /\ Placed' /\ ReadBack'
  <2> SUFFICES ASSUME Held, Placed, ReadBack, [Next]_vars PROVE Held' /\ Placed' /\ ReadBack'
    OBVIOUS
  <2>1. Held' /\ Placed'
    BY HeldStep, PlacedStep, RegistryAssumption
  <2>2. ReadBack'
    BY ParsingReads, OpenReads, ChangeVolumeReads, CreateEndsReads, NextVolumeReads, OthersRead,
       RestartReads, RegistryAssumption, InstalledAssumption, ChainAssumption DEF Next
  <2> QED BY <2>1, <2>2
<1>3. ReadBack => ReadsBack
  BY DEF ReadBack
<1> QED BY <1>1, <1>2, <1>3, PTL DEF Spec
=============================================================================
