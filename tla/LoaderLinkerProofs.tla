------------------------- MODULE LoaderLinkerProofs -------------------------
(***************************************************************************)
(* Proofs about LoaderLinker, for any object files, command lines and size *)
(* of a code array.                                                        *)
(***************************************************************************)
EXTENDS LoaderLinker, TLAPS

\* The phases in which the global symbol table is complete.
TableComplete == phase \in {"link", "linked", "undefined", "no_entry", "executed"}

\* The loop under way has passed entry j of module k.
Passed(k, j) == k < m \/ (k = m /\ j < r)

Entered(k, j) == TableComplete \/ (phase = "table" /\ Passed(k, j))
Patched(k, q) == TableComplete /\ Passed(k, q)

\* Where the linker is, and that linking has left the modules' tables as loaded.
Progress ==
    /\ Len(argv) + Len(modules) <= MaxArgs
    /\ phase \in {"load", "no_file"} => m = 1 /\ r = 1 /\ globalSymbolTable = <<>>
    /\ phase \in {"linked", "no_entry", "executed"} => m = Len(modules) + 1
    /\ \A k \in 1 .. Len(modules) :
           /\ modules[k].symbols = Files[modules[k].name].symbols
           /\ modules[k].relocations = Files[modules[k].name].relocations

\* Entries of the global table with a name.
Hits(name) == {at \in 1 .. Len(globalSymbolTable) : globalSymbolTable[at].name = name}

\* Symbol j of module k is the first internal definition of a name.
IsFirst(name, k, j) ==
    /\ k \in 1 .. Len(modules) /\ j \in DefinedAt(k, name)
    /\ \A k2 \in 1 .. Len(modules) : \A j2 \in DefinedAt(k2, name) :
           k < k2 \/ (k = k2 /\ j <= j2)

\* A name is not in the table and none of its definitions has been come by, or its
\* first entry has the address of its first definition.
TableEntry(name) ==
    \/ /\ Hits(name) = {}
       /\ \A k \in 1 .. Len(modules) : \A j \in DefinedAt(k, name) : ~ Entered(k, j)
    \/ \E at \in Hits(name), k, j \in Nat :
           /\ \A b \in Hits(name) : at <= b
           /\ IsFirst(name, k, j)
           /\ globalSymbolTable[at].address = modules[k].symbols[j].address

TableRight == \A name \in STRING : TableEntry(name)

\* The relocations of module k carried out so far that patch byte o.
PatchesOf(k, o) == {q \in DOMAIN modules[k].relocations :
                       modules[k].relocations[q].offset = o /\ Patched(k, q)}

\* A byte is as the last relocation so far made it, or as it was loaded.
ByteRight(k, o) ==
    \/ /\ PatchesOf(k, o) = {}
       /\ modules[k].code[o] = Loaded(modules[k].name).code[o]
    \/ \E q \in PatchesOf(k, o) :
           /\ \A p \in PatchesOf(k, o) : q >= p
           /\ modules[k].code[o] =
                  AddressOf(modules[k].relocations[q].symbolName) % 256

CodeRight == \A k \in 1 .. Len(modules), o \in Offset : ByteRight(k, o)

\* What has been patched was defined.
PatchesDefined ==
    \A k \in 1 .. Len(modules) : \A q \in DOMAIN modules[k].relocations :
        Patched(k, q) => Definers(modules[k].relocations[q].symbolName) # {}

IInv == /\ TypeOK /\ Progress /\ TableRight /\ CodeRight /\ PatchesDefined
        /\ UndefinedIsUndefined

-----------------------------------------------------------------------------

\* The least and the greatest element of a set are its Min and its Max.
LEMMA MinIs == ASSUME NEW S, S \subseteq Int, NEW x \in S, \A y \in S : x <= y
               PROVE  Min(S) = x
<1>1. Min(S) \in S /\ \A y \in S : Min(S) <= y
  BY DEF Min
<1>2. Min(S) \in Int /\ x \in Int /\ Min(S) <= x /\ x <= Min(S)
  BY <1>1
<1>3. QED
  BY <1>2

LEMMA MaxIs == ASSUME NEW S, S \subseteq Int, NEW x \in S, \A y \in S : x >= y
               PROVE  Max(S) = x
<1>1. Max(S) \in S /\ \A y \in S : Max(S) >= y
  BY DEF Max
<1>2. Max(S) \in Int /\ x \in Int /\ Max(S) <= x /\ x <= Max(S)
  BY <1>1
<1>3. QED
  BY <1>2

\* The sequences of at most n elements.
LEMMA SeqOfMember ==
    ASSUME NEW S, NEW n \in Nat, NEW s
    PROVE  s \in SeqOf(S, n) <=> s \in Seq(S) /\ Len(s) <= n
<1>1. ASSUME s \in SeqOf(S, n) PROVE s \in Seq(S) /\ Len(s) <= n
  <2>1. PICK k \in 0 .. n : s \in [1 .. k -> S]
    BY <1>1 DEF SeqOf
  <2>2. QED
    BY <2>1
<1>2. ASSUME s \in Seq(S), Len(s) <= n PROVE s \in SeqOf(S, n)
  <2>1. Len(s) \in 0 .. n /\ s \in [1 .. Len(s) -> S]
    BY <1>2
  <2>2. QED
    BY <2>1 DEF SeqOf
<1>3. QED
  BY <1>1, <1>2

\* What a loaded module is.
LEMMA LoadedType ==
    ASSUME NEW name \in DOMAIN Files
    PROVE  Loaded(name) \in [name : DOMAIN Files, symbols : Seq(Symbol),
                             relocations : Seq(Relocation), code : [Offset -> Byte]]
<1>1. Files[name].code \in Seq(Byte)
  BY LinkerInputs
<1>2. \A o \in Offset : o < Len(Files[name].code) => Files[name].code[o + 1] \in Byte
  BY <1>1, LinkerInputs DEF Offset
<1>3. 0 \in Byte
  BY DEF Byte
<1>4. QED
  BY <1>2, <1>3, LinkerInputs DEF Loaded

\* What the tables of a module hold.
LEMMA ModuleTypes ==
    ASSUME TypeOK, NEW k \in 1 .. Len(modules)
    PROVE  /\ modules[k].name \in DOMAIN Files
           /\ modules[k].symbols \in Seq(Symbol)
           /\ modules[k].relocations \in Seq(Relocation)
           /\ modules[k].code \in [Offset -> Byte]
           /\ Len(modules) \in Nat
           /\ Len(modules[k].symbols) \in Nat /\ Len(modules[k].relocations) \in Nat
           /\ DOMAIN modules[k].symbols = 1 .. Len(modules[k].symbols)
           /\ DOMAIN modules[k].relocations = 1 .. Len(modules[k].relocations)
           /\ \A j \in DOMAIN modules[k].symbols :
                  /\ modules[k].symbols[j].name \in STRING
                  /\ modules[k].symbols[j].address \in Int
                  /\ modules[k].symbols[j].isExternal \in BOOLEAN
           /\ \A q \in DOMAIN modules[k].relocations :
                  /\ modules[k].relocations[q].offset \in Offset
                  /\ modules[k].relocations[q].symbolName \in STRING
<1> DEFINE Mod == [name : DOMAIN Files, symbols : Seq(Symbol),
                   relocations : Seq(Relocation), code : [Offset -> Byte]]
<1>1. modules \in Seq(Mod)
  BY DEF TypeOK
<1> HIDE DEF Mod
<1>2. modules[k] \in Mod /\ Len(modules) \in Nat
  BY <1>1
<1>3. /\ modules[k].name \in DOMAIN Files
      /\ modules[k].symbols \in Seq(Symbol)
      /\ modules[k].relocations \in Seq(Relocation)
      /\ modules[k].code \in [Offset -> Byte]
  BY <1>2 DEF Mod
<1>4. /\ \A s \in Symbol : s.name \in STRING /\ s.address \in Int /\ s.isExternal \in BOOLEAN
      /\ \A q \in Relocation : q.offset \in Offset /\ q.symbolName \in STRING
  BY DEF Symbol, Relocation
<1>5. /\ DOMAIN modules[k].symbols = 1 .. Len(modules[k].symbols)
      /\ Len(modules[k].symbols) \in Nat
      /\ \A j \in DOMAIN modules[k].symbols : modules[k].symbols[j] \in Symbol
  BY <1>3
<1>6. /\ DOMAIN modules[k].relocations = 1 .. Len(modules[k].relocations)
      /\ Len(modules[k].relocations) \in Nat
      /\ \A q \in DOMAIN modules[k].relocations : modules[k].relocations[q] \in Relocation
  BY <1>3
<1>7. QED
  BY <1>2, <1>3, <1>4, <1>5, <1>6

\* findSymbolInGlobalTable() finds the first entry with the name.
LEMMA FindFirst ==
    ASSUME NEW name
    PROVE  /\ Hits(name) = {} => FindSymbol(name) = -1
           /\ \A at \in Hits(name) :
                  (\A b \in Hits(name) : at <= b)
                  => FindSymbol(name) = globalSymbolTable[at].address
<1> DEFINE at == SelectInSeq(globalSymbolTable, LAMBDA s : s.name = name)
<1>1. FindSymbol(name) = IF at = 0 THEN -1 ELSE globalSymbolTable[at].address
  BY DEF FindSymbol
<1>2. at = IF Hits(name) # {} THEN Min(Hits(name)) ELSE 0
  BY DEF SelectInSeq, Hits
<1> HIDE DEF at
<1>3. Hits(name) \subseteq Int /\ 0 \notin Hits(name)
  BY DEF Hits
<1>4. QED
  BY <1>1, <1>2, <1>3, MinIs

-----------------------------------------------------------------------------

\* With the table complete, what it says of a name is what the modules define.
LEMMA FindRight ==
    ASSUME IInv, TableComplete, NEW name \in STRING
    PROVE  /\ Definers(name) = {} => FindSymbol(name) = -1
           /\ Definers(name) # {} =>
                  FindSymbol(name) = AddressOf(name) /\ Min(Definers(name)) \in 1 .. Len(modules)
<1>1. CASE Hits(name) = {} /\ \A k \in 1 .. Len(modules) : DefinedAt(k, name) = {}
  BY <1>1, FindFirst DEF Definers
<1>2. ASSUME NEW at \in Hits(name), NEW k \in Nat, NEW j \in Nat,
             \A b \in Hits(name) : at <= b, IsFirst(name, k, j),
             globalSymbolTable[at].address = modules[k].symbols[j].address
      PROVE  /\ Definers(name) # {} /\ FindSymbol(name) = AddressOf(name)
             /\ Min(Definers(name)) \in 1 .. Len(modules)
  <2>1. Min(DefinedAt(k, name)) = j
    <3>1. j \in DefinedAt(k, name) /\ \A j2 \in DefinedAt(k, name) : j <= j2
      BY <1>2 DEF IsFirst
    <3>2. DefinedAt(k, name) \subseteq Int
      BY <1>2, ModuleTypes DEF DefinedAt, IsFirst, IInv
    <3>3. QED
      BY <3>1, <3>2, MinIs
  <2>2. Min(Definers(name)) = k
    <3>1. k \in Definers(name) /\ \A k2 \in Definers(name) : k <= k2
      <4>1. k \in 1 .. Len(modules) /\ DefinedAt(k, name) # {}
        BY <1>2 DEF IsFirst
      <4>2. ASSUME NEW k2 \in 1 .. Len(modules), DefinedAt(k2, name) # {} PROVE k <= k2
        <5>1. PICK j2 \in DefinedAt(k2, name) : TRUE
          BY <4>2
        <5>2. (k < k2 \/ k = k2) /\ k2 \in Int
          BY <1>2, <5>1 DEF IsFirst
        <5>3. QED
          BY <5>2
      <4>3. QED
        BY <4>1, <4>2 DEF Definers
    <3>2. Definers(name) \subseteq Int
      <4>1. Definers(name) \subseteq 1 .. Len(modules)
        BY Zenon DEF Definers
      <4>2. 1 .. Len(modules) \subseteq Int
        OBVIOUS
      <4>3. QED
        BY <4>1, <4>2, Zenon
    <3>3. QED
      BY <3>1, <3>2, MinIs
  <2>3. FindSymbol(name) = modules[k].symbols[j].address
    BY <1>2, FindFirst
  <2>4. Definers(name) # {}
    BY <1>2 DEF IsFirst, Definers
  <2>5. QED
    BY <1>2, <2>1, <2>2, <2>3, <2>4 DEF AddressOf, IsFirst
<1>3. TableEntry(name)
  BY DEF IInv, TableRight
<1>4. QED
  BY <1>1, <1>2, <1>3 DEF TableEntry, Entered

\* Before the first relocation is carried out, none is.
LEMMA NothingPatched ==
    ASSUME \A k \in 1 .. Len(modules) : \A q \in DOMAIN modules[k].relocations :
               ~ Patched(k, q),
           \A k \in 1 .. Len(modules) : modules[k].code = Loaded(modules[k].name).code
    PROVE  CodeRight /\ PatchesDefined
<1>1. \A k \in 1 .. Len(modules), o \in Offset : PatchesOf(k, o) = {}
  BY DEF PatchesOf
<1>2. QED
  BY <1>1 DEF CodeRight, ByteRight, PatchesDefined

\* main() starts with the command line and nothing else.
LEMMA InitIInv == Init => IInv
<1> SUFFICES ASSUME Init PROVE IInv
  OBVIOUS
<1>1. Len(modules) = 0 /\ Len(globalSymbolTable) = 0
  BY DEF Init
<1>2. TypeOK
  BY <1>1, LinkerInputs DEF Init, TypeOK
<1>3. Len(argv) <= MaxArgs /\ Len(argv) \in Nat
  BY LinkerInputs, SeqOfMember DEF Init
<1>4. Progress
  BY <1>1, <1>3 DEF Init, Progress, TableComplete
<1>5. TableRight
  BY <1>1 DEF TableRight, TableEntry, Hits
<1>6. CodeRight /\ PatchesDefined /\ UndefinedIsUndefined
  BY <1>1, NothingPatched DEF Init, UndefinedIsUndefined
<1>7. QED
  BY <1>2, <1>4, <1>5, <1>6 DEF IInv

\* While there is no table the code is as it was loaded.
LEMMA CodeAsLoaded ==
    ASSUME IInv, ~ TableComplete, NEW k \in 1 .. Len(modules)
    PROVE  modules[k].code = Loaded(modules[k].name).code
<1>1. \A o \in Offset : PatchesOf(k, o) = {}
  BY DEF PatchesOf, Patched
<1>2. \A o \in Offset : modules[k].code[o] = Loaded(modules[k].name).code[o]
  BY <1>1 DEF IInv, CodeRight, ByteRight
<1>3. /\ modules[k].code \in [Offset -> Byte]
      /\ Loaded(modules[k].name).code \in [Offset -> Byte]
  BY ModuleTypes, LoadedType DEF IInv
<1>4. QED
  BY <1>2, <1>3

\* loadModule() adds a module as its file says; there is no table yet.
LEMMA LoadIInv == ASSUME IInv, LoadModule PROVE IInv'
<1>1. /\ phase = "load" /\ argv \in Seq(Names) /\ argv # <<>> /\ Len(argv) <= MaxArgs
      /\ UNCHANGED <<globalSymbolTable, m, r>>
      /\ m = 1 /\ r = 1 /\ globalSymbolTable = <<>>
  BY LinkerInputs, SeqOfMember DEF IInv, TypeOK, Progress, LoadModule
<1>2. \A k \in 1 .. Len(modules) : modules[k].code = Loaded(modules[k].name).code
  BY <1>1, CodeAsLoaded DEF TableComplete
<1>3. phase' \in {"load", "no_file"}
  BY <1>1 DEF LoadModule
<1>4. /\ TypeOK' /\ Progress'
      /\ \A k \in 1 .. Len(modules') : modules'[k].code = Loaded(modules'[k].name).code
  <2>1. CASE Head(argv) \in DOMAIN Files
    <3> DEFINE Mod == [name : DOMAIN Files, symbols : Seq(Symbol),
                       relocations : Seq(Relocation), code : [Offset -> Byte]]
               new == Loaded(Head(argv))
    <3>1. modules' = Append(modules, new) /\ argv' = Tail(argv) /\ phase' = phase
      BY <2>1 DEF LoadModule
    <3>2. modules \in Seq(Mod) /\ new \in Mod
      BY <2>1, LoadedType DEF IInv, TypeOK
    <3>3. /\ new.name = Head(argv) /\ new.symbols = Files[new.name].symbols
          /\ new.relocations = Files[new.name].relocations
      BY DEF Loaded
    <3> HIDE DEF Mod, new
    <3>4. /\ modules' \in Seq(Mod) /\ Len(modules') = Len(modules) + 1 /\ Len(modules) \in Nat
          /\ modules'[Len(modules) + 1] = new
          /\ \A k \in 1 .. Len(modules) : modules'[k] = modules[k]
      BY <3>1, <3>2
    <3>5. argv' \in Seq(Names) /\ Len(argv') = Len(argv) - 1 /\ Len(argv) \in Nat
      BY <1>1, <3>1
    <3>6. Len(argv) + Len(modules) <= MaxArgs
      BY DEF IInv, Progress
    <3>7. argv' \in SeqOf(Names, MaxArgs)
      BY <1>1, <3>5, LinkerInputs, SeqOfMember
    <3>8. TypeOK'
      <4>1. Len(modules') <= MaxArgs /\ m' \in 1 .. Len(modules') + 1 /\ r' \in Nat \ {0}
        BY <1>1, <3>4, <3>5, <3>6, LinkerInputs
      <4>2. QED
        BY <1>1, <1>3, <3>4, <3>7, <4>1 DEF TypeOK, Mod, IInv, Exits
    <3>9. \A k \in 1 .. Len(modules') :
              /\ modules'[k].symbols = Files[modules'[k].name].symbols
              /\ modules'[k].relocations = Files[modules'[k].name].relocations
              /\ modules'[k].code = Loaded(modules'[k].name).code
      <4> SUFFICES ASSUME NEW k \in 1 .. Len(modules) + 1
                   PROVE  /\ modules'[k].symbols = Files[modules'[k].name].symbols
                          /\ modules'[k].relocations = Files[modules'[k].name].relocations
                          /\ modules'[k].code = Loaded(modules'[k].name).code
        BY <3>4
      <4>1. CASE k = Len(modules) + 1
        BY <3>3, <3>4, <4>1 DEF new
      <4>2. CASE k \in 1 .. Len(modules)
        BY <1>2, <3>4, <4>2 DEF IInv, Progress
      <4>3. QED
        BY <3>4, <4>1, <4>2
    <3>10. QED
      BY <1>1, <3>1, <3>4, <3>5, <3>6, <3>8, <3>9 DEF Progress
  <2>2. CASE Head(argv) \notin DOMAIN Files
    BY <1>1, <1>2, <2>2 DEF LoadModule, IInv, TypeOK, Progress, Exits
  <2>3. QED
    BY <2>1, <2>2
<1>5. TableRight'
  BY <1>1, <1>3 DEF TableRight, TableEntry, Hits, Entered, TableComplete
<1>6. (CodeRight /\ PatchesDefined)'
  <2>1. \A k, q : ~ Patched(k, q)'
    BY <1>3 DEF Patched, TableComplete
  <2>2. \A k, o : PatchesOf(k, o)' = {}
    BY <2>1 DEF PatchesOf
  <2>3. QED
    BY <1>4, <2>1, <2>2 DEF CodeRight, ByteRight, PatchesDefined
<1>7. UndefinedIsUndefined'
  BY <1>3 DEF UndefinedIsUndefined
<1>8. QED
  BY <1>4, <1>5, <1>6, <1>7 DEF IInv
\* linkModules() starts, and goes on to its second loop, with no byte patched.
LEMMA StartLoopIInv == ASSUME IInv, LinkModules \/ TableBuilt PROVE IInv'
<1>1. /\ ~ TableComplete /\ phase' \in {"table", "link"} /\ m' = 1 /\ r' = 1
      /\ UNCHANGED <<argv, modules, globalSymbolTable>>
  BY DEF LinkModules, TableBuilt, TableComplete, IInv, Progress
<1>2. Len(modules) \in Nat
  BY DEF IInv, TypeOK
<1>3. TypeOK' /\ Progress'
  BY <1>1, <1>2 DEF IInv, TypeOK, Progress
<1>4. \A k \in 1 .. Len(modules) :
          /\ \A q \in DOMAIN modules[k].relocations : ~ Passed(k, q)'
          /\ \A name : \A j \in DefinedAt(k, name) : ~ Passed(k, j)'
  BY <1>1, ModuleTypes DEF IInv, Passed, DefinedAt
<1>5. TableRight'
  <2> SUFFICES ASSUME NEW name \in STRING PROVE TableEntry(name)'
    BY DEF TableRight
  <2>1. /\ Hits(name)' = Hits(name)
        /\ \A k : DefinedAt(k, name)' = DefinedAt(k, name)
        /\ \A k, j : IsFirst(name, k, j)' = IsFirst(name, k, j)
    BY <1>1 DEF Hits, DefinedAt, IsFirst
  <2>2. ASSUME Hits(name) = {}, NEW k \in 1 .. Len(modules), NEW j \in DefinedAt(k, name),
               ~ Entered(k, j), Entered(k, j)'
        PROVE  FALSE
    <3>1. CASE LinkModules
      BY <1>4, <2>2, <3>1 DEF LinkModules, Entered, TableComplete
    <3>2. CASE TableBuilt
      BY <1>2, <2>2, <3>2 DEF TableBuilt, Entered, TableComplete, Passed
    <3>3. QED
      BY <3>1, <3>2
  <2>3. TableEntry(name)
    BY DEF IInv, TableRight
  <2>4. QED
    BY <1>1, <2>1, <2>2, <2>3 DEF TableEntry
<1>6. (CodeRight /\ PatchesDefined)'
  <2>1. \A k \in 1 .. Len(modules), o \in Offset : PatchesOf(k, o)' = {}
    BY <1>1, <1>4 DEF PatchesOf, Patched
  <2>2. \A k \in 1 .. Len(modules) : modules[k].code = Loaded(modules[k].name).code
    BY <1>1, CodeAsLoaded
  <2>3. QED
    BY <1>1, <1>4, <2>1, <2>2 DEF CodeRight, ByteRight, PatchesDefined, Patched
<1>7. UndefinedIsUndefined'
  BY <1>1 DEF UndefinedIsUndefined
<1>8. QED
  BY <1>3, <1>5, <1>6, <1>7 DEF IInv

\* A symbol goes into the table, or is external and does not.
LEMMA EnterIInv == ASSUME IInv, EnterSymbol PROVE IInv'
<1> DEFINE s == modules[m].symbols[r]
           n == Len(globalSymbolTable)
<1>1. /\ phase = "table" /\ m \in 1 .. Len(modules) /\ r \in DOMAIN modules[m].symbols
      /\ m' = m /\ r' = r + 1 /\ r \in Nat /\ m \in Nat /\ Len(modules) \in Nat
      /\ UNCHANGED <<argv, modules, phase>>
      /\ globalSymbolTable' = IF s.isExternal THEN globalSymbolTable
                              ELSE Append(globalSymbolTable, s)
  <2>1. m \in 1 .. Len(modules) /\ r \in Nat \ {0} /\ Len(modules) \in Nat
    BY DEF EnterSymbol, IInv, TypeOK
  <2>2. QED
    BY <2>1, ModuleTypes DEF EnterSymbol, IInv
<1>2. s \in Symbol /\ globalSymbolTable \in Seq(Symbol) /\ n \in Nat
  <2>1. modules[m].symbols \in Seq(Symbol)
    BY <1>1, ModuleTypes DEF IInv
  <2>2. QED
    BY <1>1, <2>1 DEF IInv, TypeOK
<1>3. /\ ~ s.isExternal =>
             /\ Len(globalSymbolTable') = n + 1 /\ globalSymbolTable'[n + 1] = s
             /\ \A at \in 1 .. n : globalSymbolTable'[at] = globalSymbolTable[at]
      /\ globalSymbolTable' \in Seq(Symbol)
  <2> HIDE DEF s
  <2>1. QED
    BY <1>1, <1>2
<1> HIDE DEF n
<1>4. TypeOK' /\ Progress'
  BY <1>1, <1>3 DEF IInv, TypeOK, Progress
<1>5. TableRight'
  <2> SUFFICES ASSUME NEW name \in STRING PROVE TableEntry(name)'
    BY DEF TableRight
  <2>1. /\ \A k : DefinedAt(k, name)' = DefinedAt(k, name)
        /\ \A k, j : IsFirst(name, k, j)' = IsFirst(name, k, j)
    BY <1>1 DEF DefinedAt, IsFirst
  <2>2. \A k \in 1 .. Len(modules) : \A j \in DefinedAt(k, name) :
            /\ k \in Nat /\ j \in Nat
            /\ Entered(k, j) <=> Passed(k, j)
            /\ Entered(k, j)' <=> Passed(k, j) \/ (k = m /\ j = r)
    BY <1>1, ModuleTypes DEF DefinedAt, Entered, TableComplete, Passed, IInv
  <2>3. TableEntry(name)
    BY DEF IInv, TableRight
  <2>4. CASE ~ s.isExternal /\ s.name = name
    <3>1. Hits(name)' = Hits(name) \cup {n + 1}
      BY <1>2, <1>3, <2>4 DEF Hits, n
    <3>2. r \in DefinedAt(m, name)
      BY <1>1, <2>4 DEF DefinedAt
    <3>3. \A at \in Hits(name) : at \in 1 .. n
      BY DEF Hits, n
    <3>4. CASE /\ Hits(name) = {}
               /\ \A k \in 1 .. Len(modules) : \A j \in DefinedAt(k, name) : ~ Entered(k, j)
      <4>1. PICK k \in Nat, j \in Nat : k = m /\ j = r
        BY <1>1
      <4>2. IsFirst(name, k, j)
        BY <1>1, <2>2, <3>2, <3>4, <4>1 DEF IsFirst, Passed
      <4>3. n + 1 \in Hits(name)' /\ \A b \in Hits(name)' : n + 1 <= b
        BY <1>2, <3>1, <3>4
      <4>4. globalSymbolTable'[n + 1].address = modules'[k].symbols[j].address
        BY <1>1, <1>3, <2>4, <4>1
      <4>5. QED
        BY <2>1, <4>2, <4>3, <4>4 DEF TableEntry
    <3>5. ASSUME NEW at \in Hits(name), NEW k \in Nat, NEW j \in Nat,
                 \A b \in Hits(name) : at <= b, IsFirst(name, k, j),
                 globalSymbolTable[at].address = modules[k].symbols[j].address
          PROVE  TableEntry(name)'
      <4>1. \A b \in Hits(name)' : at <= b
        BY <1>2, <3>1, <3>3, <3>5
      <4>2. globalSymbolTable'[at].address = modules'[k].symbols[j].address
        BY <1>1, <1>3, <2>4, <3>3, <3>5
      <4>3. QED
        BY <2>1, <3>1, <3>5, <4>1, <4>2 DEF TableEntry
    <3>6. QED
      BY <2>3, <3>4, <3>5 DEF TableEntry
  <2>5. CASE s.isExternal \/ s.name # name
    <3>1. Hits(name)' = Hits(name) /\ \A at \in Hits(name) : at \in 1 .. n
      BY <1>1, <1>2, <1>3, <2>5 DEF Hits, n
    <3>2. r \notin DefinedAt(m, name)
      BY <2>5 DEF DefinedAt
    <3>3. \A at \in Hits(name) : globalSymbolTable'[at] = globalSymbolTable[at]
      BY <1>1, <1>3, <3>1
    <3>4. \A k \in 1 .. Len(modules) : \A j \in DefinedAt(k, name) :
              Entered(k, j)' <=> Entered(k, j)
      BY <2>2, <3>2
    <3>5. ASSUME NEW at \in Hits(name), NEW k \in Nat, NEW j \in Nat,
                 \A b \in Hits(name) : at <= b, IsFirst(name, k, j),
                 globalSymbolTable[at].address = modules[k].symbols[j].address
          PROVE  TableEntry(name)'
      <4>1. globalSymbolTable'[at].address = modules'[k].symbols[j].address
        BY <1>1, <3>3, <3>5
      <4>2. QED
        BY <2>1, <3>1, <3>5, <4>1 DEF TableEntry
    <3>6. CASE /\ Hits(name) = {}
               /\ \A k \in 1 .. Len(modules) : \A j \in DefinedAt(k, name) : ~ Entered(k, j)
      BY <1>1, <2>1, <3>1, <3>4, <3>6 DEF TableEntry
    <3>7. QED
      BY <2>3, <3>5, <3>6 DEF TableEntry
  <2>6. QED
    BY <2>4, <2>5
<1>6. CodeRight' /\ PatchesDefined' /\ UndefinedIsUndefined'
  <2>1. \A k, q : ~ Patched(k, q)' /\ ~ Patched(k, q)
    BY <1>1 DEF Patched, TableComplete
  <2>2. \A k, o : PatchesOf(k, o)' = {} /\ PatchesOf(k, o) = {}
    BY <2>1 DEF PatchesOf
  <2>3. QED
    BY <1>1, <2>1, <2>2
       DEF IInv, CodeRight, ByteRight, PatchesDefined, UndefinedIsUndefined
<1>7. QED
  BY <1>4, <1>5, <1>6 DEF IInv

\* Going on to the next module passes nothing that was not passed.
LEMMA NextModuleIInv == ASSUME IInv, NextModule PROVE IInv'
<1>1. /\ m \in 1 .. Len(modules) /\ Len(modules) \in Nat /\ r \in Nat
      /\ m' = m + 1 /\ r' = 1
      /\ phase \in {"table", "link"}
      /\ UNCHANGED <<argv, modules, globalSymbolTable, phase>>
      /\ phase = "table" => r > Len(modules[m].symbols)
      /\ phase = "link" => r > Len(modules[m].relocations)
  BY DEF NextModule, IInv, TypeOK
<1>2. TypeOK' /\ Progress'
  BY <1>1 DEF IInv, TypeOK, Progress
<1>3. \A k \in 1 .. Len(modules) :
          /\ phase = "table" => \A name : \A j \in DefinedAt(k, name) :
                                    Passed(k, j)' <=> Passed(k, j)
          /\ phase = "link" => \A q \in DOMAIN modules[k].relocations :
                                    Passed(k, q)' <=> Passed(k, q)
  BY <1>1, ModuleTypes DEF IInv, DefinedAt, Passed
<1>4. TableRight'
  <2> SUFFICES ASSUME NEW name \in STRING PROVE TableEntry(name)'
    BY DEF TableRight
  <2>1. /\ Hits(name)' = Hits(name)
        /\ \A k : DefinedAt(k, name)' = DefinedAt(k, name)
        /\ \A k, j : IsFirst(name, k, j)' = IsFirst(name, k, j)
    BY <1>1 DEF Hits, DefinedAt, IsFirst
  <2>2. \A k \in 1 .. Len(modules) : \A j \in DefinedAt(k, name) :
            Entered(k, j)' <=> Entered(k, j)
    BY <1>1, <1>3 DEF Entered, TableComplete
  <2>3. TableEntry(name)
    BY DEF IInv, TableRight
  <2>4. QED
    BY <1>1, <2>1, <2>2, <2>3 DEF TableEntry
<1>5. CodeRight' /\ PatchesDefined' /\ UndefinedIsUndefined'
  <2>1. \A k \in 1 .. Len(modules) : \A q \in DOMAIN modules[k].relocations :
            Patched(k, q)' <=> Patched(k, q)
    BY <1>1, <1>3 DEF Patched, TableComplete
  <2>2. \A k \in 1 .. Len(modules) : \A o : PatchesOf(k, o)' = PatchesOf(k, o)
    BY <1>1, <2>1 DEF PatchesOf
  <2>3. \A name : Definers(name)' = Definers(name) /\ AddressOf(name)' = AddressOf(name)
    BY <1>1 DEF Definers, DefinedAt, AddressOf
  <2>4. CodeRight'
    BY <1>1, <2>2, <2>3 DEF IInv, CodeRight, ByteRight
  <2>5. PatchesDefined'
    BY <1>1, <2>1, <2>3 DEF IInv, PatchesDefined
  <2>6. QED
    BY <1>1, <2>4, <2>5 DEF UndefinedIsUndefined
<1>6. QED
  BY <1>2, <1>4, <1>5 DEF IInv

\* The end of linking, and "execution", change no module.
LEMMA AfterLinkIInv ==
    ASSUME IInv, LinkingCompleted \/ ExecuteProgram PROVE IInv'
<1>1. /\ TableComplete /\ TableComplete'
      /\ phase' \in {"linked", "executed", "no_entry"}
      /\ m = Len(modules) + 1
      /\ UNCHANGED <<argv, modules, globalSymbolTable, m, r>>
  BY DEF LinkingCompleted, ExecuteProgram, TableComplete, IInv, Progress
<1>2. TypeOK' /\ Progress'
  BY <1>1 DEF IInv, TypeOK, Progress, Exits
<1>3. /\ \A k, j : /\ Entered(k, j)' <=> Entered(k, j)
                   /\ Patched(k, j)' <=> Patched(k, j)
      /\ \A name : Hits(name)' = Hits(name) /\ Definers(name)' = Definers(name)
                   /\ AddressOf(name)' = AddressOf(name)
      /\ \A name, k, j : IsFirst(name, k, j)' = IsFirst(name, k, j)
      /\ \A name, k : DefinedAt(k, name)' = DefinedAt(k, name)
  BY <1>1 DEF Entered, Patched, Passed, Hits, Definers, AddressOf, IsFirst, DefinedAt
<1>4. \A k, o : PatchesOf(k, o)' = PatchesOf(k, o)
  BY <1>1, <1>3 DEF PatchesOf
<1>5. TableRight'
  BY <1>1, <1>3 DEF IInv, TableRight, TableEntry
<1>6. CodeRight' /\ PatchesDefined'
  BY <1>1, <1>3, <1>4 DEF IInv, CodeRight, ByteRight, PatchesDefined
<1>7. UndefinedIsUndefined'
  BY <1>1 DEF UndefinedIsUndefined
<1>8. QED
  BY <1>2, <1>5, <1>6, <1>7 DEF IInv

\* A relocation patches its byte with the address the modules give its symbol, or
\* ends the program.
LEMMA ResolveIInv == ASSUME IInv, ResolveRelocation PROVE IInv'
<1> DEFINE rel == modules[m].relocations[r]
           address == FindSymbol(rel.symbolName)
<1>1. /\ phase = "link" /\ TableComplete
      /\ m \in 1 .. Len(modules) /\ m \in Nat /\ r \in Nat /\ Len(modules) \in Nat
      /\ r \in DOMAIN modules[m].relocations
      /\ rel.symbolName \in STRING /\ rel.offset \in Offset
      /\ UNCHANGED <<argv, globalSymbolTable, m>>
  <2>1. m \in 1 .. Len(modules) /\ r \in Nat \ {0} /\ Len(modules) \in Nat
    BY DEF ResolveRelocation, IInv, TypeOK
  <2>2. QED
    BY <2>1, ModuleTypes DEF ResolveRelocation, TableComplete, IInv
<1>2. /\ Definers(rel.symbolName) = {} => address = -1
      /\ Definers(rel.symbolName) # {} => address = AddressOf(rel.symbolName)
  BY <1>1, FindRight
<1>3. CASE address = -1
  <2>1. phase' = "undefined" /\ UNCHANGED <<modules, r>>
    BY <1>3 DEF ResolveRelocation
  <2>2. TypeOK' /\ Progress'
    BY <1>1, <2>1 DEF IInv, TypeOK, Progress, Exits
  <2>3. /\ \A k, j : /\ Entered(k, j)' <=> Entered(k, j)
                     /\ Patched(k, j)' <=> Patched(k, j)
        /\ \A name : Hits(name)' = Hits(name) /\ Definers(name)' = Definers(name)
                     /\ AddressOf(name)' = AddressOf(name)
        /\ \A name, k, j : IsFirst(name, k, j)' = IsFirst(name, k, j)
        /\ \A name, k : DefinedAt(k, name)' = DefinedAt(k, name)
    BY <1>1, <2>1
       DEF Entered, Patched, Passed, Hits, Definers, AddressOf, IsFirst, DefinedAt,
           TableComplete
  <2>4. \A k, o : PatchesOf(k, o)' = PatchesOf(k, o)
    BY <1>1, <2>1, <2>3 DEF PatchesOf
  <2>5. TableRight'
    BY <1>1, <2>1, <2>3 DEF IInv, TableRight, TableEntry
  <2>6. CodeRight' /\ PatchesDefined'
    BY <1>1, <2>1, <2>3, <2>4 DEF IInv, CodeRight, ByteRight, PatchesDefined
  <2>7. UndefinedIsUndefined'
    BY <1>1, <1>2, <1>3, <2>1, <2>3 DEF UndefinedIsUndefined
  <2>8. QED
    BY <2>2, <2>5, <2>6, <2>7 DEF IInv
<1>4. CASE address # -1
  <2>1. /\ modules' = [modules EXCEPT ![m].code[rel.offset] = LowByte(address)]
        /\ r' = r + 1 /\ phase' = phase
    BY <1>4 DEF ResolveRelocation
  <2>2. Definers(rel.symbolName) # {} /\ address = AddressOf(rel.symbolName)
    BY <1>2, <1>4
  <2> HIDE DEF address
  <2>3. address % 256 \in Byte
    <3>1. address \in Int
      <4>1. PICK at \in 1 .. Len(globalSymbolTable) : address = globalSymbolTable[at].address
        <5>1. TableEntry(rel.symbolName)
          BY <1>1 DEF IInv, TableRight
        <5>2. Hits(rel.symbolName) # {}
          BY <1>4, FindFirst DEF address
        <5>3. QED
          BY <5>1, <5>2, FindFirst DEF TableEntry, Hits, address
      <4>2. globalSymbolTable[at] \in Symbol
        BY DEF IInv, TypeOK
      <4>3. QED
        BY <4>1, <4>2 DEF Symbol
    <3>2. QED
      BY <3>1 DEF Byte
  <2>4. /\ Len(modules') = Len(modules)
        /\ \A k \in 1 .. Len(modules) :
               /\ modules'[k].name = modules[k].name
               /\ modules'[k].symbols = modules[k].symbols
               /\ modules'[k].relocations = modules[k].relocations
               /\ \A o \in Offset :
                      modules'[k].code[o] = IF k = m /\ o = rel.offset THEN address % 256
                                            ELSE modules[k].code[o]
    <3>1. \A k \in 1 .. Len(modules) :
              DOMAIN modules[k] = {"name", "symbols", "relocations", "code"}
      <4> DEFINE Mod == [name : DOMAIN Files, symbols : Seq(Symbol),
                         relocations : Seq(Relocation), code : [Offset -> Byte]]
      <4>1. modules \in Seq(Mod)
        BY DEF IInv, TypeOK
      <4>2. \A x \in Mod : DOMAIN x = {"name", "symbols", "relocations", "code"}
        OBVIOUS
      <4> HIDE DEF Mod
      <4>3. QED
        BY <4>1, <4>2
    <3>2. DOMAIN modules[m].code = Offset
      BY <1>1, ModuleTypes DEF IInv
    <3>3. DOMAIN modules = 1 .. Len(modules)
      BY DEF IInv, TypeOK
    <3>4. QED
      BY <1>1, <2>1, <3>1, <3>2, <3>3 DEF LowByte
  <2>5. TypeOK' /\ Progress'
    <3> DEFINE Mod == [name : DOMAIN Files, symbols : Seq(Symbol),
                       relocations : Seq(Relocation), code : [Offset -> Byte]]
               new == [modules[m] EXCEPT !.code[rel.offset] = address % 256]
    <3>1. modules \in Seq(Mod)
      BY DEF IInv, TypeOK
    <3>2. new \in Mod
      <4>1. modules[m] \in Mod
        <5> HIDE DEF Mod
        <5>1. QED
          BY <1>1, <3>1
      <4>2. QED
        BY <1>1, <2>3, <4>1
    <3>3. modules' = [modules EXCEPT ![m] = new]
      BY <2>1 DEF LowByte
    <3> HIDE DEF Mod, new
    <3>4. modules' \in Seq(Mod)
      BY <1>1, <3>1, <3>2, <3>3
    <3>5. TypeOK'
      <4>1. /\ modules' \in Seq([name : DOMAIN Files, symbols : Seq(Symbol),
                                 relocations : Seq(Relocation), code : [Offset -> Byte]])
        BY <3>4 DEF Mod
      <4>2. /\ argv' \in SeqOf(Names, MaxArgs) /\ Len(modules') <= MaxArgs
            /\ globalSymbolTable' \in Seq(Symbol)
            /\ m' \in 1 .. Len(modules') + 1 /\ r' \in Nat \ {0}
            /\ phase' \in {"load", "table", "link", "linked"} \cup Exits
        BY <1>1, <2>1, <2>4, SMTT(30) DEF IInv, TypeOK
      <4>3. QED
        BY <4>1, <4>2 DEF TypeOK
    <3>6. QED
      BY <1>1, <2>1, <2>4, <3>5 DEF IInv, Progress
  <2>6. /\ \A name : Hits(name)' = Hits(name)
        /\ \A name : \A k \in 1 .. Len(modules) : DefinedAt(k, name)' = DefinedAt(k, name)
    BY <1>1, <2>4 DEF Hits, DefinedAt
  <2>7. \A name, k, j : IsFirst(name, k, j)' = IsFirst(name, k, j)
    BY <2>4, <2>6 DEF IsFirst
  <2>8. \A name : Definers(name)' = Definers(name)
    BY <2>4, <2>6 DEF Definers
  <2>9. \A name \in STRING : Definers(name) # {} => AddressOf(name)' = AddressOf(name)
    <3> SUFFICES ASSUME NEW name \in STRING, Definers(name) # {}
                 PROVE  AddressOf(name)' = AddressOf(name)
      OBVIOUS
    <3>1. PICK k \in 1 .. Len(modules) : k = Min(Definers(name))
      BY <1>1, FindRight
    <3>2. Min(Definers(name)') = k
      BY <2>8, <3>1
    <3>3. QED
      BY <2>4, <2>6, <3>1, <3>2 DEF AddressOf
  <2>10. TableRight'
    <3> SUFFICES ASSUME NEW name \in STRING PROVE TableEntry(name)'
      BY DEF TableRight
    <3>1. TableEntry(name)
      BY DEF IInv, TableRight
    <3>2. \A k, j : Entered(k, j) /\ Entered(k, j)'
      BY <1>1, <2>1 DEF Entered, TableComplete
    <3>3. ASSUME NEW at \in Hits(name), NEW k \in Nat, NEW j \in Nat,
                 \A b \in Hits(name) : at <= b, IsFirst(name, k, j),
                 globalSymbolTable[at].address = modules[k].symbols[j].address
          PROVE  TableEntry(name)'
      <4>1. globalSymbolTable'[at].address = modules'[k].symbols[j].address
        BY <1>1, <2>4, <3>3 DEF IsFirst
      <4>2. QED
        BY <2>6, <2>7, <3>3, <4>1 DEF TableEntry
    <3>4. CASE /\ Hits(name) = {}
               /\ \A k \in 1 .. Len(modules) : \A j \in DefinedAt(k, name) : ~ Entered(k, j)
      BY <2>4, <2>6, <3>2, <3>4 DEF TableEntry
    <3>5. QED
      BY <3>1, <3>3, <3>4 DEF TableEntry
  <2>11. \A k \in 1 .. Len(modules) : \A q \in DOMAIN modules[k].relocations :
             /\ q \in Nat
             /\ Patched(k, q)' <=> Patched(k, q) \/ (k = m /\ q = r)
             /\ Patched(k, q) => ~ (k = m /\ q >= r)
    BY <1>1, <2>1, ModuleTypes DEF IInv, Patched, Passed, TableComplete
  <2>12. CodeRight'
    <3> SUFFICES ASSUME NEW k \in 1 .. Len(modules), NEW o \in Offset
                 PROVE  ByteRight(k, o)'
      BY <2>4 DEF CodeRight
    <3>1. /\ modules'[k].relocations = modules[k].relocations
          /\ Loaded(modules'[k].name) = Loaded(modules[k].name)
      BY <2>4
    <3>2. CASE k = m /\ o = rel.offset
      <4>1. r \in DOMAIN modules[k].relocations /\ modules[k].relocations[r] = rel
        BY <1>1, <3>2
      <4>2. PICK q \in DOMAIN modules[k].relocations : q = r
        BY <4>1
      <4>3. q \in PatchesOf(k, o)' /\ \A p \in PatchesOf(k, o)' : q >= p
        BY <1>1, <2>11, <3>1, <3>2, <4>2 DEF PatchesOf
      <4>4. PICK name \in STRING : name = rel.symbolName
        BY <1>1
      <4>5. AddressOf(name)' = AddressOf(name)
        BY <2>2, <2>9, <4>4
      <4>6. modules'[k].code[o] = AddressOf(name)' % 256
        BY <2>2, <2>4, <3>2, <4>4, <4>5
      <4>7. name = modules'[k].relocations[q].symbolName
        BY <3>1, <4>1, <4>2, <4>4
      <4>8. QED
        BY <4>3, <4>6, <4>7 DEF ByteRight
    <3>3. CASE ~ (k = m /\ o = rel.offset)
      <4>1. PatchesOf(k, o)' = PatchesOf(k, o)
        BY <2>11, <3>1, <3>3 DEF PatchesOf
      <4>2. modules'[k].code[o] = modules[k].code[o]
        BY <2>4, <3>3
      <4>3. ByteRight(k, o)
        BY DEF IInv, CodeRight
      <4>4. ASSUME NEW q \in PatchesOf(k, o),
                   \A p \in PatchesOf(k, o) : q >= p,
                   modules[k].code[o] =
                       AddressOf(modules[k].relocations[q].symbolName) % 256
            PROVE  ByteRight(k, o)'
        <5>1. PICK name \in STRING : name = modules[k].relocations[q].symbolName
          BY ModuleTypes DEF IInv, PatchesOf
        <5>2. Definers(name) # {}
          BY <5>1 DEF IInv, PatchesDefined, PatchesOf
        <5>3. AddressOf(name)' = AddressOf(name)
          BY <2>9, <5>2
        <5>4. modules'[k].code[o] = AddressOf(name)' % 256
          BY <4>2, <4>4, <5>1, <5>3
        <5>5. name = modules'[k].relocations[q].symbolName
          BY <3>1, <5>1
        <5>6. QED
          BY <4>1, <4>4, <5>4, <5>5 DEF ByteRight
      <4>5. QED
        BY <3>1, <4>1, <4>2, <4>3, <4>4 DEF ByteRight
    <3>4. QED
      BY <3>2, <3>3
  <2>13. PatchesDefined'
    <3> SUFFICES ASSUME NEW k \in 1 .. Len(modules),
                        NEW q \in DOMAIN modules[k].relocations, Patched(k, q)'
                 PROVE  Definers(modules[k].relocations[q].symbolName)' # {}
      BY <2>4 DEF PatchesDefined
    <3>1. PICK name : name = modules[k].relocations[q].symbolName
      OBVIOUS
    <3>2. Definers(name) # {}
      <4>1. CASE Patched(k, q)
        BY <3>1, <4>1 DEF IInv, PatchesDefined
      <4>2. CASE k = m /\ q = r
        BY <2>2, <3>1, <4>2
      <4>3. QED
        BY <2>11, <4>1, <4>2
    <3>3. QED
      BY <2>4, <2>8, <3>1, <3>2
  <2>14. UndefinedIsUndefined'
    BY <1>1, <2>1 DEF UndefinedIsUndefined
  <2>15. QED
    BY <2>5, <2>10, <2>12, <2>13, <2>14 DEF IInv
<1>5. QED
  BY <1>3, <1>4

\* A step that changes nothing.
LEMMA StutterIInv == ASSUME IInv, UNCHANGED vars PROVE IInv'
<1>1. /\ \A k, j : Entered(k, j)' = Entered(k, j) /\ Patched(k, j)' = Patched(k, j)
      /\ \A name : Hits(name)' = Hits(name) /\ Definers(name)' = Definers(name)
                   /\ AddressOf(name)' = AddressOf(name)
      /\ \A name, k, j : IsFirst(name, k, j)' = IsFirst(name, k, j)
      /\ \A name, k : DefinedAt(k, name)' = DefinedAt(k, name)
  BY DEF Entered, Patched, Passed, Hits, Definers, AddressOf, IsFirst, DefinedAt,
         TableComplete, vars
<1>2. \A k, o : PatchesOf(k, o)' = PatchesOf(k, o)
  BY <1>1 DEF PatchesOf, vars
<1>3. TypeOK' /\ Progress'
  BY DEF IInv, TypeOK, Progress, vars
<1>4. TableRight'
  BY <1>1 DEF IInv, TableRight, TableEntry, vars
<1>5. CodeRight' /\ PatchesDefined'
  BY <1>1, <1>2 DEF IInv, CodeRight, ByteRight, PatchesDefined, vars
<1>6. UndefinedIsUndefined'
  BY <1>1 DEF IInv, UndefinedIsUndefined, vars
<1>7. QED
  BY <1>3, <1>4, <1>5, <1>6 DEF IInv

\* In every state of the linker the invariant holds.
THEOREM Invariant == Spec => []IInv
<1>1. IInv /\ [Next]_vars => IInv'
  BY LoadIInv, StartLoopIInv, EnterIInv, ResolveIInv, NextModuleIInv, AfterLinkIInv,
     StutterIInv DEF Next, Step, Exited
<1>2. QED
  BY InitIInv, <1>1, PTL DEF Spec

\* Types, and that the "program" is never executed, nor missed, with a relocation to
\* a symbol that no module defines: such a relocation has ended the process before.
THEOREM LinkedSymbols == Spec => []LinkerInv
<1>1. IInv => LinkerInv
  <2> SUFFICES ASSUME IInv, phase \in {"linked", "executed", "no_entry"},
                      NEW k \in 1 .. Len(modules), NEW q \in DOMAIN modules[k].relocations
               PROVE  Definers(modules[k].relocations[q].symbolName) # {}
    BY DEF LinkerInv, NothingUnresolved, IInv
  <2>1. Patched(k, q)
    BY DEF IInv, TypeOK, Progress, Patched, Passed, TableComplete
  <2>2. QED
    BY <2>1 DEF IInv, PatchesDefined
<1>2. QED
  BY <1>1, Invariant, PTL

\* The linked code: every byte that relocations patch is the low byte of the address
\* the last of them asks for, every other byte is as loaded.
THEOREM CodeIsLinked == Spec => []LinkedCode
<1>1. IInv => LinkedCode
  <2> SUFFICES ASSUME IInv, phase \in {"linked", "executed", "no_entry"},
                      NEW k \in 1 .. Len(modules), NEW o \in Offset
               PROVE  LET rel == modules[k].relocations
                          at  == {q \in DOMAIN rel : rel[q].offset = o}
                      IN  modules[k].code[o] =
                              IF at = {} THEN Loaded(modules[k].name).code[o]
                              ELSE AddressOf(rel[Max(at)].symbolName) % 256
    BY DEF LinkedCode
  <2>1. \A q \in DOMAIN modules[k].relocations : Patched(k, q)
    BY DEF IInv, TypeOK, Progress, Patched, Passed, TableComplete
  <2>2. PatchesOf(k, o)
          = {q \in DOMAIN modules[k].relocations : modules[k].relocations[q].offset = o}
    BY <2>1 DEF PatchesOf
  <2>3. PatchesOf(k, o) \subseteq Int
    BY <2>2, ModuleTypes DEF IInv
  <2>4. ByteRight(k, o)
    BY DEF IInv, CodeRight
  <2>5. \A q \in PatchesOf(k, o) :
            (\A p \in PatchesOf(k, o) : q >= p) => Max(PatchesOf(k, o)) = q
    BY <2>3, MaxIs
  <2>6. QED
    BY <2>2, <2>4, <2>5 DEF ByteRight
<1>2. QED
  BY <1>1, Invariant, PTL

\* "Undefined symbol" is only reported of a symbol that no module defines, or whose
\* first definition has the address -1, which findSymbolInGlobalTable() also returns
\* for "not found".
THEOREM Undefined == Spec => []UndefinedIsUndefined
<1>1. IInv => UndefinedIsUndefined
  BY DEF IInv
<1>2. QED
  BY <1>1, Invariant, PTL
=============================================================================
