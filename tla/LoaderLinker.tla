---------------------------- MODULE LoaderLinker ----------------------------
(***************************************************************************)
(* The loader and linker of src/loaderandlinker.c: main() loads every      *)
(* object file named on the command line, links them, and "executes" the   *)
(* module whose file name is "main".                                       *)
(*                                                                         *)
(* An object file is what its SYM, REL and other lines parse to: symbols   *)
(* and relocations in file order, code bytes (0 is NUL).  The three kinds  *)
(* of line go to three arrays, so their interleaving in the file is left   *)
(* out.  Array limits are those of the inputs: the code checks none.       *)
(***************************************************************************)
EXTENDS Integers, Sequences, SequencesExt

CONSTANTS Files,        \* the object files that exist: name -> contents
          Names,        \* the names that may stand on the command line
          MaxArgs,      \* at most so many
          CodeSize      \* MAX_CODE_LENGTH

Offset     == 0 .. CodeSize - 1
Byte       == 0 .. 255
Symbol     == [name : STRING, address : Int, isExternal : BOOLEAN]
Relocation == [offset : Offset, symbolName : STRING]

ASSUME LinkerInputs ==
    /\ DOMAIN Files \subseteq Names
    /\ MaxArgs \in Nat /\ CodeSize \in Nat
    /\ \A name \in DOMAIN Files : /\ Files[name].symbols \in Seq(Symbol)
                                  /\ Files[name].relocations \in Seq(Relocation)
                                  /\ Files[name].code \in Seq(Byte)

VARIABLES
    argv,               \* file names still to load
    modules,            \* loaded modules
    globalSymbolTable,  \* internal symbols, in module order
    m, r,               \* the loops' indices: module; its symbol, its relocation
    phase               \* "load", "table", "link", "linked", or how the process ended

vars == <<argv, modules, globalSymbolTable, m, r, phase>>

Exits == {"no_file", "undefined", "no_entry", "executed"}

Init == /\ argv \in SeqOf(Names, MaxArgs) \ {<<>>}
        /\ modules = <<>>
        /\ globalSymbolTable = <<>>
        /\ m = 1 /\ r = 1
        /\ phase = "load"

\* The code array is zeroed, then the code lines are copied in.
Loaded(name) ==
    [name        |-> name,
     symbols     |-> Files[name].symbols,
     relocations |-> Files[name].relocations,
     code        |-> [o \in Offset |-> IF o < Len(Files[name].code)
                                       THEN Files[name].code[o + 1] ELSE 0]]

\* loadModule()
LoadModule == /\ phase = "load" /\ argv # <<>>
              /\ IF Head(argv) \in DOMAIN Files
                 THEN /\ modules' = Append(modules, Loaded(Head(argv)))
                      /\ argv' = Tail(argv)
                      /\ UNCHANGED phase
                 ELSE phase' = "no_file" /\ UNCHANGED <<modules, argv>>
              /\ UNCHANGED <<globalSymbolTable, m, r>>

\* All files are loaded: linkModules() starts on the global symbol table.
LinkModules == /\ phase = "load" /\ argv = <<>>
               /\ phase' = "table"
               /\ UNCHANGED <<argv, modules, globalSymbolTable, m, r>>

\* Its first loop, one symbol: no check that a name is defined once.
EnterSymbol ==
    /\ phase = "table"
    /\ m <= Len(modules) /\ r <= Len(modules[m].symbols)
    /\ globalSymbolTable' = IF modules[m].symbols[r].isExternal THEN globalSymbolTable
                            ELSE Append(globalSymbolTable, modules[m].symbols[r])
    /\ r' = r + 1
    /\ UNCHANGED <<argv, modules, m, phase>>

\* The second loop begins.
TableBuilt == /\ phase = "table" /\ m = Len(modules) + 1
              /\ phase' = "link"
              /\ m' = 1 /\ r' = 1
              /\ UNCHANGED <<argv, modules, globalSymbolTable>>

\* Mutant of FindSymbol: the last definition is found, not the first.
FindLastSymbol(name) ==
    LET at == SelectLastInSeq(globalSymbolTable, LAMBDA s : s.name = name)
    IN  IF at = 0 THEN -1 ELSE globalSymbolTable[at].address

\* Mutant of FindSymbol: the loop stops one entry early.
FindSymbolShort(name) ==
    LET at == SelectInSeq(globalSymbolTable, LAMBDA s : s.name = name)
    IN  IF at \in {0, Len(globalSymbolTable)} THEN -1
        ELSE globalSymbolTable[at].address

\* findSymbolInGlobalTable(): -1 stands for "not found".
FindSymbol(name) ==
    LET at == SelectInSeq(globalSymbolTable, LAMBDA s : s.name = name)
    IN  IF at = 0 THEN -1 ELSE globalSymbolTable[at].address

\* (char)address
LowByte(address) == address % 256

\* Mutant of ResolveRelocation: an undefined symbol is not reported.
ResolveUnchecked ==
    LET module     == modules[m]
        relocation == module.relocations[r]
        address    == FindSymbol(relocation.symbolName)
    IN  /\ phase = "link"
        /\ m <= Len(modules) /\ r <= Len(module.relocations)
        /\ modules' = [modules EXCEPT ![m].code[relocation.offset] =
                                             LowByte(address)]
        /\ r' = r + 1
        /\ UNCHANGED <<argv, globalSymbolTable, m, phase>>

\* resolveRelocations(), one turn of its loop: patch one byte, or exit.
ResolveRelocation ==
    LET module     == modules[m]
        relocation == module.relocations[r]
        address    == FindSymbol(relocation.symbolName)
    IN  /\ phase = "link"
        /\ m <= Len(modules) /\ r <= Len(module.relocations)
        /\ IF address = -1
           THEN phase' = "undefined" /\ UNCHANGED <<modules, r>>
           ELSE /\ modules' = [modules EXCEPT ![m].code[relocation.offset] =
                                                  LowByte(address)]
                /\ r' = r + 1
                /\ UNCHANGED phase
        /\ UNCHANGED <<argv, globalSymbolTable, m>>

\* Either loop goes on to the next module.
NextModule == /\ phase \in {"table", "link"}
              /\ m <= Len(modules)
              /\ r > Len(IF phase = "table" THEN modules[m].symbols
                         ELSE modules[m].relocations)
              /\ m' = m + 1 /\ r' = 1
              /\ UNCHANGED <<argv, modules, globalSymbolTable, phase>>

LinkingCompleted == /\ phase = "link"
                    /\ m = Len(modules) + 1
                    /\ phase' = "linked"
                    /\ UNCHANGED <<argv, modules, globalSymbolTable, m, r>>

\* executeProgram("main")
ExecuteProgram ==
    /\ phase = "linked"
    /\ phase' = IF \E k \in 1 .. Len(modules) : modules[k].name = "main"
                THEN "executed" ELSE "no_entry"
    /\ UNCHANGED <<argv, modules, globalSymbolTable, m, r>>

Exited == phase \in Exits /\ UNCHANGED vars

Step == \/ LoadModule \/ LinkModules \/ EnterSymbol \/ TableBuilt
        \/ ResolveRelocation \/ NextModule \/ LinkingCompleted \/ ExecuteProgram

Next == Step \/ Exited

Spec == Init /\ [][Next]_vars

-----------------------------------------------------------------------------

\* Every variable has its type.
TypeOK == /\ argv \in SeqOf(Names, MaxArgs)
          /\ modules \in Seq([name : DOMAIN Files, symbols : Seq(Symbol),
                              relocations : Seq(Relocation), code : [Offset -> Byte]])
          /\ Len(modules) <= MaxArgs
          /\ globalSymbolTable \in Seq(Symbol)
          /\ m \in 1 .. Len(modules) + 1 /\ r \in Nat \ {0}
          /\ phase \in {"load", "table", "link", "linked"} \cup Exits

\* Module k defines the name; where it does so first.
DefinedAt(k, name) == {j \in DOMAIN modules[k].symbols :
                          /\ modules[k].symbols[j].name = name
                          /\ ~ modules[k].symbols[j].isExternal}

Definers(name) == {k \in 1 .. Len(modules) : DefinedAt(k, name) # {}}

\* The first internal definition in load order gives a name its address.
AddressOf(name) == LET k == Min(Definers(name))
                   IN  modules[k].symbols[Min(DefinedAt(k, name))].address

\* Once linking is completed each byte of each module is the low byte of the
\* address its last relocation asks for, or is as it was loaded.
LinkedCode ==
    phase \in {"linked", "executed", "no_entry"} =>
        \A k \in 1 .. Len(modules), o \in Offset :
            LET rel == modules[k].relocations
                at  == {q \in DOMAIN rel : rel[q].offset = o}
            IN  modules[k].code[o] =
                    IF at = {} THEN Loaded(modules[k].name).code[o]
                    ELSE AddressOf(rel[Max(at)].symbolName) % 256

\* Nothing is executed with a symbol that no module defines.
NothingUnresolved ==
    phase \in {"linked", "executed", "no_entry"} =>
        \A k \in 1 .. Len(modules) : \A q \in DOMAIN modules[k].relocations :
            Definers(modules[k].relocations[q].symbolName) # {}

\* Types, and what a completed link guarantees of the symbols.
LinkerInv == TypeOK /\ NothingUnresolved

\* "Undefined symbol" is only reported of a symbol that no module defines, or whose
\* first definition is at -1, the address that also means "Symbol not found".
UndefinedIsUndefined ==
    phase = "undefined" =>
        LET name == modules[m].relocations[r].symbolName
        IN  Definers(name) = {} \/ AddressOf(name) = -1
=============================================================================
