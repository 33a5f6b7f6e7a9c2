------------------------------ MODULE Assembler ------------------------------
(***************************************************************************)
(* The assembler of src/assembler.c, in both modes: two passes over the    *)
(* file or one.                                                            *)
(*                                                                         *)
(* A line of the file is what strtok() makes of it: at most a label and an *)
(* operation (a third word is never looked at).  Only the operation is     *)
(* handed to assembleInstruction(), whose sscanf() therefore never fills   *)
(* operand[]: the code reads it uninitialized, and the model takes any     *)
(* string for it.  isRelocatable is never read and left out.               *)
(***************************************************************************)
EXTENDS Integers, Sequences, FiniteSetsExt, SequencesExt

CONSTANTS Files,       \* the files that may be assembled
          Labels,      \* the labels in them
          MaxLines     \* MAX_CODE_LINES; the code does not check it

\* "skip": empty or a comment; "spaces": not empty, without a word.
Operations == {"LOAD", "STORE", "ADD", "SUB", "MUL", "DIV", "MOD", "HALT"}
SourceLine == [kind : {"skip", "spaces"}]
              \cup [kind : {"code"}, label : Labels \cup {""},
                    op : Operations \cup {"unknown"}]

ValidFiles == /\ Files \subseteq Seq(SourceLine)
              /\ \A f \in Files : Len(f) <= MaxLines
              /\ MaxLines \in Nat
              /\ "" \notin Labels

ASSUME AssemblerInputs == ValidFiles

Address == 0 .. MaxLines - 1

VARIABLES file,            \* the lines
          pass,            \* the function main() is in
          position,        \* lines read so far
          currentAddress,
          labelTable,      \* [symbol, address], in order of definition
          machineCode,     \* per address: [opcode, address], or NoCode for ""
          codeCount,
          errors           \* errorBuffer: [message, lineNumber]

assemblerVars == <<file, pass, position, currentAddress, labelTable, machineCode,
                   codeCount, errors>>

NoCode == [opcode |-> -1, address |-> 0]
Finished == {"printed", "crashed"}

AssemblerInit == /\ file \in Files
                 /\ pass \in {"firstPass", "singlePass"}
                 /\ position = 0
                 /\ currentAddress = 0
                 /\ labelTable = <<>>
                 /\ machineCode = [a \in Address |-> NoCode]
                 /\ codeCount = 0
                 /\ errors = <<>>

opcodeTable == [LOAD |-> 1, STORE |-> 2, ADD |-> 3, SUB |-> 4, MUL |-> 5,
                DIV |-> 6, MOD |-> 7, HALT |-> 255]

\* findSymbol(): -1 when it is not there.
FindSymbol(table, s) ==
    LET at == SelectInSeq(table, LAMBDA e : e.symbol = s)
    IN  IF at = 0 THEN -1 ELSE table[at].address

Line == file[position + 1]
MoreLines == position < Len(file)

\* addSymbol() of a label that is not in the table yet.
AddSymbol(label) ==
    labelTable' = Append(labelTable, [symbol |-> label,
                                      address |-> currentAddress])

ReportError(message) ==
    errors' = Append(errors, [message |-> message, lineNumber |-> currentAddress])

-----------------------------------------------------------------------------

\* Every loop passes over empty lines and comments.
SkipLine == /\ pass \in {"firstPass", "secondPass", "singlePass"}
            /\ MoreLines /\ Line.kind = "skip"
            /\ position' = position + 1
            /\ UNCHANGED <<file, pass, currentAddress, labelTable, machineCode,
                           codeCount, errors>>

\* Mutant of FirstPassLine: only labelled lines are counted.
FirstPassCountsLabels ==
    /\ pass = "firstPass" /\ MoreLines /\ Line.kind # "skip"
    /\ IF Line.kind = "spaces" \/ Line.label = ""
       THEN UNCHANGED <<labelTable, errors, currentAddress>>
       ELSE /\ currentAddress' = currentAddress + 1
            /\ IF FindSymbol(labelTable, Line.label) # -1
               THEN ReportError("Duplicate label") /\ UNCHANGED labelTable
               ELSE AddSymbol(Line.label) /\ UNCHANGED errors
    /\ position' = position + 1
    /\ UNCHANGED <<file, pass, machineCode, codeCount>>

\* firstPass(): labels get the address of their line.
FirstPassLine ==
    /\ pass = "firstPass" /\ MoreLines /\ Line.kind # "skip"
    /\ IF Line.kind = "spaces" \/ Line.label = ""
       THEN UNCHANGED <<labelTable, errors>>
       ELSE IF FindSymbol(labelTable, Line.label) # -1
            THEN ReportError("Duplicate label") /\ UNCHANGED labelTable
            ELSE AddSymbol(Line.label) /\ UNCHANGED errors
    /\ position' = position + 1
    /\ currentAddress' = currentAddress + 1
    /\ UNCHANGED <<file, pass, machineCode, codeCount>>

\* The end of the file: rewind() for the second pass.
Rewind == /\ pass = "firstPass" /\ ~ MoreLines
          /\ pass' = "secondPass"
          /\ position' = 0
          /\ currentAddress' = 0
          /\ UNCHANGED <<file, labelTable, machineCode, codeCount, errors>>

\* Mutant of Assemble: an operation that is not known is passed over in silence.
AssembleSilently(op, operand, table) ==
    IF op \notin Operations
    THEN UNCHANGED <<errors, machineCode, codeCount>>
    ELSE /\ machineCode' = [machineCode EXCEPT ![currentAddress] =
                               [opcode |-> opcodeTable[op], address |-> 0]]
         /\ codeCount' = codeCount + 1
         /\ UNCHANGED errors

\* assembleInstruction(), with what operand[] happens to hold: nothing, a symbol,
\* or anything else.
Assemble(op, operand, table) ==
    LET address == FindSymbol(table, operand)
    IN  IF op \notin Operations
        THEN /\ ReportError("Unknown operation")
             /\ UNCHANGED <<machineCode, codeCount>>
        ELSE IF address = -1 /\ operand # ""
        THEN /\ ReportError("Undefined symbol")
             /\ UNCHANGED <<machineCode, codeCount>>
        ELSE /\ machineCode' =
                   [machineCode EXCEPT ![currentAddress] =
                       [opcode  |-> opcodeTable[op],
                        address |-> IF operand = "" THEN 0 ELSE address]]
             /\ codeCount' = codeCount + 1
             /\ UNCHANGED errors

Operands == Labels \cup {"", "garbage"}

\* secondPass()
SecondPassLine ==
    /\ pass = "secondPass" /\ MoreLines /\ Line.kind = "code"
    /\ \E operand \in Operands : Assemble(Line.op, operand, labelTable)
    /\ position' = position + 1
    /\ currentAddress' = currentAddress + 1
    /\ UNCHANGED <<file, pass, labelTable>>

\* singlePassAssembler(): the label first, if it is new, then the instruction.  A
\* label that is not new is not reported.
SinglePassLine ==
    /\ pass = "singlePass" /\ MoreLines /\ Line.kind = "code"
    /\ IF Line.label # "" /\ FindSymbol(labelTable, Line.label) = -1
       THEN AddSymbol(Line.label) ELSE UNCHANGED labelTable
    /\ \E operand \in Operands : Assemble(Line.op, operand, labelTable')
    /\ position' = position + 1
    /\ currentAddress' = currentAddress + 1
    /\ UNCHANGED <<file, pass>>

\* strtok() finds no word: assembleInstruction(NULL).
Crash == /\ pass \in {"secondPass", "singlePass"}
         /\ MoreLines /\ Line.kind = "spaces"
         /\ pass' = "crashed"
         /\ UNCHANGED <<file, position, currentAddress, labelTable, machineCode,
                        codeCount, errors>>

PassEnds == /\ pass \in {"secondPass", "singlePass"} /\ ~ MoreLines
            /\ pass' = "optimize"
            /\ UNCHANGED <<file, position, currentAddress, labelTable,
                           machineCode, codeCount, errors>>

IsHalt(a) == machineCode[a].opcode = opcodeTable.HALT

\* Mutant of Optimize: the last two entries are not looked at.
OptimizeShort ==
    /\ pass = "optimize"
    /\ machineCode' = [a \in Address |->
                          IF a < codeCount - 2 /\ IsHalt(a) /\ IsHalt(a + 1)
                          THEN NoCode ELSE machineCode[a]]
    /\ pass' = "printed"
    /\ UNCHANGED <<file, position, currentAddress, labelTable, codeCount, errors>>

\* optimizeMachineCode(): of adjacent HALTs all but the last are cleared; then the
\* first codeCount entries are printed.
Optimize ==
    /\ pass = "optimize"
    /\ machineCode' = [a \in Address |->
                          IF a < codeCount - 1 /\ IsHalt(a) /\ IsHalt(a + 1)
                          THEN NoCode ELSE machineCode[a]]
    /\ pass' = "printed"
    /\ UNCHANGED <<file, position, currentAddress, labelTable, codeCount, errors>>

Exited == pass \in Finished /\ UNCHANGED assemblerVars

AssemblerNext == \/ SkipLine \/ FirstPassLine \/ Rewind \/ SecondPassLine
                 \/ SinglePassLine \/ Crash \/ PassEnds \/ Optimize \/ Exited

AssemblerSpec == AssemblerInit /\ [][AssemblerNext]_assemblerVars

-----------------------------------------------------------------------------

\* Every variable has its type; no address is outside machineCode.
AssemblerTypeOK ==
    /\ position \in 0 .. Len(file)
    /\ currentAddress \in 0 .. position
    /\ \A e \in Range(labelTable) : e.symbol \in Labels /\ e.address \in Address
    /\ machineCode \in [Address -> [opcode : Range(opcodeTable) \cup {-1},
                                   address : Address]]
    /\ codeCount \in 0 .. currentAddress
    /\ \A e \in Range(errors) : e.lineNumber \in Address
    /\ pass \in {"firstPass", "secondPass", "singlePass", "optimize"}
                \cup Finished

\* The lines up to the n-th that take an address: a line's own is their number
\* before it.
Addressed(n) == {k \in 1 .. n : file[k].kind # "skip"}
AddressOf(k) == Cardinality(Addressed(k - 1))
Labelled(k, label) == file[k].kind = "code" /\ file[k].label = label

\* A symbol stands for the first line it labels; once the pass that collects them
\* is over, each label is in the table.  Both modes count addresses alike.
SymbolsAtTheirLines ==
    /\ \A e \in Range(labelTable) :
           \E k \in 1 .. Len(file) : /\ Labelled(k, e.symbol)
                                     /\ AddressOf(k) = e.address
                                     /\ \A j \in 1 .. k - 1 : ~ Labelled(j, e.symbol)
    /\ pass \in {"secondPass", "optimize", "printed"} =>
           \A k \in 1 .. Len(file), label \in Labels :
               Labelled(k, label) => FindSymbol(labelTable, label) # -1

\* Types, and the table both passes rely on.
AssemblerInv == AssemblerTypeOK /\ SymbolsAtTheirLines

Refused(a) == \E e \in Range(errors) :
                 e.lineNumber = a /\ e.message # "Duplicate label"

\* The code generator answers every line: at its address stands its own opcode, or
\* an error has been reported of it, never both; codeCount is the number of codes.
CodeOrError ==
    pass \in {"secondPass", "singlePass", "optimize"} =>
        /\ \A k \in Addressed(position) :
               IF Refused(AddressOf(k)) THEN machineCode[AddressOf(k)] = NoCode
               ELSE /\ machineCode[AddressOf(k)] # NoCode
                    /\ file[k].op \in Operations
                    /\ machineCode[AddressOf(k)].opcode = opcodeTable[file[k].op]
        /\ codeCount = Cardinality({a \in Address : machineCode[a] # NoCode})

\* printMachineCode(): the entries among the first codeCount that are not empty.
Printed(a) == a < codeCount /\ machineCode[a] # NoCode

\* The redundant-HALT optimization is complete when no line was refused: no two
\* HALTs are printed one after the other; and it loses nothing else: every other
\* line is printed, and the last one whatever it is.
OneHalt ==
    pass = "printed" /\ (\A a \in Address : ~ Refused(a)) =>
        /\ \A a, b \in Address :
               a < b /\ Printed(a) /\ Printed(b) /\ IsHalt(a) /\ IsHalt(b) =>
                   \E c \in a + 1 .. b - 1 : Printed(c)
        /\ \A k \in Addressed(Len(file)) :
               file[k].op # "HALT" \/ Addressed(Len(file)) = Addressed(k) =>
                   /\ Printed(AddressOf(k))
                   /\ machineCode[AddressOf(k)].opcode = opcodeTable[file[k].op]
=============================================================================
