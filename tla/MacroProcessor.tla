---------------------------- MODULE MacroProcessor ----------------------------
(***************************************************************************)
(* The macro processor of src/macroprocessor.c.                            *)
(*                                                                         *)
(* A line is its first word and the items between its parentheses, commas  *)
(* and blanks removed; of a "#define" line, the name and the parameters as *)
(* sscanf() finds them.  A call is one only if a blank follows the name:   *)
(* the first word of "M(x)" is not "M", so such a line is ordinary code.   *)
(* Items are texts, the placeholders among them.                           *)
(***************************************************************************)
EXTENDS Integers, Sequences, Functions

CONSTANTS Text,                \* first words, items and values in the files
          Inputs               \* the files given to the program

\* What a line holds whose items are from a set.
LineOf(items) == [kind : {"define", "end", "code", "blank"}, word : Text, args : Seq(items)]

\* A macro has at most as many parameters as there are placeholders of two
\* characters; the tenth would begin with the first.
Placeholder == <<"$1", "$2", "$3", "$4", "$5", "$6", "$7", "$8", "$9">>
Stale == "stale"               \* what an array holds that nothing was written to

ValidInputs ==
    /\ Stale \notin Text
    /\ \A file \in Inputs :
         /\ file \in Seq(LineOf(Text))
         /\ \A k \in DOMAIN file :
              file[k].kind = "define" => Len(file[k].args) <= Len(Placeholder)

ASSUME MacroInputs == ValidInputs

VARIABLES inputCode,
          i,                   \* preprocessCode()'s line, from 1
          macroTable,          \* name, argCount, definition, in order of appearance
          outputCode,
          pc                   \* "running", "done" or "exit"

macroVars == <<inputCode, i, macroTable, outputCode, pc>>

MacroInit == /\ inputCode \in Inputs
             /\ i = 1
             /\ macroTable = <<>>
             /\ outputCode = <<>>
             /\ pc = "running"

AtLine(kinds) == /\ pc = "running" /\ i <= Len(inputCode)
                 /\ inputCode[i].kind \in kinds

Minimum(S) == CHOOSE m \in S : \A k \in S : m <= k

\* Mutant of DefinitionEnd: the "#end" stays in the definition.
DefinitionEndKept(d) ==
    1 + Minimum({k \in d + 1 .. Len(inputCode) : inputCode[k].kind = "end"}
                \cup {Len(inputCode)})

\* A definition ends at the next "#end", or it swallows the rest of the file.
DefinitionEnd(d) ==
    Minimum({k \in d + 1 .. Len(inputCode) : inputCode[k].kind = "end"}
            \cup {Len(inputCode) + 1})

\* processMacroDefinition(): a name may be defined again.
ProcessMacroDefinition ==
    LET e == DefinitionEnd(i)
    IN  /\ AtLine({"define"})
        /\ macroTable' = Append(macroTable,
                           [name       |-> inputCode[i].word,
                            argCount   |-> Len(inputCode[i].args),
                            definition |-> SubSeq(inputCode, i + 1, e - 1)])
        /\ i' = e + 1
        /\ UNCHANGED <<inputCode, outputCode, pc>>

-----------------------------------------------------------------------------

Defining(name) == {m \in DOMAIN macroTable : macroTable[m].name = name}

\* Mutant of FindMacro: the newest definition is found.
FindMacroNewest(name) ==
    IF Defining(name) = {} THEN 0
    ELSE CHOOSE m \in Defining(name) : \A k \in Defining(name) : k <= m

\* The oldest definition of a name; 0 stands for -1.
FindMacro(name) == IF Defining(name) = {} THEN 0 ELSE Minimum(Defining(name))

\* The FIRST occurrence of a placeholder in a list of items gets the value.
Replace(items, j, value) ==
    LET at == {k \in DOMAIN items : items[k] = Placeholder[j]}
    IN  IF at = {} THEN items ELSE [items EXCEPT ![Minimum(at)] = value]

\* Mutant of ArgValue: counted from 0.
ArgValueShifted(args, j) == IF j < Len(args) THEN args[j + 1] ELSE Stale

\* A parameter the call gives no value is whatever is in argValues.
ArgValue(args, j) == IF j <= Len(args) THEN args[j] ELSE Stale

\* One line of a definition, one parameter after the other: the value of an
\* earlier one may hold the placeholder of a later one.
ExpandedLine(line, args, argCount) ==
    LET items[j \in 0 .. argCount] ==
            IF j = 0 THEN line.args ELSE Replace(items[j - 1], j, ArgValue(args, j))
    IN  [line EXCEPT !.args = items[argCount]]

\* expandMacro(): the lines are not scanned for macro calls again.
Expansion(m, args) ==
    [k \in DOMAIN macroTable[m].definition |->
        ExpandedLine(macroTable[m].definition[k], args, macroTable[m].argCount)]

Emit(lines) == /\ outputCode' = outputCode \o lines
               /\ i' = i + 1
               /\ UNCHANGED <<inputCode, macroTable, pc>>

CopyLine == /\ AtLine({"code", "end"})
            /\ FindMacro(inputCode[i].word) = 0
            /\ Emit(<<inputCode[i]>>)

ExpandMacro == /\ AtLine({"code", "end"})
               /\ FindMacro(inputCode[i].word) # 0
               /\ Emit(Expansion(FindMacro(inputCode[i].word), inputCode[i].args))

\* sscanf() finds no word in a blank line, so preprocessCode() looks up what
\* macroName held before, and if that is a macro expandMacro() looks up what its
\* own macroName happens to hold: any macro, or none and the program exits.
BlankLine ==
    /\ AtLine({"blank"})
    /\ \/ Emit(<<inputCode[i]>>)
       \/ \E m \in DOMAIN macroTable : Emit(Expansion(m, <<>>))
       \/ /\ macroTable # <<>>
          /\ pc' = "exit"
          /\ UNCHANGED <<inputCode, i, macroTable, outputCode>>

WriteOutputFile == /\ pc = "running" /\ i > Len(inputCode)
                   /\ pc' = "done"
                   /\ UNCHANGED <<inputCode, i, macroTable, outputCode>>

MacroNext == ProcessMacroDefinition \/ CopyLine \/ ExpandMacro \/ BlankLine \/ WriteOutputFile

MacroSpec == MacroInit /\ [][MacroNext]_macroVars

-----------------------------------------------------------------------------

\* Types; and the table holds the definitions met so far, whole ones, which with the
\* lines still to come never exceed the input.
MacroInv ==
    /\ inputCode \in Seq(LineOf(Text)) /\ outputCode \in Seq(LineOf(Text \cup {Stale}))
    /\ i \in 1 .. Len(inputCode) + 2
    /\ \A m \in DOMAIN macroTable :
         LET macro == macroTable[m]
         IN  \E d \in 1 .. i - 1 :
               /\ d + Len(macro.definition) + 1 < i
               /\ inputCode[d].kind = "define" /\ inputCode[d].word = macro.name
               /\ \A k \in DOMAIN macro.definition :
                    /\ macro.definition[k] = inputCode[d + k]
                    /\ macro.definition[k].kind # "end"
    /\ pc = "exit" => macroTable # <<>>

\* A line is in a definition when a "#define" that is not itself in one comes
\* before it with no "#end" between.
InDefinition ==
    LET in[k \in 0 .. Len(inputCode)] ==
            /\ k > 1
            /\ \/ inputCode[k - 1].kind = "define"
               \/ in[k - 1] /\ inputCode[k - 1].kind # "end"
    IN  in

Body(d) == {k \in d + 1 .. Len(inputCode) :
              \A n \in d + 1 .. k : InDefinition[n] /\ inputCode[n].kind # "end"}

\* The definition a line's first word stands for: the first that is over by then.
DefinitionFor(k) ==
    {d \in 1 .. k - 1 : /\ inputCode[d].kind = "define" /\ ~ InDefinition[d]
                        /\ inputCode[d].word = inputCode[k].word}

\* Every parameter at once, each where its placeholder first appears.
Substituted(line, args, argCount) ==
    [line EXCEPT !.args =
       [n \in DOMAIN line.args |->
          IF \E j \in 1 .. argCount :
                /\ line.args[n] = Placeholder[j]
                /\ \A p \in 1 .. n - 1 : line.args[p] # Placeholder[j]
          THEN args[CHOOSE j \in 1 .. argCount : line.args[n] = Placeholder[j]]
          ELSE line.args[n]]]

\* What the k-th line of the input should add to the output.
Contribution(k) ==
    IF inputCode[k].kind = "define" \/ InDefinition[k] THEN <<>>
    ELSE IF DefinitionFor(k) = {} THEN <<inputCode[k]>>
    ELSE LET d == Minimum(DefinitionFor(k))
         IN  [b \in {b \in DOMAIN inputCode : d + b \in Body(d)} |->
                 Substituted(inputCode[d + b], inputCode[k].args, Len(inputCode[d].args))]

\* What all lines should add, one after the other.
Expanded ==
    LET out[k \in 0 .. Len(inputCode)] ==
            IF k = 0 THEN <<>> ELSE out[k - 1] \o Contribution(k)
    IN  out

Plain == /\ \A k \in DOMAIN inputCode :
              inputCode[k].kind \in {"code", "end"} /\ ~ InDefinition[k] =>
                /\ \A n \in DOMAIN inputCode[k].args :
                     inputCode[k].args[n] \notin Range(Placeholder)
                /\ \A d \in DefinitionFor(k) :
                     Len(inputCode[k].args) >= Len(inputCode[d].args)
         /\ \A k \in DOMAIN inputCode : inputCode[k].kind = "blank" => InDefinition[k]

\* On a file with no blank line outside a definition, no call short of values and no
\* placeholder for a value, the output is the input with its calls replaced: by the
\* first definition of the name, if it precedes the call, with all parameters
\* substituted at once.
OutputIsExpansion == pc = "done" /\ Plain => outputCode = Expanded[Len(inputCode)]

\* Memory nothing was written to gets into the output, and "Undefined macro" is
\* reported, only through a blank line or a call with too few values.
StaleNeedsCause ==
    \/ \E k \in 1 .. i : k <= Len(inputCode) /\ ~ InDefinition[k]
         /\ \/ inputCode[k].kind = "blank"
            \/ /\ inputCode[k].kind \in {"code", "end"}
               /\ \E d \in DefinitionFor(k) :
                    Len(inputCode[k].args) < Len(inputCode[d].args)
    \/ /\ pc # "exit"
       /\ \A k \in DOMAIN outputCode :
            \A n \in DOMAIN outputCode[k].args : outputCode[k].args[n] # Stale
=============================================================================
