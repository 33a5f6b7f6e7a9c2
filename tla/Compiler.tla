------------------------------ MODULE Compiler ------------------------------
(***************************************************************************)
(* The read-compile loop of src/compiler.c.  Every line is tokenized into  *)
(* the global array tokens[], parsed, checked and answered; any error ends *)
(* the process.                                                            *)
(*                                                                         *)
(* A token is its class: the keywords "int", "if" and "print", "id",       *)
(* "lit", "=", "op" (every other operator or bracket), ";" and "EOF".      *)
(* "zero" is a slot never written: type 0 is TOKEN_KEYWORD, with value "". *)
(* Lines longer than tokens[] are outside the model: nothing checks them.  *)
(***************************************************************************)
EXTENDS Integers, Sequences, FiniteSetsExt

CONSTANTS Lines,      \* the lines that may be typed, tokenized
          MaxTokens   \* MAX_TOKENS

TokenClass == {"int", "if", "print", "id", "lit", "=", "op", ";"}

ASSUME CompilerInputs == /\ Lines \subseteq Seq(TokenClass)
                         /\ MaxTokens \in Nat \ {0}
                         /\ \A line \in Lines : Len(line) + 2 <= MaxTokens

Slot == 0 .. MaxTokens - 1

VARIABLES tokens,        \* the array: slots at and past tokenCount are stale
          tokenCount, currentToken,
          symbolTable,   \* names declared: none is ever marked initialized
          phase,
          line,          \* sourceCode: the line being compiled
          eof            \* standard input has ended

vars == <<tokens, tokenCount, currentToken, symbolTable, phase, line, eof>>

\* Nothing has been read into sourceCode yet.
Unread == <<"unread">>

\* "prompt": waiting for a line; "parse": in parseProgram(); "parsed": it
\* returned; the others are the ways the process ends.
Ends == {"exit", "lexical_error", "syntax_error", "semantic_error"}

Init == /\ tokens = [k \in Slot |-> "zero"]
        /\ tokenCount = 0 /\ currentToken = 0
        /\ symbolTable = {}
        /\ phase = "prompt"
        /\ line = Unread
        /\ eof = FALSE

\* Mutant of Prepare: the parser's position is not reset.
PrepareKeepsPosition(l) ==
    /\ tokens' = [k \in Slot |-> IF k < Len(l) THEN l[k + 1]
                                 ELSE IF k = Len(l) THEN "EOF" ELSE tokens[k]]
    /\ tokenCount' = Len(l) + 1
    /\ symbolTable' = {}
    /\ currentToken' = Min({currentToken, Len(l) + 1})

\* clearGlobalState() resets the counts, not the array, and tokenize() fills the
\* front of it.
Prepare(l) ==
    /\ tokens' = [k \in Slot |-> IF k < Len(l) THEN l[k + 1]
                                 ELSE IF k = Len(l) THEN "EOF" ELSE tokens[k]]
    /\ tokenCount' = Len(l) + 1
    /\ symbolTable' = {}
    /\ currentToken' = 0

Compile(l) == /\ phase = "prompt"
              /\ Prepare(l)
              /\ phase' = "parse"
              /\ line' = l
              /\ UNCHANGED eof

\* The line starts with "exit", or holds a character tokenize() does not know.
Exit == /\ phase = "prompt"
        /\ phase' \in {"exit", "lexical_error"}
        /\ UNCHANGED <<tokens, tokenCount, currentToken, symbolTable, line, eof>>

\* A line is typed.
Typed == ~ eof /\ (Exit \/ \E l \in Lines : Compile(l))

EndOfInput == /\ phase = "prompt" /\ ~ eof
              /\ eof' = TRUE
              /\ UNCHANGED <<tokens, tokenCount, currentToken, symbolTable, phase, line>>

\* Mutant of Reread: the result of fgets() is looked at.
RereadChecked == eof /\ Exit

\* At the end of input fgets() leaves the array as it is, and main() does not look at
\* what it returns.  An array nothing was ever read into may hold any line.
Reread == /\ eof
          /\ \/ line # Unread /\ Compile(line)
             \/ line = Unread /\ (Exit \/ \E l \in Lines : Compile(l))

-----------------------------------------------------------------------------
(* The parser.  Peek(k) is what the k-th getNextToken() from here returns,  *)
(* counting from 0; Consumed(n) is currentToken after n of them: past the   *)
(* last token getNextToken() returns EOF and stays.                         *)

Peek(k) == IF currentToken + k < tokenCount THEN tokens[currentToken + k] ELSE "EOF"

\* Mutant of Consumed: getNextToken() runs past the last token.
ConsumedUnbounded(n) == Min({currentToken + n, MaxTokens - 1})

Consumed(n) == Min({currentToken + n, tokenCount})

Operand == {"lit", "id"}

\* parseProgram() looks at the array itself, at a stale slot if the EOF token
\* was consumed.
InStatement == phase = "parse" /\ tokens[currentToken] # "EOF"

\* n tokens are consumed, and reportSyntaxError() ends the process unless all
\* the tokens in which parseExpression() wants an operand are operands.
Take(n, operands) ==
    /\ currentToken' = Consumed(n)
    /\ phase' = IF operands \subseteq Operand THEN phase ELSE "syntax_error"
    /\ UNCHANGED <<tokens, tokenCount, line, eof>>

\* Whatever follows "int" is declared, and one more token is consumed in any case.
Declaration ==
    /\ InStatement
    /\ Peek(0) = "int"
    /\ symbolTable' = symbolTable \cup {Peek(1)}
    /\ IF Peek(2) = "=" THEN Take(4, {Peek(3)}) ELSE Take(3, {})

Assignment ==
    /\ InStatement
    /\ Peek(0) = "id"
    /\ IF Peek(1) = "=" THEN Take(3, {Peek(2)}) ELSE Take(2, {})
    /\ UNCHANGED symbolTable

PrintStatement == /\ InStatement
                  /\ Peek(0) = "print"
                  /\ Take(2, {Peek(1)})
                  /\ UNCHANGED symbolTable

\* parseCondition() checks neither bracket nor operator.
IfStatement == /\ InStatement
               /\ Peek(0) = "if"
               /\ Take(6, {Peek(2), Peek(4)})
               /\ UNCHANGED symbolTable

\* Mutant of InvalidStatement: the error is reported and parsing goes on.
InvalidReported == /\ InStatement
                   /\ Peek(0) \notin {"int", "id", "print", "if"}
                   /\ currentToken' = Consumed(1)
                   /\ UNCHANGED <<tokens, tokenCount, symbolTable, phase, line, eof>>

InvalidStatement == /\ InStatement
                    /\ Peek(0) \notin {"int", "id", "print", "if"}
                    /\ currentToken' = Consumed(1)
                    /\ phase' = "syntax_error"
                    /\ UNCHANGED <<tokens, tokenCount, symbolTable, line, eof>>

ParseDone == /\ phase = "parse"
             /\ tokens[currentToken] = "EOF"
             /\ phase' = "parsed"
             /\ UNCHANGED <<tokens, tokenCount, currentToken, symbolTable, line, eof>>

\* semanticCheck(), then the generated code is printed and the loop goes round.
SemanticCheck == /\ phase = "parsed"
                 /\ phase' = IF symbolTable = {} THEN "prompt" ELSE "semantic_error"
                 /\ UNCHANGED <<tokens, tokenCount, currentToken, symbolTable, line, eof>>

Ended == phase \in Ends /\ UNCHANGED vars

Statement == Declaration \/ Assignment \/ PrintStatement \/ IfStatement
             \/ InvalidStatement

Work == Statement \/ ParseDone \/ SemanticCheck \/ Reread

Next == Typed \/ EndOfInput \/ Work \/ Ended

\* The process computes until it waits for input, which at its end it does not.
Spec == Init /\ [][Next]_vars /\ WF_vars(Work)

-----------------------------------------------------------------------------

\* Every variable has its type; the parser is never past the stale slot that
\* follows the EOF token.
TypeOK == /\ tokens \in [Slot -> TokenClass \cup {"EOF", "zero"}]
          /\ tokenCount \in Slot
          /\ currentToken \in 0 .. tokenCount
          /\ symbolTable \subseteq TokenClass \cup {"EOF"}
          /\ phase \in {"prompt", "parse", "parsed"} \cup Ends
          /\ line \in Lines \cup {Unread}
          /\ eof \in BOOLEAN

\* Types, and what the parser relies on: the array holds the line and its EOF.
CompilerInv ==
    /\ TypeOK
    /\ IF line = Unread THEN phase \notin {"parse", "parsed"}
       ELSE /\ tokenCount = Len(line) + 1
            /\ \A k \in 1 .. Len(line) : tokens[k - 1] = line[k]
            /\ tokens[Len(line)] = "EOF"

\* The statements of the language, as token sequences.
IsStatement(s) ==
    \/ Len(s) = 2 /\ s[1] = "id" /\ s[2] # "="
    \/ Len(s) = 3 /\ s[1] = "id" /\ s[2] = "=" /\ s[3] \in Operand
    \/ Len(s) = 3 /\ s[1] = "int" /\ s[3] # "="
    \/ Len(s) = 4 /\ s[1] = "int" /\ s[3] = "=" /\ s[4] \in Operand
    \/ Len(s) = 2 /\ s[1] = "print" /\ s[2] \in Operand
    \/ Len(s) = 6 /\ s[1] = "if" /\ s[3] \in Operand /\ s[5] \in Operand

\* Places of l, the first and the last among them: at each but the last a statement
\* starts that ends just before another.
Chain(l, places, last) ==
    /\ 1 \in places /\ last \in places
    /\ \A k \in places \ {last} : \E e \in k .. Len(l) :
           IsStatement(SubSeq(l, k, e)) /\ e + 1 \in places

\* A program is a sequence of statements that takes the whole line.
IsProgram(l) == \E places \in SUBSET (1 .. Len(l) + 1) : Chain(l, places, Len(l) + 1)

\* The parser accepts every program and nothing else, except that a line whose
\* last statement takes the EOF token for one of its own may go either way.
ParsesPrograms ==
    /\ phase = "parsed" => IsProgram(line) \/ currentToken = tokenCount
    /\ phase = "syntax_error" => ~ IsProgram(line)

\* Every line that is read is answered: by a prompt or by the end of the process.
LineAnswered == phase = "parse" ~> phase \in {"prompt"} \cup Ends

\* A line accepted when the input ends is compiled again and again, and the process
\* never ends.
EndOfInputLoops ==
    [](eof /\ phase = "prompt" /\ line # Unread => []<>(phase = "parse"))
=============================================================================
