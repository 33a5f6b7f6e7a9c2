-------------------------- MODULE TranslatorProofs --------------------------
(***************************************************************************)
(* Proofs about Compiler, Assembler and MacroProcessor: for any lines that *)
(* may be typed and any size of the token array they fit into, and for any *)
(* source files.                                                           *)
(***************************************************************************)
EXTENDS Compiler, Assembler, MacroProcessor, FiniteSetTheorems,
        WellFoundedInduction, TLAPS

\* A set of natural numbers with an element has a least one.
LEMMA LeastNat ==
    ASSUME NEW T, T \subseteq Nat, T # {}
    PROVE  \E x \in T : \A y \in T : x <= y
<1> DEFINE R == {ss \in Nat \X Nat : ss[1] < ss[2]}
<1>1. IsWellFoundedOn(R, Nat)
  BY NatLessThanWellFounded DEF OpToRel
<1>2. \A x, y \in Nat : <<y, x>> \notin R => x <= y
  OBVIOUS
<1> HIDE DEF R
<1>3. PICK x \in T : \A y \in T : <<y, x>> \notin R
  BY <1>1, WFMin
<1>4. QED
  BY <1>2, <1>3

\* A set that has 0, and n + 1 with n, up to a bound, has all numbers up to it.
LEMMA UpTo ==
    ASSUME NEW N \in Nat, NEW S, 0 \in S,
           \A n \in 0 .. N - 1 : n \in S => n + 1 \in S
    PROVE  0 .. N \subseteq S
<1> SUFFICES ASSUME ~ (0 .. N \subseteq S) PROVE FALSE
  OBVIOUS
<1> DEFINE T == {n \in 0 .. N : n \notin S}
<1>1. PICK m \in T : \A y \in T : m <= y
  <2>1. T \subseteq Nat /\ T # {}
    OBVIOUS
  <2> HIDE DEF T
  <2>2. QED
    BY <2>1, LeastNat
<1>2. m \in 1 .. N
  OBVIOUS
<1>3. m - 1 \in 0 .. N - 1 /\ m - 1 \notin T
  BY <1>1, <1>2
<1>4. m - 1 \in S
  BY <1>3
<1>5. QED
  BY <1>2, <1>3, <1>4

-----------------------------------------------------------------------------
(***************************************************************************)
(* The compiler.                                                           *)
(***************************************************************************)

\* Where the parser stands in the line, counting from 1.
Place == currentToken + 1

\* Statements lead from the start of the line to the parser's place.
Reached == \E places \in SUBSET (1 .. Len(line) + 1) : Chain(line, places, Place)

\* Every way of cutting the line into statements cuts it at the parser's place.
Unavoidable == \A places \in SUBSET (1 .. Len(line) + 1) :
                   Chain(line, places, Len(line) + 1) => Place \in places

Position == /\ phase = "parse" => /\ Reached \/ currentToken = tokenCount
                                  /\ Unavoidable
            /\ ParsesPrograms

IInv == CompilerInv /\ Position

-----------------------------------------------------------------------------

\* The lesser of two numbers.
LEMMA MinOfTwo == ASSUME NEW a \in Int, NEW b \in Int
                  PROVE  Min({a, b}) = IF a <= b THEN a ELSE b
<1>1. Min({a, b}) \in {a, b} /\ \A y \in {a, b} : Min({a, b}) <= y
  <2>1. \E x \in {a, b} : \A y \in {a, b} : x <= y
    OBVIOUS
  <2>2. QED
    BY <2>1 DEF Min
<1>2. QED
  BY <1>1

\* A statement of the language, spelt out where it stands in the line.
StatementAt(l, k, e) ==
    \/ e = k + 1 /\ l[k] = "id" /\ l[k + 1] # "="
    \/ e = k + 2 /\ l[k] = "id" /\ l[k + 1] = "=" /\ l[k + 2] \in Operand
    \/ e = k + 2 /\ l[k] = "int" /\ l[k + 2] # "="
    \/ e = k + 3 /\ l[k] = "int" /\ l[k + 2] = "=" /\ l[k + 3] \in Operand
    \/ e = k + 1 /\ l[k] = "print" /\ l[k + 1] \in Operand
    \/ e = k + 5 /\ l[k] = "if" /\ l[k + 2] \in Operand /\ l[k + 4] \in Operand

\* That is what the model calls a statement.
LEMMA StatementSpelt ==
    ASSUME NEW l \in Seq(TokenClass), NEW k \in 1 .. Len(l), NEW e \in k .. Len(l)
    PROVE  IsStatement(SubSeq(l, k, e)) <=> StatementAt(l, k, e)
<1> DEFINE s == SubSeq(l, k, e)
<1>1. /\ Len(l) \in Nat /\ Len(s) = e - k + 1
      /\ \A q \in 1 .. e - k + 1 : s[q] = l[k + q - 1]
  OBVIOUS
<1> HIDE DEF s
<1>2. IsStatement(s) => StatementAt(l, k, e)
  BY <1>1, SMTT(30) DEF IsStatement, StatementAt
<1>3. StatementAt(l, k, e) => IsStatement(s)
  BY <1>1 DEF IsStatement, StatementAt
<1>4. QED
  BY <1>2, <1>3 DEF s

\* What the array and the line are while there is a line.
LEMMA LineIs ==
    ASSUME CompilerInv, line # Unread
    PROVE  /\ line \in Lines /\ line \in Seq(TokenClass) /\ Len(line) \in Nat
           /\ Len(line) + 2 <= MaxTokens /\ MaxTokens \in Nat
           /\ tokenCount = Len(line) + 1 /\ currentToken \in 0 .. tokenCount
           /\ tokens[Len(line)] = "EOF"
           /\ \A k \in 1 .. Len(line) : tokens[k - 1] = line[k] /\ line[k] \in TokenClass
<1>1. line \in Lines /\ line \in Seq(TokenClass)
  BY CompilerInputs DEF CompilerInv, TypeOK
<1>2. Len(line) \in Nat /\ \A k \in 1 .. Len(line) : line[k] \in TokenClass
  BY <1>1
<1>3. QED
  BY <1>1, <1>2, CompilerInputs DEF CompilerInv, TypeOK

\* What the parser sees ahead.
LEMMA PeekIs ==
    ASSUME CompilerInv, line # Unread, NEW q \in Nat
    PROVE  /\ Peek(q) \in TokenClass \cup {"EOF"}
           /\ currentToken + q < Len(line) => Peek(q) = line[Place + q]
           /\ currentToken + q >= Len(line) => Peek(q) = "EOF"
<1>1. /\ tokenCount = Len(line) + 1 /\ Len(line) \in Nat /\ currentToken \in Nat
      /\ tokens[Len(line)] = "EOF"
  BY LineIs
<1>2. CASE currentToken + q < Len(line)
  <2>1. Place + q \in 1 .. Len(line) /\ (Place + q) - 1 = currentToken + q
    BY <1>1, <1>2 DEF Place
  <2>2. tokens[currentToken + q] = line[Place + q] /\ line[Place + q] \in TokenClass
    BY <2>1, LineIs
  <2>3. QED
    BY <1>1, <1>2, <2>2 DEF Peek
<1>3. CASE currentToken + q = Len(line)
  BY <1>1, <1>3 DEF Peek
<1>4. CASE currentToken + q > Len(line)
  BY <1>1, <1>4 DEF Peek
<1>5. QED
  BY <1>1, <1>2, <1>3, <1>4

-----------------------------------------------------------------------------

\* The compiler starts with nothing read.
LEMMA InitIInv == Init => IInv
<1>1. Unread \notin Lines
  <2>1. Unread \notin Seq(TokenClass)
    <3>1. Len(Unread) = 1 /\ Unread[1] = "unread" /\ "unread" \notin TokenClass
      BY DEF Unread, TokenClass
    <3>2. QED
      BY <3>1
  <2>2. QED
    BY <2>1, CompilerInputs
<1>2. QED
  BY CompilerInputs
     DEF Init, IInv, CompilerInv, TypeOK, Slot, Position, ParsesPrograms

\* A line is tokenized: the parser stands at its start.
LEMMA CompileIInv == ASSUME IInv, NEW l \in Lines, Compile(l) PROVE IInv'
<1>1. /\ l \in Seq(TokenClass) /\ Len(l) \in Nat /\ Len(l) + 2 <= MaxTokens
      /\ \A k \in 1 .. Len(l) : l[k] \in TokenClass
      /\ MaxTokens \in Nat
  BY CompilerInputs
<1>2. /\ tokens' = [k \in Slot |-> IF k < Len(l) THEN l[k + 1]
                                   ELSE IF k = Len(l) THEN "EOF" ELSE tokens[k]]
      /\ tokenCount' = Len(l) + 1 /\ currentToken' = 0
      /\ symbolTable' = {} /\ phase' = "parse" /\ line' = l /\ eof' = eof
  BY DEF Compile, Prepare
<1>3. TypeOK'
  <2>1. tokens' \in [Slot -> TokenClass \cup {"EOF", "zero"}]
    <3>1. \A k \in Slot : k < Len(l) => l[k + 1] \in TokenClass
      BY <1>1 DEF Slot
    <3>2. \A k \in Slot : tokens[k] \in TokenClass \cup {"EOF", "zero"}
      BY DEF IInv, CompilerInv, TypeOK
    <3>3. QED
      BY <1>2, <3>1, <3>2
  <2>2. QED
    BY <1>1, <1>2, <2>1 DEF IInv, CompilerInv, TypeOK, Slot
<1>4. line' # Unread
  <2>1. l[1] \in TokenClass \/ Len(l) = 0
    BY <1>1
  <2>2. Len(Unread) = 1 /\ Unread[1] = "unread" /\ "unread" \notin TokenClass
    BY DEF Unread, TokenClass
  <2>3. QED
    BY <1>2, <2>1, <2>2
<1>5. CompilerInv'
  <2>1. \A k \in 1 .. Len(l) : tokens'[k - 1] = l[k]
    BY <1>1, <1>2 DEF Slot
  <2>2. tokens'[Len(l)] = "EOF"
    BY <1>1, <1>2 DEF Slot
  <2>3. QED
    BY <1>2, <1>3, <1>4, <2>1, <2>2 DEF CompilerInv
<1>6. Reached'
  <2>1. Chain(l, {1}, 1)
    BY DEF Chain
  <2>2. {1} \in SUBSET (1 .. Len(l) + 1) /\ Place' = 1
    BY <1>1, <1>2 DEF Place
  <2>3. QED
    BY <1>2, <2>1, <2>2 DEF Reached
<1>7. Unavoidable'
  BY <1>2 DEF Unavoidable, Chain, Place
<1>8. QED
  BY <1>2, <1>5, <1>6, <1>7 DEF IInv, Position, ParsesPrograms
\* The parser consumes n tokens, where the only statement that may stand is one of n
\* tokens, and does stand if the operands are operands and the line is long enough.
LEMMA TakeIInv ==
    ASSUME IInv, InStatement, Peek(0) # "EOF",
           NEW n \in {2, 3, 4, 6}, NEW operands, Take(n, operands),
           symbolTable' \subseteq TokenClass \cup {"EOF"},
           \A e \in Place .. Len(line) :
               StatementAt(line, Place, e) => e + 1 = Place + n /\ operands \subseteq Operand,
           operands \subseteq Operand /\ currentToken + n <= Len(line)
               => StatementAt(line, Place, currentToken + n)
    PROVE  IInv'
<1>1. /\ phase = "parse" /\ line # Unread /\ CompilerInv
      /\ currentToken' = Consumed(n)
      /\ phase' = IF operands \subseteq Operand THEN phase ELSE "syntax_error"
      /\ UNCHANGED <<tokens, tokenCount, line, eof>>
  BY DEF InStatement, Take, IInv, CompilerInv
<1>2. /\ line \in Seq(TokenClass) /\ Len(line) \in Nat /\ tokenCount = Len(line) + 1
      /\ currentToken \in 0 .. tokenCount
  BY <1>1, LineIs
<1>3. currentToken < Len(line)
  BY <1>1, <1>2, PeekIs
<1>4. Place \in 1 .. Len(line) /\ Place + n \in Nat
  BY <1>2, <1>3 DEF Place
<1>5. currentToken' = IF currentToken + n <= tokenCount THEN currentToken + n ELSE tokenCount
  BY <1>1, <1>2, MinOfTwo DEF Consumed
<1>6. CompilerInv'
  <2>1. currentToken' \in 0 .. tokenCount
    BY <1>2, <1>5
  <2>2. TypeOK'
    BY <1>1, <2>1 DEF CompilerInv, TypeOK, Ends
  <2>3. QED
    BY <1>1, <2>2 DEF CompilerInv
\* A cut of the line into statements goes on with the one just consumed.
<1>7. ASSUME NEW places \in SUBSET (1 .. Len(line) + 1),
             Chain(line, places, Len(line) + 1)
      PROVE  Place + n \in places /\ operands \subseteq Operand
  <2>1. Place \in places
    BY <1>1, <1>7 DEF IInv, Position, Unavoidable
  <2>2. PICK e \in Place .. Len(line) :
            IsStatement(SubSeq(line, Place, e)) /\ e + 1 \in places
    BY <1>4, <1>7, <2>1 DEF Chain
  <2>3. StatementAt(line, Place, e)
    BY <1>2, <1>4, <2>2, StatementSpelt
  <2>4. QED
    BY <2>2, <2>3
<1>8. ASSUME phase' = "parse" PROVE (Reached \/ currentToken = tokenCount)' /\ Unavoidable'
  <2>1. operands \subseteq Operand
    BY <1>1, <1>8
  <2>2. CASE currentToken + n <= Len(line)
    <3>1. Place' = Place + n /\ Place + n \in 1 .. Len(line) + 1
      BY <1>2, <1>4, <1>5, <2>2 DEF Place
    <3>2. PICK places \in SUBSET (1 .. Len(line) + 1) : Chain(line, places, Place)
      BY <1>1, <1>2, <1>3 DEF IInv, Position, Reached
    <3> DEFINE more == places \cup {Place + n}
    <3>3. IsStatement(SubSeq(line, Place, currentToken + n))
      <4>1. currentToken + n \in Place .. Len(line)
        BY <1>2, <2>2 DEF Place
      <4>2. QED
        BY <1>2, <1>4, <2>1, <2>2, <4>1, StatementSpelt
    <3>4. Chain(line, more, Place + n)
      <4>1. 1 \in more /\ Place + n \in more
        BY <3>2 DEF Chain
      <4>2. ASSUME NEW k \in more \ {Place + n}
            PROVE  \E e \in k .. Len(line) :
                       IsStatement(SubSeq(line, k, e)) /\ e + 1 \in more
        <5>1. CASE k = Place
          <6>1. currentToken + n \in k .. Len(line) /\ (currentToken + n) + 1 = Place + n
            BY <1>2, <2>2, <5>1 DEF Place
          <6>2. QED
            BY <3>3, <4>1, <5>1, <6>1
        <5>2. CASE k # Place
          BY <3>2, <4>2, <5>2 DEF Chain
        <5>3. QED
          BY <5>1, <5>2
      <4>3. QED
        BY <4>1, <4>2 DEF Chain
    <3>5. more \in SUBSET (1 .. Len(line) + 1)
      BY <3>1
    <3>6. Reached'
      BY <1>1, <3>1, <3>4, <3>5 DEF Reached
    <3>7. Unavoidable'
      BY <1>1, <1>7, <3>1 DEF Unavoidable
    <3>8. QED
      BY <3>6, <3>7
  <2>3. CASE currentToken + n > Len(line)
    <3>1. currentToken' = tokenCount'
      BY <1>1, <1>2, <1>5, <2>3
    <3>2. Unavoidable'
      <4>1. Place + n \notin 1 .. Len(line) + 1
        BY <1>2, <2>3 DEF Place
      <4>2. \A places \in SUBSET (1 .. Len(line) + 1) :
                ~ Chain(line, places, Len(line) + 1)
        BY <1>7, <4>1
      <4>3. QED
        BY <1>1, <4>2 DEF Unavoidable
    <3>3. QED
      BY <3>1, <3>2
  <2>4. QED
    BY <1>2, <2>2, <2>3
<1>9. ASSUME phase' = "syntax_error" PROVE ~ IsProgram(line)'
  <2>1. ~ (operands \subseteq Operand)
    BY <1>1, <1>9
  <2>2. ~ IsProgram(line)
    BY <1>7, <2>1 DEF IsProgram
  <2>3. QED
    BY <1>1, <2>2
<1>10. QED
  BY <1>1, <1>6, <1>8, <1>9 DEF IInv, Position, ParsesPrograms

\* parseStatement() on each of the statements it knows.
LEMMA StatementIInv ==
    ASSUME IInv, Declaration \/ Assignment \/ PrintStatement \/ IfStatement PROVE IInv'
<1>1. /\ InStatement /\ phase = "parse" /\ line # Unread /\ CompilerInv
      /\ symbolTable \subseteq TokenClass \cup {"EOF"}
  BY DEF InStatement, IInv, CompilerInv, TypeOK, Declaration, Assignment,
         PrintStatement, IfStatement
<1>2. Len(line) \in Nat /\ currentToken \in Nat /\ Place = currentToken + 1
  BY <1>1, LineIs DEF Place
<1>3. \A q \in 0 .. 5 : /\ Peek(q) \in TokenClass \cup {"EOF"}
                        /\ Place + q <= Len(line) => Peek(q) = line[Place + q]
  BY <1>1, <1>2, PeekIs
<1>4. \A q \in 0 .. 5, e \in Place .. Len(line) :
          e >= Place + q => Peek(q) = line[Place + q]
  BY <1>2, <1>3
<1> DEFINE Alternative(n, operands) ==
        /\ Take(n, operands)
        /\ \A e \in Place .. Len(line) :
               StatementAt(line, Place, e) => e + 1 = Place + n /\ operands \subseteq Operand
        /\ operands \subseteq Operand /\ currentToken + n <= Len(line)
               => StatementAt(line, Place, currentToken + n)
<1>5. ASSUME Declaration PROVE IInv'
  <2>1. /\ Peek(0) = "int" /\ symbolTable' \subseteq TokenClass \cup {"EOF"}
    BY <1>1, <1>3, <1>5 DEF Declaration
  <2>2. CASE Peek(2) = "="
    <3>1. Alternative(4, {Peek(3)})
      BY <1>2, <1>3, <1>4, <1>5, <2>1, <2>2 DEF Declaration, StatementAt
    <3>2. QED
      BY <1>1, <2>1, <3>1, TakeIInv
  <2>3. CASE Peek(2) # "="
    <3>1. Alternative(3, {})
      BY <1>2, <1>3, <1>4, <1>5, <2>1, <2>3 DEF Declaration, StatementAt
    <3>2. QED
      BY <1>1, <2>1, <3>1, TakeIInv
  <2>4. QED
    BY <2>2, <2>3
<1>6. ASSUME Assignment PROVE IInv'
  <2>1. Peek(0) = "id" /\ symbolTable' \subseteq TokenClass \cup {"EOF"}
    BY <1>1, <1>6 DEF Assignment
  <2>2. CASE Peek(1) = "="
    <3>1. Alternative(3, {Peek(2)})
      BY <1>2, <1>3, <1>4, <1>6, <2>1, <2>2 DEF Assignment, StatementAt
    <3>2. QED
      BY <1>1, <2>1, <3>1, TakeIInv
  <2>3. CASE Peek(1) # "="
    <3>1. Alternative(2, {})
      BY <1>2, <1>3, <1>4, <1>6, <2>1, <2>3 DEF Assignment, StatementAt
    <3>2. QED
      BY <1>1, <2>1, <3>1, TakeIInv
  <2>4. QED
    BY <2>2, <2>3
<1>7. ASSUME PrintStatement PROVE IInv'
  <2>1. Peek(0) = "print" /\ symbolTable' \subseteq TokenClass \cup {"EOF"}
    BY <1>1, <1>7 DEF PrintStatement
  <2>2. Alternative(2, {Peek(1)})
    BY <1>2, <1>3, <1>4, <1>7, <2>1 DEF PrintStatement, StatementAt
  <2>3. QED
    BY <1>1, <2>1, <2>2, TakeIInv
<1>8. ASSUME IfStatement PROVE IInv'
  <2>1. Peek(0) = "if" /\ symbolTable' \subseteq TokenClass \cup {"EOF"}
    BY <1>1, <1>8 DEF IfStatement
  <2>2. Alternative(6, {Peek(2), Peek(4)})
    BY <1>2, <1>3, <1>4, <1>8, <2>1 DEF IfStatement, StatementAt
  <2>3. QED
    BY <1>1, <2>1, <2>2, TakeIInv
<1>9. QED
  BY <1>5, <1>6, <1>7, <1>8

\* Where no statement may start, parsing ends the process.
LEMMA InvalidIInv == ASSUME IInv, InvalidStatement PROVE IInv'
<1>1. /\ phase = "parse" /\ line # Unread /\ CompilerInv
      /\ tokens[currentToken] # "EOF"
      /\ Peek(0) \notin {"int", "id", "print", "if"}
      /\ currentToken' = Consumed(1) /\ phase' = "syntax_error"
      /\ UNCHANGED <<tokens, tokenCount, symbolTable, line, eof>>
  BY DEF InvalidStatement, InStatement, IInv, CompilerInv
<1>2. /\ line \in Seq(TokenClass) /\ Len(line) \in Nat /\ tokenCount = Len(line) + 1
      /\ currentToken \in 0 .. tokenCount /\ tokens[Len(line)] = "EOF"
  BY <1>1, LineIs
<1>3. CompilerInv'
  <2>1. currentToken' \in 0 .. tokenCount
    BY <1>1, <1>2, MinOfTwo DEF Consumed
  <2>2. TypeOK'
    BY <1>1, <2>1 DEF CompilerInv, TypeOK, Ends
  <2>3. QED
    BY <1>1, <2>2 DEF CompilerInv
<1>4. ~ IsProgram(line)
  <2> SUFFICES ASSUME NEW places \in SUBSET (1 .. Len(line) + 1),
                      Chain(line, places, Len(line) + 1)
               PROVE  FALSE
    BY DEF IsProgram
  <2>1. Place \in places
    BY <1>1 DEF IInv, Position, Unavoidable
  <2>2. Place \in 1 .. Len(line) /\ currentToken < Len(line)
    BY <1>1, <1>2, <2>1 DEF Place
  <2>3. PICK e \in Place .. Len(line) : IsStatement(SubSeq(line, Place, e))
    BY <1>2, <2>1, <2>2 DEF Chain
  <2>4. StatementAt(line, Place, e)
    BY <1>2, <2>2, <2>3, StatementSpelt
  <2>5. Peek(0) = line[Place]
    BY <1>1, <1>2, <2>2, PeekIs DEF Place
  <2>6. QED
    BY <1>1, <2>4, <2>5 DEF StatementAt
<1>5. QED
  BY <1>1, <1>3, <1>4 DEF IInv, Position, ParsesPrograms

\* Parsing is over at the EOF token, or at a stale one past it.
LEMMA ParseDoneIInv == ASSUME IInv, ParseDone PROVE IInv'
<1>1. /\ phase = "parse" /\ line # Unread /\ CompilerInv
      /\ tokens[currentToken] = "EOF" /\ phase' = "parsed"
      /\ UNCHANGED <<tokens, tokenCount, currentToken, symbolTable, line, eof>>
  BY DEF ParseDone, IInv, CompilerInv
<1>2. /\ Len(line) \in Nat /\ tokenCount = Len(line) + 1
      /\ currentToken \in 0 .. tokenCount
      /\ \A k \in 1 .. Len(line) : tokens[k - 1] = line[k] /\ line[k] \in TokenClass
  BY <1>1, LineIs
<1>3. CompilerInv'
  BY <1>1 DEF CompilerInv, TypeOK
<1>4. currentToken < tokenCount => currentToken = Len(line)
  <2> SUFFICES ASSUME currentToken < Len(line) PROVE FALSE
    BY <1>2
  <2>1. Place \in 1 .. Len(line) /\ Place - 1 = currentToken
    BY <1>2 DEF Place
  <2>2. tokens[currentToken] \in TokenClass
    BY <1>2, <2>1
  <2>3. QED
    BY <1>1, <2>2 DEF TokenClass
<1>5. IsProgram(line) \/ currentToken = tokenCount
  BY <1>1, <1>2, <1>4 DEF IInv, Position, Reached, Place, IsProgram
<1>6. QED
  BY <1>1, <1>3, <1>5 DEF IInv, Position, ParsesPrograms

\* The rest of the loop of main() leaves the parser alone.
LEMMA OtherIInv ==
    ASSUME IInv, Exit \/ EndOfInput \/ SemanticCheck \/ UNCHANGED vars PROVE IInv'
<1>1. UNCHANGED <<tokens, tokenCount, currentToken, symbolTable, line>>
  BY DEF Exit, EndOfInput, SemanticCheck, vars
<1>2. /\ phase' = phase \/ phase' \in {"exit", "lexical_error", "prompt", "semantic_error"}
      /\ line = Unread => phase' \notin {"parse", "parsed"}
      /\ eof' \in BOOLEAN
  BY DEF Exit, EndOfInput, SemanticCheck, vars, IInv, CompilerInv, TypeOK
<1>3. CompilerInv'
  BY <1>1, <1>2 DEF IInv, CompilerInv, TypeOK, Ends
<1>4. /\ Reached' <=> Reached
      /\ Unavoidable' <=> Unavoidable
      /\ IsProgram(line)' <=> IsProgram(line)
  BY <1>1 DEF Reached, Unavoidable, Place
<1>5. Position'
  BY <1>1, <1>2, <1>4 DEF IInv, Position, ParsesPrograms
<1>6. QED
  BY <1>3, <1>5 DEF IInv

\* In every state of the compiler the invariant holds.
THEOREM Invariant == Spec => []IInv
<1>1. ASSUME IInv, [Next]_vars PROVE IInv'
  <2>1. CASE Typed
    BY <1>1, <2>1, CompileIInv, OtherIInv DEF Typed
  <2>2. CASE Reread
    <3>1. line # Unread => line \in Lines
      BY <1>1 DEF IInv, CompilerInv, TypeOK
    <3>2. QED
      BY <1>1, <2>2, <3>1, CompileIInv, OtherIInv DEF Reread
  <2>3. CASE Statement
    BY <1>1, <2>3, StatementIInv, InvalidIInv DEF Statement
  <2>4. CASE ParseDone
    BY <1>1, <2>4, ParseDoneIInv
  <2>5. CASE EndOfInput \/ SemanticCheck \/ Ended \/ UNCHANGED vars
    BY <1>1, <2>5, OtherIInv DEF Ended
  <2>6. QED
    BY <1>1, <2>1, <2>2, <2>3, <2>4, <2>5 DEF Next, Work
<1>2. QED
  BY InitIInv, <1>1, PTL DEF Spec

\* The parser's array always holds the line and its EOF token, whatever earlier lines
\* left behind them, and its position never passes the one slot after that token.
THEOREM ArrayHoldsLine == Spec => []CompilerInv
<1>1. IInv => CompilerInv
  BY DEF IInv
<1>2. QED
  BY <1>1, Invariant, PTL

\* The parser accepts every sequence of statements, and of the other lines only ones
\* whose last statement takes the EOF token for one of its own.
THEOREM ParserRight == Spec => []ParsesPrograms
<1>1. IInv => ParsesPrograms
  BY DEF IInv, Position
<1>2. QED
  BY <1>1, Invariant, PTL

-----------------------------------------------------------------------------
(***************************************************************************)
(* The assembler.                                                          *)
(***************************************************************************)

Messages == {"Duplicate label", "Unknown operation", "Undefined symbol"}

\* The table and the error buffer are sequences of their entries.
Buffers == /\ labelTable \in Seq([symbol : Labels, address : Address])
           /\ errors \in Seq([message : Messages, lineNumber : Address])

\* The table has the label.
InTable(label) == \E e \in Range(labelTable) : e.symbol = label

\* A pass that collects labels has those of the lines it has read.
Collected == /\ SymbolsAtTheirLines
             /\ pass \in {"firstPass", "singlePass"} =>
                    \A k \in 1 .. position, label \in Labels :
                        Labelled(k, label) => InTable(label)

\* A pass that generates code has been at the addresses below its own, and only
\* there.
Generated ==
    /\ pass = "firstPass" => currentAddress >= 0 /\ codeCount = 0
    /\ pass \in {"firstPass", "secondPass", "singlePass", "optimize"} =>
         /\ \A a \in Address : pass = "firstPass" \/ a >= currentAddress =>
                machineCode[a] = NoCode /\ ~ Refused(a)
    /\ pass \in {"secondPass", "singlePass", "optimize"} =>
         /\ \A k \in Addressed(position) : file[k].kind = "code"
         /\ \A a \in 0 .. currentAddress - 1 :
                ~ Refused(a) => machineCode[a] # NoCode
         /\ CodeOrError
    /\ pass = "optimize" => position = Len(file)

\* What holds of the assembler between any two steps.
AssemblerIInv == /\ ValidFiles /\ file \in Files
                 /\ AssemblerTypeOK
                 /\ Buffers
                 /\ currentAddress = AddressOf(position + 1)
                 /\ Collected
                 /\ Generated
                 /\ OneHalt

-----------------------------------------------------------------------------

\* What an address is.
LEMMA AddressIs ==
    ASSUME ValidFiles
    PROVE  /\ MaxLines \in Nat
           /\ \A a : a \in Address <=> a \in Nat /\ a < MaxLines
<1>1. MaxLines \in Nat
  BY DEF ValidFiles
<1>2. QED
  BY <1>1 DEF Address

\* The file is a sequence of lines.
LEMMA FileIs ==
    ASSUME ValidFiles, file \in Files
    PROVE  /\ file \in Seq(SourceLine) /\ Len(file) \in Nat /\ MaxLines \in Nat
           /\ Len(file) <= MaxLines
           /\ \A k \in 1 .. Len(file) : file[k] \in SourceLine
<1>1. file \in Seq(SourceLine) /\ MaxLines \in Nat /\ Len(file) <= MaxLines
  BY DEF ValidFiles
<1>2. Len(file) \in Nat /\ \A k \in 1 .. Len(file) : file[k] \in SourceLine
  BY <1>1
<1>3. QED
  BY <1>1, <1>2

\* What a source line is.
LEMMA LineKinds ==
    ASSUME NEW l \in SourceLine
    PROVE  /\ l.kind \in {"skip", "spaces", "code"}
           /\ l.kind = "code" =>
                  l.label \in Labels \cup {""} /\ l.op \in Operations \cup {"unknown"}
  BY DEF SourceLine

\* Each line that is not passed over takes one address.
LEMMA AddressStep ==
    ASSUME ValidFiles, file \in Files, NEW k \in 1 .. Len(file)
    PROVE  /\ AddressOf(k) \in Nat
           /\ AddressOf(k + 1) =
                  AddressOf(k) + (IF file[k].kind = "skip" THEN 0 ELSE 1)
<1>1. Len(file) \in Nat
  BY FileIs
<1> DEFINE S == Addressed(k - 1)
           T == Addressed(k + 1 - 1)
<1>2. T = IF file[k].kind = "skip" THEN S ELSE S \cup {k}
  BY <1>1 DEF Addressed
<1>3. IsFiniteSet(S) /\ k \notin S
  <2>1. S \subseteq 1 .. k - 1 /\ k \notin 1 .. k - 1 /\ 1 \in Int /\ k - 1 \in Int
    BY <1>1 DEF Addressed
  <2>2. IsFiniteSet(1 .. k - 1)
    BY <2>1, FS_Interval
  <2>3. QED
    BY <2>1, <2>2, FS_Subset
<1>4. /\ AddressOf(k) = Cardinality(S)
      /\ AddressOf(k + 1) = Cardinality(T)
  BY DEF AddressOf
<1> HIDE DEF S, T
<1>5. Cardinality(S) \in Nat /\ Cardinality(S \cup {k}) = Cardinality(S) + 1
  BY <1>3, FS_CardinalityType, FS_AddElement
<1>6. Cardinality(T) = Cardinality(S) + (IF file[k].kind = "skip" THEN 0 ELSE 1)
  BY <1>2, <1>5
<1>7. QED
  BY <1>4, <1>5, <1>6

\* Addresses start at 0, and a line has a greater one than every line before it
\* that takes one.
LEMMA AddressOrder ==
    ASSUME ValidFiles, file \in Files,
           NEW k \in 1 .. Len(file) + 1, NEW j \in Addressed(k - 1)
    PROVE  AddressOf(j) < AddressOf(k)
<1>1. Len(file) \in Nat /\ j \in 1 .. Len(file) /\ j < k /\ file[j].kind # "skip"
  BY FileIs DEF Addressed
<1> DEFINE S == Addressed(j)
           T == Addressed(k - 1)
<1>2. IsFiniteSet(T) /\ S \subseteq T
  <2>1. T \subseteq 1 .. k - 1 /\ S \subseteq T /\ 1 \in Int /\ k - 1 \in Int
    BY <1>1 DEF Addressed
  <2>2. IsFiniteSet(1 .. k - 1)
    BY <2>1, FS_Interval
  <2>3. QED
    BY <2>1, <2>2, FS_Subset
<1>3. AddressOf(j + 1) = Cardinality(S) /\ AddressOf(k) = Cardinality(T)
  <2>1. ASSUME NEW n PROVE AddressOf(n) = Cardinality(Addressed(n - 1))
    BY DEF AddressOf
  <2>2. PICK n \in Nat : n = j + 1 /\ n - 1 = j
    BY <1>1
  <2>3. QED
    BY <2>1, <2>2
<1> HIDE DEF S, T
<1>4. Cardinality(S) <= Cardinality(T) /\ Cardinality(S) \in Nat /\ Cardinality(T) \in Nat
  BY <1>2, FS_Subset, FS_CardinalityType
<1>5. AddressOf(j) \in Nat /\ AddressOf(j + 1) = AddressOf(j) + 1
  BY <1>1, AddressStep
<1>6. QED
  BY <1>3, <1>4, <1>5

\* The first line is at address 0.
LEMMA AddressStart == AddressOf(1) = 0
<1>1. Addressed(1 - 1) = {}
  BY DEF Addressed
<1>2. QED
  BY <1>1, FS_EmptySet DEF AddressOf

\* The entries of a sequence with one more.
LEMMA RangeAppend ==
    ASSUME NEW S, NEW s \in Seq(S), NEW x \in S
    PROVE  /\ Append(s, x) \in Seq(S)
           /\ Range(Append(s, x)) = Range(s) \cup {x}
<1>1. Len(s) \in Nat /\ DOMAIN s = 1 .. Len(s)
  OBVIOUS
<1>2. /\ DOMAIN Append(s, x) = 1 .. Len(s) + 1
      /\ Append(s, x)[Len(s) + 1] = x
      /\ \A k \in 1 .. Len(s) : Append(s, x)[k] = s[k]
  OBVIOUS
<1> DEFINE t == Append(s, x)
<1> HIDE DEF t
<1>3. Range(t) = Range(s) \cup {x}
  BY <1>1, <1>2 DEF Range, t
<1>4. Append(s, x) \in Seq(S)
  OBVIOUS
<1>5. QED
  BY <1>3, <1>4 DEF t

\* findSymbol() finds what is there and nothing else.
LEMMA FindSymbolIs ==
    ASSUME ValidFiles, NEW label,
           NEW table \in Seq([symbol : Labels, address : Address])
    PROVE  /\ FindSymbol(table, label) # -1 <=>
                  \E e \in Range(table) : e.symbol = label
           /\ FindSymbol(table, label) \in Address \cup {-1}
<1> DEFINE E == [symbol : Labels, address : Address]
           I == {k \in 1 .. Len(table) : table[k].symbol = label}
           at == SelectInSeq(table, LAMBDA e : e.symbol = label)
<1>1. /\ Len(table) \in Nat /\ DOMAIN table = 1 .. Len(table)
      /\ \A k \in 1 .. Len(table) : table[k].address \in Address /\ table[k].address # -1
  <2>1. MaxLines \in Nat
    BY DEF ValidFiles
  <2>2. table \in Seq(E)
    OBVIOUS
  <2> HIDE DEF E
  <2>3. Len(table) \in Nat /\ DOMAIN table = 1 .. Len(table)
    BY <2>2
  <2>4. \A k \in 1 .. Len(table) : table[k] \in E
    BY <2>2
  <2>5. QED
    BY <2>1, <2>3, <2>4 DEF E, Address
<1>2. at = IF I # {} THEN Min(I) ELSE 0
  BY DEF SelectInSeq
<1>3. I # {} => Min(I) \in I
  <2>1. SUFFICES ASSUME I # {} PROVE Min(I) \in I
    OBVIOUS
  <2>2. PICK x \in I : \A y \in I : x <= y
    <3>1. I \subseteq Nat
      BY <1>1
    <3> HIDE DEF I
    <3>2. QED
      BY <2>1, <3>1, LeastNat
  <2> HIDE DEF I
  <2>3. QED
    BY <2>2 DEF Min
<1>4. I # {} <=> \E e \in Range(table) : e.symbol = label
  BY <1>1 DEF Range
<1>5. FindSymbol(table, label) = IF at = 0 THEN -1 ELSE table[at].address
  BY DEF FindSymbol
<1> HIDE DEF at
<1>6. CASE I # {}
  <2>1. at \in 1 .. Len(table)
    BY <1>2, <1>3, <1>6
  <2>2. QED
    BY <1>1, <1>4, <1>5, <1>6, <2>1
<1>7. CASE I = {}
  BY <1>2, <1>4, <1>5, <1>7
<1>8. QED
  BY <1>6, <1>7

\* findSymbol() answers -1 for what the table lacks, and only for that.
LEMMA FoundIffInTable ==
    ASSUME ValidFiles, Buffers, NEW label
    PROVE  FindSymbol(labelTable, label) # -1 <=> InTable(label)
<1>1. labelTable \in Seq([symbol : Labels, address : Address])
  BY DEF Buffers
<1>2. QED
  BY <1>1, FindSymbolIs DEF InTable

-----------------------------------------------------------------------------

\* Addresses depend on the file only.
LEMMA SameFile ==
    ASSUME file' = file
    PROVE  \A k : /\ Addressed(k)' = Addressed(k)
                  /\ AddressOf(k)' = AddressOf(k)
                  /\ \A label : Labelled(k, label)' = Labelled(k, label)
  BY DEF Addressed, AddressOf, Labelled

\* A line is read, and takes an address unless it is passed over.
LineRead == /\ MoreLines /\ file' = file
            /\ position' = position + 1
            /\ currentAddress' =
                   currentAddress + (IF Line.kind = "skip" THEN 0 ELSE 1)

\* The line read is one of the file's, and the address stays that of the line.
LEMMA ReadLine ==
    ASSUME AssemblerIInv, LineRead
    PROVE  /\ position \in Nat /\ position + 1 \in 1 .. Len(file)
           /\ Line = file[position + 1] /\ Line \in SourceLine
           /\ position' \in 0 .. Len(file') /\ currentAddress' \in 0 .. position'
           /\ currentAddress \in Address
           /\ (currentAddress = AddressOf(position + 1))'
<1>1. /\ Len(file) \in Nat /\ MaxLines \in Nat /\ Len(file) <= MaxLines
      /\ \A k \in 1 .. Len(file) : file[k] \in SourceLine
  BY FileIs DEF AssemblerIInv
<1>2. /\ position \in 0 .. Len(file) /\ currentAddress \in 0 .. position
      /\ position < Len(file)
  BY DEF AssemblerIInv, AssemblerTypeOK, LineRead, MoreLines
<1> DEFINE k == position + 1
<1>3. k \in 1 .. Len(file) /\ position' = k /\ Line = file[k]
  BY <1>1, <1>2 DEF LineRead, Line
<1> HIDE DEF k
<1>4. currentAddress = AddressOf(k)
  BY DEF AssemblerIInv, k
<1>5. AddressOf(k + 1) = AddressOf(k) + (IF file[k].kind = "skip" THEN 0 ELSE 1)
  BY <1>3, AddressStep DEF AssemblerIInv
<1>6. currentAddress' = AddressOf(k + 1)
  BY <1>3, <1>4, <1>5 DEF LineRead
<1>7. (currentAddress = AddressOf(position + 1))'
  BY <1>3, <1>6 DEF LineRead, AddressOf, Addressed
<1>8. /\ position \in Nat /\ position + 1 \in 1 .. Len(file)
      /\ Line = file[position + 1] /\ Line \in SourceLine
      /\ position' \in 0 .. Len(file') /\ currentAddress' \in 0 .. position'
      /\ currentAddress \in Address
  BY <1>1, <1>2, <1>3 DEF LineRead, Address, k
<1>9. QED
  BY <1>7, <1>8

\* The lines read before have the addresses before this one's.
LEMMA ReadBefore ==
    ASSUME AssemblerIInv, LineRead
    PROVE  /\ Addressed(position)' =
                  Addressed(position)
                      \cup (IF Line.kind = "skip" THEN {} ELSE {position + 1})
           /\ \A k \in Addressed(position) :
                  /\ k \in 1 .. position
                  /\ AddressOf(k) \in 0 .. currentAddress - 1
<1>1. /\ position \in Nat /\ position + 1 \in 1 .. Len(file) /\ Len(file) \in Nat
      /\ Line = file[position + 1]
  BY ReadLine, FileIs DEF AssemblerIInv
<1> DEFINE n == position + 1
<1>2. /\ n \in 1 .. Len(file) /\ n - 1 = position /\ position' = n
      /\ currentAddress = AddressOf(n)
  BY <1>1 DEF LineRead, AssemblerIInv
<1>3. Addressed(n) = Addressed(position)
                             \cup (IF Line.kind = "skip" THEN {} ELSE {n})
  BY <1>1 DEF Addressed
<1> HIDE DEF n
<1>4. Addressed(position)' = Addressed(n)
  BY <1>2 DEF LineRead, Addressed
<1>5. ASSUME NEW k \in Addressed(position)
      PROVE  k \in 1 .. position /\ AddressOf(k) \in 0 .. currentAddress - 1
  <2>1. k \in 1 .. position
    BY DEF Addressed
  <2>2. AddressOf(k) < AddressOf(n)
    <3>1. k \in Addressed(n - 1) /\ n \in 1 .. Len(file) + 1
      BY <1>1, <1>2
    <3>2. QED
      BY <3>1, AddressOrder DEF AssemblerIInv
  <2>3. AddressOf(k) \in Nat /\ AddressOf(n) \in Nat
    <3>1. k \in 1 .. Len(file)
      BY <1>1, <2>1
    <3>2. QED
      BY <1>2, <3>1, AddressStep DEF AssemblerIInv
  <2>4. QED
    BY <1>2, <2>1, <2>2, <2>3
<1>6. QED
  BY <1>3, <1>4, <1>5 DEF n

\* Without a new label, the table is right for one more line if that has none, or
\* an old one.
LEMMA CollectedKept ==
    ASSUME AssemblerIInv, file' = file, labelTable' = labelTable, pass' = pass,
           \/ position' = position
           \/ /\ position' = position + 1
              /\ pass \in {"firstPass", "singlePass"} =>
                     \A label \in Labels :
                         Labelled(position + 1, label) => InTable(label)
    PROVE  Collected'
<1>1. SymbolsAtTheirLines'
  <2>1. SymbolsAtTheirLines
    BY DEF AssemblerIInv, Collected
  <2>2. \A label : FindSymbol(labelTable, label)' = FindSymbol(labelTable, label)
    BY DEF FindSymbol, SelectInSeq
  <2>3. QED
    BY <2>1, <2>2, SameFile DEF SymbolsAtTheirLines
<1>2. ASSUME pass' \in {"firstPass", "singlePass"}, NEW k \in 1 .. position',
             NEW label \in Labels, Labelled(k, label)'
      PROVE  InTable(label)'
  <2>1. position \in Nat /\ InTable(label)' = InTable(label) /\ Labelled(k, label)
    <3>1. Labelled(k, label)
      BY <1>2, SameFile
    <3>2. position \in Nat
      BY FileIs DEF AssemblerIInv, AssemblerTypeOK
    <3>3. QED
      BY <3>1, <3>2 DEF InTable
  <2>2. CASE k \in 1 .. position
    BY <1>2, <2>1, <2>2 DEF AssemblerIInv, Collected
  <2>3. CASE k \notin 1 .. position
    <3>1. k = position + 1 /\ position' = position + 1
      BY <2>1, <2>3
    <3>2. QED
      BY <1>2, <2>1, <3>1
  <2>4. QED
    BY <2>2, <2>3
<1>3. QED
  BY <1>1, <1>2 DEF Collected

\* The line read has a label that is not in the table, and that is added.
LabelAdded == /\ pass' = pass /\ pass \in {"firstPass", "singlePass"}
              /\ Line.kind = "code" /\ Line.label # ""
              /\ FindSymbol(labelTable, Line.label) = -1
              /\ AddSymbol(Line.label)

\* A new label gets the address of its first line.
LEMMA CollectedAdded ==
    ASSUME AssemblerIInv, LineRead, LabelAdded
    PROVE  /\ Collected'
           /\ labelTable' \in Seq([symbol : Labels, address : Address])
           /\ \A e \in Range(labelTable') : e.symbol \in Labels /\ e.address \in Address
<1> DEFINE n == position + 1
           new == [symbol |-> Line.label, address |-> currentAddress]
           E == [symbol : Labels, address : Address]
<1>1. /\ position \in Nat /\ n \in 1 .. Len(file) /\ Line = file[n]
      /\ currentAddress \in Address /\ Len(file) \in Nat
      /\ currentAddress = AddressOf(n) /\ position' = n /\ file' = file
  BY ReadLine, FileIs DEF AssemblerIInv, LineRead
<1>2. Line.label \in Labels
  <2>1. Line \in SourceLine
    BY ReadLine
  <2>2. Line.kind = "code" /\ Line.label # ""
    BY DEF LabelAdded
  <2>3. QED
    BY <2>1, <2>2, LineKinds
<1>3. new \in E /\ new.symbol = Line.label /\ new.address = currentAddress
  BY <1>1, <1>2
<1>4. labelTable \in Seq(E) /\ labelTable' = Append(labelTable, new)
  BY DEF AssemblerIInv, Buffers, LabelAdded, AddSymbol
<1>5. ~ InTable(Line.label)
  BY FoundIffInTable DEF AssemblerIInv, LabelAdded
<1>6. \A k \in 1 .. position, label \in Labels : Labelled(k, label) => InTable(label)
  BY DEF AssemblerIInv, Collected, LabelAdded
<1>7. ASSUME NEW j \in 1 .. n - 1 PROVE ~ Labelled(j, Line.label)
  <2>1. j \in 1 .. position
    BY <1>1
  <2>2. QED
    BY <1>2, <1>5, <1>6, <2>1
<1>8. /\ \A label : Labelled(n, label) <=> label = Line.label
      /\ \A k, label : Labelled(k, label)' = Labelled(k, label)
      /\ \A k : AddressOf(k)' = AddressOf(k)
  BY <1>1, SameFile DEF Labelled, LabelAdded
<1> HIDE DEF n, new, E
<1>9. labelTable' \in Seq(E) /\ Range(labelTable') = Range(labelTable) \cup {new}
  <2>1. new \in E /\ labelTable \in Seq(E)
    BY <1>3, <1>4
  <2>2. /\ Append(labelTable, new) \in Seq(E)
        /\ Range(Append(labelTable, new)) = Range(labelTable) \cup {new}
    BY <2>1, RangeAppend
  <2>3. QED
    BY <1>4, <2>2
<1>10. ASSUME NEW e \in Range(labelTable')
       PROVE  \E k \in 1 .. Len(file) :
                  /\ Labelled(k, e.symbol)
                  /\ AddressOf(k) = e.address
                  /\ \A j \in 1 .. k - 1 : ~ Labelled(j, e.symbol)
  <2>1. CASE e = new
    <3>1. /\ Labelled(n, e.symbol) /\ AddressOf(n) = e.address
          /\ \A j \in 1 .. n - 1 : ~ Labelled(j, e.symbol)
      BY <1>1, <1>3, <1>7, <1>8, <2>1
    <3>2. QED
      BY <1>1, <3>1
  <2>2. CASE e \in Range(labelTable)
    BY <2>2 DEF AssemblerIInv, Collected, SymbolsAtTheirLines
  <2>3. QED
    BY <1>9, <2>1, <2>2
<1>11. SymbolsAtTheirLines'
  <2>1. pass' \notin {"secondPass", "optimize", "printed"}
    BY DEF LabelAdded
  <2>2. QED
    BY <1>1, <1>8, <1>10, <2>1 DEF SymbolsAtTheirLines
<1>12. ASSUME NEW k \in 1 .. position', NEW label \in Labels, Labelled(k, label)
       PROVE  \E e \in Range(labelTable') : e.symbol = label
  <2>1. CASE k \in 1 .. position
    <3>1. PICK e \in Range(labelTable) : e.symbol = label
      BY <1>6, <1>12, <2>1 DEF InTable
    <3>2. QED
      BY <1>9, <3>1
  <2>2. CASE k = n
    BY <1>3, <1>8, <1>9, <1>12, <2>2
  <2>3. k \in 1 .. position \/ k = n
    <3>1. position \in Nat /\ position' = position + 1 /\ k \in 1 .. position'
      BY <1>1 DEF n
    <3>2. QED
      BY <3>1 DEF n
  <2>4. QED
    BY <2>1, <2>2, <2>3
<1>13. Collected'
  BY <1>8, <1>11, <1>12 DEF Collected, InTable
<1>14. \A e \in Range(labelTable') : e.symbol \in Labels /\ e.address \in Address
  <2>1. \A e \in Range(labelTable) : e.symbol \in Labels /\ e.address \in Address
    BY DEF AssemblerIInv, AssemblerTypeOK
  <2>2. QED
    BY <1>1, <1>2, <1>3, <1>9, <2>1
<1>15. QED
  BY <1>9, <1>13, <1>14 DEF E

\* When a pass is over the table has the labels of all lines.
LEMMA CollectedEnds ==
    ASSUME AssemblerIInv, file' = file, labelTable' = labelTable,
           pass' \notin {"firstPass", "singlePass"},
           \/ pass' = "crashed"
           \/ pass \in {"secondPass", "optimize"}
           \/ pass \in {"firstPass", "singlePass"} /\ position >= Len(file)
    PROVE  Collected'
<1>1. SymbolsAtTheirLines
  BY DEF AssemblerIInv, Collected
<1>2. \A label : FindSymbol(labelTable, label)' = FindSymbol(labelTable, label)
  BY DEF FindSymbol, SelectInSeq
<1>3. ASSUME pass \in {"firstPass", "singlePass"}, position >= Len(file),
             NEW k \in 1 .. Len(file), NEW label \in Labels, Labelled(k, label)
      PROVE  FindSymbol(labelTable, label) # -1
  <2>1. k \in 1 .. position
    BY <1>3, FileIs DEF AssemblerIInv, AssemblerTypeOK
  <2>2. InTable(label)
    BY <1>3, <2>1 DEF AssemblerIInv, Collected
  <2>3. QED
    BY <2>2, FoundIffInTable DEF AssemblerIInv
<1>4. SymbolsAtTheirLines'
  BY <1>1, <1>2, <1>3, SameFile DEF SymbolsAtTheirLines
<1>5. QED
  BY <1>4 DEF Collected

-----------------------------------------------------------------------------

\* assembleInstruction(): a line is refused, or it leaves its opcode.
LineRefused == /\ \E message \in Messages :
                      /\ message # "Duplicate label"
                      /\ errors' = Append(errors, [message    |-> message,
                                                   lineNumber |-> currentAddress])
               /\ machineCode' = machineCode /\ codeCount' = codeCount

LineCoded == /\ Line.op \in Operations
             /\ \E address \in Address :
                    machineCode' = [machineCode EXCEPT ![currentAddress] =
                                       [opcode  |-> opcodeTable[Line.op],
                                        address |-> address]]
             /\ codeCount' = codeCount + 1 /\ errors' = errors

\* assembleInstruction() does one of the two, whatever is in operand[].
LEMMA AssembleEither ==
    ASSUME AssemblerIInv, LineRead, NEW operand,
           NEW table \in Seq([symbol : Labels, address : Address]),
           Assemble(Line.op, operand, table)
    PROVE  LineRefused \/ LineCoded
<1> DEFINE found == FindSymbol(table, operand)
<1>1. found \in Address \cup {-1} /\ 0 \in Address
  <2>1. MaxLines \in Nat /\ currentAddress \in Address
    BY ReadLine DEF AssemblerIInv, ValidFiles
  <2>2. 0 \in Address
    BY <2>1 DEF Address
  <2>3. QED
    BY <2>2, FindSymbolIs DEF AssemblerIInv
<1> HIDE DEF found
<1>2. CASE Line.op \notin Operations
  <2>1. errors' = Append(errors, [message |-> "Unknown operation", lineNumber |-> currentAddress])
    BY <1>2 DEF Assemble, ReportError
  <2>2. machineCode' = machineCode /\ codeCount' = codeCount
    BY <1>2 DEF Assemble
  <2>3. "Unknown operation" \in Messages /\ "Unknown operation" # "Duplicate label"
    BY DEF Messages
  <2>4. QED
    BY <2>1, <2>2, <2>3 DEF LineRefused
<1>3. CASE Line.op \in Operations /\ found = -1 /\ operand # ""
  <2>1. errors' = Append(errors, [message |-> "Undefined symbol", lineNumber |-> currentAddress])
    BY <1>3 DEF Assemble, ReportError, found
  <2>2. machineCode' = machineCode /\ codeCount' = codeCount
    BY <1>3 DEF Assemble, found
  <2>3. "Undefined symbol" \in Messages /\ "Undefined symbol" # "Duplicate label"
    BY DEF Messages
  <2>4. QED
    BY <2>1, <2>2, <2>3 DEF LineRefused
<1>4. CASE Line.op \in Operations /\ ~ (found = -1 /\ operand # "")
  <2> DEFINE address == IF operand = "" THEN 0 ELSE found
  <2>1. address \in Address
    BY <1>1, <1>4
  <2>2. /\ machineCode' = [machineCode EXCEPT ![currentAddress] =
                              [opcode  |-> opcodeTable[Line.op],
                               address |-> address]]
        /\ codeCount' = codeCount + 1 /\ errors' = errors
    BY <1>4 DEF Assemble, found
  <2> HIDE DEF address
  <2>3. QED
    BY <1>4, <2>1, <2>2 DEF LineCoded
<1>5. QED
  BY <1>2, <1>3, <1>4

\* A refusal is of this line's address.
LEMMA RefusedNow ==
    ASSUME AssemblerIInv, LineRead, LineRefused
    PROVE  /\ \A a : Refused(a)' <=> Refused(a) \/ a = currentAddress
           /\ errors' \in Seq([message : Messages, lineNumber : Address])
           /\ \A e \in Range(errors') : e.lineNumber \in Address
<1> DEFINE E == [message : Messages, lineNumber : Address]
<1>1. PICK message \in Messages :
          /\ message # "Duplicate label"
          /\ errors' = Append(errors, [message |-> message, lineNumber |-> currentAddress])
  BY DEF LineRefused
<1> DEFINE new == [message |-> message, lineNumber |-> currentAddress]
<1>2. /\ new \in E /\ new.lineNumber = currentAddress /\ new.message = message
      /\ currentAddress \in Address
  BY ReadLine
<1>3. errors \in Seq(E) /\ errors' = Append(errors, new)
  BY <1>1 DEF AssemblerIInv, Buffers
<1> HIDE DEF new, E
<1>4. errors' \in Seq(E) /\ Range(errors') = Range(errors) \cup {new}
  <2>1. Append(errors, new) \in Seq(E) /\ Range(Append(errors, new)) = Range(errors) \cup {new}
    BY <1>2, <1>3, RangeAppend
  <2>2. QED
    BY <1>3, <2>1
<1>5. \A a : Refused(a)' <=> Refused(a) \/ a = currentAddress
  BY <1>1, <1>2, <1>4 DEF Refused
<1>6. \A e \in Range(errors') : e.lineNumber \in Address
  BY <1>2, <1>4 DEF AssemblerIInv, AssemblerTypeOK
<1>7. QED
  BY <1>4, <1>5, <1>6 DEF E

\* Opcodes: none is that of an empty entry, and HALT alone has 255.
LEMMA Opcodes ==
    ASSUME NEW op \in Operations
    PROVE  /\ opcodeTable[op] \in Range(opcodeTable)
           /\ opcodeTable[op] # -1
           /\ opcodeTable[op] = 255 <=> op = "HALT"
  BY DEF Operations, opcodeTable, Range

Coded == {a \in Address : machineCode[a] # NoCode}

\* codeCount counts them.
LEMMA CodedIs ==
    ASSUME ValidFiles
    PROVE  /\ IsFiniteSet(Coded)
           /\ CodeOrError /\ pass \in {"secondPass", "singlePass", "optimize"} =>
                  codeCount = Cardinality(Coded)
<1>1. IsFiniteSet(0 .. MaxLines - 1)
  <2>1. MaxLines \in Nat
    BY DEF ValidFiles
  <2>2. 0 \in Int /\ MaxLines - 1 \in Int
    BY <2>1
  <2>3. QED
    BY <2>2, FS_Interval
<1>2. Coded \subseteq 0 .. MaxLines - 1
  BY DEF Coded, Address
<1>3. QED
  BY <1>1, <1>2, FS_Subset DEF CodeOrError, Coded

-----------------------------------------------------------------------------

\* A pass that generates code reads a line with a word in it.
CodeRead == /\ LineRead /\ pass' = pass /\ pass \in {"secondPass", "singlePass"}
            /\ Line.kind = "code"
            /\ LineRefused \/ LineCoded

\* What one line does to the code, by address.
LEMMA CodeStep ==
    ASSUME AssemblerIInv, CodeRead, NEW c, c = currentAddress
    PROVE  /\ c \in Address
           /\ machineCode[c] = NoCode /\ ~ Refused(c)
           /\ \A a \in Address : a # c =>
                  machineCode'[a] = machineCode[a] /\ (Refused(a)' <=> Refused(a))
           /\ \/ /\ LineRefused /\ Refused(c)'
                 /\ machineCode'[c] = NoCode
              \/ /\ LineCoded /\ ~ Refused(c)'
                 /\ machineCode'[c] # NoCode
                 /\ machineCode'[c].opcode = opcodeTable[Line.op]
<1>1. c \in Address /\ c \in Int
  BY ReadLine, AddressIs DEF CodeRead, AssemblerIInv
<1>2. machineCode[c] = NoCode /\ ~ Refused(c)
  <2>1. pass \in {"firstPass", "secondPass", "singlePass", "optimize"}
    BY DEF CodeRead
  <2>2. c >= currentAddress
    BY <1>1
  <2>3. QED
    BY <1>1, <2>1, <2>2 DEF AssemblerIInv, Generated
<1>3. CASE LineRefused
  <2>1. \A a : Refused(a)' <=> Refused(a) \/ a = c
    BY <1>3, RefusedNow DEF CodeRead
  <2>2. machineCode' = machineCode
    BY <1>3 DEF LineRefused
  <2>3. QED
    BY <1>1, <1>2, <1>3, <2>1, <2>2
<1>4. CASE LineCoded
  <2>1. PICK address \in Address :
            machineCode' = [machineCode EXCEPT ![c] =
                               [opcode  |-> opcodeTable[Line.op],
                                address |-> address]]
    BY <1>4 DEF LineCoded
  <2>2. \A a : Refused(a)' <=> Refused(a)
    BY <1>4 DEF LineCoded, Refused
  <2>3. DOMAIN machineCode = Address
    BY DEF AssemblerIInv, AssemblerTypeOK
  <2> DEFINE opcode == opcodeTable[Line.op]
  <2>4. opcode # -1
    BY <1>4, Opcodes DEF LineCoded
  <2>5. machineCode' = [machineCode EXCEPT ![c] =
                           [opcode |-> opcode, address |-> address]]
    BY <2>1
  <2> HIDE DEF opcode
  <2>6. machineCode'[c] = [opcode |-> opcode, address |-> address]
    BY <1>1, <2>3, <2>5
  <2>7. \A a \in Address : a # c => machineCode'[a] = machineCode[a]
    BY <2>3, <2>5
  <2>8. machineCode'[c].opcode = opcode
    BY <2>6
  <2>9. machineCode'[c] # NoCode
    BY <2>4, <2>8 DEF NoCode
  <2>10. QED
    BY <1>1, <1>2, <1>4, <2>2, <2>7, <2>8, <2>9 DEF opcode
<1>5. QED
  BY <1>3, <1>4 DEF CodeRead

\* The types of the code.
LEMMA CodeTypes ==
    ASSUME AssemblerIInv, CodeRead
    PROVE  /\ machineCode' \in [Address -> [opcode  : Range(opcodeTable) \cup {-1},
                                                address : Address]]
           /\ codeCount' \in 0 .. currentAddress'
<1>1. machineCode \in [Address -> [opcode  : Range(opcodeTable) \cup {-1},
                                       address : Address]]
  BY DEF AssemblerIInv, AssemblerTypeOK
<1>2. codeCount \in 0 .. currentAddress /\ currentAddress' = currentAddress + 1
      /\ currentAddress \in Nat
  <2>1. currentAddress \in Address
    BY ReadLine DEF CodeRead
  <2>2. currentAddress \in Nat
    BY <2>1, AddressIs DEF AssemblerIInv
  <2>3. currentAddress' = currentAddress + 1
    BY <2>2 DEF CodeRead, LineRead
  <2>4. QED
    BY <2>2, <2>3 DEF AssemblerIInv, AssemblerTypeOK
<1>3. CASE LineRefused
  <2>1. machineCode' = machineCode /\ codeCount' = codeCount
    BY <1>3 DEF LineRefused
  <2>2. codeCount' \in 0 .. currentAddress'
    BY <1>2, <2>1
  <2>3. QED
    BY <1>1, <2>1, <2>2
<1>4. CASE LineCoded
  <2> DEFINE C == [opcode  : Range(opcodeTable) \cup {-1}, address : Address]
  <2>1. PICK address \in Address :
            machineCode' = [machineCode EXCEPT ![currentAddress] =
                               [opcode  |-> opcodeTable[Line.op],
                                address |-> address]]
    BY <1>4 DEF LineCoded
  <2> DEFINE new == [opcode |-> opcodeTable[Line.op], address |-> address]
  <2>2. new \in C
    BY <1>4, Opcodes DEF LineCoded
  <2>3. machineCode \in [Address -> C] /\ machineCode' = [machineCode EXCEPT ![currentAddress] = new]
    BY <1>1, <2>1
  <2> HIDE DEF C, new
  <2>4. machineCode' \in [Address -> C]
    BY <2>2, <2>3
  <2>5. codeCount' = codeCount + 1
    BY <1>4 DEF LineCoded
  <2>6. QED
    BY <1>2, <2>4, <2>5 DEF C
<1>5. QED
  BY <1>3, <1>4 DEF CodeRead

\* The number of codes goes with codeCount.
LEMMA CountStep ==
    ASSUME AssemblerIInv, CodeRead
    PROVE  codeCount' = Cardinality({a \in Address : machineCode'[a] # NoCode})
<1> DEFINE S == {a \in Address : machineCode'[a] # NoCode}
<1>1. codeCount = Cardinality(Coded) /\ IsFiniteSet(Coded)
  BY CodedIs DEF AssemblerIInv, Generated, CodeRead
<1>2. currentAddress \notin Coded
  BY CodeStep DEF Coded
<1>3. CASE LineRefused /\ machineCode'[currentAddress] = NoCode
  <2>1. S = Coded
    BY <1>3, CodeStep DEF Coded
  <2>2. QED
    BY <1>1, <1>3, <2>1 DEF LineRefused
<1>4. CASE LineCoded /\ machineCode'[currentAddress] # NoCode
  <2>1. S = Coded \cup {currentAddress}
    BY <1>4, CodeStep DEF Coded
  <2>2. codeCount' = codeCount + 1
    BY <1>4 DEF LineCoded
  <2> HIDE DEF S
  <2>3. Cardinality(Coded \cup {currentAddress}) = Cardinality(Coded) + 1
    BY <1>1, <1>2, FS_AddElement
  <2>4. Cardinality(S) = codeCount'
    BY <1>1, <2>1, <2>2, <2>3
  <2>5. QED
    BY <2>4 DEF S
<1>5. QED
  BY <1>3, <1>4, CodeStep

\* The generator stays right about every line it has read.
LEMMA GeneratedKept == ASSUME AssemblerIInv, CodeRead PROVE Generated'
<1> DEFINE n == position + 1
<1>0. PICK c : c = currentAddress
  OBVIOUS
<1>1. /\ pass \in {"secondPass", "singlePass"} /\ pass' = pass /\ file' = file
      /\ currentAddress' = currentAddress + 1 /\ LineRead /\ Line.kind = "code"
  BY DEF CodeRead, LineRead
<1>2. /\ currentAddress \in Address /\ currentAddress \in Nat
      /\ currentAddress < MaxLines /\ MaxLines \in Nat
      /\ Line = file[n] /\ currentAddress = AddressOf(n)
  BY <1>1, ReadLine, AddressIs DEF AssemblerIInv
<1>3. /\ Addressed(position)' = Addressed(position) \cup {n}
      /\ \A k \in Addressed(position) : AddressOf(k) \in 0 .. currentAddress - 1
  BY <1>1, ReadBefore
<1>4. /\ \A k \in Addressed(position) : file[k].kind = "code"
      /\ \A a \in 0 .. currentAddress - 1 : ~ Refused(a) => machineCode[a] # NoCode
      /\ \A k \in Addressed(position) :
             IF Refused(AddressOf(k)) THEN machineCode[AddressOf(k)] = NoCode
             ELSE /\ machineCode[AddressOf(k)] # NoCode
                  /\ file[k].op \in Operations
                  /\ machineCode[AddressOf(k)].opcode = opcodeTable[file[k].op]
      /\ \A a \in Address : a >= currentAddress =>
             machineCode[a] = NoCode /\ ~ Refused(a)
  BY <1>1 DEF AssemblerIInv, Generated, CodeOrError
<1> HIDE DEF n
<1>5. ASSUME NEW a \in Address, a >= currentAddress'
      PROVE  machineCode'[a] = NoCode /\ ~ Refused(a)'
  <2>1. a # currentAddress /\ a >= currentAddress
    <3>1. a \in Nat /\ a >= currentAddress + 1
      BY <1>1, <1>5, AddressIs DEF AssemblerIInv
    <3>2. QED
      BY <1>2, <3>1
  <2>2. QED
    BY <1>4, <2>1, CodeStep
<1>6. \A k \in Addressed(position)' : file'[k].kind = "code"
  BY <1>1, <1>2, <1>3, <1>4
<1>7. ASSUME NEW a \in 0 .. currentAddress' - 1, ~ Refused(a)'
      PROVE  machineCode'[a] # NoCode
  <2>1. CASE a = currentAddress
    BY <1>7, <2>1, CodeStep
  <2>2. CASE a # currentAddress
    <3>1. a \in 0 .. currentAddress - 1 /\ a \in Address
      <4>1. a \in 0 .. currentAddress - 1
        BY <1>1, <1>2, <2>2
      <4>2. QED
        BY <1>2, <4>1, AddressIs DEF AssemblerIInv
    <3>2. QED
      BY <1>4, <1>7, <2>2, <3>1, CodeStep
  <2>3. QED
    BY <2>1, <2>2
<1>8. ASSUME NEW k \in Addressed(position)', NEW a, a = AddressOf(k)
      PROVE  IF Refused(a)' THEN machineCode'[a] = NoCode
             ELSE /\ machineCode'[a] # NoCode
                  /\ file[k].op \in Operations
                  /\ machineCode'[a].opcode = opcodeTable[file[k].op]
  <2>1. CASE k = n
    <3>1. a = currentAddress
      BY <1>2, <1>8, <2>1
    <3>2. LineCoded => file[n].op \in Operations
      BY <1>2 DEF LineCoded
    <3>3. QED
      BY <1>2, <2>1, <3>1, <3>2, CodeStep
  <2>2. CASE k \in Addressed(position)
    <3>1. a \in 0 .. currentAddress - 1
      BY <1>3, <1>8, <2>2
    <3>2. a \in Nat /\ a < MaxLines /\ a # currentAddress
      BY <1>2, <3>1
    <3>3. a \in Address
      BY <3>2, AddressIs DEF AssemblerIInv
    <3>4. IF Refused(a) THEN machineCode[a] = NoCode
          ELSE /\ machineCode[a] # NoCode
               /\ file[k].op \in Operations
               /\ machineCode[a].opcode = opcodeTable[file[k].op]
      BY <1>4, <1>8, <2>2
    <3>5. machineCode'[a] = machineCode[a] /\ (Refused(a)' <=> Refused(a))
      BY <1>0, <3>2, <3>3, CodeStep
    <3>6. QED
      BY <3>4, <3>5
  <2>3. QED
    BY <1>3, <2>1, <2>2
<1>9. CodeOrError'
  <2>1. codeCount' = Cardinality({a \in Address : machineCode'[a] # NoCode})
    BY CountStep
  <2>2. ASSUME NEW k \in Addressed(position)'
        PROVE  (IF Refused(AddressOf(k)) THEN machineCode[AddressOf(k)] = NoCode
                ELSE /\ machineCode[AddressOf(k)] # NoCode
                     /\ file[k].op \in Operations
                     /\ machineCode[AddressOf(k)].opcode = opcodeTable[file[k].op])'
    <3>1. PICK a : a = AddressOf(k) /\ a = AddressOf(k)'
      BY <1>1, SameFile
    <3>2. IF Refused(a)' THEN machineCode'[a] = NoCode
          ELSE /\ machineCode'[a] # NoCode
               /\ file[k].op \in Operations
               /\ machineCode'[a].opcode = opcodeTable[file[k].op]
      BY <1>8, <3>1
    <3>3. file' = file /\ (Refused(AddressOf(k))' <=> Refused(a)')
      BY <1>1, <3>1 DEF Refused
    <3>4. QED
      BY <3>1, <3>2, <3>3
  <2>3. QED
    BY <2>1, <2>2 DEF CodeOrError
<1>10. pass' \notin {"firstPass", "optimize"}
  BY <1>1
<1>11. QED
  BY <1>5, <1>6, <1>7, <1>9, <1>10 DEF Generated

-----------------------------------------------------------------------------

\* The first pass and the other phases change no code.
LEMMA GeneratedSame ==
    ASSUME AssemblerIInv, LineRead, pass' = pass,
           machineCode' = machineCode, codeCount' = codeCount,
           \/ Line.kind = "skip" /\ errors' = errors
           \/ pass = "firstPass" /\ \A a : Refused(a)' <=> Refused(a)
    PROVE  Generated'
<1>1. CASE pass = "firstPass"
  <2>1. \A a : Refused(a)' <=> Refused(a)
    BY DEF Refused
  <2>2. currentAddress' \in Nat
    BY ReadLine, FileIs DEF AssemblerIInv, LineRead
  <2>3. /\ \A a \in Address : machineCode[a] = NoCode /\ ~ Refused(a)
        /\ codeCount = 0
    BY <1>1 DEF AssemblerIInv, Generated
  <2>4. currentAddress' >= 0
    BY <2>2
  <2>5. QED
    BY <1>1, <2>1, <2>3, <2>4 DEF Generated
<1>2. CASE pass # "firstPass"
  <2>1. Line.kind = "skip" /\ errors' = errors
    BY <1>2
  <2>2. \A a : Refused(a)' <=> Refused(a)
    BY <2>1 DEF Refused
  <2>3. Addressed(position)' = Addressed(position)
    BY <2>1, ReadBefore
  <2>4. currentAddress' = currentAddress
    BY <2>1, ReadLine, AddressIs DEF LineRead, AssemblerIInv
  <2>5. pass = "optimize" => position = Len(file)
    BY DEF AssemblerIInv, Generated
  <2>6. pass # "optimize"
    BY <2>5, ReadLine, FileIs DEF LineRead, AssemblerIInv, MoreLines
  <2>7. CodeOrError'
    <3>1. pass \in {"secondPass", "singlePass", "optimize"} => CodeOrError
      BY DEF AssemblerIInv, Generated
    <3>2. \A k : AddressOf(k)' = AddressOf(k)
      BY SameFile DEF LineRead
    <3>3. file' = file
      BY DEF LineRead
    <3>4. QED
      BY <2>1, <2>3, <3>1, <3>2, <3>3 DEF CodeOrError, Refused
  <2>8. file' = file
    BY DEF LineRead
  <2>9. QED
    BY <1>2, <2>2, <2>3, <2>4, <2>6, <2>7, <2>8 DEF AssemblerIInv, Generated
<1>3. QED
  BY <1>1, <1>2

\* Before the first pass nothing is collected or generated.
LEMMA InitAssembler == ASSUME ValidFiles, AssemblerInit PROVE AssemblerIInv
<1> USE DEF AssemblerInit
<1>1. file \in Files /\ position = 0 /\ currentAddress = 0 /\ codeCount = 0
      /\ pass \in {"firstPass", "singlePass"} /\ labelTable = <<>> /\ errors = <<>>
      /\ machineCode = [a \in Address |-> NoCode]
  OBVIOUS
<1>2. Len(file) \in Nat /\ MaxLines \in Nat
  BY <1>1, FileIs
<1>3. Range(labelTable) = {} /\ Range(errors) = {}
  BY <1>1 DEF Range
<1>4. ASSUME NEW a \in Address
      PROVE  NoCode \in [opcode  : Range(opcodeTable) \cup {-1},
                             address : Address]
  BY <1>2, AddressIs DEF NoCode
<1>5. AssemblerTypeOK
  BY <1>1, <1>2, <1>3, <1>4 DEF AssemblerTypeOK
<1>6. Buffers
  BY <1>1 DEF Buffers
<1>7. currentAddress = AddressOf(position + 1)
  BY <1>1, AddressStart
<1>8. Collected
  BY <1>1, <1>3 DEF Collected, SymbolsAtTheirLines
<1>9. Generated
  <2>1. \A a \in Address : machineCode[a] = NoCode /\ ~ Refused(a)
    BY <1>1, <1>3 DEF Refused
  <2>2. Addressed(position) = {} /\ 0 .. currentAddress - 1 = {}
    BY <1>1 DEF Addressed
  <2>3. CodeOrError
    <3>1. {a \in Address : machineCode[a] # NoCode} = {}
      BY <2>1
    <3>2. codeCount = Cardinality({a \in Address : machineCode[a] # NoCode})
      BY <1>1, <3>1, FS_EmptySet
    <3>3. QED
      BY <2>2, <3>2 DEF CodeOrError
  <2>4. QED
    BY <1>1, <2>1, <2>2, <2>3 DEF Generated
<1>10. OneHalt
  BY <1>1 DEF OneHalt
<1>11. QED
  BY <1>1, <1>5, <1>6, <1>7, <1>8, <1>9, <1>10 DEF AssemblerIInv

\* A blank line or a comment takes no address.
LEMMA SkipLineKeeps == ASSUME AssemblerIInv, SkipLine PROVE AssemblerIInv'
<1> USE DEF SkipLine
<1>1. LineRead /\ Line.kind = "skip"
  <2>1. currentAddress \in Nat
    BY FileIs DEF AssemblerIInv, AssemblerTypeOK
  <2>2. QED
    BY <2>1 DEF LineRead
<1>2. /\ pass' = pass /\ file' = file /\ machineCode' = machineCode /\ codeCount' = codeCount
      /\ labelTable' = labelTable /\ errors' = errors /\ position' = position + 1
      /\ pass # "printed"
  OBVIOUS
<1>3. ASSUME NEW label \in Labels PROVE ~ Labelled(position + 1, label)
  BY <1>1, ReadLine DEF Labelled
<1>4. Collected'
  BY <1>2, <1>3, CollectedKept
<1>5. Generated'
  BY <1>1, <1>2, GeneratedSame
<1>6. AssemblerTypeOK' /\ Buffers'
  <2>1. position' \in 0 .. Len(file') /\ currentAddress' \in 0 .. position'
    BY <1>1, ReadLine
  <2>2. currentAddress' = currentAddress
    OBVIOUS
  <2>3. QED
    BY <1>2, <2>1, <2>2 DEF AssemblerIInv, AssemblerTypeOK, Buffers
<1>7. OneHalt'
  BY <1>2 DEF OneHalt
<1>8. (currentAddress = AddressOf(position + 1))'
  BY <1>1, ReadLine
<1>9. QED
  BY <1>2, <1>4, <1>5, <1>6, <1>7, <1>8 DEF AssemblerIInv, ValidFiles

\* firstPass(): a label is entered at its line's address, or reported as duplicate.
LEMMA FirstPassLineKeeps == ASSUME AssemblerIInv, FirstPassLine PROVE AssemblerIInv'
<1>1. LineRead
  BY DEF LineRead, FirstPassLine
<1>2. /\ pass' = pass /\ file' = file /\ machineCode' = machineCode /\ codeCount' = codeCount
      /\ position' = position + 1 /\ pass = "firstPass"
  BY DEF FirstPassLine
<1>3. /\ currentAddress \in Address /\ Line \in SourceLine
      /\ Line = file[position + 1] /\ Line.kind # "skip"
  BY <1>1, ReadLine DEF FirstPassLine
<1>4. \/ labelTable' = labelTable /\ (Line.kind = "spaces" \/ Line.label = "")
                                  /\ errors' = errors
      \/ /\ Line.kind # "spaces" /\ Line.label # ""
         /\ FindSymbol(labelTable, Line.label) # -1
         /\ labelTable' = labelTable /\ ReportError("Duplicate label")
      \/ /\ Line.kind # "spaces" /\ Line.label # ""
         /\ FindSymbol(labelTable, Line.label) = -1
         /\ AddSymbol(Line.label) /\ errors' = errors
  BY DEF FirstPassLine
<1> DEFINE E == [message : Messages, lineNumber : Address]
           new == [message |-> "Duplicate label", lineNumber |-> currentAddress]
<1>5. /\ errors' \in Seq(E)
      /\ \A e \in Range(errors') : e.lineNumber \in Address
      /\ \A a : Refused(a)' <=> Refused(a)
  <2>1. CASE errors' = errors
    BY <2>1 DEF AssemblerIInv, Buffers, AssemblerTypeOK, Refused
  <2>2. CASE ReportError("Duplicate label")
    <3>1. new \in E /\ new.message = "Duplicate label" /\ new.lineNumber = currentAddress
      BY <1>3 DEF Messages
    <3>2. errors \in Seq(E) /\ errors' = Append(errors, new)
      BY <2>2 DEF AssemblerIInv, Buffers, ReportError
    <3> HIDE DEF new, E
    <3>3. errors' \in Seq(E) /\ Range(errors') = Range(errors) \cup {new}
      <4>1. new \in E /\ errors \in Seq(E) /\ errors' = Append(errors, new)
        BY <3>1, <3>2
      <4>2. QED
        BY <4>1, RangeAppend
    <3>4. \A e \in Range(errors) : e.lineNumber \in Address
      BY DEF AssemblerIInv, AssemblerTypeOK
    <3>5. QED
      BY <1>3, <3>1, <3>3, <3>4 DEF Refused
  <2>3. QED
    BY <1>4, <2>1, <2>2
<1>6. Generated'
  BY <1>1, <1>2, <1>5, GeneratedSame
<1>7. /\ Collected'
      /\ labelTable' \in Seq([symbol : Labels, address : Address])
      /\ \A e \in Range(labelTable') : e.symbol \in Labels /\ e.address \in Address
  <2>1. CASE labelTable' = labelTable /\ (Line.kind = "spaces" \/ Line.label = "")
    <3>1. ASSUME NEW label \in Labels PROVE ~ Labelled(position + 1, label)
      BY <1>3, <2>1 DEF Labelled, AssemblerIInv, ValidFiles
    <3>2. Collected'
      BY <1>2, <2>1, <3>1, CollectedKept
    <3>3. QED
      BY <2>1, <3>2 DEF AssemblerIInv, Buffers, AssemblerTypeOK
  <2>2. CASE labelTable' = labelTable /\ FindSymbol(labelTable, Line.label) # -1
    <3>1. InTable(Line.label)
      BY <2>2, FoundIffInTable DEF AssemblerIInv
    <3>2. ASSUME NEW label \in Labels, Labelled(position + 1, label)
          PROVE  InTable(label)
      BY <1>3, <3>1, <3>2 DEF Labelled
    <3>3. Collected'
      BY <1>2, <2>2, <3>2, CollectedKept
    <3>4. QED
      BY <2>2, <3>3 DEF AssemblerIInv, Buffers, AssemblerTypeOK
  <2>3. CASE /\ Line.kind # "spaces" /\ Line.label # ""
             /\ FindSymbol(labelTable, Line.label) = -1
             /\ AddSymbol(Line.label)
    <3>1. Line.kind = "code"
      BY <1>3, <2>3, LineKinds
    <3>2. LabelAdded
      BY <1>2, <2>3, <3>1 DEF LabelAdded
    <3>3. QED
      BY <1>1, <3>2, CollectedAdded
  <2>4. QED
    BY <1>4, <2>1, <2>2, <2>3
<1>8. AssemblerTypeOK' /\ Buffers'
  <2>1. position' \in 0 .. Len(file') /\ currentAddress' \in 0 .. position'
    BY <1>1, ReadLine
  <2>2. codeCount' \in 0 .. currentAddress'
    <3>1. codeCount' = 0
      BY <1>2 DEF AssemblerIInv, Generated
    <3>2. Len(file') \in Nat
      BY <1>2, FileIs DEF AssemblerIInv
    <3>3. currentAddress' \in Nat
      BY <2>1, <3>2
    <3>4. QED
      BY <3>1, <3>3
  <2>3. QED
    BY <1>2, <1>5, <1>7, <2>1, <2>2 DEF AssemblerIInv, AssemblerTypeOK, Buffers
<1>9. OneHalt'
  BY <1>2 DEF OneHalt
<1>10. (currentAddress = AddressOf(position + 1))'
  BY <1>1, ReadLine
<1>11. QED
  BY <1>2, <1>6, <1>7, <1>8, <1>9, <1>10 DEF AssemblerIInv, ValidFiles

\* Between the passes only the position and the address are reset.
LEMMA RewindKeeps == ASSUME AssemblerIInv, Rewind PROVE AssemblerIInv'
<1> USE DEF Rewind
<1>1. /\ pass = "firstPass" /\ pass' = "secondPass" /\ position' = 0 /\ currentAddress' = 0
      /\ file' = file /\ labelTable' = labelTable /\ machineCode' = machineCode
      /\ codeCount' = codeCount /\ errors' = errors
  OBVIOUS
<1>2. /\ Len(file) \in Nat /\ position \in 0 .. Len(file)
  BY FileIs DEF AssemblerIInv, AssemblerTypeOK
<1>3. position >= Len(file)
  BY <1>2 DEF MoreLines
<1>4. Collected'
  BY <1>1, <1>3, CollectedEnds
<1>5. /\ \A a \in Address : machineCode[a] = NoCode /\ ~ Refused(a)
      /\ codeCount = 0
  BY <1>1 DEF AssemblerIInv, Generated
<1>6. Generated'
  <2>1. \A a \in Address : machineCode'[a] = NoCode /\ ~ Refused(a)'
    BY <1>1, <1>5 DEF Refused
  <2>2. Addressed(position)' = {} /\ 0 .. currentAddress' - 1 = {}
    BY <1>1 DEF Addressed
  <2>3. CodeOrError'
    <3>1. {a \in Address : machineCode'[a] # NoCode} = {}
      BY <2>1
    <3>2. codeCount' = Cardinality({a \in Address : machineCode'[a] # NoCode})
      BY <1>1, <1>5, <3>1, FS_EmptySet
    <3>3. QED
      BY <2>2, <3>2 DEF CodeOrError
  <2>4. QED
    BY <1>1, <2>1, <2>2, <2>3 DEF Generated
<1>7. AssemblerTypeOK' /\ Buffers'
  BY <1>1, <1>2, <1>5 DEF AssemblerIInv, AssemblerTypeOK, Buffers
<1>8. (currentAddress = AddressOf(position + 1))'
  <2>1. AddressOf(position + 1)' = AddressOf(1)
    BY <1>1 DEF AddressOf, Addressed
  <2>2. QED
    BY <1>1, <2>1, AddressStart
<1>9. OneHalt'
  BY <1>1 DEF OneHalt
<1>10. QED
  BY <1>1, <1>4, <1>6, <1>7, <1>8, <1>9 DEF AssemblerIInv, ValidFiles

\* What the two passes that generate code have in common.
LEMMA CodeReadKeeps ==
    ASSUME AssemblerIInv, CodeRead, Collected',
           labelTable' \in Seq([symbol : Labels, address : Address]),
           \A e \in Range(labelTable') : e.symbol \in Labels /\ e.address \in Address
    PROVE  AssemblerIInv'
<1>1. LineRead /\ file' = file /\ pass' = pass /\ pass \in {"secondPass", "singlePass"}
  BY DEF CodeRead, LineRead
<1>2. /\ errors' \in Seq([message : Messages, lineNumber : Address])
      /\ \A e \in Range(errors') : e.lineNumber \in Address
  <2>1. CASE LineRefused
    BY <1>1, <2>1, RefusedNow
  <2>2. CASE LineCoded
    BY <2>2 DEF LineCoded, AssemblerIInv, Buffers, AssemblerTypeOK
  <2>3. QED
    BY <2>1, <2>2 DEF CodeRead
<1>3. AssemblerTypeOK' /\ Buffers'
  <2>1. position' \in 0 .. Len(file') /\ currentAddress' \in 0 .. position'
    BY <1>1, ReadLine
  <2>2. QED
    BY <1>1, <1>2, <2>1, CodeTypes DEF AssemblerTypeOK, Buffers
<1>4. OneHalt'
  BY <1>1 DEF OneHalt
<1>5. (currentAddress = AddressOf(position + 1))'
  BY <1>1, ReadLine
<1>6. QED
  BY <1>1, <1>3, <1>4, <1>5, GeneratedKept DEF AssemblerIInv, ValidFiles

\* secondPass(): the table is as the first pass left it.
LEMMA SecondPassLineKeeps == ASSUME AssemblerIInv, SecondPassLine PROVE AssemblerIInv'
<1> USE DEF SecondPassLine
<1>1. LineRead
  BY DEF LineRead
<1>2. PICK operand : Assemble(Line.op, operand, labelTable)
  OBVIOUS
<1>3. labelTable \in Seq([symbol : Labels, address : Address])
  BY DEF AssemblerIInv, Buffers
<1>4. LineRefused \/ LineCoded
  BY <1>1, <1>2, <1>3, AssembleEither
<1>5. /\ pass' = pass /\ pass = "secondPass" /\ file' = file /\ labelTable' = labelTable
      /\ Line.kind = "code" /\ position' = position + 1
  OBVIOUS
<1>6. CodeRead
  BY <1>1, <1>4, <1>5 DEF CodeRead
<1>7. Collected'
  BY <1>5, CollectedKept
<1>8. \A e \in Range(labelTable) : e.symbol \in Labels /\ e.address \in Address
  BY DEF AssemblerIInv, AssemblerTypeOK
<1>9. QED
  BY <1>3, <1>5, <1>6, <1>7, <1>8, CodeReadKeeps

\* singlePass(): the label is entered before the line is assembled.
LEMMA SinglePassLineKeeps == ASSUME AssemblerIInv, SinglePassLine PROVE AssemblerIInv'
<1> USE DEF SinglePassLine
<1>1. LineRead
  BY DEF LineRead
<1>2. /\ pass' = pass /\ pass = "singlePass" /\ file' = file
      /\ Line.kind = "code" /\ position' = position + 1
  OBVIOUS
<1>3. Line = file[position + 1]
  BY <1>1, ReadLine
<1>4. /\ Collected'
      /\ labelTable' \in Seq([symbol : Labels, address : Address])
      /\ \A e \in Range(labelTable') : e.symbol \in Labels /\ e.address \in Address
  <2>1. CASE Line.label # "" /\ FindSymbol(labelTable, Line.label) = -1
    <3>1. LabelAdded
      BY <1>2, <2>1 DEF LabelAdded
    <3>2. QED
      BY <1>1, <3>1, CollectedAdded
  <2>2. CASE ~ (Line.label # "" /\ FindSymbol(labelTable, Line.label) = -1)
    <3>1. labelTable' = labelTable
      BY <2>2
    <3>2. ASSUME NEW label \in Labels, Labelled(position + 1, label)
          PROVE  InTable(label)
      <4>1. label = Line.label /\ label # ""
        BY <1>3, <3>2 DEF Labelled, AssemblerIInv, ValidFiles
      <4>2. QED
        BY <2>2, <4>1, FoundIffInTable DEF AssemblerIInv
    <3>3. Collected'
      BY <1>2, <3>1, <3>2, CollectedKept
    <3>4. QED
      BY <3>1, <3>3 DEF AssemblerIInv, Buffers, AssemblerTypeOK
  <2>3. QED
    BY <2>1, <2>2
<1>5. PICK operand : Assemble(Line.op, operand, labelTable')
  OBVIOUS
<1>6. PICK table : table = labelTable'
  OBVIOUS
<1>7. Assemble(Line.op, operand, table)
  BY <1>5, <1>6 DEF Assemble
<1>8. LineRefused \/ LineCoded
  BY <1>1, <1>4, <1>6, <1>7, AssembleEither
<1>9. CodeRead
  BY <1>1, <1>2, <1>8 DEF CodeRead
<1>10. QED
  BY <1>4, <1>9, CodeReadKeeps

\* The end of a pass, or of the program, writes nothing.
LEMMA PassEndsKeeps ==
    ASSUME AssemblerIInv, PassEnds \/ Crash PROVE AssemblerIInv'
<1>1. /\ pass \in {"secondPass", "singlePass"} /\ pass' \in {"optimize", "crashed"}
      /\ file' = file /\ position' = position /\ currentAddress' = currentAddress
      /\ labelTable' = labelTable /\ machineCode' = machineCode
      /\ codeCount' = codeCount /\ errors' = errors
      /\ pass' = "optimize" => ~ MoreLines
  BY DEF PassEnds, Crash
<1>2. Len(file) \in Nat /\ position \in 0 .. Len(file)
  BY FileIs DEF AssemblerIInv, AssemblerTypeOK
<1>3. pass' = "optimize" => position = Len(file)
  BY <1>1, <1>2 DEF MoreLines
<1>4. Collected'
  BY <1>1, <1>2, <1>3, CollectedEnds
<1>5. \A a : Refused(a)' <=> Refused(a)
  BY <1>1 DEF Refused
<1>6. CodeOrError'
  <2>1. CodeOrError
    BY <1>1 DEF AssemblerIInv, Generated
  <2>2. \A k : AddressOf(k)' = AddressOf(k)
    BY <1>1, SameFile
  <2>3. Addressed(position)' = Addressed(position)
    BY <1>1 DEF Addressed
  <2>4. QED
    BY <1>1, <2>1, <2>2, <2>3 DEF CodeOrError, Refused
<1>7. Generated'
  <2>1. Addressed(position)' = Addressed(position)
    BY <1>1 DEF Addressed
  <2>2. QED
    BY <1>1, <1>3, <1>5, <1>6, <2>1 DEF AssemblerIInv, Generated
<1>8. AssemblerTypeOK' /\ Buffers'
  BY <1>1 DEF AssemblerIInv, AssemblerTypeOK, Buffers, Finished
<1>9. (currentAddress = AddressOf(position + 1))'
  BY <1>1 DEF AssemblerIInv, AddressOf, Addressed
<1>10. OneHalt'
  BY <1>1 DEF OneHalt
<1>11. QED
  BY <1>1, <1>4, <1>7, <1>8, <1>9, <1>10 DEF AssemblerIInv, ValidFiles

\* optimizeMachineCode(): every HALT but the last of a row is cleared, and nothing
\* else.
LEMMA OptimizeKeeps == ASSUME AssemblerIInv, Optimize PROVE AssemblerIInv'
<1>1. /\ pass = "optimize" /\ pass' = "printed"
      /\ file' = file /\ position' = position /\ currentAddress' = currentAddress
      /\ labelTable' = labelTable /\ codeCount' = codeCount /\ errors' = errors
      /\ machineCode' = [a \in Address |->
                            IF a < codeCount - 1 /\ IsHalt(a) /\ IsHalt(a + 1)
                            THEN NoCode ELSE machineCode[a]]
  BY DEF Optimize
<1>2. /\ Len(file) \in Nat /\ MaxLines \in Nat /\ Len(file) <= MaxLines
      /\ position = Len(file)
      /\ currentAddress \in 0 .. position /\ codeCount \in 0 .. currentAddress
  BY <1>1, FileIs DEF AssemblerIInv, AssemblerTypeOK, Generated
<1>3. Collected'
  BY <1>1, CollectedEnds
<1>4. machineCode' \in [Address -> [opcode  : Range(opcodeTable) \cup {-1},
                                        address : Address]]
  <2> DEFINE C == [opcode  : Range(opcodeTable) \cup {-1}, address : Address]
  <2>1. machineCode \in [Address -> C]
    BY DEF AssemblerIInv, AssemblerTypeOK
  <2>2. ASSUME NEW a \in Address PROVE NoCode \in C
    <3>1. 0 \in Address
      BY AddressIs DEF AssemblerIInv
    <3>2. QED
      BY <3>1 DEF NoCode
  <2> HIDE DEF C
  <2>3. machineCode' \in [Address -> C]
    BY <1>1, <2>1, <2>2
  <2>4. QED
    BY <2>3 DEF C
<1>5. AssemblerTypeOK' /\ Buffers'
  BY <1>1, <1>4 DEF AssemblerIInv, AssemblerTypeOK, Buffers, Finished
<1>6. Generated'
  BY <1>1 DEF Generated
<1>7. (currentAddress = AddressOf(position + 1))'
  BY <1>1 DEF AssemblerIInv, AddressOf, Addressed
<1>8. ASSUME \A a \in Address : ~ Refused(a)
      PROVE  /\ codeCount = currentAddress
             /\ \A a \in Address :
                    /\ a < codeCount => machineCode[a] # NoCode
                    /\ a >= codeCount => machineCode[a] = NoCode
  <2>1. \A a \in 0 .. currentAddress - 1 : ~ Refused(a) => machineCode[a] # NoCode
    BY <1>1 DEF AssemblerIInv, Generated
  <2>2. \A a \in Address : a >= currentAddress => machineCode[a] = NoCode
    BY <1>1 DEF AssemblerIInv, Generated
  <2>3. \A a \in Address : a < currentAddress => machineCode[a] # NoCode
    <3>1. SUFFICES ASSUME NEW a \in Address, a < currentAddress
                   PROVE  machineCode[a] # NoCode
      OBVIOUS
    <3>2. a \in 0 .. currentAddress - 1
      <4>1. a \in Nat /\ currentAddress \in Int
        BY <1>2, AddressIs DEF AssemblerIInv
      <4>2. QED
        BY <3>1, <4>1
    <3>3. QED
      BY <1>8, <2>1, <3>2
  <2>4. Coded = 0 .. currentAddress - 1
    <3>1. ASSUME NEW a \in Coded PROVE a \in 0 .. currentAddress - 1
      <4>1. a \in Address /\ machineCode[a] # NoCode
        BY DEF Coded
      <4>2. a \in Nat /\ ~ a >= currentAddress
        BY <2>2, <4>1, AddressIs DEF AssemblerIInv
      <4>3. QED
        BY <1>2, <4>2
    <3>2. ASSUME NEW a \in 0 .. currentAddress - 1 PROVE a \in Coded
      <4>1. a \in Nat /\ a < MaxLines /\ a < currentAddress
        BY <1>2
      <4>2. a \in Address
        BY <4>1, AddressIs DEF AssemblerIInv
      <4>3. QED
        BY <2>3, <4>1, <4>2 DEF Coded
    <3>3. QED
      BY <3>1, <3>2
  <2>5. Cardinality(0 .. currentAddress - 1) = currentAddress
    <3>1. 0 \in Int /\ currentAddress - 1 \in Int
      BY <1>2
    <3>2. Cardinality(0 .. currentAddress - 1) =
              IF 0 > currentAddress - 1 THEN 0 ELSE currentAddress - 1 - 0 + 1
      BY <3>1, FS_Interval
    <3>3. QED
      BY <1>2, <3>2
  <2>6. codeCount = Cardinality(Coded)
    BY <1>1, CodedIs DEF AssemblerIInv, Generated
  <2>7. codeCount = currentAddress
    BY <2>4, <2>5, <2>6
  <2>8. \A a \in Address : a < codeCount => machineCode[a] # NoCode
    BY <2>3, <2>7
  <2>9. \A a \in Address : a >= codeCount => machineCode[a] = NoCode
    BY <2>2, <2>7
  <2>10. QED
    BY <2>7, <2>8, <2>9
<1>9. OneHalt'
  <2>1. SUFFICES ASSUME \A a \in Address : ~ Refused(a)'
                 PROVE  OneHalt'
    BY DEF OneHalt
  <2>2. \A a \in Address : ~ Refused(a)
    BY <1>1, <2>1 DEF Refused
  <2>3. /\ codeCount = currentAddress
        /\ \A a \in Address :
               /\ a < codeCount => machineCode[a] # NoCode
               /\ a >= codeCount => machineCode[a] = NoCode
    BY <1>8, <2>2
  <2>4. \A a : /\ IsHalt(a)' <=> machineCode'[a].opcode = 255
               /\ IsHalt(a) <=> machineCode[a].opcode = 255
               /\ Printed(a)' <=> a < codeCount /\ machineCode'[a] # NoCode
    BY <1>1 DEF IsHalt, opcodeTable, Printed
  <2>5. NoCode.opcode = -1
    BY DEF NoCode
  <2>6. \A a \in Address :
            machineCode'[a] = IF a < codeCount - 1 /\ IsHalt(a) /\ IsHalt(a + 1)
                              THEN NoCode ELSE machineCode[a]
    BY <1>1
  <2>7. ASSUME NEW a \in Address, NEW b \in Address, a < b,
               Printed(a)', Printed(b)', IsHalt(a)', IsHalt(b)'
        PROVE  \E c \in a + 1 .. b - 1 : Printed(c)'
    <3>1. a \in Nat /\ b \in Nat /\ a < MaxLines /\ b < MaxLines /\ b < codeCount
      BY <2>4, <2>7, AddressIs DEF AssemblerIInv
    <3>2. machineCode'[a] = machineCode[a] /\ machineCode'[b] = machineCode[b]
      BY <2>4, <2>6, <2>7
    <3>3. IsHalt(a) /\ IsHalt(b)
      BY <2>4, <2>7, <3>2
    <3>4. a < codeCount - 1
      BY <1>2, <2>7, <3>1
    <3>5. ~ IsHalt(a + 1)
      BY <2>4, <2>5, <2>6, <2>7, <3>3, <3>4
    <3>6. a + 1 # b
      BY <3>3, <3>5
    <3> DEFINE c == a + 1
    <3>7. c \in a + 1 .. b - 1 /\ c \in Nat /\ c < MaxLines /\ c < codeCount
      BY <1>2, <2>7, <3>1, <3>6
    <3>8. ~ IsHalt(c)
      BY <3>5
    <3> HIDE DEF c
    <3>9. c \in Address
      BY <3>7, AddressIs DEF AssemblerIInv
    <3>10. machineCode'[c] = machineCode[c] /\ machineCode[c] # NoCode
      BY <2>3, <2>6, <3>7, <3>8, <3>9
    <3>11. Printed(c)'
      BY <2>4, <3>7, <3>10
    <3>12. QED
      BY <3>7, <3>11
  <2>8. ASSUME NEW k \in Addressed(Len(file)), NEW a, a = AddressOf(k),
               file[k].op # "HALT" \/ Addressed(Len(file)) = Addressed(k)
        PROVE  Printed(a)' /\ machineCode'[a].opcode = opcodeTable[file[k].op]
    <3>1. k \in 1 .. Len(file) /\ file[k].kind # "skip"
      BY DEF Addressed
    <3>2. /\ a \in Nat /\ AddressOf(k + 1) = a + 1
      BY <2>8, <3>1, AddressStep DEF AssemblerIInv
    <3>3. a < codeCount
      <4>1. PICK n \in 1 .. Len(file) + 1 : n = Len(file) + 1 /\ n - 1 = Len(file)
        BY <1>2
      <4>2. AddressOf(k) < AddressOf(n)
        BY <4>1, AddressOrder DEF AssemblerIInv
      <4>3. currentAddress = AddressOf(n)
        BY <1>2, <4>1 DEF AssemblerIInv
      <4>4. QED
        BY <2>3, <2>8, <4>2, <4>3
    <3>4. a \in Address
      <4>1. a < MaxLines
        BY <1>2, <3>2, <3>3
      <4>2. QED
        BY <3>2, <4>1, AddressIs DEF AssemblerIInv
    <3>5. ~ Refused(a) /\ machineCode[a] # NoCode
      BY <2>2, <2>3, <3>3, <3>4
    <3>6. machineCode[a].opcode = opcodeTable[file[k].op]
      <4>1. CodeOrError
        BY <1>1 DEF AssemblerIInv, Generated
      <4>2. k \in Addressed(position)
        BY <1>2
      <4>3. QED
        BY <1>1, <2>8, <3>5, <4>1, <4>2 DEF CodeOrError
    <3>7. machineCode'[a] = machineCode[a]
      <4>1. CASE a < codeCount - 1
        <5>1. Addressed(Len(file)) # Addressed(k)
          <6>1. SUFFICES ASSUME Addressed(Len(file)) = Addressed(k) PROVE FALSE
            OBVIOUS
          <6>2. PICK n \in 1 .. Len(file) + 1 : n = Len(file) + 1 /\ n - 1 = Len(file)
            BY <1>2
          <6>3. currentAddress = AddressOf(n)
            BY <1>2, <6>2 DEF AssemblerIInv
          <6>4. PICK m \in Nat : m = k + 1 /\ m - 1 = k
            BY <1>2, <3>1
          <6>5. AddressOf(n) = AddressOf(m)
            BY <6>1, <6>2, <6>4 DEF AddressOf
          <6>6. QED
            BY <1>2, <2>3, <3>2, <4>1, <6>3, <6>4, <6>5
        <5>2. file[k].op # "HALT"
          BY <2>8, <5>1
        <5>3. file[k].op \in Operations
          <6>1. CodeOrError
            BY <1>1 DEF AssemblerIInv, Generated
          <6>2. k \in Addressed(position)
            BY <1>2
          <6>3. QED
            BY <1>1, <2>8, <3>5, <6>1, <6>2 DEF CodeOrError
        <5>4. ~ IsHalt(a)
          BY <2>4, <3>6, <5>2, <5>3, Opcodes
        <5>5. QED
          BY <2>6, <3>4, <5>4
      <4>2. CASE ~ (a < codeCount - 1)
        BY <2>6, <3>4, <4>2
      <4>3. QED
        BY <4>1, <4>2
    <3>8. QED
      BY <2>4, <3>3, <3>5, <3>6, <3>7
  <2>9. \A k : /\ Addressed(k)' = Addressed(k)
               /\ AddressOf(k)' = AddressOf(k)
    BY <1>1, SameFile
  <2>10. (\A a, b \in Address :
             a < b /\ Printed(a) /\ Printed(b) /\ IsHalt(a) /\ IsHalt(b) =>
                 \E c \in a + 1 .. b - 1 : Printed(c))'
    BY <2>7
  <2>11. ASSUME NEW k \in Addressed(Len(file))',
                (file[k].op # "HALT" \/ Addressed(Len(file)) = Addressed(k))'
         PROVE  (Printed(AddressOf(k))
                   /\ machineCode[AddressOf(k)].opcode = opcodeTable[file[k].op])'
    <3>1. PICK a : a = AddressOf(k) /\ a = AddressOf(k)'
      BY <2>9
    <3>2. k \in Addressed(Len(file)) /\ Addressed(Len(file))' = Addressed(Len(file))
      BY <1>1 DEF Addressed
    <3>3. Printed(a)' /\ machineCode'[a].opcode = opcodeTable[file[k].op]
      BY <1>1, <2>8, <2>9, <2>11, <3>1, <3>2
    <3>4. QED
      BY <1>1, <3>1, <3>3 DEF Printed
  <2>12. QED
    BY <2>10, <2>11 DEF OneHalt
<1>10. QED
  BY <1>1, <1>3, <1>5, <1>6, <1>7, <1>9 DEF AssemblerIInv, ValidFiles

-----------------------------------------------------------------------------

\* Every step keeps the invariant.
LEMMA AssemblerSteps == AssemblerIInv /\ [AssemblerNext]_assemblerVars => AssemblerIInv'
<1> SUFFICES ASSUME AssemblerIInv, [AssemblerNext]_assemblerVars PROVE AssemblerIInv'
  OBVIOUS
<1>1. CASE UNCHANGED assemblerVars \/ Exited
  <2>1. /\ file' = file /\ pass' = pass /\ position' = position
        /\ currentAddress' = currentAddress /\ labelTable' = labelTable
        /\ machineCode' = machineCode /\ codeCount' = codeCount /\ errors' = errors
    BY <1>1 DEF assemblerVars, Exited
  <2>2. Collected'
    BY <2>1, CollectedKept
  <2>3. \A k : /\ AddressOf(k)' = AddressOf(k)
               /\ Addressed(k)' = Addressed(k)
    BY <2>1, SameFile
  <2>4. CodeOrError' = CodeOrError
    BY <2>1 DEF CodeOrError, Refused, Addressed, AddressOf
  <2>5. Generated' = Generated
    BY <2>1, <2>4 DEF Generated, Refused, Addressed
  <2>6. OneHalt' = OneHalt
    BY <2>1 DEF OneHalt, Refused, Addressed, AddressOf, Printed, IsHalt
  <2>7. AssemblerTypeOK' = AssemblerTypeOK /\ Buffers' = Buffers
    BY <2>1 DEF AssemblerTypeOK, Buffers
  <2>8. (currentAddress = AddressOf(position + 1))'
    BY <2>1 DEF AssemblerIInv, AddressOf, Addressed
  <2>9. QED
    BY <2>1, <2>2, <2>5, <2>6, <2>7, <2>8 DEF AssemblerIInv, ValidFiles
<1>2. QED
  BY <1>1, SkipLineKeeps, FirstPassLineKeeps, RewindKeeps, SecondPassLineKeeps,
     SinglePassLineKeeps, PassEndsKeeps, OptimizeKeeps DEF AssemblerNext

\* Both modes of the assembler keep the addresses, whatever the files.
THEOREM AssemblerInvariant == AssemblerSpec => []AssemblerIInv
<1>1. AssemblerInit => AssemblerIInv
  BY InitAssembler, AssemblerInputs
<1>2. QED
  BY <1>1, AssemblerSteps, PTL DEF AssemblerSpec

\* Every symbol in the table stands for the first line it labels, and once the pass
\* that collects labels is over none is missing: firstPass(), addSymbol(),
\* findSymbol().
THEOREM AddressesAgree == AssemblerSpec => []AssemblerInv
<1>1. AssemblerIInv => AssemblerInv
  BY DEF AssemblerIInv, Collected, AssemblerInv
<1>2. QED
  BY <1>1, AssemblerInvariant, PTL

\* assembleInstruction() answers every line with its own code or an error.
THEOREM LinesAnswered == AssemblerSpec => []CodeOrError
<1>1. AssemblerIInv => CodeOrError
  BY DEF AssemblerIInv, Generated, CodeOrError
<1>2. QED
  BY <1>1, AssemblerInvariant, PTL

\* optimizeMachineCode() leaves one HALT of every row, and everything else.
THEOREM HaltsMerged == AssemblerSpec => []OneHalt
<1>1. AssemblerIInv => OneHalt
  BY DEF AssemblerIInv
<1>2. QED
  BY <1>1, AssemblerInvariant, PTL

-----------------------------------------------------------------------------
(***************************************************************************)
(* The macro processor.                                                    *)
(***************************************************************************)

\* The least element is one.
LEMMA MinimumIs ==
    ASSUME NEW S, S \subseteq Nat, S # {}
    PROVE  Minimum(S) \in S /\ \A k \in S : Minimum(S) <= k
<1>1. PICK x \in S : \A y \in S : x <= y
  BY LeastNat
<1>2. QED
  BY <1>1 DEF Minimum

InputFits == ValidInputs /\ inputCode \in Inputs

\* The input is a sequence of lines.
LEMMA InputIs ==
    ASSUME InputFits
    PROVE  /\ Len(inputCode) \in Nat /\ DOMAIN inputCode = 1 .. Len(inputCode)
           /\ inputCode \in Seq(LineOf(Text))
           /\ \A k \in 1 .. Len(inputCode) : inputCode[k] \in LineOf(Text)
           /\ \A k \in 1 .. Len(inputCode) :
                  inputCode[k].kind = "define" => Len(inputCode[k].args) <= 9
<1>1. inputCode \in Seq(LineOf(Text))
  BY DEF InputFits, ValidInputs
<1>2. \A k \in DOMAIN inputCode :
          inputCode[k].kind = "define" => Len(inputCode[k].args) <= Len(Placeholder)
  BY DEF InputFits, ValidInputs
<1>3. Len(Placeholder) = 9
  BY DEF Placeholder
<1> DEFINE E == LineOf(Text)
<1> HIDE DEF E
<1>4. inputCode \in Seq(E)
  BY <1>1 DEF E
<1>5. Len(inputCode) \in Nat /\ DOMAIN inputCode = 1 .. Len(inputCode)
  BY <1>4
<1>6. \A k \in 1 .. Len(inputCode) : inputCode[k] \in E
  BY <1>4
<1>7. QED
  BY <1>1, <1>2, <1>3, <1>5, <1>6 DEF E

\* What a line is, and what it is with other items.
LEMMA LineParts ==
    ASSUME NEW T, NEW l \in LineOf(T)
    PROVE  /\ l.kind \in {"define", "end", "code", "blank"} /\ l.word \in Text
           /\ l.args \in Seq(T)
           /\ \A U : \A items \in Seq(U) : [l EXCEPT !.args = items] \in LineOf(U)
           /\ \A items : [l EXCEPT !.args = items].args = items
  BY DEF LineOf

\* Which lines are in definitions goes from line to line.
LEMMA InDefinitionIs ==
    ASSUME InputFits
    PROVE  \A k \in 0 .. Len(inputCode) :
               InDefinition[k] <=>
                   /\ k > 1
                   /\ \/ inputCode[k - 1].kind = "define"
                      \/ InDefinition[k - 1] /\ inputCode[k - 1].kind # "end"
<1>1. Len(inputCode) \in Nat
  BY InputIs
<1> DEFINE e(f, k) == /\ k > 1
                      /\ \/ inputCode[k - 1].kind = "define"
                         \/ f[k - 1] /\ inputCode[k - 1].kind # "end"
           S == {n \in 0 .. Len(inputCode) : \E f : f = [k \in 0 .. n |-> e(f, k)]}
<1>2. 0 \in S
  <2> DEFINE f == [k \in 0 .. 0 |-> FALSE]
  <2>1. f = [k \in 0 .. 0 |-> e(f, k)]
    OBVIOUS
  <2>2. \E g : g = [k \in 0 .. 0 |-> e(g, k)]
    BY <2>1
  <2>3. 0 \in 0 .. Len(inputCode)
    BY <1>1
  <2>4. QED
    BY <2>2, <2>3
<1>3. ASSUME NEW n \in 0 .. Len(inputCode) - 1, n \in S PROVE n + 1 \in S
  <2>n. n \in Nat
    BY <1>1, <1>3
  <2>1. PICK f : f = [k \in 0 .. n |-> e(f, k)]
    BY <1>3
  <2> DEFINE g == [k \in 0 .. n + 1 |-> IF k = n + 1 THEN e(f, n + 1) ELSE f[k]]
  <2>2. ASSUME NEW k \in 0 .. n + 1 PROVE g[k] = e(g, k)
    <3>1. CASE k \in 0 .. n
      <4>1. f[k] = e(f, k)
        BY <2>1, <3>1
      <4>k. k \in 0 .. n + 1 /\ k # n + 1
        BY <2>n, <3>1
      <4>j. k > 1 => k - 1 \in 0 .. n + 1 /\ k - 1 # n + 1
        BY <2>n, <3>1
      <4>2. g[k] = f[k] /\ (k > 1 => g[k - 1] = f[k - 1])
        BY <4>k, <4>j
      <4> HIDE DEF g
      <4>3. QED
        BY <4>1, <4>2
    <3>2. CASE k = n + 1
      <4>j. k > 1 => k - 1 \in 0 .. n + 1 /\ k - 1 # n + 1
        BY <2>n, <3>2
      <4>1. g[k] = e(f, k) /\ (k > 1 => g[k - 1] = f[k - 1])
        BY <3>2, <4>j
      <4> HIDE DEF g
      <4>2. QED
        BY <4>1
    <3>3. k \in 0 .. n \/ k = n + 1
      BY <2>n, <2>2
    <3> HIDE DEF g, e
    <3>4. QED
      BY <3>1, <3>2, <3>3
  <2>3. g = [k \in 0 .. n + 1 |-> e(g, k)]
    <3>1. g = [k \in 0 .. n + 1 |-> g[k]]
      OBVIOUS
    <3> HIDE DEF g
    <3>2. QED
      BY <2>2, <3>1
  <2> HIDE DEF g
  <2>4. QED
    BY <1>1, <1>3, <2>3
<1> HIDE DEF S
<1>4. Len(inputCode) \in S
  <2>1. 0 .. Len(inputCode) \subseteq S
    BY <1>1, <1>2, <1>3, UpTo
  <2>2. QED
    BY <1>1, <2>1
<1>5. PICK f : f = [k \in 0 .. Len(inputCode) |-> e(f, k)]
  BY <1>4 DEF S
<1> DEFINE in == InDefinition
<1>6. in = [k \in 0 .. Len(inputCode) |-> e(in, k)]
  BY <1>5 DEF InDefinition
<1> HIDE DEF in
<1>7. \A k \in 0 .. Len(inputCode) : in[k] = e(in, k)
  BY <1>6
<1>8. QED
  BY <1>7 DEF in

\* A definition ends at an "#end" or at the end of the file, and has none inside.
LEMMA DefinitionEndIs ==
    ASSUME InputFits, NEW d \in 1 .. Len(inputCode)
    PROVE  /\ DefinitionEnd(d) \in d + 1 .. Len(inputCode) + 1
           /\ DefinitionEnd(d) <= Len(inputCode) =>
                  inputCode[DefinitionEnd(d)].kind = "end"
           /\ \A k \in d + 1 .. DefinitionEnd(d) - 1 : inputCode[k].kind # "end"
<1>1. Len(inputCode) \in Nat
  BY InputIs
<1> DEFINE S == {k \in d + 1 .. Len(inputCode) : inputCode[k].kind = "end"}
                    \cup {Len(inputCode) + 1}
           e == DefinitionEnd(d)
<1>2. /\ S \subseteq Nat /\ Len(inputCode) + 1 \in S
      /\ \A k \in S : k \in d + 1 .. Len(inputCode) + 1
      /\ \A k \in S : k <= Len(inputCode) => inputCode[k].kind = "end"
  BY <1>1
<1>3. \A k \in d + 1 .. Len(inputCode) : inputCode[k].kind = "end" => k \in S
  OBVIOUS
<1>4. e = Minimum(S)
  BY DEF DefinitionEnd
<1> HIDE DEF S, e
<1>5. e \in S /\ \A k \in S : e <= k
  BY <1>2, <1>4, MinimumIs
<1>6. ASSUME NEW k \in d + 1 .. e - 1 PROVE inputCode[k].kind # "end"
  <2>1. k \in d + 1 .. Len(inputCode) /\ k < e
    BY <1>1, <1>2, <1>5
  <2>2. k \notin S
    BY <1>1, <1>2, <1>5, <2>1
  <2>3. inputCode[k].kind = "end" => k \in S
    BY <1>3, <2>1
  <2>4. QED
    BY <2>2, <2>3
<1>7. QED
  BY <1>2, <1>5, <1>6 DEF e

\* The lines of a definition are in it, and the line after it is not.
LEMMA LinesOfDefinition ==
    ASSUME InputFits, NEW d \in 1 .. Len(inputCode), inputCode[d].kind = "define",
           NEW e, e = DefinitionEnd(d)
    PROVE  /\ \A k \in d + 1 .. e : k <= Len(inputCode) => InDefinition[k]
           /\ e + 1 <= Len(inputCode) => ~ InDefinition[e + 1]
           /\ Body(d) = d + 1 .. e - 1
<1>1. /\ Len(inputCode) \in Nat /\ e \in d + 1 .. Len(inputCode) + 1
      /\ e <= Len(inputCode) => inputCode[e].kind = "end"
      /\ \A k \in d + 1 .. e - 1 : inputCode[k].kind # "end"
  BY InputIs, DefinitionEndIs
<1> DEFINE S == {n \in 0 .. e - d - 1 : d + 1 + n <= Len(inputCode) =>
                                            InDefinition[d + 1 + n]}
<1>2. 0 \in S
  <2>1. d + 1 <= Len(inputCode) => InDefinition[d + 1]
    <3>1. SUFFICES ASSUME d + 1 <= Len(inputCode) PROVE InDefinition[d + 1]
      OBVIOUS
    <3>2. PICK k \in 0 .. Len(inputCode) : k = d + 1 /\ k - 1 = d /\ k > 1
      BY <1>1, <3>1
    <3>3. InDefinition[k]
      BY <3>2, InDefinitionIs
    <3>4. QED
      BY <3>2, <3>3
  <2>2. QED
    BY <1>1, <2>1
<1>3. ASSUME NEW n \in 0 .. e - d - 1 - 1, n \in S PROVE n + 1 \in S
  <2>1. SUFFICES ASSUME d + 1 + (n + 1) <= Len(inputCode)
                 PROVE  InDefinition[d + 1 + (n + 1)]
    BY <1>1, <1>3
  <2>2. PICK k \in 0 .. Len(inputCode) : /\ k = d + 1 + (n + 1) /\ k - 1 = d + 1 + n /\ k > 1
                                         /\ k - 1 \in d + 1 .. e - 1 /\ k - 1 <= Len(inputCode)
    <3>1. PICK len : len = Len(inputCode)
      OBVIOUS
    <3>2. d \in Nat \ {0} /\ e \in Int /\ n \in 0 .. e - d - 1 - 1 /\ len \in Nat
          /\ d + 1 + (n + 1) <= len
      BY <1>1, <1>3, <2>1, <3>1
    <3>3. d + 1 + (n + 1) \in 0 .. len
      BY <3>2
    <3>4. QED
      BY <3>1, <3>2, <3>3
  <2>3. InDefinition[k - 1] /\ inputCode[k - 1].kind # "end"
    BY <1>1, <1>3, <2>2
  <2>4. InDefinition[k]
    BY <2>2, <2>3, InDefinitionIs
  <2>5. QED
    BY <2>2, <2>4
<1> HIDE DEF S
<1>4. 0 .. e - d - 1 \subseteq S
  <2>1. e - d - 1 \in Nat
    BY <1>1
  <2>2. QED
    BY <1>2, <1>3, <2>1, UpTo
<1>5. ASSUME NEW k \in d + 1 .. e, k <= Len(inputCode) PROVE InDefinition[k]
  <2>1. PICK n \in 0 .. e - d - 1 : d + 1 + n = k
    <3>1. k - d - 1 \in 0 .. e - d - 1 /\ d + 1 + (k - d - 1) = k
      BY <1>1
    <3>2. QED
      BY <3>1
  <2>2. QED
    BY <1>4, <1>5, <2>1 DEF S
<1>6. ASSUME e + 1 <= Len(inputCode) PROVE ~ InDefinition[e + 1]
  <2>1. PICK k \in 0 .. Len(inputCode) : k = e + 1 /\ k - 1 = e
    BY <1>1, <1>6
  <2>2. inputCode[e].kind = "end"
    BY <1>1, <1>6
  <2>3. ~ InDefinition[k]
    BY <2>1, <2>2, InDefinitionIs
  <2>4. QED
    BY <2>1, <2>3
<1>7. Body(d) = d + 1 .. e - 1
  <2>1. ASSUME NEW k \in Body(d) PROVE k \in d + 1 .. e - 1
    <3>1. /\ k \in d + 1 .. Len(inputCode)
          /\ \A n \in d + 1 .. k : inputCode[n].kind # "end"
      BY DEF Body
    <3>2. ~ e <= k
      <4>1. SUFFICES ASSUME e <= k PROVE FALSE
        OBVIOUS
      <4>2. e \in d + 1 .. k /\ e <= Len(inputCode)
        BY <1>1, <3>1, <4>1
      <4>3. QED
        BY <1>1, <3>1, <4>2
    <3>3. QED
      BY <1>1, <3>1, <3>2
  <2>2. ASSUME NEW k \in d + 1 .. e - 1 PROVE k \in Body(d)
    <3>1. k \in d + 1 .. Len(inputCode)
      BY <1>1
    <3>2. ASSUME NEW n \in d + 1 .. k PROVE InDefinition[n] /\ inputCode[n].kind # "end"
      <4>1. n \in d + 1 .. e - 1 /\ n \in d + 1 .. e /\ n <= Len(inputCode)
        BY <1>1, <3>1
      <4>2. QED
        BY <1>1, <1>5, <4>1
    <3>3. QED
      BY <3>1, <3>2 DEF Body
  <2>3. QED
    BY <2>1, <2>2
<1>8. QED
  BY <1>5, <1>6, <1>7

\* The "#define" lines before one that are not themselves in a definition, and what
\* processMacroDefinition() enters for one.
Starts(n) == {d \in 1 .. Len(inputCode) :
                d < n /\ inputCode[d].kind = "define" /\ ~ InDefinition[d]}

Entry(d) == [name       |-> inputCode[d].word,
             argCount   |-> Len(inputCode[d].args),
             definition |-> SubSeq(inputCode, d + 1, DefinitionEnd(d) - 1)]

\* The table is that of the definitions that start before a line.
TableAt(table, n) ==
    \E at \in Seq(Nat) :
      /\ table = [m \in 1 .. Len(at) |-> Entry(at[m])]
      /\ \A m, k \in 1 .. Len(at) : m < k => at[m] < at[k]
      /\ \A m \in 1 .. Len(at) : at[m] \in Starts(n)
      /\ \A d \in Starts(n) : \E m \in 1 .. Len(at) : at[m] = d

\* The position is a line outside every definition, or after the last line.
AtBoundary(n) ==
    /\ n \in 1 .. Len(inputCode) + 2
    /\ n <= Len(inputCode) => ~ InDefinition[n]
    /\ \A d \in Starts(n) : DefinitionEnd(d) < n

\* An ordinary line leaves the definitions as they are.
LEMMA PastOrdinaryLine ==
    ASSUME InputFits, NEW n, AtBoundary(n), n <= Len(inputCode),
           inputCode[n].kind # "define"
    PROVE  /\ AtBoundary(n + 1)
           /\ Starts(n + 1) = Starts(n)
           /\ \A table : TableAt(table, n) => TableAt(table, n + 1)
<1>1. Len(inputCode) \in Nat /\ n \in 1 .. Len(inputCode)
  BY InputIs DEF AtBoundary
<1>2. Starts(n + 1) = Starts(n)
  <2>1. n \notin Starts(n + 1)
    BY DEF Starts
  <2>2. \A d \in 1 .. Len(inputCode) : d < n + 1 <=> d < n \/ d = n
    BY <1>1
  <2>3. QED
    BY <2>1, <2>2 DEF Starts
<1>3. n + 1 <= Len(inputCode) => ~ InDefinition[n + 1]
  <2>1. SUFFICES ASSUME n + 1 <= Len(inputCode) PROVE ~ InDefinition[n + 1]
    OBVIOUS
  <2>2. PICK k \in 0 .. Len(inputCode) : k = n + 1 /\ k - 1 = n
    BY <1>1, <2>1
  <2>3. ~ InDefinition[n]
    BY DEF AtBoundary
  <2>4. ~ InDefinition[k]
    BY <2>2, <2>3, InDefinitionIs
  <2>5. QED
    BY <2>2, <2>4
<1>5. \A d \in Starts(n + 1) : DefinitionEnd(d) < n + 1
  <2>1. ASSUME NEW d \in Starts(n + 1) PROVE DefinitionEnd(d) < n + 1
    <3>1. DefinitionEnd(d) < n
      BY <1>2, <2>1 DEF AtBoundary
    <3>2. d \in 1 .. Len(inputCode)
      BY <1>1, <2>1 DEF Starts
    <3>3. DefinitionEnd(d) \in Int
      BY <1>1, <3>2, DefinitionEndIs
    <3>4. QED
      BY <1>1, <3>1, <3>3
  <2>2. QED
    BY <2>1
<1>6. AtBoundary(n + 1)
  <2>1. n + 1 \in 1 .. Len(inputCode) + 2
    BY <1>1
  <2>2. QED
    BY <1>3, <1>5, <2>1 DEF AtBoundary
<1>7. QED
  BY <1>2, <1>6 DEF TableAt

\* A definition adds its own start.
LEMMA PastDefinition ==
    ASSUME InputFits, NEW n, AtBoundary(n), n <= Len(inputCode),
           inputCode[n].kind = "define",
           NEW e, e = DefinitionEnd(n)
    PROVE  /\ AtBoundary(e + 1)
           /\ \A table : TableAt(table, n) => TableAt(Append(table, Entry(n)), e + 1)
<1>1. Len(inputCode) \in Nat /\ n \in 1 .. Len(inputCode)
  BY InputIs DEF AtBoundary
<1>2. e \in n + 1 .. Len(inputCode) + 1
  BY <1>1, DefinitionEndIs
<1>3. /\ \A k \in n + 1 .. e : k <= Len(inputCode) => InDefinition[k]
      /\ e + 1 <= Len(inputCode) => ~ InDefinition[e + 1]
  BY <1>1, LinesOfDefinition
<1>4. Starts(e + 1) = Starts(n) \cup {n}
  <2>1. \A d \in n + 1 .. e : d \notin Starts(e + 1)
    BY <1>3 DEF Starts
  <2>2. \A d \in 1 .. Len(inputCode) : d < e + 1 => d < n \/ d = n \/ d \in n + 1 .. e
    BY <1>1, <1>2
  <2>3. (\A d \in 1 .. Len(inputCode) : d < n => d < e + 1) /\ n < e + 1
    BY <1>1, <1>2
  <2>4. n \in Starts(e + 1)
    BY <1>1, <2>3 DEF Starts, AtBoundary
  <2>5. QED
    BY <2>1, <2>2, <2>3, <2>4 DEF Starts
<1>6. AtBoundary(e + 1)
  <2>1. e + 1 \in 1 .. Len(inputCode) + 2
    BY <1>1, <1>2
  <2>2. ASSUME NEW d \in Starts(e + 1) PROVE DefinitionEnd(d) < e + 1
    <3>1. CASE d = n
      BY <1>2, <3>1
    <3>2. CASE d \in Starts(n)
      <4>1. DefinitionEnd(d) < n
        BY <3>2 DEF AtBoundary
      <4>2. d \in 1 .. Len(inputCode)
        BY <1>1, <1>2, <2>2 DEF Starts
      <4>3. DefinitionEnd(d) \in Int
        BY <1>1, <4>2, DefinitionEndIs
      <4>4. QED
        BY <1>1, <1>2, <4>1, <4>3
    <3>3. QED
      BY <1>4, <2>2, <3>1, <3>2
  <2>3. QED
    BY <1>3, <2>1, <2>2 DEF AtBoundary
<1>7. ASSUME NEW table, TableAt(table, n)
      PROVE  TableAt(Append(table, Entry(n)), e + 1)
  <2>1. PICK at \in Seq(Nat) :
          /\ table = [m \in 1 .. Len(at) |-> Entry(at[m])]
          /\ \A m, k \in 1 .. Len(at) : m < k => at[m] < at[k]
          /\ \A m \in 1 .. Len(at) : at[m] \in Starts(n)
          /\ \A d \in Starts(n) : \E m \in 1 .. Len(at) : at[m] = d
    BY <1>7 DEF TableAt
  <2> DEFINE new == Append(at, n)
  <2>2. /\ new \in Seq(Nat) /\ Len(new) = Len(at) + 1 /\ Len(at) \in Nat
        /\ \A m \in 1 .. Len(at) : new[m] = at[m]
        /\ new[Len(at) + 1] = n
    BY <1>1, <2>1
  <2> HIDE DEF new
  <2>3. \A m \in 1 .. Len(new) : m \in 1 .. Len(at) \/ m = Len(at) + 1
    BY <2>2
  <2>4. Append(table, Entry(n)) = [m \in 1 .. Len(new) |-> Entry(new[m])]
    <3> DEFINE S == {Entry(d) : d \in Nat}
               both == Append(table, Entry(n))
               want == [m \in 1 .. Len(new) |-> Entry(new[m])]
    <3>1. \A d \in Nat : Entry(d) \in S
      OBVIOUS
    <3>e. PICK x : x = Entry(n)
      OBVIOUS
    <3> HIDE DEF S
    <3>2. table \in Seq(S) /\ Len(table) = Len(at)
      BY <2>1, <2>2, <3>1
    <3>3. /\ DOMAIN both = 1 .. Len(at) + 1
          /\ \A m \in 1 .. Len(at) : both[m] = table[m]
          /\ both[Len(at) + 1] = x
          /\ both = [m \in DOMAIN both |-> both[m]]
      <4>1. x \in S
        BY <1>1, <3>1, <3>e
      <4>2. both = Append(table, x)
        BY <3>e
      <4> HIDE DEF both, want
      <4>3. both \in Seq(S) /\ Len(both) = Len(at) + 1
        BY <3>2, <4>1, <4>2
      <4>4. \A m \in 1 .. Len(at) : both[m] = table[m]
        BY <2>2, <3>2, <4>1, <4>2
      <4>5. both[Len(at) + 1] = x
        BY <2>2, <3>2, <4>1, <4>2
      <4>6. DOMAIN both = 1 .. Len(at) + 1 /\ both = [m \in DOMAIN both |-> both[m]]
        BY <4>3
      <4>7. QED
        BY <4>4, <4>5, <4>6
    <3> HIDE DEF both
    <3>4. \A m \in 1 .. Len(at) : both[m] = Entry(new[m])
      BY <2>1, <2>2, <3>3
    <3>5. both[Len(at) + 1] = Entry(new[Len(at) + 1])
      BY <2>2, <3>3, <3>e
    <3>6. \A m \in 1 .. Len(new) : both[m] = Entry(new[m])
      BY <2>3, <3>4, <3>5
    <3>7. both = [m \in 1 .. Len(new) |-> both[m]]
      BY <2>2, <3>3
    <3>8. both = want
      BY <3>6, <3>7
    <3>9. QED
      BY <3>8 DEF both
  <2>5. \A m \in 1 .. Len(at) : at[m] \in Nat /\ at[m] < n
    BY <2>1 DEF Starts
  <2>6. ASSUME NEW m \in 1 .. Len(new), NEW k \in 1 .. Len(new), m < k
        PROVE  new[m] < new[k]
    <3>1. m \in 1 .. Len(at)
      BY <2>2, <2>6
    <3>2. CASE k \in 1 .. Len(at)
      BY <2>1, <2>2, <2>6, <3>1, <3>2
    <3>3. CASE k = Len(at) + 1
      <4>1. new[m] < n /\ new[k] = n
        BY <2>2, <2>5, <3>1, <3>3
      <4>2. QED
        BY <1>1, <4>1
    <3>4. QED
      BY <2>3, <3>2, <3>3
  <2>7. \A m \in 1 .. Len(new) : new[m] \in Starts(e + 1)
    BY <1>4, <2>1, <2>2, <2>3
  <2>8. \A d \in Starts(e + 1) : \E m \in 1 .. Len(new) : new[m] = d
    <3>1. \A m \in 1 .. Len(at) : m \in 1 .. Len(new)
      BY <2>2
    <3>2. Len(at) + 1 \in 1 .. Len(new)
      BY <2>2
    <3>3. QED
      BY <1>4, <2>1, <2>2, <3>1, <3>2
  <2>9. QED
    BY <2>2, <2>4, <2>6, <2>7, <2>8 DEF TableAt
<1>8. QED
  BY <1>6, <1>7

\* The least element is the only one that is.
LEMMA MinimumIsOnly ==
    ASSUME NEW S, S \subseteq Nat, NEW x \in S, \A k \in S : x <= k
    PROVE  Minimum(S) = x
<1> DEFINE m == Minimum(S)
<1>1. m \in S /\ \A k \in S : m <= k
  BY MinimumIs
<1> HIDE DEF m
<1>2. m \in Nat /\ x \in Nat /\ m <= x /\ x <= m
  BY <1>1
<1>3. QED
  BY <1>2 DEF m

\* findMacro() finds the definition of a name that starts first.
LEMMA FindMacroIs ==
    ASSUME InputFits, NEW n, TableAt(macroTable, n), NEW w,
           NEW D, D = {d \in Starts(n) : inputCode[d].word = w}
    PROVE  /\ FindMacro(w) = 0 => D = {}
           /\ FindMacro(w) # 0 => /\ FindMacro(w) \in DOMAIN macroTable
                                  /\ D # {}
                                  /\ macroTable[FindMacro(w)] = Entry(Minimum(D))
<1>1. PICK at \in Seq(Nat) :
        /\ macroTable = [m \in 1 .. Len(at) |-> Entry(at[m])]
        /\ \A m, k \in 1 .. Len(at) : m < k => at[m] < at[k]
        /\ \A m \in 1 .. Len(at) : at[m] \in Starts(n)
        /\ \A d \in Starts(n) : \E m \in 1 .. Len(at) : at[m] = d
  BY DEF TableAt
<1> DEFINE M == Defining(w)
           f == FindMacro(w)
<1>2. Len(at) \in Nat /\ DOMAIN macroTable = 1 .. Len(at)
  BY <1>1
<1>3. M = {m \in 1 .. Len(at) : at[m] \in D}
  <2>1. \A m \in 1 .. Len(at) : macroTable[m].name = inputCode[at[m]].word
    BY <1>1 DEF Entry
  <2>2. M = {m \in 1 .. Len(at) : inputCode[at[m]].word = w}
    BY <1>2, <2>1 DEF Defining
  <2>3. \A m \in 1 .. Len(at) : at[m] \in D <=> inputCode[at[m]].word = w
    BY <1>1
  <2>4. QED
    BY <2>2, <2>3
<1>4. f = IF M = {} THEN 0 ELSE Minimum(M)
  BY DEF FindMacro
<1> HIDE DEF M, f
<1>5. ASSUME f = 0 PROVE D = {}
  <2>1. M = {}
    <3>1. SUFFICES ASSUME M # {} PROVE FALSE
      OBVIOUS
    <3>2. M \subseteq Nat
      BY <1>3
    <3>3. f \in M
      BY <1>4, <3>1, <3>2, MinimumIs
    <3>4. QED
      BY <1>3, <1>5, <3>3
  <2>2. \A d \in D : \E m \in 1 .. Len(at) : at[m] = d
    BY <1>1
  <2>3. QED
    BY <1>3, <2>1, <2>2
<1>6. ASSUME f # 0
      PROVE  f \in DOMAIN macroTable /\ D # {} /\ macroTable[f] = Entry(Minimum(D))
  <2>1. M # {} /\ M \subseteq Nat
    BY <1>3, <1>4, <1>6
  <2>2. f \in M /\ \A k \in M : f <= k
    BY <1>4, <2>1, MinimumIs
  <2>3. f \in 1 .. Len(at) /\ at[f] \in D
    BY <1>3, <2>2
  <2>4. ASSUME NEW d \in D PROVE at[f] <= d
    <3>1. PICK m \in 1 .. Len(at) : at[m] = d
      BY <1>1, <2>4
    <3>2. m \in M /\ f <= m
      BY <1>3, <2>2, <2>4, <3>1
    <3>3. at[f] \in Nat /\ at[m] \in Nat
      BY <1>2, <2>3
    <3>4. f = m \/ f < m
      BY <2>3, <3>2
    <3>5. CASE f = m
      BY <3>1, <3>3, <3>5
    <3>6. CASE f < m
      <4>1. at[f] < at[m]
        BY <1>1, <2>3, <3>6
      <4>2. QED
        BY <3>1, <3>3, <4>1
    <3>7. QED
      BY <3>4, <3>5, <3>6
  <2>5. D \subseteq Nat
    BY DEF Starts
  <2>6. at[f] = Minimum(D)
    BY <2>3, <2>4, <2>5, MinimumIsOnly
  <2>7. QED
    BY <1>1, <1>2, <2>3, <2>6
<1>7. QED
  BY <1>5, <1>6 DEF f

\* The definitions of a line's first word that are over before the line.
LEMMA DefinitionForIs ==
    ASSUME InputFits, NEW k \in 1 .. Len(inputCode)
    PROVE  DefinitionFor(k) = {d \in Starts(k) : inputCode[d].word = inputCode[k].word}
<1>1. Len(inputCode) \in Nat
  BY InputIs
<1>2. \A d : d \in 1 .. k - 1 <=> d \in 1 .. Len(inputCode) /\ d < k
  BY <1>1
<1>3. QED
  BY <1>2 DEF DefinitionFor, Starts

-----------------------------------------------------------------------------
\* One value put in leaves a list of items one.
LEMMA ReplaceTyped ==
    ASSUME NEW U, NEW items \in Seq(U), NEW j, NEW value \in U
    PROVE  /\ Replace(items, j, value) \in Seq(U)
           /\ DOMAIN Replace(items, j, value) = DOMAIN items
<1> DEFINE at == {k \in DOMAIN items : items[k] = Placeholder[j]}
<1>1. at \subseteq Nat /\ at \subseteq DOMAIN items
  OBVIOUS
<1>2. CASE at = {}
  BY <1>2 DEF Replace
<1>3. CASE at # {}
  <2>1. PICK m \in DOMAIN items : m = Minimum(at)
    <3> HIDE DEF at
    <3>1. QED
      BY <1>1, <1>3, MinimumIs
  <2>2. Replace(items, j, value) = [items EXCEPT ![m] = value]
    BY <1>3, <2>1 DEF Replace
  <2>3. QED
    BY <2>2
<1>4. QED
  BY <1>2, <1>3

\* The items after every parameter, one after the other.
LEMMA ExpandedLineIs ==
    ASSUME NEW row, NEW args, NEW c \in Nat
    PROVE  \E items : /\ items[0] = row.args
                      /\ \A j \in 0 .. c - 1 :
                           items[j + 1] = Replace(items[j], j + 1,
                                                      ArgValue(args, j + 1))
                      /\ ExpandedLine(row, args, c) = [row EXCEPT !.args = items[c]]
<1> DEFINE next(f, j) == Replace(f[j - 1], j, ArgValue(args, j))
           e(f, j) == IF j = 0 THEN row.args ELSE next(f, j)
           S == {n \in 0 .. c : \E f : f = [j \in 0 .. n |-> e(f, j)]}
<1>1. 0 \in S
  <2> DEFINE f == [j \in 0 .. 0 |-> row.args]
  <2>1. f = [j \in 0 .. 0 |-> e(f, j)]
    <3> HIDE DEF next
    <3>1. QED
      OBVIOUS
  <2>2. \E g : g = [j \in 0 .. 0 |-> e(g, j)]
    BY <2>1
  <2>3. QED
    BY <2>2
<1>2. ASSUME NEW n \in 0 .. c - 1, n \in S PROVE n + 1 \in S
  <2>n. n \in Nat
    BY <1>2
  <2>1. PICK f : f = [j \in 0 .. n |-> e(f, j)]
    BY <1>2
  <2> DEFINE g == [j \in 0 .. n + 1 |-> IF j = n + 1 THEN e(f, n + 1) ELSE f[j]]
  <2>2. ASSUME NEW j \in 0 .. n + 1 PROVE g[j] = e(g, j)
    <3>1. CASE j \in 0 .. n
      <4>1. f[j] = e(f, j)
        BY <2>1, <3>1
      <4>k. j \in 0 .. n + 1 /\ j # n + 1
        BY <2>n, <3>1
      <4>j. j # 0 => j - 1 \in 0 .. n + 1 /\ j - 1 # n + 1
        BY <2>n, <3>1
      <4>2. g[j] = f[j] /\ (j # 0 => g[j - 1] = f[j - 1])
        BY <4>k, <4>j
      <4> HIDE DEF g
      <4>3. QED
        BY <4>1, <4>2
    <3>2. CASE j = n + 1
      <4>j. j # 0 => j - 1 \in 0 .. n + 1 /\ j - 1 # n + 1
        BY <2>n, <3>2
      <4>1. g[j] = e(f, j) /\ (j # 0 => g[j - 1] = f[j - 1])
        BY <3>2, <4>j
      <4> HIDE DEF g
      <4>2. QED
        BY <4>1
    <3>3. j \in 0 .. n \/ j = n + 1
      BY <2>n, <2>2
    <3> HIDE DEF g, e
    <3>4. QED
      BY <3>1, <3>2, <3>3
  <2>3. g = [j \in 0 .. n + 1 |-> e(g, j)]
    <3>1. g = [j \in 0 .. n + 1 |-> g[j]]
      OBVIOUS
    <3> HIDE DEF g
    <3>2. QED
      BY <2>2, <3>1
  <2> HIDE DEF g
  <2>4. QED
    BY <1>2, <2>3
<1> HIDE DEF S
<1>3. c \in S
  <2>1. 0 .. c \subseteq S
    BY <1>1, <1>2, UpTo
  <2>2. QED
    BY <2>1
<1>4. PICK f : f = [j \in 0 .. c |-> e(f, j)]
  BY <1>3 DEF S
<1> DEFINE items == CHOOSE g : g = [j \in 0 .. c |-> e(g, j)]
<1>5. ExpandedLine(row, args, c) = [row EXCEPT !.args = items[c]]
  BY DEF ExpandedLine
<1>6. items = [j \in 0 .. c |-> e(items, j)]
  BY <1>4
<1> HIDE DEF items
<1>7. \A j \in 0 .. c : items[j] = e(items, j)
  BY <1>6
<1>8. items[0] = row.args
  BY <1>7
<1>9. ASSUME NEW j \in 0 .. c - 1
      PROVE  items[j + 1] = Replace(items[j], j + 1, ArgValue(args, j + 1))
  <2>1. PICK k \in 0 .. c : k = j + 1 /\ k # 0 /\ k - 1 = j
    BY <1>9
  <2>2. items[k] = Replace(items[k - 1], k, ArgValue(args, k))
    BY <1>7, <2>1
  <2>3. QED
    BY <2>1, <2>2
<1>10. QED
  BY <1>5, <1>8, <1>9

\* A line is expanded to a line, with items from the definition and the values.
LEMMA ExpandedLineTyped ==
    ASSUME NEW U, NEW T, T \subseteq U, NEW row \in LineOf(T), NEW args,
           NEW c \in Nat, \A j \in 1 .. c : ArgValue(args, j) \in U
    PROVE  ExpandedLine(row, args, c) \in LineOf(U)
<1>1. PICK items : /\ items[0] = row.args
                   /\ \A j \in 0 .. c - 1 :
                        items[j + 1] = Replace(items[j], j + 1,
                                                   ArgValue(args, j + 1))
                   /\ ExpandedLine(row, args, c) = [row EXCEPT !.args = items[c]]
  BY ExpandedLineIs
<1> DEFINE S == {j \in 0 .. c : items[j] \in Seq(U)}
<1>2. 0 \in S
  <2>1. row.args \in Seq(T)
    BY LineParts
  <2>2. row.args \in Seq(U)
    BY <2>1
  <2>3. QED
    BY <1>1, <2>2
<1>3. ASSUME NEW j \in 0 .. c - 1, j \in S PROVE j + 1 \in S
  <2>1. PICK k \in 1 .. c : k = j + 1
    BY <1>3
  <2>2. items[k] = Replace(items[j], k, ArgValue(args, k))
    BY <1>1, <1>3, <2>1
  <2>3. items[k] \in Seq(U)
    BY <1>3, <2>2, ReplaceTyped
  <2>4. QED
    BY <2>1, <2>3
<1> HIDE DEF S
<1>4. c \in S
  <2>1. 0 .. c \subseteq S
    BY <1>2, <1>3, UpTo
  <2>2. QED
    BY <2>1
<1>5. items[c] \in Seq(U)
  BY <1>4 DEF S
<1>6. QED
  BY <1>1, <1>5, LineParts

\* Where a placeholder first appears, and what a list of items is with the first
\* placeholders replaced at once.
FirstAt(items, n, q) == /\ items[n] = Placeholder[q]
                        /\ \A p \in 1 .. n - 1 : items[p] # Placeholder[q]

Replaced(items, args, c) ==
    [n \in DOMAIN items |->
        IF \E q \in 1 .. c : FirstAt(items, n, q)
        THEN args[CHOOSE q \in 1 .. c : items[n] = Placeholder[q]]
        ELSE items[n]]

\* The placeholders differ.
LEMMA PlaceholdersDiffer ==
    \A p, q \in 1 .. 9 : Placeholder[p] = Placeholder[q] => p = q
<1> DEFINE P == Placeholder
<1>1. /\ P[1] = "$1" /\ P[2] = "$2" /\ P[3] = "$3" /\ P[4] = "$4" /\ P[5] = "$5"
      /\ P[6] = "$6" /\ P[7] = "$7" /\ P[8] = "$8" /\ P[9] = "$9"
  BY DEF Placeholder
<1>2. \A p \in 1 .. 9 : \/ p = 1 \/ p = 2 \/ p = 3 \/ p = 4 \/ p = 5
                        \/ p = 6 \/ p = 7 \/ p = 8 \/ p = 9
  OBVIOUS
<1> HIDE DEF P
<1>3. ASSUME NEW p \in 1 .. 9, NEW q \in 1 .. 9, P[p] = P[q] PROVE p = q
  BY <1>1, <1>2, <1>3
<1>4. QED
  BY <1>3 DEF P

\* An item that is a placeholder is that of one parameter only.
LEMMA ChosenIs ==
    ASSUME NEW items, NEW n, NEW c \in 0 .. 9, NEW q \in 1 .. c,
           items[n] = Placeholder[q]
    PROVE  (CHOOSE p \in 1 .. c : items[n] = Placeholder[p]) = q
<1> DEFINE x == CHOOSE p \in 1 .. c : items[n] = Placeholder[p]
<1>1. x \in 1 .. c /\ items[n] = Placeholder[x]
  OBVIOUS
<1> HIDE DEF x
<1>2. x \in 1 .. 9 /\ q \in 1 .. 9
  BY <1>1
<1>3. x = q
  BY <1>1, <1>2, PlaceholdersDiffer
<1>4. QED
  BY <1>3 DEF x

\* One more parameter.
LEMMA ReplaceOneMore ==
    ASSUME NEW T, NEW items \in Seq(T), NEW args, NEW c \in 0 .. 8,
           \A j \in 1 .. c : \A q \in 1 .. 9 : args[j] # Placeholder[q]
    PROVE  Replace(Replaced(items, args, c), c + 1, args[c + 1])
               = Replaced(items, args, c + 1)
<1> DEFINE old == Replaced(items, args, c)
           new == Replaced(items, args, c + 1)
           P == Placeholder
           at == {k \in DOMAIN old : old[k] = P[c + 1]}
<1>1. /\ DOMAIN old = DOMAIN items /\ DOMAIN new = DOMAIN items
      /\ \A k \in DOMAIN items : k \in Nat \ {0}
      /\ \A k \in DOMAIN items : \A p \in 1 .. k - 1 : p \in DOMAIN items
  <2>1. DOMAIN items = 1 .. Len(items) /\ Len(items) \in Nat
    OBVIOUS
  <2>2. QED
    BY <2>1 DEF Replaced
<1>2. ASSUME NEW k \in DOMAIN items, NEW q \in 1 .. c, FirstAt(items, k, q)
      PROVE  old[k] = args[q] /\ new[k] = args[q]
  <2>1. q \in 1 .. c + 1 /\ c \in 0 .. 9 /\ c + 1 \in 0 .. 9
    OBVIOUS
  <2>2. items[k] = P[q]
    BY <1>2 DEF FirstAt
  <2>3. old[k] = args[q]
    BY <1>2, <2>1, <2>2, ChosenIs DEF Replaced
  <2>4. (CHOOSE p \in 1 .. c + 1 : items[k] = P[p]) = q
    BY <2>1, <2>2, ChosenIs
  <2>5. new[k] = args[q]
    BY <1>2, <2>1, <2>4 DEF Replaced
  <2>6. QED
    BY <2>3, <2>5
<1>3. ASSUME NEW k \in DOMAIN items, ~ \E q \in 1 .. c : FirstAt(items, k, q)
      PROVE  /\ old[k] = items[k]
             /\ new[k] = IF FirstAt(items, k, c + 1) THEN args[c + 1] ELSE items[k]
  <2>1. old[k] = items[k]
    BY <1>3 DEF Replaced
  <2>2. CASE FirstAt(items, k, c + 1)
    <3>1. c + 1 \in 1 .. c + 1 /\ c + 1 \in 0 .. 9
      OBVIOUS
    <3>2. items[k] = P[c + 1]
      BY <2>2 DEF FirstAt
    <3>3. (CHOOSE p \in 1 .. c + 1 : items[k] = P[p]) = c + 1
      BY <3>1, <3>2, ChosenIs
    <3>4. new[k] = args[c + 1]
      BY <2>2, <3>1, <3>3 DEF Replaced
    <3>5. QED
      BY <2>1, <2>2, <3>4
  <2>3. CASE ~ FirstAt(items, k, c + 1)
    <3>1. \A q \in 1 .. c + 1 : q \in 1 .. c \/ q = c + 1
      OBVIOUS
    <3>2. ~ \E q \in 1 .. c + 1 : FirstAt(items, k, q)
      BY <1>3, <2>3, <3>1
    <3>3. new[k] = items[k]
      BY <3>2 DEF Replaced
    <3>4. QED
      BY <2>1, <2>3, <3>3
  <2>4. QED
    BY <2>2, <2>3
<1>4. ASSUME NEW k \in DOMAIN items
      PROVE  old[k] = P[c + 1] <=> items[k] = P[c + 1]
  <2>1. CASE \E q \in 1 .. c : FirstAt(items, k, q)
    <3>1. PICK q \in 1 .. c : FirstAt(items, k, q)
      BY <2>1
    <3>2. q \in 1 .. 9 /\ c + 1 \in 1 .. 9 /\ q # c + 1
      OBVIOUS
    <3>3. old[k] = args[q] /\ items[k] = P[q]
      BY <1>2, <3>1 DEF FirstAt
    <3>4. args[q] # P[c + 1]
      BY <3>2
    <3>5. P[q] # P[c + 1]
      BY <3>2, PlaceholdersDiffer
    <3>6. QED
      BY <3>3, <3>4, <3>5
  <2>2. CASE ~ \E q \in 1 .. c : FirstAt(items, k, q)
    BY <1>3, <2>2
  <2>3. QED
    BY <2>1, <2>2
<1> DEFINE all == {k \in DOMAIN items : items[k] = P[c + 1]}
<1>5. at = all
  BY <1>1, <1>4
<1>6. Replace(old, c + 1, args[c + 1])
          = IF all = {} THEN old ELSE [old EXCEPT ![Minimum(all)] = args[c + 1]]
  BY <1>5 DEF Replace
<1>7. /\ old = [k \in DOMAIN items |-> old[k]]
      /\ new = [k \in DOMAIN items |-> new[k]]
  BY DEF Replaced
<1>8. ASSUME NEW k \in DOMAIN items
      PROVE  FirstAt(items, k, c + 1) <=> all # {} /\ k = Minimum(all)
  <2>1. all \subseteq Nat
    BY <1>1
  <2>2. ASSUME FirstAt(items, k, c + 1) PROVE all # {} /\ k = Minimum(all)
    <3>1. k \in all
      BY <2>2 DEF FirstAt
    <3>2. ASSUME NEW p \in all PROVE k <= p
      <4>1. p \in Nat \ {0} /\ k \in Nat
        BY <1>1, <3>2
      <4>2. ~ p \in 1 .. k - 1
        BY <2>2, <3>2 DEF FirstAt
      <4>3. QED
        BY <4>1, <4>2
    <3> HIDE DEF all
    <3>3. QED
      BY <2>1, <3>1, <3>2, MinimumIsOnly
  <2>3. ASSUME all # {}, k = Minimum(all) PROVE FirstAt(items, k, c + 1)
    <3>1. k \in all /\ \A p \in all : k <= p
      <4> HIDE DEF all
      <4>1. QED
        BY <2>1, <2>3, MinimumIs
    <3>2. items[k] = P[c + 1] /\ k \in Nat
      BY <1>1, <3>1
    <3>3. ASSUME NEW p \in 1 .. k - 1 PROVE items[p] # P[c + 1]
      <4>1. p \in DOMAIN items
        BY <1>1, <3>3
      <4>2. ~ k <= p
        BY <3>2, <3>3
      <4>3. QED
        BY <3>1, <4>1, <4>2
    <3>4. QED
      BY <3>2, <3>3 DEF FirstAt
  <2>4. QED
    BY <2>2, <2>3
<1>9. ASSUME NEW k \in DOMAIN items, FirstAt(items, k, c + 1)
      PROVE  new[k] = args[c + 1]
  <2>1. ~ \E q \in 1 .. c : FirstAt(items, k, q)
    <3>1. SUFFICES ASSUME NEW q \in 1 .. c, FirstAt(items, k, q) PROVE FALSE
      OBVIOUS
    <3>2. q \in 1 .. 9 /\ c + 1 \in 1 .. 9 /\ q # c + 1
      OBVIOUS
    <3>3. P[q] = P[c + 1]
      BY <1>9, <3>1 DEF FirstAt
    <3>4. QED
      BY <3>2, <3>3, PlaceholdersDiffer
  <2>2. QED
    BY <1>3, <1>9, <2>1
<1>10. ASSUME NEW k \in DOMAIN items, ~ FirstAt(items, k, c + 1)
       PROVE  new[k] = old[k]
  BY <1>2, <1>3, <1>10
<1> HIDE DEF old, new, at, P, all
<1>11. CASE all = {}
  <2>1. \A k \in DOMAIN items : new[k] = old[k]
    BY <1>8, <1>10, <1>11
  <2>2. new = old
    BY <1>7, <2>1
  <2>3. QED
    BY <1>6, <1>11, <2>2 DEF old, new
<1>12. CASE all # {}
  <2> DEFINE m == Minimum(all)
             put == [old EXCEPT ![m] = args[c + 1]]
  <2>1. put = [k \in DOMAIN items |-> put[k]]
    BY <1>1, <1>7
  <2>2. \A k \in DOMAIN items : put[k] = IF k = m THEN args[c + 1] ELSE old[k]
    BY <1>1
  <2> HIDE DEF m, put
  <2>3. ASSUME NEW k \in DOMAIN items PROVE put[k] = new[k]
    <3>1. CASE k = m
      BY <1>8, <1>9, <1>12, <2>2, <3>1 DEF m
    <3>2. CASE k # m
      BY <1>8, <1>10, <2>2, <3>2 DEF m
    <3>3. QED
      BY <3>1, <3>2
  <2>4. put = new
    BY <1>7, <2>1, <2>3
  <2>5. QED
    BY <1>6, <1>12, <2>4 DEF old, new, put, m
<1>13. QED
  BY <1>11, <1>12

\* A call with its values, none of them a placeholder, is expanded as if all
\* parameters were substituted at once.
LEMMA ExpandedLineSubstituted ==
    ASSUME NEW T, NEW row \in LineOf(T), NEW args, NEW c \in 0 .. 9,
           Len(args) \in Nat, c <= Len(args),
           \A j \in 1 .. c : \A q \in 1 .. 9 : args[j] # Placeholder[q]
    PROVE  ExpandedLine(row, args, c) = Substituted(row, args, c)
<1>1. PICK items : /\ items[0] = row.args
                   /\ \A j \in 0 .. c - 1 :
                        items[j + 1] = Replace(items[j], j + 1,
                                                   ArgValue(args, j + 1))
                   /\ ExpandedLine(row, args, c) = [row EXCEPT !.args = items[c]]
  <2>1. c \in Nat
    OBVIOUS
  <2>2. QED
    BY <2>1, ExpandedLineIs
<1> DEFINE S == {j \in 0 .. c : items[j] = Replaced(row.args, args, j)}
<1>2. row.args \in Seq(T)
  BY LineParts
<1>3. 0 \in S
  <2>1. row.args = [n \in DOMAIN row.args |-> row.args[n]]
    BY <1>2
  <2>2. Replaced(row.args, args, 0) = [n \in DOMAIN row.args |-> row.args[n]]
    BY DEF Replaced
  <2>3. QED
    BY <1>1, <2>1, <2>2
<1>4. ASSUME NEW j \in 0 .. c - 1, j \in S PROVE j + 1 \in S
  <2>1. j \in 0 .. 8 /\ j + 1 <= Len(args) /\ \A p \in 1 .. j : p \in 1 .. c
    BY <1>4
  <2>2. ArgValue(args, j + 1) = args[j + 1]
    BY <2>1 DEF ArgValue
  <2>3. items[j + 1] = Replace(Replaced(row.args, args, j), j + 1, args[j + 1])
    BY <1>1, <1>4, <2>2
  <2>4. items[j + 1] = Replaced(row.args, args, j + 1)
    BY <1>2, <2>1, <2>3, ReplaceOneMore
  <2>5. QED
    BY <1>4, <2>4
<1> HIDE DEF S
<1>5. c \in S
  <2>1. 0 .. c \subseteq S
    BY <1>3, <1>4, UpTo
  <2>2. QED
    BY <2>1
<1>6. items[c] = Replaced(row.args, args, c)
  BY <1>5 DEF S
<1>7. Substituted(row, args, c) = [row EXCEPT !.args = Replaced(row.args, args, c)]
  BY DEF Substituted, Replaced, FirstAt
<1>8. QED
  BY <1>1, <1>6, <1>7

\* What line k should add is what it does add: a "#define" and the lines of its
\* definition nothing, ...
LEMMA NothingInDefinition ==
    ASSUME NEW k, inputCode[k].kind = "define" \/ InDefinition[k]
    PROVE  Contribution(k) = <<>>
  BY DEF Contribution

\* ... an ordinary line itself, ...
LEMMA CopiedLine ==
    ASSUME NEW k, inputCode[k].kind # "define", ~ InDefinition[k],
           DefinitionFor(k) = {}
    PROVE  Contribution(k) = <<inputCode[k]>>
  BY DEF Contribution

\* ... and a call the lines of the definition.
LEMMA CalledLine ==
    ASSUME InputFits, NEW k, inputCode[k].kind # "define", ~ InDefinition[k],
           DefinitionFor(k) # {},
           NEW d \in 1 .. Len(inputCode), d = Minimum(DefinitionFor(k)),
           inputCode[d].kind = "define"
    PROVE  Contribution(k) =
             [b \in 1 .. DefinitionEnd(d) - 1 - d |->
                Substituted(inputCode[d + b], inputCode[k].args, Len(inputCode[d].args))]
<1> DEFINE e == DefinitionEnd(d)
           B == {b \in DOMAIN inputCode : d + b \in Body(d)}
           Subst(b) == Substituted(inputCode[d + b], inputCode[k].args,
                                       Len(inputCode[d].args))
<1>1. /\ Len(inputCode) \in Nat /\ e \in d + 1 .. Len(inputCode) + 1
      /\ DOMAIN inputCode = 1 .. Len(inputCode)
  BY InputIs, DefinitionEndIs
<1>2. Contribution(k) = [b \in B |-> Subst(b)]
  BY DEF Contribution
<1>3. Body(d) = d + 1 .. e - 1
  BY LinesOfDefinition
<1> HIDE DEF e, Subst
<1>4. B = 1 .. e - 1 - d
  <2>1. \A b : b \in 1 .. Len(inputCode) /\ d + b \in d + 1 .. e - 1 <=> b \in 1 .. e - 1 - d
    BY <1>1
  <2>2. QED
    BY <1>1, <1>3, <2>1
<1> HIDE DEF B
<1>5. QED
  BY <1>2, <1>4 DEF e, Subst

\* Expanded adds the lines' contributions up.
LEMMA ExpandedIs ==
    ASSUME Len(inputCode) \in Nat
    PROVE  /\ Expanded[0] = <<>>
           /\ \A k \in 0 .. Len(inputCode) - 1 :
                Expanded[k + 1] = Expanded[k] \o Contribution(k + 1)
<1> DEFINE c == Len(inputCode)
           e(f, j) == IF j = 0 THEN <<>> ELSE f[j - 1] \o Contribution(j)
           S == {n \in 0 .. c : \E f : f = [j \in 0 .. n |-> e(f, j)]}
<1>1. 0 \in S
  <2> DEFINE f == [j \in 0 .. 0 |-> <<>>]
  <2>1. f = [j \in 0 .. 0 |-> e(f, j)]
    OBVIOUS
  <2>2. \E g : g = [j \in 0 .. 0 |-> e(g, j)]
    BY <2>1
  <2>3. QED
    BY <2>2
<1>2. ASSUME NEW n \in 0 .. c - 1, n \in S PROVE n + 1 \in S
  <2>n. n \in Nat
    BY <1>2
  <2>1. PICK f : f = [j \in 0 .. n |-> e(f, j)]
    BY <1>2
  <2> DEFINE g == [j \in 0 .. n + 1 |-> IF j = n + 1 THEN e(f, n + 1) ELSE f[j]]
  <2>2. ASSUME NEW j \in 0 .. n + 1 PROVE g[j] = e(g, j)
    <3>1. CASE j \in 0 .. n
      <4>1. f[j] = e(f, j)
        BY <2>1, <3>1
      <4>k. j \in 0 .. n + 1 /\ j # n + 1
        BY <2>n, <3>1
      <4>j. j # 0 => j - 1 \in 0 .. n + 1 /\ j - 1 # n + 1
        BY <2>n, <3>1
      <4>2. g[j] = f[j] /\ (j # 0 => g[j - 1] = f[j - 1])
        BY <4>k, <4>j
      <4> HIDE DEF g
      <4>3. QED
        BY <4>1, <4>2
    <3>2. CASE j = n + 1
      <4>j. j # 0 => j - 1 \in 0 .. n + 1 /\ j - 1 # n + 1
        BY <2>n, <3>2
      <4>1. g[j] = e(f, j) /\ (j # 0 => g[j - 1] = f[j - 1])
        BY <3>2, <4>j
      <4> HIDE DEF g
      <4>2. QED
        BY <4>1
    <3>3. j \in 0 .. n \/ j = n + 1
      BY <2>n, <2>2
    <3> HIDE DEF g, e
    <3>4. QED
      BY <3>1, <3>2, <3>3
  <2>3. g = [j \in 0 .. n + 1 |-> e(g, j)]
    <3>1. g = [j \in 0 .. n + 1 |-> g[j]]
      OBVIOUS
    <3> HIDE DEF g
    <3>2. QED
      BY <2>2, <3>1
  <2> HIDE DEF g
  <2>4. \E h : h = [j \in 0 .. n + 1 |-> e(h, j)]
    BY <2>3
  <2>5. n + 1 \in 0 .. c
    BY <1>2
  <2>6. QED
    BY <2>4, <2>5
<1> HIDE DEF S
<1>3. c \in S
  <2>1. 0 .. c \subseteq S
    BY <1>1, <1>2, UpTo
  <2>2. QED
    BY <2>1
<1>4. PICK f : f = [j \in 0 .. c |-> e(f, j)]
  BY <1>3 DEF S
<1> DEFINE out == Expanded
<1>5. out = [j \in 0 .. c |-> e(out, j)]
  BY <1>4 DEF Expanded
<1> HIDE DEF out
<1>6. \A j \in 0 .. c : out[j] = e(out, j)
  BY <1>5
<1>7. out[0] = <<>>
  BY <1>6
<1>8. ASSUME NEW j \in 0 .. c - 1 PROVE out[j + 1] = out[j] \o Contribution(j + 1)
  <2>1. PICK k \in 0 .. c : k = j + 1 /\ k # 0 /\ k - 1 = j
    BY <1>8
  <2>2. out[k] = out[k - 1] \o Contribution(k)
    BY <1>6, <2>1
  <2>3. QED
    BY <2>1, <2>2
<1>9. QED
  BY <1>7, <1>8 DEF out

\* Through a definition nothing is added.
LEMMA ExpandedThroughDefinition ==
    ASSUME InputFits, NEW d \in 1 .. Len(inputCode), inputCode[d].kind = "define",
           NEW L, Expanded[d - 1] \in Seq(L),
           NEW e, e = DefinitionEnd(d),
           NEW last, last = IF e <= Len(inputCode) THEN e ELSE Len(inputCode)
    PROVE  Expanded[last] = Expanded[d - 1]
<1>1. Len(inputCode) \in Nat /\ e \in d + 1 .. Len(inputCode) + 1
  BY InputIs, DefinitionEndIs
<1> DEFINE X == Expanded
           S == {n \in 0 .. last - (d - 1) : X[d - 1 + n] = X[d - 1]}
<1>2. last \in d .. Len(inputCode) /\ last <= e
  BY <1>1
<1>3. 0 \in S
  BY <1>2
<1>4. ASSUME NEW n \in 0 .. last - (d - 1) - 1, n \in S PROVE n + 1 \in S
  <2>1. PICK k \in 1 .. Len(inputCode) : /\ k = d - 1 + (n + 1) /\ k - 1 = d - 1 + n
                                         /\ k = d \/ k \in d + 1 .. e
                                         /\ k - 1 \in 0 .. Len(inputCode) - 1 /\ k - 1 + 1 = k
    <3>1. PICK len : len = Len(inputCode)
      OBVIOUS
    <3>2. /\ len \in Nat /\ d \in 1 .. len /\ last \in d .. len /\ last <= e /\ e \in Int
          /\ n \in 0 .. last - (d - 1) - 1
      BY <1>1, <1>2, <1>4, <3>1
    <3>3. PICK k \in Int : k = d + n
      BY <3>2
    <3>4. /\ k \in 1 .. len /\ k = d - 1 + (n + 1) /\ k - 1 = d - 1 + n
          /\ k = d \/ k \in d + 1 .. e
          /\ k - 1 \in 0 .. len - 1 /\ k - 1 + 1 = k
      BY <3>2, <3>3
    <3>5. QED
      BY <3>1, <3>4
  <2>2. Contribution(k) = <<>>
    BY <2>1, LinesOfDefinition, NothingInDefinition
  <2>3. X[k - 1 + 1] = X[k - 1] \o Contribution(k - 1 + 1)
    BY <1>1, <2>1, ExpandedIs
  <2>4. X[k] = X[k - 1] \o <<>>
    BY <2>1, <2>2, <2>3
  <2>5. X[k - 1] = X[d - 1]
    BY <1>4, <2>1
  <2>6. X[k] = X[d - 1]
    BY <2>4, <2>5
  <2>7. n + 1 \in 0 .. last - (d - 1)
    BY <1>2, <1>4
  <2>8. QED
    BY <2>1, <2>6, <2>7
<1> HIDE DEF S, X
<1>5. last - (d - 1) \in S
  <2>1. last - (d - 1) \in Nat
    BY <1>2
  <2>2. 0 .. last - (d - 1) \subseteq S
    BY <1>3, <1>4, <2>1, UpTo
  <2>3. QED
    BY <2>1, <2>2
<1>6. X[d - 1 + (last - (d - 1))] = X[d - 1]
  BY <1>5 DEF S
<1>7. d - 1 + (last - (d - 1)) = last
  BY <1>2
<1>8. QED
  BY <1>6, <1>7 DEF X

\* What preprocessCode() has done when it comes to a line.
Cause(n) ==
    \E k \in 1 .. n :
      /\ k <= Len(inputCode) /\ ~ InDefinition[k]
      /\ \/ inputCode[k].kind = "blank"
         \/ /\ inputCode[k].kind \in {"code", "end"}
            /\ \E d \in DefinitionFor(k) : Len(inputCode[k].args) < Len(inputCode[d].args)

Clean(out) == \A k \in DOMAIN out :
                \A n \in DOMAIN out[k].args : out[k].args[n] # Stale

Before(n) == IF n <= Len(inputCode) THEN n - 1 ELSE Len(inputCode)

OutputAt(out, n) ==
    /\ out \in Seq(LineOf(Text \cup {Stale}))
    /\ Cause(n) \/ Clean(out)
    /\ Plain => out = Expanded[Before(n)]

StageAt(s, n, table) ==
    /\ s \in {"running", "done", "exit"}
    /\ s = "done" => n > Len(inputCode)
    /\ s = "exit" => table # <<>> /\ Cause(n)

StateAt(n, table, out, s) == /\ AtBoundary(n) /\ TableAt(table, n)
                             /\ OutputAt(out, n) /\ StageAt(s, n, table)

\* What holds in every reachable state.
MacroIInv == InputFits /\ StateAt(i, macroTable, outputCode, pc)

\* What the table holds for a definition.
LEMMA EntryIs ==
    ASSUME InputFits, NEW n, NEW d \in Starts(n), NEW e, e = DefinitionEnd(d)
    PROVE  /\ d \in 1 .. Len(inputCode) /\ e \in d + 1 .. Len(inputCode) + 1
           /\ Entry(d).name = inputCode[d].word
           /\ Entry(d).argCount = Len(inputCode[d].args) /\ Entry(d).argCount \in 0 .. 9
           /\ Entry(d).definition \in Seq(LineOf(Text))
           /\ Len(Entry(d).definition) = e - 1 - d
           /\ \A k \in 1 .. e - 1 - d : Entry(d).definition[k] = inputCode[d + k]
<1>1. d \in 1 .. Len(inputCode) /\ inputCode[d].kind = "define"
  BY DEF Starts
<1>2. e \in d + 1 .. Len(inputCode) + 1 /\ Len(inputCode) \in Nat
  BY <1>1, InputIs, DefinitionEndIs
<1> DEFINE L == LineOf(Text)
<1>3. inputCode[d] \in L /\ Len(inputCode[d].args) <= 9
  BY <1>1, InputIs
<1>4. Len(inputCode[d].args) \in 0 .. 9
  <2>1. inputCode[d].args \in Seq(Text)
    BY <1>3, LineParts
  <2>2. Len(inputCode[d].args) \in Nat
    BY <2>1
  <2>3. \A x \in Nat : x <= 9 => x \in 0 .. 9
    OBVIOUS
  <2>4. QED
    BY <1>3, <2>2, <2>3
<1>5. inputCode \in Seq(L)
  BY InputIs
<1> HIDE DEF L
<1> DEFINE s == SubSeq(inputCode, d + 1, e - 1)
<1>6. /\ s \in Seq(L) /\ Len(s) = e - 1 - d
      /\ \A k \in 1 .. e - 1 - d : s[k] = inputCode[d + k]
  <2>1. PICK m \in Nat, a \in Nat : m = e - 1 /\ a = d + 1
    BY <1>1, <1>2
  <2>2. a >= 1 /\ m <= Len(inputCode) /\ a <= m + 1 /\ m - a + 1 = e - 1 - d
    BY <1>1, <1>2, <2>1
  <2>3. /\ SubSeq(inputCode, a, m) \in Seq(L) /\ Len(SubSeq(inputCode, a, m)) = m - a + 1
        /\ \A k \in 1 .. m - a + 1 : SubSeq(inputCode, a, m)[k] = inputCode[a + k - 1]
    BY <1>5, <2>2
  <2>4. \A k \in 1 .. e - 1 - d : a + k - 1 = d + k
    BY <1>1, <2>1
  <2>5. QED
    BY <2>1, <2>2, <2>3, <2>4
<1>7. /\ Entry(d).name = inputCode[d].word /\ Entry(d).argCount = Len(inputCode[d].args)
      /\ Entry(d).definition = s
  BY DEF Entry
<1>8. QED
  BY <1>1, <1>2, <1>4, <1>6, <1>7 DEF L

\* Every macro of the table is a definition's.
LEMMA TableEntries ==
    ASSUME NEW table, NEW n, TableAt(table, n), NEW m \in DOMAIN table
    PROVE  \E d \in Starts(n) : table[m] = Entry(d)
<1>1. PICK at \in Seq(Nat) :
        /\ table = [k \in 1 .. Len(at) |-> Entry(at[k])]
        /\ \A k \in 1 .. Len(at) : at[k] \in Starts(n)
  BY DEF TableAt
<1>2. m \in 1 .. Len(at) /\ table[m] = Entry(at[m])
  BY <1>1
<1>3. QED
  BY <1>1, <1>2

\* An expansion is a sequence of lines; with a value for every parameter it holds
\* nothing but texts.
LEMMA ExpansionTyped ==
    ASSUME MacroIInv, NEW m \in DOMAIN macroTable, NEW args \in Seq(Text)
    PROVE  /\ Expansion(m, args) \in Seq(LineOf(Text \cup {Stale}))
           /\ macroTable[m].argCount <= Len(args) =>
                  Expansion(m, args) \in Seq(LineOf(Text))
<1>1. PICK d \in Starts(i) : macroTable[m] = Entry(d)
  BY TableEntries DEF MacroIInv, StateAt
<1> DEFINE def == macroTable[m].definition
           c == macroTable[m].argCount
           x == Expansion(m, args)
<1>2. c \in 0 .. 9 /\ def \in Seq(LineOf(Text))
  BY <1>1, EntryIs DEF MacroIInv
<1>3. x = [k \in DOMAIN def |-> ExpandedLine(def[k], args, c)]
  BY DEF Expansion
<1> HIDE DEF def, c, x
<1>4. ASSUME NEW U, Text \subseteq U, \A j \in 1 .. c : ArgValue(args, j) \in U
      PROVE  x \in Seq(LineOf(U))
  <2> DEFINE L == LineOf(Text)
             R == LineOf(U)
  <2>1. DOMAIN def = 1 .. Len(def) /\ Len(def) \in Nat /\ \A k \in DOMAIN def : def[k] \in L
    <3>1. def \in Seq(L)
      BY <1>2
    <3> HIDE DEF L
    <3>2. QED
      BY <3>1
  <2>2. \A k \in DOMAIN def : ExpandedLine(def[k], args, c) \in R
    <3>1. c \in Nat
      BY <1>2
    <3>2. QED
      BY <1>4, <2>1, <3>1, ExpandedLineTyped
  <2> HIDE DEF L, R
  <2>3. x \in Seq(R)
    BY <1>3, <2>1, <2>2
  <2>4. QED
    BY <2>3 DEF R
<1>5. x \in Seq(LineOf(Text \cup {Stale}))
  <2>1. \A j \in 1 .. c : ArgValue(args, j) \in Text \cup {Stale}
    BY <1>2 DEF ArgValue
  <2>2. QED
    BY <1>4, <2>1
<1>6. ASSUME c <= Len(args) PROVE x \in Seq(LineOf(Text))
  <2>1. \A j \in 1 .. c : ArgValue(args, j) \in Text
    BY <1>2, <1>6 DEF ArgValue
  <2>2. QED
    BY <1>4, <2>1
<1>7. QED
  BY <1>5, <1>6 DEF x, c

\* Texts hold nothing stale, and the lines of one output after those of another
\* nothing that neither holds.
LEMMA CleanLines ==
    ASSUME InputFits, NEW lines \in Seq(LineOf(Text)) PROVE Clean(lines)
<1> DEFINE L == LineOf(Text)
<1>1. \A k \in DOMAIN lines : lines[k] \in L
  <2>1. lines \in Seq(L)
    OBVIOUS
  <2> HIDE DEF L
  <2>2. QED
    BY <2>1
<1>2. ASSUME NEW k \in DOMAIN lines, NEW n \in DOMAIN lines[k].args
      PROVE  lines[k].args[n] # Stale
  <2>1. lines[k].args \in Seq(Text)
    BY <1>1, LineParts
  <2>2. lines[k].args[n] \in Text
    BY <1>2, <2>1
  <2>3. Stale \notin Text
    BY DEF InputFits, ValidInputs
  <2>4. QED
    BY <2>2, <2>3
<1>3. QED
  BY <1>2 DEF Clean

\* What holds nothing stale, after what holds nothing stale, holds nothing stale.
LEMMA CleanAppended ==
    ASSUME NEW L, NEW out \in Seq(L), NEW lines \in Seq(L), Clean(out), Clean(lines)
    PROVE  Clean(out \o lines)
<1> DEFINE both == out \o lines
<1>1. \A k \in DOMAIN both : \/ k \in DOMAIN out /\ both[k] = out[k]
                             \/ \E m \in DOMAIN lines : both[k] = lines[m]
  <2>1. ASSUME NEW k \in DOMAIN both
        PROVE  \/ k \in DOMAIN out /\ both[k] = out[k]
               \/ \E m \in DOMAIN lines : both[k] = lines[m]
    <3>1. Len(out) \in Nat /\ Len(lines) \in Nat /\ k \in 1 .. Len(out) + Len(lines)
      BY <2>1
    <3>2. CASE k <= Len(out)
      BY <3>1, <3>2
    <3>3. CASE k > Len(out)
      <4>1. PICK m \in 1 .. Len(lines) : m = k - Len(out)
        BY <3>1, <3>3
      <4>2. both[k] = lines[m] /\ m \in DOMAIN lines
        BY <3>1, <3>3, <4>1
      <4>3. QED
        BY <4>2
    <3>4. QED
      BY <3>1, <3>2, <3>3
  <2>2. QED
    BY <2>1
<1> HIDE DEF both
<1>2. Clean(both)
  BY <1>1 DEF Clean
<1>3. QED
  BY <1>2 DEF both

-----------------------------------------------------------------------------
\* An ordinary line adds its lines to the output.
LEMMA Emitted ==
    ASSUME MacroIInv, NEW n, n = i, n <= Len(inputCode), pc = "running",
           inputCode[n].kind # "define",
           NEW lines \in Seq(LineOf(Text \cup {Stale})),
           Cause(n) \/ lines \in Seq(LineOf(Text)),
           Plain => lines = Contribution(n)
    PROVE  StateAt(n + 1, macroTable, outputCode \o lines, pc)
<1>1. AtBoundary(n) /\ TableAt(macroTable, n) /\ OutputAt(outputCode, n) /\ InputFits
  BY DEF MacroIInv, StateAt
<1>2. n \in 1 .. Len(inputCode) /\ Len(inputCode) \in Nat
  BY <1>1, InputIs DEF AtBoundary
<1>3. AtBoundary(n + 1) /\ TableAt(macroTable, n + 1)
  BY <1>1, PastOrdinaryLine
<1>4. Cause(n) => Cause(n + 1)
  <2>1. \A k \in 1 .. n : k \in 1 .. n + 1
    BY <1>2
  <2>2. QED
    BY <2>1 DEF Cause
<1> DEFINE L == LineOf(Text \cup {Stale})
           new == outputCode \o lines
<1>5. outputCode \in Seq(L) /\ lines \in Seq(L)
  BY <1>1 DEF OutputAt
<1>6. Cause(n + 1) \/ Clean(new)
  <2>1. SUFFICES ASSUME ~ Cause(n + 1) PROVE Clean(new)
    OBVIOUS
  <2>2. Clean(outputCode) /\ Clean(lines)
    BY <1>1, <1>4, <2>1, CleanLines DEF OutputAt
  <2> HIDE DEF L
  <2>3. QED
    BY <1>5, <2>2, CleanAppended
<1>7. ASSUME Plain
      PROVE  new = Expanded[Before(n + 1)]
  <2>1. Before(n + 1) = n
    BY <1>2 DEF Before
  <2>2. PICK k \in 0 .. Len(inputCode) - 1 : k = n - 1 /\ k + 1 = n
    BY <1>2
  <2>3. Expanded[k + 1] = Expanded[k] \o Contribution(k + 1)
    BY <1>2, ExpandedIs
  <2>4. outputCode = Expanded[k] /\ lines = Contribution(k + 1)
    BY <1>1, <1>7, <2>2 DEF OutputAt, Before
  <2>5. new = Expanded[n]
    BY <2>2, <2>3, <2>4
  <2>6. QED
    BY <2>1, <2>5
<1>8. new \in Seq(L)
  <2> HIDE DEF L
  <2>1. QED
    BY <1>5
<1> HIDE DEF new
<1>9. OutputAt(new, n + 1)
  BY <1>6, <1>7, <1>8 DEF OutputAt
<1>10. StageAt(pc, n + 1, macroTable)
  BY DEF StageAt
<1>11. QED
  BY <1>3, <1>9, <1>10 DEF new, StateAt

\* A definition goes into the table and nowhere else.
LEMMA DefinitionStep ==
    ASSUME MacroIInv, ProcessMacroDefinition
    PROVE  StateAt(i', macroTable', outputCode', pc')
<1>1. PICK n, e : n = i /\ e = DefinitionEnd(n)
  OBVIOUS
<1>2. /\ n <= Len(inputCode) /\ inputCode[n].kind = "define" /\ pc = "running"
      /\ macroTable' = Append(macroTable, Entry(n)) /\ i' = e + 1
      /\ outputCode' = outputCode /\ pc' = pc
  BY <1>1 DEF ProcessMacroDefinition, AtLine, Entry
<1>3. AtBoundary(n) /\ TableAt(macroTable, n) /\ OutputAt(outputCode, n) /\ InputFits
  BY <1>1 DEF MacroIInv, StateAt
<1>4. n \in 1 .. Len(inputCode) /\ Len(inputCode) \in Nat
  BY <1>2, <1>3, InputIs DEF AtBoundary
<1>5. AtBoundary(e + 1) /\ TableAt(macroTable', e + 1)
  BY <1>1, <1>2, <1>3, PastDefinition
<1>6. e \in n + 1 .. Len(inputCode) + 1
  BY <1>1, <1>3, <1>4, DefinitionEndIs
<1>7. Cause(n) => Cause(e + 1)
  <2>1. \A k \in 1 .. n : k \in 1 .. e + 1
    BY <1>4, <1>6
  <2>2. QED
    BY <2>1 DEF Cause
<1> DEFINE L == LineOf(Text \cup {Stale})
<1>8. ASSUME Plain
      PROVE  outputCode = Expanded[Before(e + 1)]
  <2>1. PICK last : last = IF e <= Len(inputCode) THEN e ELSE Len(inputCode)
    OBVIOUS
  <2>2. Before(e + 1) = last
    BY <1>4, <1>6, <2>1 DEF Before
  <2>3. outputCode = Expanded[n - 1] /\ outputCode \in Seq(L)
    BY <1>2, <1>3, <1>8 DEF OutputAt, Before
  <2>4. Expanded[last] = Expanded[n - 1]
    BY <1>1, <1>2, <1>3, <1>4, <2>1, <2>3, ExpandedThroughDefinition
  <2>5. QED
    BY <2>2, <2>3, <2>4
<1>9. OutputAt(outputCode, e + 1)
  BY <1>3, <1>7, <1>8 DEF OutputAt
<1>10. StageAt(pc, e + 1, macroTable')
  BY <1>2 DEF StageAt
<1>11. QED
  BY <1>2, <1>5, <1>9, <1>10 DEF StateAt

\* An ordinary line outside every definition is copied, ...
LEMMA CopyStep ==
    ASSUME MacroIInv, CopyLine
    PROVE  StateAt(i', macroTable', outputCode', pc')
<1>1. PICK n, lines : n = i /\ lines = <<inputCode[n]>>
  OBVIOUS
<1>2. /\ n <= Len(inputCode) /\ inputCode[n].kind # "define" /\ pc = "running"
      /\ FindMacro(inputCode[n].word) = 0
      /\ macroTable' = macroTable /\ i' = n + 1
      /\ outputCode' = outputCode \o lines /\ pc' = pc
  BY <1>1 DEF CopyLine, AtLine, Emit
<1>3. AtBoundary(n) /\ TableAt(macroTable, n) /\ InputFits
  BY <1>1 DEF MacroIInv, StateAt
<1>4. n \in 1 .. Len(inputCode) /\ ~ InDefinition[n]
  BY <1>2, <1>3, InputIs DEF AtBoundary
<1>5. DefinitionFor(n) = {}
  BY <1>2, <1>3, <1>4, DefinitionForIs, FindMacroIs
<1>6. lines = Contribution(n)
  BY <1>1, <1>2, <1>4, <1>5, CopiedLine
<1>7. inputCode[n] \in LineOf(Text)
  BY <1>3, <1>4, InputIs
<1>8. lines \in Seq(LineOf(Text))
  <2> DEFINE L == LineOf(Text)
  <2>1. inputCode[n] \in L
    BY <1>7
  <2> HIDE DEF L
  <2>2. lines \in Seq(L)
    BY <1>1, <2>1
  <2>3. QED
    BY <2>2 DEF L
<1>9. lines \in Seq(LineOf(Text \cup {Stale}))
  <2> DEFINE L == LineOf(Text \cup {Stale})
  <2>1. inputCode[n] \in L
    <3>1. inputCode[n].args \in Seq(Text \cup {Stale})
      <4>1. inputCode[n].args \in Seq(Text)
        BY <1>7, LineParts
      <4>2. QED
        BY <4>1
    <3>2. QED
      BY <1>7, <3>1 DEF LineOf
  <2> HIDE DEF L
  <2>2. lines \in Seq(L)
    BY <1>1, <2>1
  <2>3. QED
    BY <2>2 DEF L
<1>10. StateAt(n + 1, macroTable, outputCode \o lines, pc)
  BY <1>1, <1>2, <1>6, <1>8, <1>9, Emitted
<1>11. QED
  BY <1>2, <1>10

\* ... a call is expanded by the definition it stands for, ...
LEMMA ExpandStep ==
    ASSUME MacroIInv, ExpandMacro
    PROVE  StateAt(i', macroTable', outputCode', pc')
<1>1. PICK n, m, lines : /\ n = i /\ m = FindMacro(inputCode[n].word)
                         /\ lines = Expansion(m, inputCode[n].args)
  OBVIOUS
<1>2. /\ n <= Len(inputCode) /\ inputCode[n].kind \in {"code", "end"} /\ pc = "running"
      /\ m # 0
      /\ macroTable' = macroTable /\ i' = n + 1
      /\ outputCode' = outputCode \o lines /\ pc' = pc
  BY <1>1 DEF ExpandMacro, AtLine, Emit
<1>3. AtBoundary(n) /\ TableAt(macroTable, n) /\ InputFits
  BY <1>1 DEF MacroIInv, StateAt
<1>4. n \in 1 .. Len(inputCode) /\ ~ InDefinition[n] /\ Len(inputCode) \in Nat
  BY <1>2, <1>3, InputIs DEF AtBoundary
<1> DEFINE D == DefinitionFor(n)
           args == inputCode[n].args
<1>5. PICK d : d = Minimum(D)
  OBVIOUS
<1>6. m \in DOMAIN macroTable /\ D # {} /\ macroTable[m] = Entry(d)
  BY <1>1, <1>2, <1>3, <1>4, <1>5, DefinitionForIs, FindMacroIs
<1>7. d \in D /\ d \in Starts(n)
  <2>1. D \subseteq Nat
    BY <1>3, <1>4, DefinitionForIs DEF Starts
  <2>2. d \in D
    BY <1>5, <1>6, <2>1, MinimumIs
  <2>3. QED
    BY <1>3, <1>4, <2>2, DefinitionForIs
<1>8. args \in Seq(Text)
  <2>1. inputCode[n] \in LineOf(Text)
    BY <1>3, <1>4, InputIs
  <2>2. QED
    BY <2>1, LineParts
<1>9. PICK c \in 0 .. 9 : c = macroTable[m].argCount /\ c = Len(inputCode[d].args)
  BY <1>3, <1>6, <1>7, EntryIs
<1>10. lines \in Seq(LineOf(Text \cup {Stale}))
  BY <1>1, <1>6, <1>8, ExpansionTyped
<1>11. Cause(n) \/ lines \in Seq(LineOf(Text))
  <2>1. CASE c <= Len(args)
    BY <1>1, <1>6, <1>8, <1>9, <2>1, ExpansionTyped
  <2>2. CASE Len(args) < c
    <3>1. n \in 1 .. n
      BY <1>4
    <3>2. Cause(n)
      BY <1>2, <1>4, <1>7, <1>9, <2>2, <3>1 DEF Cause
    <3>3. QED
      BY <3>2
  <2>3. Len(args) \in Nat
    BY <1>8
  <2>4. QED
    BY <2>1, <2>2, <2>3
<1>12. ASSUME Plain PROVE lines = Contribution(n)
  <2>1. PICK e : e = DefinitionEnd(d)
    OBVIOUS
  <2>2. d \in 1 .. Len(inputCode) /\ inputCode[d].kind = "define"
    BY <1>7 DEF Starts
  <2>3. Contribution(n) = [b \in 1 .. e - 1 - d |->
                                 Substituted(inputCode[d + b], args, c)]
    <3>1. inputCode[n].kind # "define"
      BY <1>2
    <3>2. Contribution(n) =
            [b \in 1 .. DefinitionEnd(d) - 1 - d |->
               Substituted(inputCode[d + b], inputCode[n].args, Len(inputCode[d].args))]
      BY <1>3, <1>4, <1>5, <1>6, <2>2, <3>1, CalledLine
    <3>3. QED
      BY <1>9, <2>1, <3>2
  <2>4. PICK def : def = macroTable[m].definition
    OBVIOUS
  <2>5. /\ def \in Seq(LineOf(Text)) /\ Len(def) = e - 1 - d
        /\ \A k \in 1 .. e - 1 - d : def[k] = inputCode[d + k]
    BY <1>3, <1>6, <1>7, <2>1, <2>4, EntryIs
  <2>6. DOMAIN def = 1 .. e - 1 - d /\ \A k \in DOMAIN def : def[k] \in LineOf(Text)
    <3> DEFINE L == LineOf(Text)
    <3>1. def \in Seq(L)
      BY <2>5
    <3> HIDE DEF L
    <3>2. DOMAIN def = 1 .. e - 1 - d /\ \A k \in DOMAIN def : def[k] \in L
      BY <2>5, <3>1
    <3>3. QED
      BY <3>2 DEF L
  <2>7. lines = [k \in 1 .. e - 1 - d |-> ExpandedLine(def[k], args, c)]
    BY <1>1, <1>9, <2>4, <2>6 DEF Expansion
  <2>8. c <= Len(args) /\ \A j \in 1 .. c : \A q \in 1 .. 9 : args[j] # Placeholder[q]
    <3>1. /\ \A k \in DOMAIN args : args[k] \notin Range(Placeholder)
          /\ Len(args) >= c
      <4>1. n \in DOMAIN inputCode
        BY <1>3, <1>4, InputIs
      <4>2. QED
        BY <1>2, <1>4, <1>7, <1>9, <1>12, <4>1 DEF Plain
    <3>2. c <= Len(args) /\ \A j \in 1 .. c : j \in DOMAIN args
      BY <1>8, <1>9, <3>1
    <3>3. \A q \in 1 .. 9 : Placeholder[q] \in Range(Placeholder)
      <4>1. DOMAIN Placeholder = 1 .. 9
        BY DEF Placeholder
      <4>2. QED
        BY <4>1 DEF Range
    <3>4. QED
      BY <3>1, <3>2, <3>3
  <2>9. ASSUME NEW k \in 1 .. e - 1 - d
        PROVE  ExpandedLine(def[k], args, c) = Substituted(inputCode[d + k], args, c)
    <3>1. def[k] \in LineOf(Text) /\ def[k] = inputCode[d + k] /\ Len(args) \in Nat
      BY <1>8, <2>5, <2>6
    <3>2. ExpandedLine(def[k], args, c) = Substituted(def[k], args, c)
      BY <2>8, <3>1, ExpandedLineSubstituted
    <3>3. QED
      BY <3>1, <3>2
  <2>10. QED
    BY <2>3, <2>7, <2>9
<1>13. StateAt(n + 1, macroTable, outputCode \o lines, pc)
  BY <1>1, <1>2, <1>10, <1>11, <1>12, Emitted
<1>14. QED
  BY <1>2, <1>13

\* ... and a blank line is the cause of what comes of it.
LEMMA BlankStep ==
    ASSUME MacroIInv, BlankLine
    PROVE  StateAt(i', macroTable', outputCode', pc')
<1>1. PICK n : n = i
  OBVIOUS
<1>2. n <= Len(inputCode) /\ inputCode[n].kind = "blank" /\ pc = "running"
  BY <1>1 DEF BlankLine, AtLine
<1>3. AtBoundary(n) /\ TableAt(macroTable, n) /\ OutputAt(outputCode, n) /\ InputFits
  BY <1>1 DEF MacroIInv, StateAt
<1>4. n \in 1 .. Len(inputCode) /\ ~ InDefinition[n] /\ n \in DOMAIN inputCode
  BY <1>2, <1>3, InputIs DEF AtBoundary
<1>5. Cause(n)
  <2>1. n \in 1 .. n
    BY <1>4
  <2>2. QED
    BY <1>2, <1>4, <2>1 DEF Cause
<1>6. ~ Plain
  BY <1>2, <1>4 DEF Plain
<1>7. ASSUME NEW lines \in Seq(LineOf(Text \cup {Stale})), Emit(lines)
      PROVE  StateAt(i', macroTable', outputCode', pc')
  <2>1. /\ macroTable' = macroTable /\ i' = n + 1
        /\ outputCode' = outputCode \o lines /\ pc' = pc
    BY <1>1, <1>7 DEF Emit
  <2>2. inputCode[n].kind # "define"
    BY <1>2
  <2>3. StateAt(n + 1, macroTable, outputCode \o lines, pc)
    BY <1>1, <1>2, <1>5, <1>6, <1>7, <2>2, Emitted
  <2>4. QED
    BY <2>1, <2>3
<1>8. CASE Emit(<<inputCode[n]>>)
  <2> DEFINE L == LineOf(Text \cup {Stale})
  <2>1. inputCode[n] \in L
    <3>1. inputCode[n] \in LineOf(Text)
      BY <1>3, <1>4, InputIs
    <3>2. inputCode[n].args \in Seq(Text)
      BY <3>1, LineParts
    <3>3. inputCode[n].args \in Seq(Text \cup {Stale})
      BY <3>2
    <3>4. QED
      BY <3>1, <3>3 DEF LineOf
  <2> HIDE DEF L
  <2>2. <<inputCode[n]>> \in Seq(L)
    BY <2>1
  <2>3. QED
    BY <1>7, <1>8, <2>2 DEF L
<1>9. ASSUME NEW m \in DOMAIN macroTable, Emit(Expansion(m, <<>>))
      PROVE  StateAt(i', macroTable', outputCode', pc')
  <2>1. <<>> \in Seq(Text)
    OBVIOUS
  <2>2. Expansion(m, <<>>) \in Seq(LineOf(Text \cup {Stale}))
    BY <1>9, <2>1, ExpansionTyped
  <2>3. QED
    BY <1>7, <1>9, <2>2
<1>10. ASSUME macroTable # <<>>, pc' = "exit",
              i' = i, macroTable' = macroTable, outputCode' = outputCode
       PROVE  StateAt(i', macroTable', outputCode', pc')
  <2>1. StageAt(pc', n, macroTable)
    BY <1>5, <1>10 DEF StageAt
  <2>2. StateAt(n, macroTable, outputCode, pc')
    BY <1>3, <2>1 DEF StateAt
  <2>3. QED
    BY <1>1, <1>10, <2>2
<1>11. QED
  BY <1>1, <1>8, <1>9, <1>10 DEF BlankLine

\* The end of the input ends the run, ...
LEMMA WriteStep ==
    ASSUME MacroIInv, WriteOutputFile
    PROVE  StateAt(i', macroTable', outputCode', pc')
<1>1. PICK n : n = i
  OBVIOUS
<1>2. /\ n > Len(inputCode) /\ pc' = "done"
      /\ i' = n /\ macroTable' = macroTable /\ outputCode' = outputCode
  BY <1>1 DEF WriteOutputFile
<1>3. StageAt(pc', n, macroTable)
  BY <1>2 DEF StageAt
<1>4. StateAt(n, macroTable, outputCode, pc')
  BY <1>1, <1>3 DEF MacroIInv, StateAt
<1>5. QED
  BY <1>2, <1>4

\* ... and nothing writes to the input.
LEMMA SameInput ==
    ASSUME MacroIInv, inputCode' = inputCode,
           StateAt(i', macroTable', outputCode', pc')
    PROVE  MacroIInv'
<1>1. InDefinition' = InDefinition
  BY DEF InDefinition
<1>2. \A d : DefinitionEnd(d)' = DefinitionEnd(d)
  BY DEF DefinitionEnd, Minimum
<1>3. \A k : DefinitionFor(k)' = DefinitionFor(k)
  BY <1>1 DEF DefinitionFor
<1>4. \A d : Body(d)' = Body(d)
  BY <1>1 DEF Body
<1>5. \A k : Contribution(k)' = Contribution(k)
  BY <1>1, <1>3, <1>4 DEF Contribution
<1>6. Expanded' = Expanded
  BY <1>5 DEF Expanded
<1>7. Plain' <=> Plain
  BY <1>1, <1>3 DEF Plain
<1>8. InputFits'
  BY DEF MacroIInv, InputFits
<1>9. PICK n, table, out, s : /\ n = i' /\ table = macroTable'
                              /\ out = outputCode' /\ s = pc'
  OBVIOUS
<1>10. \A k : Starts(k)' = Starts(k)
  BY <1>1 DEF Starts
<1>11. AtBoundary(n) => AtBoundary(n)'
  BY <1>1, <1>2, <1>10 DEF AtBoundary
<1>12. \A d : Entry(d)' = Entry(d)
  BY <1>2 DEF Entry
<1>13. TableAt(table, n) => TableAt(table, n)'
  BY <1>10, <1>12 DEF TableAt
<1>14. Cause(n) <=> Cause(n)'
  BY <1>1, <1>3 DEF Cause
<1>15. OutputAt(out, n) => OutputAt(out, n)'
  <2>1. Before(n)' = Before(n)
    BY DEF Before
  <2>2. QED
    BY <1>6, <1>7, <1>14, <2>1 DEF OutputAt, Clean
<1>16. StageAt(s, n, table) => StageAt(s, n, table)'
  BY <1>14 DEF StageAt
<1>17. StateAt(n, table, out, s)'
  BY <1>9, <1>11, <1>13, <1>15, <1>16 DEF StateAt
<1>18. StateAt(i, macroTable, outputCode, pc)'
  BY <1>9, <1>17
<1>19. QED
  BY <1>8, <1>18 DEF MacroIInv

\* Before the first line there is nothing.
LEMMA MacroStart == ASSUME ValidInputs, MacroInit PROVE MacroIInv
<1>1. /\ InputFits /\ i = 1 /\ macroTable = <<>> /\ outputCode = <<>>
      /\ pc = "running"
  BY DEF MacroInit, InputFits
<1>2. Len(inputCode) \in Nat
  BY <1>1, InputIs
<1>3. Starts(1) = {}
  BY DEF Starts
<1>4. AtBoundary(1)
  <2>1. 1 <= Len(inputCode) => ~ InDefinition[1]
    <3>1. SUFFICES ASSUME 1 <= Len(inputCode) PROVE ~ InDefinition[1]
      OBVIOUS
    <3>2. 1 \in 0 .. Len(inputCode) /\ ~ 1 > 1
      BY <1>2, <3>1
    <3>3. QED
      BY <1>1, <3>2, InDefinitionIs
  <2>2. 1 \in 1 .. Len(inputCode) + 2
    BY <1>2
  <2>3. QED
    BY <1>3, <2>1, <2>2 DEF AtBoundary
<1>5. TableAt(<<>>, 1)
  <2>1. PICK at : at = <<>>
    OBVIOUS
  <2>2. at \in Seq(Nat) /\ 1 .. Len(at) = {}
    BY <2>1
  <2>3. <<>> = [m \in 1 .. Len(at) |-> Entry(at[m])]
    BY <2>2
  <2>4. QED
    BY <1>3, <2>2, <2>3 DEF TableAt
<1>6. OutputAt(<<>>, 1)
  <2>1. <<>> \in Seq(LineOf(Text \cup {Stale}))
    OBVIOUS
  <2>2. Clean(<<>>)
    BY DEF Clean
  <2>3. Before(1) = 0
    BY <1>2 DEF Before
  <2>4. Expanded[0] = <<>>
    BY <1>2, ExpandedIs
  <2>5. QED
    BY <2>1, <2>2, <2>3, <2>4 DEF OutputAt
<1>7. StageAt("running", 1, <<>>)
  BY DEF StageAt
<1>8. QED
  BY <1>1, <1>4, <1>5, <1>6, <1>7 DEF MacroIInv, StateAt

\* Every step keeps the invariant.
LEMMA MacroStep == ASSUME MacroIInv, [MacroNext]_macroVars PROVE MacroIInv'
<1>1. inputCode' = inputCode
  BY DEF MacroNext, ProcessMacroDefinition, CopyLine, ExpandMacro,
         BlankLine, WriteOutputFile, Emit, macroVars
<1>2. CASE ProcessMacroDefinition
  BY <1>1, <1>2, DefinitionStep, SameInput
<1>3. CASE CopyLine
  BY <1>1, <1>3, CopyStep, SameInput
<1>4. CASE ExpandMacro
  BY <1>1, <1>4, ExpandStep, SameInput
<1>5. CASE BlankLine
  BY <1>1, <1>5, BlankStep, SameInput
<1>6. CASE WriteOutputFile
  BY <1>1, <1>6, WriteStep, SameInput
<1>7. CASE UNCHANGED macroVars
  <2>1. StateAt(i', macroTable', outputCode', pc')
    BY <1>7 DEF macroVars, MacroIInv
  <2>2. QED
    BY <1>1, <2>1, SameInput
<1>8. QED
  BY <1>2, <1>3, <1>4, <1>5, <1>6, <1>7 DEF MacroNext

\* preprocessCode() on every file: at each line outside the definitions the table holds
\* the definitions that started before it, in order, and the output what the lines before
\* it add.
THEOREM MacroInvariant == MacroSpec => []MacroIInv
<1>1. MacroInit => MacroIInv
  BY MacroStart, MacroInputs
<1>2. MacroIInv /\ [MacroNext]_macroVars => MacroIInv'
  BY MacroStep
<1>3. QED
  BY <1>1, <1>2, PTL DEF MacroSpec

\* processMacroDefinition() enters whole definitions of the input, none with an "#end"
\* in it, and "Undefined macro" is reported only when there are macros.
THEOREM MacroTableWhole == MacroSpec => []MacroInv
<1>1. ASSUME MacroIInv PROVE MacroInv
  <2>1. PICK n : n = i
    OBVIOUS
  <2>2. /\ InputFits /\ AtBoundary(n) /\ TableAt(macroTable, n)
        /\ outputCode \in Seq(LineOf(Text \cup {Stale}))
        /\ pc = "exit" => macroTable # <<>>
    BY <1>1, <2>1 DEF MacroIInv, StateAt, OutputAt, StageAt
  <2>3. n \in 1 .. Len(inputCode) + 2 /\ inputCode \in Seq(LineOf(Text))
        /\ Len(inputCode) \in Nat
    BY <2>2, InputIs DEF AtBoundary
  <2>4. ASSUME NEW m \in DOMAIN macroTable
        PROVE  \E d \in 1 .. n - 1 :
                 /\ d + Len(macroTable[m].definition) + 1 < n
                 /\ inputCode[d].kind = "define" /\ inputCode[d].word = macroTable[m].name
                 /\ \A k \in DOMAIN macroTable[m].definition :
                      /\ macroTable[m].definition[k] = inputCode[d + k]
                      /\ macroTable[m].definition[k].kind # "end"
    <3>1. PICK d \in Starts(n) : macroTable[m] = Entry(d)
      BY <2>2, TableEntries
    <3>2. PICK e : e = DefinitionEnd(d)
      OBVIOUS
    <3> DEFINE def == macroTable[m].definition
    <3>3. /\ d \in 1 .. Len(inputCode) /\ e \in d + 1 .. Len(inputCode) + 1
          /\ macroTable[m].name = inputCode[d].word
          /\ def \in Seq(LineOf(Text)) /\ Len(def) = e - 1 - d
          /\ \A k \in 1 .. e - 1 - d : def[k] = inputCode[d + k]
      BY <2>2, <3>1, <3>2, EntryIs
    <3>4. d < n /\ inputCode[d].kind = "define" /\ e < n
      BY <2>2, <3>1, <3>2 DEF Starts, AtBoundary
    <3> HIDE DEF def
    <3>5. DOMAIN def = 1 .. e - 1 - d
      <4> DEFINE L == LineOf(Text)
      <4>1. def \in Seq(L)
        BY <3>3
      <4> HIDE DEF L
      <4>2. QED
        BY <3>3, <4>1
    <3>6. d \in 1 .. n - 1 /\ d + Len(def) + 1 < n
      <4>1. Len(def) = e - 1 - d /\ d \in Nat \ {0} /\ e \in Int /\ n \in Nat /\ d < n /\ e < n
        BY <2>3, <3>3, <3>4
      <4>2. QED
        BY <4>1
    <3>7. ASSUME NEW k \in DOMAIN def
          PROVE  def[k] = inputCode[d + k] /\ def[k].kind # "end"
      <4>1. k \in 1 .. e - 1 - d /\ d + k \in d + 1 .. e - 1
        BY <3>3, <3>5, <3>7
      <4>2. inputCode[d + k].kind # "end"
        BY <2>2, <3>2, <3>3, <4>1, DefinitionEndIs
      <4>3. QED
        BY <3>3, <4>1, <4>2
    <3>8. QED
      BY <3>3, <3>4, <3>6, <3>7 DEF def
  <2>5. QED
    BY <2>1, <2>2, <2>3, <2>4 DEF MacroInv
<1>2. QED
  BY <1>1, MacroInvariant, PTL

\* expandMacro() puts nothing but texts of the input and values of the call into the
\* output, unless a blank line or a call short of values made it read what it never wrote.
THEOREM StaleCaused == MacroSpec => []StaleNeedsCause
<1>1. ASSUME MacroIInv PROVE StaleNeedsCause
  <2>1. (Cause(i) \/ Clean(outputCode)) /\ (pc = "exit" => Cause(i))
    BY <1>1 DEF MacroIInv, StateAt, OutputAt, StageAt
  <2>2. QED
    BY <2>1 DEF StaleNeedsCause, Cause, Clean
<1>2. QED
  BY <1>1, MacroInvariant, PTL

\* On an input without such lines the output is the expansion of the definition: the
\* lines that are no calls, and for every call the lines of the first definition of its
\* name with all values substituted at once.
THEOREM OutputRight == MacroSpec => []OutputIsExpansion
<1>1. ASSUME MacroIInv PROVE OutputIsExpansion
  <2>1. SUFFICES ASSUME pc = "done", Plain
                 PROVE  outputCode = Expanded[Len(inputCode)]
    BY DEF OutputIsExpansion
  <2>2. i > Len(inputCode) /\ outputCode = Expanded[Before(i)]
    BY <1>1, <2>1 DEF MacroIInv, StateAt, OutputAt, StageAt
  <2>3. i \in 1 .. Len(inputCode) + 2 /\ Len(inputCode) \in Nat
    BY <1>1, InputIs DEF MacroIInv, StateAt, AtBoundary
  <2>4. Before(i) = Len(inputCode)
    BY <2>2, <2>3 DEF Before
  <2>5. QED
    BY <2>2, <2>4
<1>2. QED
  BY <1>1, MacroInvariant, PTL
=============================================================================
