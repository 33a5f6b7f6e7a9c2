----------------------------- MODULE MCCompiler -----------------------------
(* Small instances of Compiler for TLC. *)
EXTENDS Compiler, SequencesExt

\* Every line of up to three tokens of five classes, declarations with a value and
\* complete and incomplete if statements.
MCLines ==
    SeqOf({"int", "id", "lit", "=", "print"}, 3) \cup
    {<<"int", "id", "=", "lit">>, <<"int", "id", "=", ";">>,
     <<"if", "op", "id", "op", "lit", "op">>, <<"if", "op", "id", "op", "lit">>,
     <<"id", ";", "print", "lit">>, <<"print", "lit", ";">>}
=============================================================================
