--------------------------- MODULE MCMacroProcessor ---------------------------
(***************************************************************************)
(* MacroProcessor on every file made of up to MaxPieces pieces: whole and  *)
(* unterminated definitions, one of them a second one of the same name,    *)
(* calls of a macro inside another, calls with and without the values.     *)
(***************************************************************************)
EXTENDS MacroProcessor

CONSTANT MaxPieces

Code(w, a)   == [kind |-> "code", word |-> w, args |-> a]
Define(w, a) == [kind |-> "define", word |-> w, args |-> a]
End   == [kind |-> "end", word |-> "#end", args |-> <<>>]
Blank == [kind |-> "blank", word |-> "", args |-> <<>>]

Pieces ==
    { <<Define("M", <<"a">>), Code("op", <<"$1", "$1">>), Code("N", <<"$1">>), End>>,
      <<Define("M", <<"a", "b">>), Code("op", <<"$2", "$1">>), Blank, End>>,
      <<Define("N", <<"a", "b">>), Code("op", <<"$1", "$2">>), End>>,
      <<Define("N", <<>>), Code("op", <<"$1">>)>>,
      <<Code("M", <<"x">>)>>, <<Code("M", <<"y", "z">>)>>,
      <<Code("N", <<"$2", "z">>)>>, <<Code("op", <<"x">>)>>, <<Blank>>, <<End>> }

MCText == {"M", "N", "op", "#end", "", "a", "b", "x", "y", "z", "$1", "$2"}

MCInputs ==
    LET files[n \in 0 .. MaxPieces] ==
            IF n = 0 THEN {<<>>} ELSE {f \o p : f \in files[n - 1], p \in Pieces}
    IN  UNION {files[n] : n \in 0 .. MaxPieces}
=============================================================================
