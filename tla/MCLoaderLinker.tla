-------------------------- MODULE MCLoaderLinker --------------------------
(* Small instances of LoaderLinker for TLC. *)
EXTENDS LoaderLinker

Sym(name, address) == [name |-> name, address |-> address, isExternal |-> FALSE]
Ext(name) == [name |-> name, address |-> 0, isExternal |-> TRUE]
Rel(offset, name) == [offset |-> offset, symbolName |-> name]
File(symbols, relocations, code) ==
    [symbols |-> symbols, relocations |-> relocations, code |-> code]

\* main uses f and g, patching one byte twice; libf and libg both define f; libg
\* needs h, which only some link lines provide, and patches past its code.
MCFiles ==
    "main" :> File(<<Sym("main", 10), Ext("f"), Ext("g")>>,
                   <<Rel(0, "f"), Rel(1, "g"), Rel(1, "f")>>, <<65, 66>>) @@
    "libf" :> File(<<Sym("f", 20), Sym("f", 21)>>, <<Rel(0, "main")>>, <<67>>) @@
    "libg" :> File(<<Ext("h"), Sym("g", 300), Sym("f", 40)>>,
                   <<Rel(2, "h"), Rel(0, "g")>>, <<68>>) @@
    "libh" :> File(<<Sym("h", 50)>>, <<>>, <<69>>) @@
    "libn" :> File(<<Sym("h", -1)>>, <<>>, <<70>>)
MCNames == DOMAIN MCFiles \cup {"absent"}
=============================================================================
