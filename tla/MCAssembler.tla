---------------------------- MODULE MCAssembler ----------------------------
(* Small instances of Assembler for TLC. *)
EXTENDS Assembler

Code(label, op) == [kind |-> "code", label |-> label, op |-> op]

\* Every file of up to four lines out of six.
MCFiles == SeqOf({[kind |-> "skip"], [kind |-> "spaces"], Code("", "HALT"),
                  Code("A", "HALT"), Code("A", "LOAD"), Code("B", "unknown")}, 4)
MCLabels == {"A", "B"}
=============================================================================
