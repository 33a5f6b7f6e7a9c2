----------------------------- MODULE BlockStore -----------------------------
(***************************************************************************)
(* What a write-back cache of src/Cache.cpp promises.  A line of that      *)
(* cache holds one int for a whole block, so the memory a program sees has *)
(* one word per cacheable block, at the block's first address, and one     *)
(* word per non-cacheable address.  No lines, no eviction, no dirty bit.   *)
(***************************************************************************)
EXTENDS Integers

CONSTANTS BlockSize, MainMemorySize, Values

Address == 0 .. MainMemorySize - 1

VARIABLES store,               \* the word at each address
          nonCacheableMemory,  \* per address
          answer               \* what the last read printed

vars == <<store, nonCacheableMemory, answer>>

\* The address whose word stands for a.
Home(a) == IF nonCacheableMemory[a] THEN a ELSE (a \div BlockSize) * BlockSize

Init == /\ store = [a \in Address |-> 0]
        /\ nonCacheableMemory \in [Address -> BOOLEAN]
        /\ answer = 0

Read(a) == /\ answer' = store[Home(a)]
           /\ UNCHANGED <<store, nonCacheableMemory>>

Write(a, v) == /\ store' = [store EXCEPT ![Home(a)] = v]
               /\ UNCHANGED <<nonCacheableMemory, answer>>

Next == \E a \in Address : Read(a) \/ \E v \in Values : Write(a, v)

Spec == Init /\ [][Next]_vars
=============================================================================
