------------------------------- MODULE Cache -------------------------------
(***************************************************************************)
(* The cache simulator of src/Cache.cpp, class CacheMemory.                *)
(*                                                                         *)
(* Each line holds a tag (the block number) and ONE int for the block.     *)
(* Every mapping function yields a single line for a block, so a line is   *)
(* never searched for.  ReplacementPolicy and CoherencyMechanism are       *)
(* stored and never decide anything; accessFrequency and fifoQueue are     *)
(* written under LFU and FIFO and never read: all four are left out.       *)
(* writeBuffer is appended to and never read or drained: the model keeps   *)
(* the set of its elements.                                                *)
(***************************************************************************)
EXTENDS Integers

CONSTANTS CacheSize, BlockSize, MainMemorySize, Associativity,
          WritePolicy, MappingFunction,
          Values               \* the values written

ASSUME CacheSizes == /\ {CacheSize, BlockSize, MainMemorySize, Associativity}
                            \subseteq Nat \ {0}
                     /\ Associativity <= CacheSize
                     /\ Values \subseteq Int

ASSUME CachePolicies ==
    /\ WritePolicy \in {"WriteThrough", "BufferedWriteThrough", "WriteBack"}
    /\ MappingFunction \in {"Direct", "Associative", "SetAssociative"}

Address == 0 .. MainMemorySize - 1
Line    == 0 .. CacheSize - 1

VARIABLES cache,               \* per line: tag, data, valid, dirty
          mainMemory,          \* per address
          nonCacheableMemory,  \* per address: goes straight to mainMemory
          writeBuffer,         \* addresses pushed to the buffer
          answer               \* what the last read printed

vars == <<cache, mainMemory, nonCacheableMemory, writeBuffer, answer>>

CacheBlock == [tag : -1 .. MainMemorySize - 1, data : Int, valid : BOOLEAN,
               dirty : BOOLEAN]

EmptyBlock == [tag |-> -1, data |-> 0, valid |-> FALSE, dirty |-> FALSE]

Block(a) == a \div BlockSize
Start(b) == b * BlockSize

\* setIndex of a block: associativity is used as the number of sets, and a
\* fully associative cache uses line 0 only.
SetIndex(b) == CASE MappingFunction = "Direct"         -> b % CacheSize
                 [] MappingFunction = "Associative"    -> 0
                 [] MappingFunction = "SetAssociative" -> b % Associativity

Holds(b) == cache[SetIndex(b)].valid /\ cache[SetIndex(b)].tag = b

\* A line whose only up-to-date copy is in the cache.
Pending(l) == cache[l].valid /\ cache[l].dirty /\ WritePolicy = "WriteBack"

Init == /\ cache = [l \in Line |-> EmptyBlock]
        /\ mainMemory = [a \in Address |-> 0]
        /\ nonCacheableMemory = [a \in Address |-> FALSE]
        /\ writeBuffer = {}
        /\ answer = 0

\* markNonCacheableMemory(start, end): the lines are not looked at.
MarkNonCacheable(start, end) ==
    /\ nonCacheableMemory' = [a \in Address |-> nonCacheableMemory[a]
                                                \/ a \in start .. end]
    /\ UNCHANGED <<cache, mainMemory, writeBuffer, answer>>

\* accessMemory() of a non-cacheable address.
ReadNonCacheable(a) ==
    /\ nonCacheableMemory[a]
    /\ answer' = mainMemory[a]
    /\ UNCHANGED <<cache, mainMemory, nonCacheableMemory, writeBuffer>>

WriteNonCacheable(a, v) ==
    /\ nonCacheableMemory[a]
    /\ mainMemory' = [mainMemory EXCEPT ![a] = v]
    /\ UNCHANGED <<cache, nonCacheableMemory, writeBuffer, answer>>

-----------------------------------------------------------------------------

ReadHit(a) ==
    /\ ~ nonCacheableMemory[a]
    /\ Holds(Block(a))
    /\ answer' = cache[SetIndex(Block(a))].data
    /\ UNCHANGED <<cache, mainMemory, nonCacheableMemory, writeBuffer>>

\* The line takes the value; the policy decides what else happens.  Write-through
\* writes at the address itself, not at the block's first address.
WriteHit(a, v) ==
    LET l == SetIndex(Block(a))
    IN  /\ ~ nonCacheableMemory[a]
        /\ Holds(Block(a))
        /\ cache' = [cache EXCEPT ![l].data = v,
                                  ![l].dirty = @ \/ WritePolicy = "WriteBack"]
        /\ mainMemory' = IF WritePolicy = "WriteThrough"
                         THEN [mainMemory EXCEPT ![a] = v] ELSE mainMemory
        /\ writeBuffer' = IF WritePolicy = "BufferedWriteThrough"
                          THEN writeBuffer \cup {a} ELSE writeBuffer
        /\ UNCHANGED <<nonCacheableMemory, answer>>

\* Mutant of Evicted: the line is written back at the address of the block that
\* replaces it.
EvictedAtNewTag(l, b) ==
    IF Pending(l) THEN [mainMemory EXCEPT ![Start(b)] = cache[l].data]
                  ELSE mainMemory

\* Main memory once line l has been written back, if it has to be, to make room
\* for block b.
Evicted(l, b) ==
    IF Pending(l)
    THEN [mainMemory EXCEPT ![Start(cache[l].tag)] = cache[l].data]
    ELSE mainMemory

\* fetchBlockFromMemory(), for a read: one int stands for the block.
ReadMiss(a) ==
    LET b == Block(a)
        l == SetIndex(b)
    IN  /\ ~ nonCacheableMemory[a]
        /\ ~ Holds(b)
        /\ mainMemory' = Evicted(l, b)
        /\ cache' = [cache EXCEPT ![l] = [tag |-> b, valid |-> TRUE,
                                          dirty |-> FALSE,
                                          data |-> mainMemory'[Start(b)]]]
        /\ answer' = mainMemory'[Start(b)]
        /\ UNCHANGED <<nonCacheableMemory, writeBuffer>>

\* Mutant of WriteMiss: the non-cacheable check is skipped.
WriteMissUnchecked(a, v) ==
    LET b == Block(a)
        l == SetIndex(b)
    IN  /\ ~ Holds(b)
        /\ mainMemory' = Evicted(l, b)
        /\ cache' = [cache EXCEPT ![l] = [tag |-> b, valid |-> TRUE, data |-> v,
                                          dirty |-> WritePolicy = "WriteBack"]]
        /\ UNCHANGED <<nonCacheableMemory, writeBuffer, answer>>

\* ... and for a write: neither write-through policy passes the value on.
WriteMiss(a, v) ==
    LET b == Block(a)
        l == SetIndex(b)
    IN  /\ ~ nonCacheableMemory[a]
        /\ ~ Holds(b)
        /\ mainMemory' = Evicted(l, b)
        /\ cache' = [cache EXCEPT ![l] = [tag |-> b, valid |-> TRUE, data |-> v,
                                          dirty |-> WritePolicy = "WriteBack"]]
        /\ UNCHANGED <<nonCacheableMemory, writeBuffer, answer>>

\* Mutant of FlushedTo: nothing is written.
FlushedToNone(a) == {}

\* The lines flushCache() writes to address a.
FlushedTo(a) == {l \in Line : Pending(l) /\ Start(cache[l].tag) = a}

\* flushCache(): the loop ascends, so the last line written to an address wins.
FlushCache ==
    /\ mainMemory' = [a \in Address |->
                        IF FlushedTo(a) = {} THEN mainMemory[a]
                        ELSE LET last == CHOOSE l \in FlushedTo(a) :
                                             \A k \in FlushedTo(a) : k <= l
                             IN  cache[last].data]
    /\ cache' = [l \in Line |-> [cache[l] EXCEPT !.dirty = @ /\ ~ Pending(l)]]
    /\ UNCHANGED <<nonCacheableMemory, writeBuffer, answer>>

Access == \E a \in Address :
            \/ ReadNonCacheable(a) \/ ReadHit(a) \/ ReadMiss(a)
            \/ \E v \in Values :
                 WriteNonCacheable(a, v) \/ WriteHit(a, v) \/ WriteMiss(a, v)

Mark == \E start, end \in Address : MarkNonCacheable(start, end)

Next == Access \/ FlushCache \/ Mark

Spec == Init /\ [][Next]_vars

\* main() marks whole blocks, and all of them before the first access.
MarkedInit ==
    /\ cache = [l \in Line |-> EmptyBlock]
    /\ mainMemory = [a \in Address |-> 0]
    /\ writeBuffer = {}
    /\ answer = 0
    /\ nonCacheableMemory \in [Address -> BOOLEAN]
    /\ \A a, c \in Address :
           Block(a) = Block(c) => nonCacheableMemory[a] = nonCacheableMemory[c]

MarkedSpec == MarkedInit /\ [][Access \/ FlushCache]_vars

-----------------------------------------------------------------------------

\* Every variable has its type.
TypeOK == /\ cache \in [Line -> CacheBlock]
          /\ mainMemory \in [Address -> Int]
          /\ nonCacheableMemory \in [Address -> BOOLEAN]
          /\ writeBuffer \subseteq Address
          /\ answer \in Int

\* A line in use holds a block that maps to it, so a block is in at most one
\* line, and only write-back has anything to flush.
LineInv ==
    \A l \in Line :
        /\ cache[l].valid => /\ \E a \in Address : cache[l].tag = Block(a)
                             /\ SetIndex(cache[l].tag) = l
        /\ cache[l].dirty => cache[l].valid /\ WritePolicy = "WriteBack"

\* Under write-back a clean line never disagrees with memory, whatever was
\* evicted, flushed or written around the cache before.
CleanMatchesMemory ==
    WritePolicy = "WriteBack" =>
        \A l \in Line : cache[l].valid /\ ~ cache[l].dirty
                           => cache[l].data = mainMemory[Start(cache[l].tag)]

\* Blocks are cacheable as a whole, and only cacheable ones are ever cached.
NonCacheableUncached ==
    /\ \A a, c \in Address :
           Block(a) = Block(c) => nonCacheableMemory[a] = nonCacheableMemory[c]
    /\ \A a \in Address : nonCacheableMemory[a] => ~ Holds(Block(a))

\* What the properties of MarkedSpec rest on, closed under every step of it.
CacheInv == TypeOK /\ LineInv /\ CleanMatchesMemory /\ NonCacheableUncached

\* A non-cacheable word changes only when it is itself written: no eviction, no
\* flush and no write to another address touches it.
NonCacheableIsolated ==
    [][\A a \in Address :
          nonCacheableMemory[a] /\ mainMemory'[a] # mainMemory[a]
          => \E v \in Values : WriteNonCacheable(a, v)]_vars

\* Under write-back the simulator is a memory with one word per cacheable block
\* and one per non-cacheable address: a cached block's word is in its line.
words == [a \in Address |-> IF a = Start(Block(a)) /\ Holds(Block(a))
                            THEN cache[SetIndex(Block(a))].data
                            ELSE mainMemory[a]]

Words == INSTANCE BlockStore WITH store <- words
BlockStoreSpec == Words!Spec
=============================================================================
