---------------------------- MODULE CacheProofs ----------------------------
(***************************************************************************)
(* Proofs about Cache, for every size, mapping function and write policy.  *)
(***************************************************************************)
EXTENDS Cache, TLAPS

\* Facts about / and %.
LEMMA Division == ASSUME NEW a \in Int, NEW n \in Int, n > 0
                  PROVE  a = n * (a \div n) + (a % n)
  BY Z3T(30)

LEMMA DivMod == ASSUME NEW a \in Nat, NEW n \in Nat \ {0}
                PROVE  /\ a \div n \in Nat /\ a % n \in 0 .. n - 1
                       /\ a = n * (a \div n) + (a % n)
<1>1. a = n * (a \div n) + (a % n)
  <2>1. a \in Int /\ n \in Int /\ n > 0
    OBVIOUS
  <2>2. QED
    BY <2>1, Division
<1>2. a % n \in 0 .. n - 1
  OBVIOUS
<1>3. a \div n \in Int
  OBVIOUS
<1>4. a \div n >= 0
  <2>1. CASE a \div n <= -1
    <3>1. n * (a \div n) <= -n
      BY <2>1, <1>3
    <3>2. QED
      BY <3>1, <1>1, <1>2, <1>3
  <2>2. QED
    BY <2>1, <1>3
<1>5. QED
  BY <1>1, <1>2, <1>3, <1>4

LEMMA DivUnique == ASSUME NEW a \in Nat, NEW n \in Nat \ {0}, NEW q \in Nat,
                          NEW r \in 0 .. n - 1, a = n * q + r
                   PROVE  a \div n = q
<1>1. n * (a \div n) + (a % n) = n * q + r
  BY DivMod
<1> DEFINE d == a \div n
           m == a % n
<1>2. d \in Nat /\ m \in 0 .. n - 1
  BY DivMod
<1> HIDE DEF d, m
<1>3. n * (d - q) = r - m
  BY <1>1, <1>2 DEF d, m
<1>4. r - m < n /\ -n < r - m
  BY <1>2
<1>5. CASE d - q >= 1
  BY <1>2, <1>3, <1>4, <1>5
<1>6. CASE d - q <= -1
  BY <1>2, <1>3, <1>4, <1>6
<1>7. QED
  BY <1>2, <1>5, <1>6 DEF d

\* The first address of a block is an address of that block.
LEMMA BlockStart ==
    ASSUME NEW a \in Address
    PROVE  /\ Block(a) \in 0 .. MainMemorySize - 1
           /\ Start(Block(a)) \in Address
           /\ Block(Start(Block(a))) = Block(a)
<1> DEFINE q == a \div BlockSize
<1>1. a \in Nat /\ BlockSize \in Nat \ {0} /\ MainMemorySize \in Nat
  BY CacheSizes DEF Address
<1>2. q \in Nat /\ a % BlockSize \in Nat /\ a = BlockSize * q + (a % BlockSize)
  <2>1. a % BlockSize \in 0 .. BlockSize - 1
    BY <1>1, DivMod
  <2>2. a \div BlockSize \in Nat
        /\ a = BlockSize * (a \div BlockSize) + (a % BlockSize)
    BY <1>1, DivMod
  <2>3. QED
    BY <1>1, <2>1, <2>2
<1> HIDE DEF q
<1>3. BlockSize * q <= a /\ BlockSize * q \in Nat /\ q <= BlockSize * q
  <2> DEFINE p == BlockSize * q
  <2>1. p \in Int
    BY <1>1, <1>2
  <2>2. p >= q
    BY <1>1, <1>2
  <2>3. a = p + (a % BlockSize)
    BY <1>2
  <2> HIDE DEF p
  <2>4. p <= a
    BY <1>1, <1>2, <2>1, <2>3
  <2>5. QED
    BY <1>2, <2>1, <2>2, <2>4 DEF p
<1>4. Start(q) = BlockSize * q /\ Start(q) \in Nat
  BY <1>1, <1>2, <1>3 DEF Start
<1>5. Start(q) \div BlockSize = q
  <2>1. 0 \in 0 .. BlockSize - 1 /\ BlockSize * q = BlockSize * q + 0
    BY <1>1, <1>3
  <2>2. QED
    BY <2>1, <1>1, <1>2, <1>4, DivUnique
<1>6. QED
  BY <1>1, <1>2, <1>3, <1>4, <1>5 DEF Block, q, Address

\* Every block maps to a line.
LEMMA SetIndexType == ASSUME NEW b \in Nat PROVE SetIndex(b) \in Line
<1>1. b % CacheSize \in 0 .. CacheSize - 1
  BY CacheSizes, DivMod
<1>2. b % Associativity \in 0 .. Associativity - 1
  BY CacheSizes, DivMod
<1>3. QED
  BY <1>1, <1>2, CacheSizes, CachePolicies DEF SetIndex, Line

-----------------------------------------------------------------------------

\* What an address gives: its block, the block's first address and its line.
LEMMA Located ==
    ASSUME NEW a \in Address
    PROVE  /\ Block(a) \in Nat /\ Block(a) \in -1 .. MainMemorySize - 1
           /\ SetIndex(Block(a)) \in Line
           /\ Start(Block(a)) \in Address
           /\ Block(Start(Block(a))) = Block(a)
<1>1. Block(a) \in Nat /\ Block(a) \in -1 .. MainMemorySize - 1
  BY BlockStart, CacheSizes
<1>2. QED
  BY <1>1, BlockStart, SetIndexType

\* A line in use is the only one whose block starts where its block does.
LEMMA OnlyLine ==
    ASSUME TypeOK, LineInv, NEW k \in Line, cache[k].valid
    PROVE  /\ Start(cache[k].tag) \in Address
           /\ Block(Start(cache[k].tag)) = cache[k].tag
           /\ Holds(cache[k].tag)
           /\ \A j \in Line : cache[j].valid
                              /\ Start(cache[j].tag) = Start(cache[k].tag)
                              => j = k
<1>1. \A j \in Line : cache[j].valid =>
          /\ Start(cache[j].tag) \in Address
          /\ Block(Start(cache[j].tag)) = cache[j].tag
          /\ SetIndex(cache[j].tag) = j
  BY Located DEF LineInv
<1>2. QED
  BY <1>1 DEF Holds

\* What is written back is a word of memory.
LEMMA EvictedType ==
    ASSUME TypeOK, NEW l \in Line, NEW b PROVE Evicted(l, b) \in [Address -> Int]
  BY DEF TypeOK, CacheBlock, Evicted

\* A flush writes at most one line to an address.
LEMMA FlushedOnce ==
    ASSUME TypeOK, LineInv, NEW a, NEW l \in FlushedTo(a)
    PROVE  /\ l \in Line /\ FlushedTo(a) = {l}
           /\ (CHOOSE m \in FlushedTo(a) : \A k \in FlushedTo(a) : k <= m) = l
<1>1. l \in Line /\ Pending(l) /\ Start(cache[l].tag) = a /\ cache[l].valid
  BY DEF FlushedTo, Pending
<1>2. FlushedTo(a) = {l}
  BY <1>1, OnlyLine DEF FlushedTo, Pending
<1>3. l <= l
  BY <1>1 DEF Line
<1>4. QED
  BY <1>1, <1>2, <1>3

\* What a flush leaves at an address, and in a line.
LEMMA Flushed ==
    ASSUME TypeOK, LineInv, FlushCache
    PROVE  /\ mainMemory' \in [Address -> Int]
           /\ \A a \in Address : FlushedTo(a) = {} => mainMemory'[a] = mainMemory[a]
           /\ \A a \in Address : \A l \in FlushedTo(a) :
                  mainMemory'[a] = cache[l].data
           /\ cache' \in [Line -> CacheBlock]
           /\ \A l \in Line : /\ cache'[l].valid = cache[l].valid
                              /\ cache'[l].tag = cache[l].tag
                              /\ cache'[l].data = cache[l].data
                              /\ cache'[l].dirty => cache[l].dirty /\ ~ Pending(l)
<1>1. \A a \in Address : FlushedTo(a) = {} => mainMemory'[a] = mainMemory[a]
  BY DEF FlushCache
<1>2. ASSUME NEW a \in Address, NEW l \in FlushedTo(a)
      PROVE  mainMemory'[a] = cache[l].data /\ cache[l].data \in Int
  <2>1. mainMemory'[a] = cache[CHOOSE m \in FlushedTo(a) :
                                 \A k \in FlushedTo(a) : k <= m].data
    BY DEF FlushCache
  <2>2. QED
    BY <2>1, FlushedOnce DEF TypeOK, CacheBlock
<1>3. \A a \in Address : mainMemory'[a] \in Int
  BY <1>1, <1>2 DEF TypeOK
<1>4. mainMemory' \in [Address -> Int]
  BY <1>3 DEF FlushCache
<1>5. cache' = [l \in Line |-> [cache[l] EXCEPT !.dirty = @ /\ ~ Pending(l)]]
  BY DEF FlushCache
<1>6. ASSUME NEW l \in Line
      PROVE  /\ cache'[l] \in CacheBlock
             /\ cache'[l].valid = cache[l].valid /\ cache'[l].tag = cache[l].tag
             /\ cache'[l].data = cache[l].data
             /\ cache'[l].dirty => cache[l].dirty /\ ~ Pending(l)
  <2>1. cache[l] \in CacheBlock
    BY DEF TypeOK
  <2>2. (cache[l].dirty /\ ~ Pending(l)) \in BOOLEAN
    OBVIOUS
  <2>3. cache'[l] = [cache[l] EXCEPT !.dirty = cache[l].dirty /\ ~ Pending(l)]
    BY <1>5
  <2>4. QED
    BY <2>1, <2>2, <2>3 DEF CacheBlock
<1>7. QED
  BY <1>1, <1>2, <1>4, <1>5, <1>6

-----------------------------------------------------------------------------

LineOK == TypeOK /\ LineInv

\* A miss puts its block in the line the block maps to.
LEMMA MissLineOK ==
    ASSUME LineOK, NEW a \in Address,
           ReadMiss(a) \/ \E v \in Values : WriteMiss(a, v)
    PROVE  LineOK'
<1> DEFINE b == Block(a)
           l == SetIndex(b)
<1>1. PICK nl \in CacheBlock : /\ nl.tag = b /\ nl.valid
                               /\ nl.dirty => WritePolicy = "WriteBack"
                               /\ cache' = [cache EXCEPT ![l] = nl]
  <2>1. Evicted(l, b) \in [Address -> Int] /\ b \in -1 .. MainMemorySize - 1
        /\ Start(b) \in Address
    BY EvictedType, Located DEF LineOK
  <2>2. CASE ReadMiss(a)
    BY <2>1, <2>2 DEF ReadMiss, CacheBlock
  <2>3. CASE \E v \in Values : WriteMiss(a, v)
    BY <2>1, <2>3, CacheSizes DEF WriteMiss, CacheBlock
  <2>4. QED
    BY <2>2, <2>3
<1>2. l \in Line /\ Start(b) \in Address
  BY Located
<1>3. mainMemory' \in [Address -> Int]
  BY EvictedType, <1>2 DEF LineOK, ReadMiss, WriteMiss
<1>4. UNCHANGED <<nonCacheableMemory, writeBuffer>> /\ answer' \in Int
  BY <1>2, <1>3 DEF LineOK, TypeOK, ReadMiss, WriteMiss
<1>5. TypeOK'
  BY <1>1, <1>2, <1>3, <1>4 DEF LineOK, TypeOK
<1>6. LineInv'
  BY <1>1, <1>2 DEF LineOK, LineInv, TypeOK
<1>7. QED
  BY <1>5, <1>6 DEF LineOK

\* Steps other than a miss leave every line the block it has.
LEMMA OtherLineOK ==
    ASSUME LineOK,
           \/ FlushCache \/ Mark
           \/ \E a \in Address :
                \/ ReadNonCacheable(a) \/ ReadHit(a)
                \/ \E v \in Values : WriteNonCacheable(a, v) \/ WriteHit(a, v)
    PROVE  LineOK'
<1>1. CASE FlushCache
  <2>1. TypeOK'
    BY <1>1, Flushed DEF FlushCache, LineOK, TypeOK
  <2>2. LineInv'
    <3>1. \A l \in Line : /\ cache'[l].valid = cache[l].valid
                          /\ cache'[l].tag = cache[l].tag
                          /\ cache'[l].dirty => cache[l].dirty
      BY <1>1, Flushed DEF LineOK
    <3>2. QED
      BY <3>1 DEF LineOK, LineInv
  <2>3. QED
    BY <2>1, <2>2 DEF LineOK
<1>2. CASE Mark
  BY <1>2 DEF Mark, MarkNonCacheable, LineOK, TypeOK, LineInv
<1>3. ASSUME NEW a \in Address, ReadNonCacheable(a) \/ ReadHit(a) PROVE LineOK'
  BY <1>3, Located
     DEF ReadNonCacheable, ReadHit, LineOK, TypeOK, LineInv, CacheBlock
<1>4. ASSUME NEW a \in Address, NEW v \in Values, WriteNonCacheable(a, v)
      PROVE  LineOK'
  BY <1>4, CacheSizes DEF WriteNonCacheable, LineOK, TypeOK, LineInv
<1>5. ASSUME NEW a \in Address, NEW v \in Values, WriteHit(a, v) PROVE LineOK'
  <2> DEFINE l == SetIndex(Block(a))
             nl == [cache[l] EXCEPT !.data = v,
                                    !.dirty = @ \/ WritePolicy = "WriteBack"]
  <2>1. l \in Line /\ cache[l] \in CacheBlock /\ cache[l].valid /\ v \in Int
    BY <1>5, Located, CacheSizes DEF WriteHit, Holds, LineOK, TypeOK
  <2>2. cache' = [cache EXCEPT ![l] = nl]
    BY <1>5, <2>1 DEF WriteHit, LineOK, TypeOK
  <2>3. /\ nl \in CacheBlock /\ nl.tag = cache[l].tag /\ nl.valid
        /\ nl.dirty => cache[l].dirty \/ WritePolicy = "WriteBack"
    <3>1. (cache[l].dirty \/ WritePolicy = "WriteBack") \in BOOLEAN
      OBVIOUS
    <3>2. nl = [cache[l] EXCEPT !.data = v,
                   !.dirty = (cache[l].dirty \/ WritePolicy = "WriteBack")]
      OBVIOUS
    <3>3. QED
      BY <2>1, <3>1, <3>2 DEF CacheBlock
  <2> HIDE DEF nl
  <2>4. TypeOK'
    BY <1>5, <2>1, <2>2, <2>3 DEF WriteHit, LineOK, TypeOK
  <2>5. LineInv'
    BY <2>1, <2>2, <2>3 DEF LineOK, LineInv, TypeOK
  <2>6. QED
    BY <2>4, <2>5 DEF LineOK
<1>6. QED
  BY <1>1, <1>2, <1>3, <1>4, <1>5

LEMMA NextLineOK == LineOK /\ [Next]_vars => LineOK'
<1>1. LineOK /\ UNCHANGED vars => LineOK'
  BY DEF LineOK, TypeOK, LineInv, vars
<1>2. LineOK /\ Next => LineOK'
  BY MissLineOK, OtherLineOK DEF Next, Access
<1>3. QED
  BY <1>1, <1>2

\* Under every policy and mapping, whenever addresses are marked, the cache keeps
\* its shape: a line holds a block that maps to it, dirty only under write-back.
THEOREM LinesPlaced == Spec => [](TypeOK /\ LineInv)
<1>1. Init => LineOK
  <2>1. EmptyBlock \in CacheBlock
    BY CacheSizes DEF EmptyBlock, CacheBlock
  <2>2. QED
    BY <2>1 DEF Init, LineOK, TypeOK, LineInv, EmptyBlock
<1>2. LineOK <=> TypeOK /\ LineInv
  BY DEF LineOK
<1>3. QED
  BY <1>1, <1>2, NextLineOK, PTL DEF Spec

-----------------------------------------------------------------------------

\* A miss evicts one cacheable word and lets its own block in: the block store changes
\* only where the access wrote.
LEMMA Miss ==
    ASSUME CacheInv, WritePolicy = "WriteBack", NEW a \in Address,
           ~ nonCacheableMemory[a], ~ Holds(Block(a)),
           NEW nl \in CacheBlock, nl.tag = Block(a), nl.valid,
           mainMemory' = Evicted(SetIndex(Block(a)), Block(a)),
           cache' = [cache EXCEPT ![SetIndex(Block(a))] = nl]
    PROVE  /\ mainMemory'[Start(Block(a))] = words[Start(Block(a))]
           /\ words' = [words EXCEPT ![Start(Block(a))] = nl.data]
           /\ \A k \in Line \ {SetIndex(Block(a))} : cache[k].valid =>
                 mainMemory'[Start(cache[k].tag)] = mainMemory[Start(cache[k].tag)]
<1> DEFINE b == Block(a)
           l == SetIndex(b)
           s == Start(b)
<1>1. l \in Line /\ s \in Address /\ Block(s) = b
  BY Located
<1>2. cache'[l] = nl /\ \A k \in Line \ {l} : cache'[k] = cache[k]
  BY <1>1 DEF CacheInv, TypeOK
<1>3. cache[l].valid => Start(cache[l].tag) # s
  BY <1>1, OnlyLine DEF CacheInv, Holds
<1>4. \A x \in Address : ~ (cache[l].valid /\ x = Start(cache[l].tag))
                         => mainMemory'[x] = mainMemory[x]
  BY <1>1 DEF Evicted, Pending, CacheInv, TypeOK
<1>5. cache[l].valid => mainMemory'[Start(cache[l].tag)] = cache[l].data
  <2>1. CASE cache[l].valid /\ cache[l].dirty
    BY <2>1, <1>1, OnlyLine DEF Evicted, Pending, CacheInv, TypeOK
  <2>2. CASE cache[l].valid /\ ~ cache[l].dirty
    BY <2>2, <1>1 DEF Evicted, Pending, CacheInv, CleanMatchesMemory
  <2>3. QED
    BY <2>1, <2>2
<1>6. mainMemory'[s] = mainMemory[s] /\ words[s] = mainMemory[s]
  BY <1>1, <1>3, <1>4 DEF words
<1>7. ASSUME NEW x \in Address, x # s
      PROVE  (IF x = Start(Block(x)) /\ Holds(Block(x))'
              THEN cache'[SetIndex(Block(x))].data ELSE mainMemory'[x])
             = words[x]
  <2>1. SetIndex(Block(x)) \in Line
    BY Located
  <2>2. CASE x = Start(Block(x)) /\ SetIndex(Block(x)) = l
    <3>1. Block(x) # b /\ ~ Holds(Block(x))'
      BY <2>2, <1>2, <1>7 DEF Holds
    <3>2. CASE Holds(Block(x))
      BY <3>1, <3>2, <2>2, <1>5 DEF Holds, words
    <3>3. CASE ~ Holds(Block(x))
      <4>1. ~ (cache[l].valid /\ x = Start(cache[l].tag))
        BY <2>2, <3>3, <1>1, OnlyLine DEF CacheInv, Holds
      <4>2. QED
        BY <4>1, <3>1, <3>3, <1>4 DEF words
    <3>4. QED
      BY <3>2, <3>3
  <2>3. CASE x = Start(Block(x)) /\ SetIndex(Block(x)) # l
    <3>1. cache'[SetIndex(Block(x))] = cache[SetIndex(Block(x))]
      BY <2>1, <2>3, <1>2
    <3>2. Holds(Block(x))' <=> Holds(Block(x))
      BY <3>1 DEF Holds
    <3>3. ~ (cache[l].valid /\ x = Start(cache[l].tag))
      BY <2>3, <1>1, OnlyLine DEF CacheInv, LineInv
    <3>4. QED
      BY <3>1, <3>2, <3>3, <1>4 DEF words
  <2>4. CASE x # Start(Block(x))
    <3>1. ~ (cache[l].valid /\ x = Start(cache[l].tag))
      BY <2>4, <1>1, OnlyLine DEF CacheInv
    <3>2. QED
      BY <2>4, <3>1, <1>4 DEF words
  <2>5. QED
    BY <2>2, <2>3, <2>4
<1>8. Holds(b)' /\ cache'[l].data = nl.data
  BY <1>1, <1>2 DEF Holds
<1>9. words' = [words EXCEPT ![s] = nl.data]
  <2>1. words' = [x \in Address |-> IF x = Start(Block(x)) /\ Holds(Block(x))'
                                    THEN cache'[SetIndex(Block(x))].data
                                    ELSE mainMemory'[x]]
    BY DEF words
  <2>2. s = Start(Block(s)) /\ Holds(Block(s))'
        /\ cache'[SetIndex(Block(s))].data = nl.data
    BY <1>1, <1>8
  <2>3. words = [x \in Address |-> words[x]]
    BY DEF words
  <2> HIDE DEF s, l, b
  <2>4. QED
    BY <1>1, <1>7, <2>1, <2>2, <2>3
<1>10. \A k \in Line \ {l} : cache[k].valid =>
            mainMemory'[Start(cache[k].tag)] = mainMemory[Start(cache[k].tag)]
  BY <1>1, <1>4, OnlyLine DEF CacheInv
<1>11. QED
  BY <1>6, <1>9, <1>10

-----------------------------------------------------------------------------

\* The block of a miss is a whole cacheable block.
LEMMA MissInv ==
    ASSUME CacheInv, NEW a \in Address,
           ReadMiss(a) \/ \E v \in Values : WriteMiss(a, v)
    PROVE  CacheInv'
<1> DEFINE b == Block(a)
           l == SetIndex(b)
<1>1. LineOK' /\ LineOK
  BY MissLineOK DEF LineOK, CacheInv
<1>2. /\ l \in Line /\ Start(b) \in Address
      /\ nonCacheableMemory' = nonCacheableMemory /\ ~ nonCacheableMemory[a]
      /\ ~ Holds(b) /\ mainMemory' = Evicted(l, b)
  BY Located DEF ReadMiss, WriteMiss
<1> DEFINE nl == cache'[l]
<1>3. /\ nl.tag = b /\ nl.valid
      /\ cache' = [cache EXCEPT ![l] = nl]
      /\ WritePolicy = "WriteBack" /\ ~ nl.dirty
            => nl.data = mainMemory'[Start(b)]
  <2>1. CASE ReadMiss(a)
    BY <2>1, <1>2 DEF ReadMiss, CacheInv, TypeOK
  <2>2. CASE \E v \in Values : WriteMiss(a, v)
    <3>1. PICK v \in Values : WriteMiss(a, v)
      BY <2>2
    <3>2. cache' = [cache EXCEPT ![l] =
                     [tag |-> b, valid |-> TRUE, data |-> v,
                      dirty |-> (WritePolicy = "WriteBack")]]
      BY <3>1 DEF WriteMiss
    <3>3. nl = [tag |-> b, valid |-> TRUE, data |-> v,
                dirty |-> (WritePolicy = "WriteBack")]
      BY <3>2, <1>2 DEF CacheInv, TypeOK
    <3>4. cache' = [cache EXCEPT ![l] = nl]
      BY <3>2, <3>3
    <3>5. nl.tag = b /\ nl.valid /\ nl.dirty = (WritePolicy = "WriteBack")
      BY <3>3
    <3>6. QED
      BY <3>4, <3>5
  <2>3. QED
    BY <2>1, <2>2
<1>4. \A k \in Line \ {l} : cache'[k] = cache[k]
  BY <1>2, <1>3 DEF CacheInv, TypeOK
<1>5. CleanMatchesMemory'
  <2> SUFFICES ASSUME WritePolicy = "WriteBack" PROVE CleanMatchesMemory'
    BY DEF CleanMatchesMemory
  <2>1. nl \in CacheBlock
    BY <1>1, <1>2 DEF LineOK, TypeOK
  <2>2. \A k \in Line \ {l} : cache[k].valid =>
            mainMemory'[Start(cache[k].tag)] = mainMemory[Start(cache[k].tag)]
    BY <1>2, <1>3, <2>1, Miss
  <2>3. QED
    BY <1>3, <1>4, <2>2 DEF CacheInv, CleanMatchesMemory
<1>6. NonCacheableUncached'
  <2>1. ASSUME NEW x \in Address, nonCacheableMemory[x] PROVE ~ Holds(Block(x))'
    <3>1. Block(x) # b /\ ~ Holds(Block(x)) /\ SetIndex(Block(x)) \in Line
      BY <1>2, <2>1, Located DEF CacheInv, NonCacheableUncached
    <3>2. QED
      BY <3>1, <1>3, <1>4 DEF Holds
  <2>2. QED
    BY <1>2, <2>1 DEF CacheInv, NonCacheableUncached
<1>7. QED
  BY <1>1, <1>5, <1>6 DEF LineOK, CacheInv

\* A non-cacheable address is not the home of any line.
LEMMA NonCacheableNotHome ==
    ASSUME CacheInv, NEW a \in Address, nonCacheableMemory[a],
           NEW k \in Line, cache[k].valid
    PROVE  Start(cache[k].tag) # a
  BY OnlyLine DEF CacheInv, NonCacheableUncached

LEMMA WriteNonCacheableInv ==
    ASSUME CacheInv, NEW a \in Address, NEW v \in Values, WriteNonCacheable(a, v)
    PROVE  CacheInv'
<1>1. LineOK' /\ LineOK
  BY OtherLineOK DEF LineOK, CacheInv
<1>2. /\ nonCacheableMemory[a] /\ cache' = cache
      /\ nonCacheableMemory' = nonCacheableMemory
      /\ mainMemory' = [mainMemory EXCEPT ![a] = v]
  BY DEF WriteNonCacheable
<1>3. \A k \in Line : cache[k].valid =>
         mainMemory'[Start(cache[k].tag)] = mainMemory[Start(cache[k].tag)]
  BY <1>2, NonCacheableNotHome, OnlyLine DEF CacheInv, TypeOK
<1>4. CleanMatchesMemory'
  BY <1>2, <1>3 DEF CacheInv, CleanMatchesMemory
<1>5. NonCacheableUncached'
  BY <1>2 DEF CacheInv, NonCacheableUncached, Holds
<1>6. QED
  BY <1>1, <1>4, <1>5 DEF LineOK, CacheInv

LEMMA WriteHitInv ==
    ASSUME CacheInv, NEW a \in Address, NEW v \in Values, WriteHit(a, v)
    PROVE  CacheInv'
<1> DEFINE l == SetIndex(Block(a))
<1>1. LineOK' /\ LineOK /\ l \in Line
  BY OtherLineOK, Located DEF LineOK, CacheInv
<1>2. /\ nonCacheableMemory' = nonCacheableMemory
      /\ \A k \in Line \ {l} : cache'[k] = cache[k]
      /\ cache'[l].tag = cache[l].tag /\ cache'[l].valid = cache[l].valid
      /\ WritePolicy = "WriteBack" => mainMemory' = mainMemory
  BY <1>1 DEF WriteHit, LineOK, TypeOK, CacheBlock
<1>3. WritePolicy = "WriteBack" => cache'[l].dirty
  BY <1>1 DEF WriteHit, LineOK, TypeOK, CacheBlock
<1>4. CleanMatchesMemory'
  BY <1>2, <1>3 DEF CacheInv, CleanMatchesMemory
<1>5. \A x \in Address : Holds(Block(x))' = Holds(Block(x))
  BY <1>2, Located DEF Holds
<1>6. NonCacheableUncached'
  BY <1>2, <1>5 DEF CacheInv, NonCacheableUncached
<1>7. QED
  BY <1>1, <1>4, <1>6 DEF LineOK, CacheInv

LEMMA FlushInv == ASSUME CacheInv, FlushCache PROVE CacheInv'
<1>1. LineOK' /\ LineOK
  BY OtherLineOK DEF LineOK, CacheInv
<1>2. nonCacheableMemory' = nonCacheableMemory
  BY DEF FlushCache
<1>3. ASSUME WritePolicy = "WriteBack", NEW k \in Line,
             cache'[k].valid, ~ cache'[k].dirty
      PROVE  cache'[k].data = mainMemory'[Start(cache'[k].tag)]
  <2>1. cache[k].valid /\ cache'[k].tag = cache[k].tag
        /\ cache'[k].data = cache[k].data
    BY <1>1, <1>3, Flushed DEF LineOK
  <2>2. Start(cache[k].tag) \in Address
    BY <1>1, <2>1, OnlyLine DEF LineOK
  <2>3. CASE Pending(k)
    <3>1. k \in FlushedTo(Start(cache[k].tag))
      BY <2>3 DEF FlushedTo
    <3>2. QED
      BY <1>1, <2>1, <2>2, <3>1, Flushed DEF LineOK
  <2>4. CASE ~ Pending(k)
    <3>1. FlushedTo(Start(cache[k].tag)) = {}
      BY <1>1, <2>1, <2>4, OnlyLine DEF LineOK, FlushedTo, Pending
    <3>2. mainMemory'[Start(cache[k].tag)] = mainMemory[Start(cache[k].tag)]
      BY <1>1, <2>2, <3>1, Flushed DEF LineOK
    <3>3. cache[k].data = mainMemory[Start(cache[k].tag)]
      BY <1>3, <2>1, <2>4 DEF CacheInv, CleanMatchesMemory, Pending
    <3>4. QED
      BY <2>1, <3>2, <3>3
  <2>5. QED
    BY <2>3, <2>4
<1>4. CleanMatchesMemory'
  BY <1>3 DEF CleanMatchesMemory
<1>5. \A l \in Line : cache'[l].valid = cache[l].valid /\ cache'[l].tag = cache[l].tag
  BY <1>1, Flushed DEF LineOK
<1>6. \A x \in Address : Holds(Block(x))' = Holds(Block(x))
  BY <1>5, Located DEF Holds
<1>7. NonCacheableUncached'
  BY <1>2, <1>6 DEF CacheInv, NonCacheableUncached
<1>8. QED
  BY <1>1, <1>4, <1>7 DEF LineOK, CacheInv

LEMMA NextCacheInv == CacheInv /\ [Access \/ FlushCache]_vars => CacheInv'
<1>1. ASSUME CacheInv, UNCHANGED vars PROVE CacheInv'
  BY <1>1 DEF CacheInv, TypeOK, LineInv, CleanMatchesMemory, NonCacheableUncached,
              Holds, vars
<1>2. ASSUME CacheInv, NEW a \in Address, ReadNonCacheable(a) \/ ReadHit(a)
      PROVE  CacheInv'
  <2>1. LineOK'
    BY <1>2, OtherLineOK DEF LineOK, CacheInv
  <2>2. UNCHANGED <<cache, mainMemory, nonCacheableMemory>>
    BY <1>2 DEF ReadNonCacheable, ReadHit
  <2>3. QED
    BY <1>2, <2>1, <2>2 DEF LineOK, CacheInv, CleanMatchesMemory,
                            NonCacheableUncached, Holds
<1>3. QED
  BY <1>1, <1>2, MissInv, WriteNonCacheableInv, WriteHitInv, FlushInv DEF Access

\* When whole blocks are marked before use, a clean line agrees with memory under
\* write-back and no non-cacheable word is ever cached.
THEOREM CacheCoherent == MarkedSpec => []CacheInv
<1>1. MarkedInit => CacheInv
  <2>1. EmptyBlock \in CacheBlock /\ EmptyBlock.valid = FALSE
        /\ EmptyBlock.dirty = FALSE
    BY CacheSizes DEF EmptyBlock, CacheBlock
  <2> HIDE DEF EmptyBlock
  <2>2. QED
    BY <2>1, Located DEF MarkedInit, CacheInv, TypeOK, LineInv,
                         CleanMatchesMemory, NonCacheableUncached, Holds
<1>2. QED
  BY <1>1, NextCacheInv, PTL DEF MarkedSpec

\* Write-back: what is in a clean line is in memory too.
THEOREM CleanMatches == MarkedSpec => []CleanMatchesMemory
<1>1. CacheInv => CleanMatchesMemory
  BY DEF CacheInv
<1>2. QED
  BY <1>1, CacheCoherent, PTL

-----------------------------------------------------------------------------

LEMMA Isolation ==
    ASSUME CacheInv, [Access \/ FlushCache]_vars, NEW x \in Address,
           nonCacheableMemory[x], mainMemory'[x] # mainMemory[x]
    PROVE  \E v \in Values : WriteNonCacheable(x, v)
<1>1. CASE UNCHANGED mainMemory
  BY <1>1
<1>2. ASSUME NEW a \in Address, ReadMiss(a) \/ \E v \in Values : WriteMiss(a, v)
      PROVE  FALSE
  <2>1. mainMemory' = Evicted(SetIndex(Block(a)), Block(a))
        /\ SetIndex(Block(a)) \in Line
    BY <1>2, Located DEF ReadMiss, WriteMiss
  <2>2. QED
    BY <2>1, NonCacheableNotHome DEF Evicted, Pending, CacheInv, TypeOK
<1>3. ASSUME NEW a \in Address, NEW v \in Values, WriteNonCacheable(a, v)
      PROVE  WriteNonCacheable(x, v)
  BY <1>3 DEF WriteNonCacheable, CacheInv, TypeOK
<1>4. ASSUME NEW a \in Address, NEW v \in Values, WriteHit(a, v) PROVE FALSE
  BY <1>4 DEF WriteHit, CacheInv, TypeOK
<1>5. CASE FlushCache
  <2>1. FlushedTo(x) = {}
    BY NonCacheableNotHome DEF FlushedTo, Pending
  <2>2. QED
    BY <1>5, <2>1, Flushed DEF CacheInv
<1>6. ASSUME NEW a \in Address, ReadNonCacheable(a) \/ ReadHit(a) PROVE FALSE
  BY <1>6 DEF ReadNonCacheable, ReadHit
<1>7. QED
  BY <1>1, <1>2, <1>3, <1>4, <1>5, <1>6 DEF Access, vars

\* No eviction, flush or write to another address ever changes a word that was
\* marked non-cacheable.
THEOREM Isolated == MarkedSpec => NonCacheableIsolated
<1>1. CacheInv /\ [Access \/ FlushCache]_vars =>
        [\A a \in Address :
            nonCacheableMemory[a] /\ mainMemory'[a] # mainMemory[a]
            => \E v \in Values : WriteNonCacheable(a, v)]_vars
  BY Isolation
<1>2. QED
  BY <1>1, CacheCoherent, PTL DEF MarkedSpec, NonCacheableIsolated

-----------------------------------------------------------------------------

\* Both specifications place a block at the same address.
LEMMA SameHome ==
    ASSUME NEW a \in Address
    PROVE  Words!Home(a) = IF nonCacheableMemory[a] THEN a ELSE Start(Block(a))
  BY DEF Words!Home, Start, Block

LEMMA StoreType == words = [x \in Address |-> words[x]]
  BY DEF words

\* The word of a block that is not cached is the one in memory.
LEMMA StoreOfNonCacheable ==
    ASSUME CacheInv, NEW a \in Address, nonCacheableMemory[a]
    PROVE  words[a] = mainMemory[a]
  BY DEF words, CacheInv, NonCacheableUncached

\* An access is the same access of the block store.
LEMMA AccessSimulation ==
    ASSUME CacheInv, WritePolicy = "WriteBack", Access PROVE Words!Next
<1> USE DEF Words!Address, Address
<1>1. ASSUME NEW a \in Address, ReadNonCacheable(a) PROVE Words!Read(a)
  <2>1. words' = words
    BY <1>1 DEF ReadNonCacheable, words, Holds
  <2>2. QED
    BY <1>1, <2>1, SameHome, StoreOfNonCacheable
       DEF ReadNonCacheable, Words!Read
<1>2. ASSUME NEW a \in Address, ReadHit(a) PROVE Words!Read(a)
  <2>1. words' = words
    BY <1>2 DEF ReadHit, words, Holds
  <2>2. words[Start(Block(a))] = cache[SetIndex(Block(a))].data
    BY <1>2, Located DEF ReadHit, words
  <2>3. QED
    BY <1>2, <2>1, <2>2, SameHome DEF ReadHit, Words!Read
<1>3. ASSUME NEW a \in Address, ReadMiss(a) PROVE Words!Read(a)
  <2> DEFINE b == Block(a)
             nl == [tag |-> b, valid |-> TRUE, dirty |-> FALSE,
                    data |-> mainMemory'[Start(b)]]
  <2>1. nl \in CacheBlock /\ nl.tag = b /\ nl.valid
    <3>1. mainMemory' \in [Address -> Int] /\ Start(b) \in Address
      BY <1>3, Located, EvictedType DEF ReadMiss, CacheInv
    <3>2. mainMemory'[Start(b)] \in Int /\ b \in -1 .. MainMemorySize - 1
      BY <3>1, Located
    <3>3. QED
      BY <3>2 DEF CacheBlock
  <2>2. /\ mainMemory' = Evicted(SetIndex(b), b) /\ ~ Holds(b)
        /\ cache' = [cache EXCEPT ![SetIndex(b)] = nl]
        /\ answer' = mainMemory'[Start(b)] /\ nl.data = mainMemory'[Start(b)]
        /\ ~ nonCacheableMemory[a] /\ UNCHANGED nonCacheableMemory
    BY <1>3 DEF ReadMiss
  <2> HIDE DEF nl
  <2>3. /\ mainMemory'[Start(b)] = words[Start(b)]
        /\ words' = [words EXCEPT ![Start(b)] = nl.data]
    BY <2>1, <2>2, Miss
  <2>4. words' = words
    BY <2>2, <2>3, StoreType
  <2>5. QED
    BY <2>2, <2>3, <2>4, SameHome DEF Words!Read
<1>4. ASSUME NEW a \in Address, NEW v \in Values, WriteNonCacheable(a, v)
      PROVE  Words!Write(a, v)
  <2>1. /\ nonCacheableMemory[a] /\ cache' = cache
        /\ mainMemory' = [mainMemory EXCEPT ![a] = v]
        /\ UNCHANGED <<nonCacheableMemory, answer>>
    BY <1>4 DEF WriteNonCacheable
  <2>2. \A x \in Address : Holds(Block(x))' <=> Holds(Block(x))
    BY <2>1 DEF Holds
  <2>3. ~ Holds(Block(a))
    BY <2>1 DEF CacheInv, NonCacheableUncached
  <2>4. words' = [x \in Address |-> IF x = Start(Block(x)) /\ Holds(Block(x))'
                                    THEN cache'[SetIndex(Block(x))].data
                                    ELSE mainMemory'[x]]
    BY DEF words
  <2>5. \A x \in Address : words'[x] = IF x = a THEN v ELSE words[x]
    BY <2>1, <2>2, <2>3, <2>4 DEF words, CacheInv, TypeOK
  <2>6. words' = [words EXCEPT ![a] = v]
    BY <2>4, <2>5, StoreType
  <2>7. QED
    BY <2>1, <2>6, SameHome DEF Words!Write
<1>5. ASSUME NEW a \in Address, NEW v \in Values, WriteHit(a, v)
      PROVE  Words!Write(a, v)
  <2> DEFINE l == SetIndex(Block(a))
             s == Start(Block(a))
  <2>1. l \in Line /\ s \in Address /\ Block(s) = Block(a)
    BY Located
  <2>2. /\ ~ nonCacheableMemory[a] /\ Holds(Block(a))
        /\ mainMemory' = mainMemory
        /\ \A k \in Line \ {l} : cache'[k] = cache[k]
        /\ cache'[l].tag = cache[l].tag /\ cache'[l].valid = cache[l].valid
        /\ cache'[l].data = v
        /\ UNCHANGED <<nonCacheableMemory, answer>>
    BY <1>5, <2>1 DEF WriteHit, CacheInv, TypeOK, CacheBlock
  <2>3. \A x \in Address : Holds(Block(x))' <=> Holds(Block(x))
    BY <2>2, Located DEF Holds
  <2>4. words' = [x \in Address |-> IF x = Start(Block(x)) /\ Holds(Block(x))'
                                    THEN cache'[SetIndex(Block(x))].data
                                    ELSE mainMemory'[x]]
    BY DEF words
  <2>5. ASSUME NEW x \in Address PROVE words'[x] = IF x = s THEN v ELSE words[x]
    <3>1. CASE x = s
      BY <3>1, <2>1, <2>2, <2>3, <2>4
    <3>2. CASE x # s /\ x = Start(Block(x)) /\ Holds(Block(x))
      <4>1. SetIndex(Block(x)) \in Line \ {l}
        BY <3>2, <2>2, Located DEF Holds
      <4>2. QED
        BY <4>1, <3>2, <2>2, <2>3, <2>4 DEF words
    <3>3. CASE x # s /\ ~ (x = Start(Block(x)) /\ Holds(Block(x)))
      BY <3>3, <2>2, <2>3, <2>4 DEF words
    <3>4. QED
      BY <3>1, <3>2, <3>3
  <2>6. words' = [words EXCEPT ![s] = v]
    BY <2>1, <2>4, <2>5, StoreType
  <2>7. QED
    BY <2>2, <2>6, SameHome DEF Words!Write
<1>6. ASSUME NEW a \in Address, NEW v \in Values, WriteMiss(a, v)
      PROVE  Words!Write(a, v)
  <2> DEFINE b == Block(a)
             nl == [tag |-> b, valid |-> TRUE, data |-> v,
                    dirty |-> (WritePolicy = "WriteBack")]
  <2>1. nl \in CacheBlock /\ nl.tag = b /\ nl.valid /\ nl.data = v
    BY Located, CacheSizes DEF CacheBlock
  <2>2. /\ mainMemory' = Evicted(SetIndex(b), b) /\ ~ Holds(b)
        /\ cache' = [cache EXCEPT ![SetIndex(b)] = nl]
        /\ ~ nonCacheableMemory[a] /\ UNCHANGED <<nonCacheableMemory, answer>>
    BY <1>6 DEF WriteMiss
  <2> HIDE DEF nl
  <2>3. words' = [words EXCEPT ![Start(b)] = v]
    BY <2>1, <2>2, Miss
  <2>4. QED
    BY <2>2, <2>3, SameHome DEF Words!Write
<1>7. QED
  BY <1>1, <1>2, <1>3, <1>4, <1>5, <1>6 DEF Access, Words!Next

\* A flush changes no word of the block store.
LEMMA FlushSimulation ==
    ASSUME CacheInv, WritePolicy = "WriteBack", FlushCache PROVE words' = words
<1>1. /\ \A l \in Line : /\ cache'[l].valid = cache[l].valid
                         /\ cache'[l].tag = cache[l].tag
                         /\ cache'[l].data = cache[l].data
      /\ \A a \in Address : FlushedTo(a) = {} => mainMemory'[a] = mainMemory[a]
  BY Flushed DEF CacheInv
<1>2. \A x \in Address : Holds(Block(x))' <=> Holds(Block(x))
  BY <1>1, Located DEF Holds
<1>3. words' = [x \in Address |-> IF x = Start(Block(x)) /\ Holds(Block(x))'
                                  THEN cache'[SetIndex(Block(x))].data
                                  ELSE mainMemory'[x]]
  BY DEF words
<1>4. ASSUME NEW x \in Address, ~ (x = Start(Block(x)) /\ Holds(Block(x)))
      PROVE  FlushedTo(x) = {}
  BY <1>4, OnlyLine DEF FlushedTo, Pending, CacheInv
<1>5. \A x \in Address : words'[x] = words[x]
  BY <1>1, <1>2, <1>3, <1>4, Located DEF words
<1>6. QED
  BY <1>3, <1>5, StoreType

\* Under write-back, whatever the sizes and the mapping, the cache is invisible:
\* an access reads and writes one word per block, as if there were no lines.
THEOREM BlockStoreRefinement ==
    ASSUME WritePolicy = "WriteBack" PROVE MarkedSpec => BlockStoreSpec
<1>1. MarkedInit => Words!Init
  <2> SUFFICES ASSUME MarkedInit PROVE Words!Init
    OBVIOUS
  <2>1. \A x \in Address : ~ Holds(Block(x))
    BY Located DEF MarkedInit, Holds, EmptyBlock
  <2>2. \A x \in Address : words[x] = 0
    BY <2>1 DEF words, MarkedInit
  <2>3. words = [x \in Address |-> 0]
    BY <2>2, StoreType
  <2>4. QED
    BY <2>3 DEF MarkedInit, Words!Init, Words!Address, Address
<1>2. CacheInv /\ [Access \/ FlushCache]_vars => [Words!Next]_Words!vars
  <2>1. ASSUME CacheInv, Access PROVE Words!Next
    BY <2>1, AccessSimulation
  <2>2. ASSUME CacheInv, FlushCache PROVE UNCHANGED Words!vars
    BY <2>2, FlushSimulation DEF FlushCache, Words!vars
  <2>3. ASSUME UNCHANGED vars PROVE UNCHANGED Words!vars
    BY <2>3 DEF vars, Words!vars, words, Holds
  <2>4. QED
    BY <2>1, <2>2, <2>3
<1>3. QED
  BY <1>1, <1>2, CacheCoherent, PTL DEF MarkedSpec, BlockStoreSpec, Words!Spec
=============================================================================
