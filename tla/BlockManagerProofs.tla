-------------------------- MODULE BlockManagerProofs --------------------------
(***************************************************************************)
(* Machine-checked proofs about the allocator of module BlockManager, for  *)
(* every pool size, block size, set of sequences and vocabulary.           *)
(***************************************************************************)
EXTENDS BlockManager, SequenceTheorems, FiniteSetTheorems, TLAPS

-----------------------------------------------------------------------------
(* Arithmetic of positions, blocks and offsets *)

\* The block and the offset of a position.
LEMMA DivBounds ==
  ASSUME NEW x \in Nat, NEW b \in Nat \ {0}
  PROVE  /\ x \div b \in Nat
         /\ x % b \in 0 .. b - 1
         /\ x = b * (x \div b) + (x % b)
  OBVIOUS

\* Block and offset determine the position.
LEMMA DivOf ==
  ASSUME NEW b \in Nat \ {0}, NEW i \in Nat, NEW o \in 0 .. b - 1
  PROVE  (b * i + o) \div b = i /\ (b * i + o) % b = o
  OBVIOUS

\* Block boundaries are ordered like block numbers.
LEMMA MulMono ==
  ASSUME NEW b \in Nat, NEW i \in Nat, NEW j \in Nat, i <= j
  PROVE  b * i <= b * j
  OBVIOUS

\* And the other way round.
LEMMA MulOrder ==
  ASSUME NEW b \in Nat \ {0}, NEW i \in Nat, NEW j \in Nat, b * i <= b * j
  PROVE  i <= j
  OBVIOUS

\* A later block starts past the end of an earlier one.
LEMMA MulStrict ==
  ASSUME NEW b \in Nat \ {0}, NEW i \in Nat, NEW j \in Nat, i < j
  PROVE  b * i + b <= b * j
  OBVIOUS

-----------------------------------------------------------------------------
(* Counting and order-preserving selection *)

\* An initial interval has as many elements as its bound.
LEMMA IntervalCard ==
  ASSUME NEW n \in Nat
  PROVE  IsFiniteSet(1 .. n) /\ Cardinality(1 .. n) = n
<1>1. 1 \in Int /\ n \in Int
  OBVIOUS
<1>2. IsFiniteSet(1 .. n) /\ Cardinality(1 .. n) = IF 1 > n THEN 0 ELSE n - 1 + 1
  BY <1>1, FS_Interval
<1> QED BY <1>2

\* Keep selects exactly the elements of S, in their order, and repeats none: the free
\* list without the pinned blocks, the released blocks of a table, or a queue without
\* a sequence is again such a list.
LEMMA KeepSpec ==
  ASSUME NEW T, NEW s \in Seq(T), NEW S
  PROVE  /\ Keep(s, S) \in Seq(T)
         /\ Range(Keep(s, S)) = Range(s) \cap S
         /\ IsInjective(s) => IsInjective(Keep(s, S))
         /\ \A a, b \in DOMAIN Keep(s, S) :
              a < b => \E i, j \in DOMAIN s : i < j /\ Keep(s, S)[a] = s[i] /\ Keep(s, S)[b] = s[j]
<1> DEFINE K == KeptAt(s, S)
           rank(i) == Cardinality(KeptUpTo(s, S, i))
           N == Cardinality(K)
           f == [i \in K |-> rank(i)]
<1>1. K \subseteq 1 .. Len(s) /\ Len(s) \in Nat
  BY DEF KeptAt
<1>2. IsFiniteSet(K) /\ N \in Nat
  <2>1. IsFiniteSet(1 .. Len(s))
    BY <1>1, IntervalCard
  <2> HIDE DEF K
  <2> QED BY <1>1, <2>1, FS_Subset, FS_CardinalityType
<1>3. ASSUME NEW i \in K
      PROVE  /\ KeptUpTo(s, S, i) \in SUBSET K
             /\ i \in KeptUpTo(s, S, i)
             /\ IsFiniteSet(KeptUpTo(s, S, i))
             /\ rank(i) \in 1 .. N
  <2>1. KeptUpTo(s, S, i) \in SUBSET K /\ i \in KeptUpTo(s, S, i)
    BY <1>1 DEF KeptUpTo
  <2>2. IsFiniteSet(KeptUpTo(s, S, i)) /\ rank(i) \in Nat /\ rank(i) <= N
    BY <1>2, <2>1, FS_Subset, FS_CardinalityType
  <2>3. rank(i) # 0
    BY <2>1, <2>2, FS_EmptySet
  <2> QED BY <1>2, <2>1, <2>2, <2>3
<1>4. ASSUME NEW i \in K, NEW k \in K, i < k
      PROVE  rank(i) < rank(k)
  <2>1. KeptUpTo(s, S, i) \in SUBSET KeptUpTo(s, S, k)
    BY <1>1, <1>4 DEF KeptUpTo
  <2>2. k \notin KeptUpTo(s, S, i)
    BY <1>1, <1>4 DEF KeptUpTo
  <2> HIDE DEF K
  <2> QED BY <1>2, <1>3, <2>1, <2>2, FS_Subset, FS_CardinalityType
<1>5. f \in Injection(K, 1 .. N)
  <2>1. f \in [K -> 1 .. N]
    BY <1>3
  <2>2. \A i, k \in K : rank(i) = rank(k) => i = k
    <3> SUFFICES ASSUME NEW i \in K, NEW k \in K, i # k
                 PROVE  rank(i) # rank(k)
      OBVIOUS
    <3>1. i < k \/ k < i
      BY <1>1
    <3> QED BY <1>3, <1>4, <3>1
  <2> QED BY <2>1, <2>2 DEF Injection, IsInjective
<1>6. \A n \in 1 .. N : \E i \in K : rank(i) = n
  <2>1. IsFiniteSet(1 .. N) /\ Cardinality(1 .. N) = N
    BY <1>2, IntervalCard
  <2>2. f \in Surjection(K, 1 .. N)
    BY <1>5, <2>1, FS_Injection
  <2> QED BY <2>2 DEF Surjection
<1> DEFINE nth(n) == NthKept(s, S, n)
<1>7. \A n \in 1 .. N : nth(n) \in K /\ rank(nth(n)) = n
  BY <1>6 DEF NthKept
<1>8. \A i \in K : nth(rank(i)) = i
  <2>1. \A i, k \in K : rank(i) = rank(k) => i = k
    BY <1>5 DEF Injection, IsInjective
  <2> QED BY <1>3, <1>7, <2>1
<1>9. Keep(s, S) = [n \in 1 .. N |-> s[nth(n)]]
  BY DEF Keep
<1>10. \A i \in K : i \in DOMAIN s /\ s[i] \in S /\ s[i] \in T
  BY <1>1 DEF KeptAt
<1> HIDE DEF K, rank, N, nth
<1>14. ASSUME NEW a \in DOMAIN Keep(s, S), NEW b \in DOMAIN Keep(s, S), a < b
       PROVE  \E i, j \in DOMAIN s : i < j /\ Keep(s, S)[a] = s[i] /\ Keep(s, S)[b] = s[j]
  <2>1. a \in 1 .. N /\ b \in 1 .. N /\ a \in Nat /\ b \in Nat
    BY <1>2, <1>9
  <2>2. nth(a) \in K /\ nth(b) \in K /\ rank(nth(a)) = a /\ rank(nth(b)) = b
    BY <1>7, <2>1
  <2>3. ~(nth(b) < nth(a)) /\ nth(a) # nth(b)
    BY <1>4, <1>14, <2>1, <2>2
  <2>4. nth(a) < nth(b)
    <3>1. nth(a) \in 1 .. Len(s) /\ nth(b) \in 1 .. Len(s)
      BY <1>1, <2>2
    <3> QED BY <1>1, <2>3, <3>1
  <2> QED BY <1>9, <1>10, <2>1, <2>2, <2>4
<1>11. Keep(s, S) \in Seq(T)
  BY <1>2, <1>7, <1>9, <1>10, IsASeq
<1>12. Range(Keep(s, S)) = Range(s) \cap S
  <2>1. ASSUME NEW x \in Range(Keep(s, S)) PROVE x \in Range(s) \cap S
    BY <1>7, <1>9, <1>10 DEF Range
  <2>2. ASSUME NEW x \in Range(s) \cap S PROVE x \in Range(Keep(s, S))
    <3>1. PICK i \in DOMAIN s : x = s[i]
      BY DEF Range
    <3>2. i \in K
      BY <2>2, <3>1 DEF K, KeptAt
    <3>3. rank(i) \in 1 .. N /\ x = Keep(s, S)[rank(i)]
      BY <1>3, <1>8, <1>9, <3>1, <3>2
    <3> QED BY <1>9, <3>3 DEF Range
  <2> QED BY <2>1, <2>2
<1>13. IsInjective(s) => IsInjective(Keep(s, S))
  BY <1>7, <1>9, <1>10 DEF IsInjective
<1> QED BY <1>11, <1>12, <1>13, <1>14

\* A list without repetition is as long as its set of elements is large.
LEMMA InjectiveLen ==
  ASSUME NEW T, NEW s \in Seq(T), IsInjective(s)
  PROVE  IsFiniteSet(Range(s)) /\ Cardinality(Range(s)) = Len(s)
<1>1. s \in [1 .. Len(s) -> Range(s)] /\ Len(s) \in Nat /\ DOMAIN s = 1 .. Len(s)
  BY DEF Range
<1>2. s \in Surjection(1 .. Len(s), Range(s)) /\ s \in Injection(1 .. Len(s), Range(s))
  BY <1>1 DEF Surjection, Injection, Range, IsInjective
<1>3. IsFiniteSet(1 .. Len(s)) /\ Cardinality(1 .. Len(s)) = Len(s)
  BY <1>1, IntervalCard
<1> QED BY <1>2, <1>3, FS_Surjection

\* Reversing a list changes neither its elements nor that they are distinct.
LEMMA ReversedSpec ==
  ASSUME NEW T, NEW s \in Seq(T)
  PROVE  /\ Reversed(s) \in Seq(T)
         /\ Range(Reversed(s)) = Range(s)
         /\ IsInjective(s) => IsInjective(Reversed(s))
<1>1. Len(s) \in Nat /\ DOMAIN s = 1 .. Len(s) /\ \A i \in 1 .. Len(s) : s[i] \in T
  OBVIOUS
<1>2. \A i \in 1 .. Len(s) : Len(s) + 1 - i \in 1 .. Len(s)
  BY <1>1
<1>3. Reversed(s) \in Seq(T)
  BY <1>1, <1>2, IsASeq DEF Reversed
<1>4. DOMAIN Reversed(s) = 1 .. Len(s)
  BY DEF Reversed
<1>5. ASSUME NEW x \in Range(s) PROVE x \in Range(Reversed(s))
  <2>1. PICK i \in 1 .. Len(s) : x = s[i]
    BY <1>1 DEF Range
  <2>2. Reversed(s)[Len(s) + 1 - i] = x
    BY <1>1, <1>2, <2>1 DEF Reversed
  <2> QED BY <1>2, <1>4, <2>2 DEF Range
<1>6. ASSUME NEW x \in Range(Reversed(s)) PROVE x \in Range(s)
  <2>1. PICK i \in 1 .. Len(s) : x = Reversed(s)[i]
    BY <1>4 DEF Range
  <2> QED BY <1>1, <1>2, <2>1 DEF Range, Reversed
<1>7. IsInjective(s) => IsInjective(Reversed(s))
  <2> SUFFICES ASSUME IsInjective(s),
                      NEW i \in 1 .. Len(s), NEW j \in 1 .. Len(s),
                      Reversed(s)[i] = Reversed(s)[j]
               PROVE  i = j
    BY <1>4 DEF IsInjective
  <2>1. s[Len(s) + 1 - i] = s[Len(s) + 1 - j]
    BY DEF Reversed
  <2>2. Len(s) + 1 - i = Len(s) + 1 - j
    BY <1>1, <1>2, <2>1 DEF IsInjective
  <2> QED BY <1>1, <2>2
<1> QED BY <1>3, <1>5, <1>6, <1>7

\* Appending distinct elements that are not in the list keeps it without repetition.
LEMMA ConcatInjective ==
  ASSUME NEW T, NEW s \in Seq(T), NEW t \in Seq(T),
         IsInjective(s), IsInjective(t), Range(s) \cap Range(t) = {}
  PROVE  IsInjective(s \o t)
<1>1. /\ Len(s) \in Nat /\ Len(t) \in Nat
      /\ DOMAIN (s \o t) = 1 .. Len(s) + Len(t)
      /\ \A i \in 1 .. Len(s) + Len(t) :
           (s \o t)[i] = IF i <= Len(s) THEN s[i] ELSE t[i - Len(s)]
  OBVIOUS
<1>2. /\ DOMAIN s = 1 .. Len(s) /\ DOMAIN t = 1 .. Len(t)
      /\ \A i \in 1 .. Len(s) : s[i] \in Range(s)
      /\ \A i \in 1 .. Len(t) : t[i] \in Range(t)
  BY DEF Range
<1> SUFFICES ASSUME NEW i \in 1 .. Len(s) + Len(t), NEW j \in 1 .. Len(s) + Len(t),
                    (s \o t)[i] = (s \o t)[j]
             PROVE  i = j
  BY <1>1 DEF IsInjective
<1>3. CASE i <= Len(s) /\ j <= Len(s)
  BY <1>1, <1>2, <1>3 DEF IsInjective
<1>4. CASE i > Len(s) /\ j > Len(s)
  <2>1. i - Len(s) \in 1 .. Len(t) /\ j - Len(s) \in 1 .. Len(t)
    BY <1>1, <1>4
  <2>2. t[i - Len(s)] = t[j - Len(s)]
    BY <1>1, <1>4
  <2>3. i - Len(s) = j - Len(s)
    BY <1>2, <2>1, <2>2 DEF IsInjective
  <2> QED BY <1>1, <2>3
<1>5. CASE i <= Len(s) /\ j > Len(s)
  BY <1>1, <1>2, <1>5
<1>6. CASE i > Len(s) /\ j <= Len(s)
  BY <1>1, <1>2, <1>6
<1> QED BY <1>1, <1>3, <1>4, <1>5, <1>6

\* Cutting a list without repetition splits its elements.
LEMMA CutSpec ==
  ASSUME NEW T, NEW s \in Seq(T), IsInjective(s), NEW n \in 0 .. Len(s)
  PROVE  LET a == SubSeq(s, 1, n)
             z == SubSeq(s, n + 1, Len(s))
         IN  /\ a \in Seq(T) /\ z \in Seq(T)
             /\ Len(a) = n
             /\ \A i \in 1 .. n : a[i] = s[i]
             /\ IsInjective(a) /\ IsInjective(z)
             /\ Range(a) \cap Range(z) = {}
             /\ Range(a) \cup Range(z) = Range(s)
<1> DEFINE a == SubSeq(s, 1, n)
           z == SubSeq(s, n + 1, Len(s))
<1>1. Len(s) \in Nat /\ n \in Nat /\ n <= Len(s) /\ DOMAIN s = 1 .. Len(s)
  OBVIOUS
<1>2. /\ a \in Seq(T) /\ Len(a) = n /\ DOMAIN a = 1 .. n
      /\ \A i \in 1 .. n : a[i] = s[i]
  BY <1>1
<1>3. /\ z \in Seq(T) /\ DOMAIN z = 1 .. Len(s) - n
      /\ \A i \in 1 .. Len(s) - n : z[i] = s[n + i]
  BY <1>1
<1> HIDE DEF a, z
<1>4. IsInjective(a)
  BY <1>1, <1>2 DEF IsInjective
<1>5. IsInjective(z)
  <2> SUFFICES ASSUME NEW i \in 1 .. Len(s) - n, NEW j \in 1 .. Len(s) - n, z[i] = z[j]
               PROVE  i = j
    BY <1>3 DEF IsInjective
  <2>1. n + i \in 1 .. Len(s) /\ n + j \in 1 .. Len(s)
    BY <1>1
  <2>2. n + i = n + j
    BY <1>1, <1>3, <2>1 DEF IsInjective
  <2> QED BY <1>1, <2>2
<1>6. Range(a) \cap Range(z) = {}
  <2> SUFFICES ASSUME NEW i \in 1 .. n, NEW j \in 1 .. Len(s) - n, a[i] = z[j]
               PROVE  FALSE
    BY <1>2, <1>3 DEF Range
  <2>1. n + j \in 1 .. Len(s) /\ i \in 1 .. Len(s) /\ n + j # i
    BY <1>1
  <2>2. s[i] = s[n + j]
    BY <1>2, <1>3
  <2> QED BY <1>1, <2>1, <2>2 DEF IsInjective
<1>7. Range(a) \cup Range(z) = Range(s)
  <2>1. ASSUME NEW x \in Range(s) PROVE x \in Range(a) \cup Range(z)
    <3>1. PICK i \in 1 .. Len(s) : x = s[i]
      BY <1>1 DEF Range
    <3>2. CASE i <= n
      BY <1>1, <1>2, <3>1, <3>2 DEF Range
    <3>3. CASE i > n
      <4>1. i - n \in 1 .. Len(s) - n /\ n + (i - n) = i
        BY <1>1, <3>3
      <4>2. z[i - n] = x
        BY <1>3, <3>1, <4>1
      <4> QED BY <1>3, <4>1, <4>2 DEF Range
    <3> QED BY <1>1, <3>2, <3>3
  <2>2. ASSUME NEW x \in Range(a) PROVE x \in Range(s)
    BY <1>1, <1>2 DEF Range
  <2>3. ASSUME NEW x \in Range(z) PROVE x \in Range(s)
    <3>1. PICK i \in 1 .. Len(s) - n : x = s[n + i]
      BY <1>3 DEF Range
    <3>2. n + i \in 1 .. Len(s)
      BY <1>1
    <3> QED BY <1>1, <3>1, <3>2 DEF Range
  <2> QED BY <2>1, <2>2, <2>3
<1> QED BY <1>2, <1>3, <1>4, <1>5, <1>6, <1>7 DEF a, z

-----------------------------------------------------------------------------
(* The inductive invariant *)

\* The bookkeeping half: the pool, the reference counts, and who may write where.
\* Sharing is what forces the parts together: a cached block is pinned by its hash,
\* so its reference count is right only if the index is; the index survives a
\* commit only because the committed blocks were private.
PoolInv ==
  /\ TypeOK
  /\ PoolPartition
  /\ RefCountIsOwners
  /\ TablesInjective
  /\ IndexMatchesBlocks
  /\ WritesArePrivate

\* The whole invariant adds what is in the cache.
IInv ==
  /\ PoolInv
  /\ HashChain
  /\ CachedIsComputed
  /\ IndexIsSound

\* The elements of a list of T are in T.
LEMMA ListRange ==
  ASSUME NEW T, NEW s \in Seq(T)
  PROVE  /\ Range(s) \subseteq T
         /\ Len(s) \in Nat /\ DOMAIN s = 1 .. Len(s)
         /\ \A i \in 1 .. Len(s) : s[i] \in Range(s)
         /\ \A x \in Range(s) : \E i \in 1 .. Len(s) : s[i] = x
<1>1. Len(s) \in Nat /\ DOMAIN s = 1 .. Len(s) /\ \A i \in 1 .. Len(s) : s[i] \in T
  OBVIOUS
<1>2. \A i \in 1 .. Len(s) : s[i] \in Range(s)
  BY <1>1 DEF Range
<1>3. \A x \in Range(s) : \E i \in 1 .. Len(s) : s[i] = x
  BY <1>1 DEF Range
<1>4. Range(s) \subseteq T
  BY <1>1, <1>3
<1> QED BY <1>1, <1>2, <1>3, <1>4

\* What a reference count says about the owners of a block.
LEMMA OwnersOf ==
  ASSUME BlockManagerAssumption, TypeOK, RefCountIsOwners, NEW b \in Blocks
  PROVE  /\ IsFiniteSet(Owners(b))
         /\ b \notin used_block_ids <=> Owners(b) = {}
         /\ b \notin used_block_ids <=> ref_count[b] = 0
         /\ \A s \in Owners(b) : ref_count[b] = 1 => Owners(b) = {s}
<1>1. IsFiniteSet(Owners(b))
  BY FS_Subset DEF BlockManagerAssumption, Owners
<1>2. ref_count[b] \in Nat /\ ref_count[b] = Cardinality(Owners(b))
  BY DEF TypeOK, RefCountIsOwners
<1>3. b \notin used_block_ids <=> ref_count[b] = 0
  BY <1>2 DEF RefCountIsOwners
<1>4. ref_count[b] = 0 <=> Owners(b) = {}
  BY <1>1, <1>2, FS_EmptySet
<1>5. ASSUME NEW s \in Owners(b), ref_count[b] = 1 PROVE Owners(b) = {s}
  <2>1. PICK x : Owners(b) = {x}
    BY <1>1, <1>2, <1>5, FS_Singleton
  <2> QED BY <1>5, <2>1
<1> QED BY <1>1, <1>3, <1>4, <1>5

\* When no sequence holds a block the whole pool is free.
LEMMA IdlePool ==
  ASSUME BlockManagerAssumption, IInv, \A s \in Seqs : block_table[s] = <<>>
  PROVE  used_block_ids = {} /\ Len(free_block_ids) = NumBlocks
<1>1. TypeOK /\ PoolPartition /\ RefCountIsOwners
  BY DEF IInv, PoolInv
<1>2. \A b \in Blocks : Owners(b) = {}
  BY DEF Owners, Range
<1>3. used_block_ids = {}
  <2>1. \A b \in Blocks : b \notin used_block_ids
    BY <1>1, <1>2, OwnersOf
  <2> QED BY <1>1, <2>1 DEF TypeOK
<1>4. Range(free_block_ids) = Blocks /\ IsInjective(free_block_ids) /\ free_block_ids \in Seq(Blocks)
  BY <1>1, <1>3 DEF PoolPartition, TypeOK
<1>5. Cardinality(Blocks) = NumBlocks
  <2>1. NumBlocks \in Nat
    BY DEF BlockManagerAssumption
  <2>2. Cardinality(0 .. NumBlocks - 1) = IF 0 > NumBlocks - 1 THEN 0 ELSE NumBlocks - 1 - 0 + 1
    BY <2>1, FS_Interval
  <2> QED BY <2>1, <2>2 DEF Blocks
<1>6. Cardinality(Range(free_block_ids)) = Len(free_block_ids)
  BY <1>4, InjectiveLen
<1> QED BY <1>3, <1>4, <1>5, <1>6

\* The blocks of a table are in use, so never in the free list.
LEMMA OwnedIsUsed ==
  ASSUME BlockManagerAssumption, PoolInv, NEW s \in Seqs, NEW b \in Range(block_table[s])
  PROVE  /\ b \in Blocks
         /\ b \in used_block_ids
         /\ b \notin Range(free_block_ids)
         /\ s \in Owners(b)
<1>1. b \in Blocks
  BY DEF PoolInv, TypeOK, Range
<1>2. s \in Owners(b)
  BY DEF Owners
<1>3. b \in used_block_ids
  BY <1>1, <1>2, OwnersOf DEF PoolInv
<1> QED BY <1>1, <1>2, <1>3 DEF PoolInv, PoolPartition

-----------------------------------------------------------------------------
(* Steps that give blocks to a sequence *)

\* A table `base` that sequence s may start from, with m of its tokens cached: the
\* full blocks of those tokens carry their hashes and contents, and the rest of the
\* table is private to s already.
GrowFrom(s, base, m) ==
  /\ base \in Seq(Blocks)
  /\ IsInjective(base)
  /\ Range(block_table[s]) \subseteq Range(base)
  /\ m \in Nat
  /\ m <= num_tokens(s)
  /\ m <= BlockSize * Len(base)
  /\ \A i \in 1 .. Len(base) :
       i * BlockSize <= m => block_hash[base[i]] = PrefixHash(s, i)
  /\ \A i \in 1 .. Len(base) :
       i * BlockSize > m => /\ base[i] \in Range(block_table[s])
                            /\ ref_count[base[i]] = 1
                            /\ block_hash[base[i]] = NoHash
  /\ \A p \in 0 .. m - 1 :
       Holds(<<base[p \div BlockSize + 1], p % BlockSize>>, SubSeq(token_ids[s], 1, p + 1))

\* s gets the table base \o fresh, the blocks of fresh coming from the free list.
GrowBy(s, base, fresh, m) ==
  /\ fresh \in Seq(Blocks)
  /\ IsInjective(fresh)
  /\ Range(fresh) \subseteq Range(free_block_ids)
  /\ Range(fresh) \cap Range(base) = {}
  /\ free_block_ids' \in Seq(Blocks)
  /\ IsInjective(free_block_ids')
  /\ Range(free_block_ids') = Range(free_block_ids) \ (Range(fresh) \cup Range(base))
  /\ used_block_ids' = used_block_ids \cup Range(base) \cup Range(fresh)
  /\ ref_count' = [b \in Blocks |->
       IF b \in Range(fresh) THEN 1
       ELSE IF b \in Range(base) \ Range(block_table[s]) THEN ref_count[b] + 1
       ELSE ref_count[b]]
  /\ ResetHashes(Range(fresh))
  /\ block_table' = [block_table EXCEPT ![s] = base \o fresh]
  /\ num_cached_tokens' = [num_cached_tokens EXCEPT ![s] = m]
  /\ UNCHANGED <<token_ids, kv>>

\* Growing a table keeps the bookkeeping: the taken blocks leave the free list, and
\* each pinned block counts its new owner.
LEMMA GrowKeepsPool ==
  ASSUME BlockManagerAssumption, PoolInv, NEW s \in Seqs, NEW base, NEW fresh, NEW m,
         GrowFrom(s, base, m), GrowBy(s, base, fresh, m)
  PROVE  PoolInv'
<1> DEFINE F == Range(fresh)
           A == Range(base)
<1>a. /\ base \in Seq(Blocks) /\ fresh \in Seq(Blocks)
      /\ IsInjective(base) /\ IsInjective(fresh)
      /\ Range(block_table[s]) \subseteq A
      /\ F \subseteq Range(free_block_ids) /\ F \cap A = {}
  BY DEF GrowFrom, GrowBy
<1>b. /\ free_block_ids' \in Seq(Blocks)
      /\ IsInjective(free_block_ids')
      /\ Range(free_block_ids') = Range(free_block_ids) \ (F \cup A)
      /\ used_block_ids' = used_block_ids \cup A \cup F
  BY DEF GrowBy
<1>c. \A b \in Blocks : ref_count'[b] =
        IF b \in F THEN 1
        ELSE IF b \in A \ Range(block_table[s]) THEN ref_count[b] + 1
        ELSE ref_count[b]
  BY DEF GrowBy
<1>d. \A b \in Blocks : block_hash'[b] = IF b \in F THEN NoHash ELSE block_hash[b]
  BY DEF GrowBy, ResetHashes, StaleEntries
<1>e. /\ block_table'[s] = base \o fresh
      /\ \A r \in Seqs : r # s => block_table'[r] = block_table[r]
      /\ num_cached_tokens'[s] = m
      /\ \A r \in Seqs : r # s => num_cached_tokens'[r] = num_cached_tokens[r]
  BY DEF GrowBy, PoolInv, TypeOK
<1>f. m \in Nat /\ BlockSize \in Nat \ {0}
  BY DEF GrowFrom, BlockManagerAssumption
<1>g. \A b \in Blocks : ref_count[b] \in Nat
  BY DEF PoolInv, TypeOK
<1>1. F \subseteq Blocks /\ A \subseteq Blocks
  BY <1>a, ListRange
<1>2. TypeOK'
  <2>1. /\ block_hash' \in [Blocks -> Seq(Token)]
        /\ DOMAIN hash_to_block_id' \subseteq Seq(Token)
        /\ hash_to_block_id' \in [DOMAIN hash_to_block_id' -> Blocks]
    BY DEF PoolInv, TypeOK, GrowBy, ResetHashes, StaleEntries, Restrict, NoHash
  <2>2. ref_count' \in [Blocks -> Nat]
    BY <1>g DEF GrowBy
  <2>3. block_table' \in [Seqs -> Seq(Blocks)]
    <3>1. base \o fresh \in Seq(Blocks)
      BY <1>a
    <3> QED BY <3>1 DEF GrowBy, PoolInv, TypeOK
  <2>4. num_cached_tokens' \in [Seqs -> Nat] /\ used_block_ids' \in SUBSET Blocks
    BY <1>1, <1>b, <1>f DEF GrowBy, PoolInv, TypeOK
  <2> QED BY <1>b, <2>1, <2>2, <2>3, <2>4 DEF GrowBy, PoolInv, TypeOK
<1>3. Range(base \o fresh) = A \cup F
  BY <1>a, RangeConcatenation
<1>4. \A b \in F : b \notin used_block_ids /\ ref_count[b] = 0 /\ Owners(b) = {}
  BY <1>1, <1>a, OwnersOf DEF PoolInv, PoolPartition
<1>5. PoolPartition'
  BY <1>1, <1>4, <1>b DEF PoolInv, PoolPartition
<1>6. ASSUME NEW b \in Blocks
      PROVE  Owners(b)' = IF b \in A \cup F THEN Owners(b) \cup {s} ELSE Owners(b)
  <2>1. Owners(b)' = {r \in Seqs : b \in Range(block_table'[r])}
    BY DEF Owners
  <2> QED BY <1>3, <1>a, <1>e, <2>1 DEF Owners
<1>7. RefCountIsOwners'
  <2> SUFFICES ASSUME NEW b \in Blocks
               PROVE  /\ ref_count'[b] = Cardinality(Owners(b)')
                      /\ b \in used_block_ids' <=> ref_count'[b] > 0
    BY DEF RefCountIsOwners, Owners
  <2>0. /\ ref_count[b] \in Nat
        /\ ref_count[b] = Cardinality(Owners(b))
        /\ IsFiniteSet(Owners(b))
        /\ b \notin used_block_ids <=> ref_count[b] = 0
    BY OwnersOf DEF PoolInv, TypeOK, RefCountIsOwners
  <2>1. CASE b \in F
    <3>1. Owners(b)' = {s}
      BY <1>4, <1>6, <2>1
    <3>2. Cardinality({s}) = 1
      BY FS_Singleton
    <3> QED BY <1>b, <1>c, <2>1, <3>1, <3>2
  <2>2. CASE b \in A \ Range(block_table[s])
    <3>1. s \notin Owners(b) /\ b \notin F
      BY <1>a, <2>2 DEF Owners
    <3>2. Owners(b)' = Owners(b) \cup {s}
      BY <1>6, <2>2
    <3>3. Cardinality(Owners(b)') = Cardinality(Owners(b)) + 1
      BY <2>0, <3>1, <3>2, FS_AddElement
    <3> QED BY <1>b, <1>c, <2>0, <2>2, <3>1, <3>3
  <2>3. CASE b \in Range(block_table[s])
    <3>1. Owners(b)' = Owners(b) /\ b \in A /\ b \notin F
      BY <1>a, <1>6, <2>3 DEF Owners
    <3>2. b \in used_block_ids
      BY <2>3, OwnedIsUsed
    <3> QED BY <1>b, <1>c, <2>0, <2>3, <3>1, <3>2
  <2>4. CASE b \notin A \cup F
    BY <1>6, <1>b, <1>c, <2>0, <2>4
  <2> QED BY <2>1, <2>2, <2>3, <2>4
<1>8. TablesInjective'
  <2>1. IsInjective(base \o fresh)
    BY <1>a, ConcatInjective
  <2> QED BY <1>e, <2>1 DEF PoolInv, TablesInjective
<1>9. IndexMatchesBlocks'
  BY <1>1, <1>d DEF PoolInv, TypeOK, IndexMatchesBlocks, GrowBy, ResetHashes, StaleEntries, Restrict
<1>10. WritesArePrivate'
  <2> SUFFICES ASSUME NEW r \in Seqs, NEW i \in 1 .. Len(block_table'[r]),
                      i * BlockSize > num_cached_tokens'[r]
               PROVE  /\ ref_count'[block_table'[r][i]] = 1
                      /\ block_hash'[block_table'[r][i]] = NoHash
    BY DEF WritesArePrivate
  <2>1. CASE r = s
    <3>1. block_table'[r] = base \o fresh /\ num_cached_tokens'[r] = m
      BY <1>e, <2>1
    <3>2. CASE i \in 1 .. Len(base)
      <4>1. block_table'[r][i] = base[i] /\ base[i] \in A /\ base[i] \in Blocks
        <5>1. base[i] \in A
          BY <1>a, <3>2 DEF Range
        <5> QED BY <1>1, <1>a, <3>1, <3>2, <5>1
      <4>2. /\ base[i] \in Range(block_table[s])
            /\ ref_count[base[i]] = 1
            /\ block_hash[base[i]] = NoHash
        BY <3>1, <3>2 DEF GrowFrom
      <4> QED BY <1>a, <1>c, <1>d, <4>1, <4>2
    <3>3. CASE i \notin 1 .. Len(base)
      <4>1. Len(base) \in Nat /\ Len(fresh) \in Nat /\ i \in 1 .. Len(base) + Len(fresh)
        BY <1>a, <3>1
      <4>2. i - Len(base) \in 1 .. Len(fresh)
        BY <3>3, <4>1
      <4>3. block_table'[r][i] = fresh[i - Len(base)]
        BY <1>a, <3>1, <3>3, <4>1
      <4>4. block_table'[r][i] \in F
        <5>1. fresh[i - Len(base)] \in F
          BY <1>a, <4>2 DEF Range
        <5> QED BY <4>3, <5>1
      <4> QED BY <1>1, <1>c, <1>d, <4>4
    <3> QED BY <3>2, <3>3
  <2>2. CASE r # s
    <3>1. block_table'[r] = block_table[r] /\ num_cached_tokens'[r] = num_cached_tokens[r]
      BY <1>e, <2>2
    <3> DEFINE b == block_table[r][i]
    <3>2. block_table[r] \in Seq(Blocks) /\ i \in 1 .. Len(block_table[r])
      BY <3>1 DEF PoolInv, TypeOK
    <3>3. b \in Range(block_table[r]) /\ ref_count[b] = 1 /\ block_hash[b] = NoHash
      <4>1. b \in Range(block_table[r])
        BY <3>2 DEF Range
      <4>2. i * BlockSize > num_cached_tokens[r]
        BY <3>1
      <4> QED BY <3>2, <4>1, <4>2 DEF PoolInv, WritesArePrivate
    <3>4. b \in Blocks /\ b \in used_block_ids
      BY <3>3, OwnedIsUsed
    <3>5. b \notin F
      BY <1>4, <3>4
    <3>6. ASSUME b \in A \ Range(block_table[s]) PROVE FALSE
      \* A block outside the old table holds cached tokens: it is published.
      <4>1. PICK j \in 1 .. Len(base) : base[j] = b
        <5>1. b \in A
          BY <3>6
        <5> QED BY <1>a, <5>1 DEF Range
      <4>2. j * BlockSize <= m
        <5>1. j * BlockSize \in Nat
          BY <1>a, <1>f
        <5>2. ~(j * BlockSize > m)
          BY <3>6, <4>1 DEF GrowFrom
        <5> QED BY <1>f, <5>1, <5>2
      <4>3. block_hash[b] = PrefixHash(s, j)
        BY <4>1, <4>2 DEF GrowFrom
      <4>4. token_ids[s] \in Seq(Token) /\ m <= Len(token_ids[s])
        BY DEF PoolInv, TypeOK, GrowFrom, num_tokens
      <4>5. j * BlockSize \in 1 .. Len(token_ids[s])
        BY <1>a, <1>f, <4>2, <4>4
      <4>6. Len(PrefixHash(s, j)) = j * BlockSize
        BY <4>4, <4>5 DEF PrefixHash
      <4>7. Len(<<>>) = 0
        OBVIOUS
      <4> QED BY <3>3, <4>3, <4>5, <4>6, <4>7 DEF NoHash
    <3> QED BY <1>c, <1>d, <3>1, <3>3, <3>4, <3>5, <3>6
  <2> QED BY <2>1, <2>2
<1> QED BY <1>2, <1>5, <1>7, <1>8, <1>9, <1>10 DEF PoolInv

\* The block of a position that a list of n blocks covers is in the list.
LEMMA BlockOfPosition ==
  ASSUME BlockManagerAssumption, NEW n \in Nat, NEW p \in Nat, p < BlockSize * n
  PROVE  /\ p \div BlockSize + 1 \in 1 .. n
         /\ p % BlockSize \in 0 .. BlockSize - 1
         /\ p = BlockSize * (p \div BlockSize) + (p % BlockSize)
<1>1. BlockSize \in Nat \ {0}
  BY DEF BlockManagerAssumption
<1>2. /\ p \div BlockSize \in Nat
      /\ p % BlockSize \in 0 .. BlockSize - 1
      /\ p = BlockSize * (p \div BlockSize) + (p % BlockSize)
  BY <1>1, DivBounds
<1>3. ASSUME n <= p \div BlockSize PROVE FALSE
  <2>1. BlockSize * n <= BlockSize * (p \div BlockSize)
    BY <1>1, <1>2, <1>3, MulMono
  <2> QED BY <1>1, <1>2, <2>1
<1> QED BY <1>1, <1>2, <1>3

\* Growing a table keeps the contents: nothing is written, the blocks that change
\* their hash belong to nobody, and the table starts with what s may rely on.
LEMMA GrowKeepsContents ==
  ASSUME BlockManagerAssumption, IInv, NEW s \in Seqs, NEW base, NEW fresh, NEW m,
         GrowFrom(s, base, m), GrowBy(s, base, fresh, m)
  PROVE  HashChain' /\ CachedIsComputed' /\ IndexIsSound'
<1> DEFINE F == Range(fresh)
<1>a. /\ base \in Seq(Blocks) /\ fresh \in Seq(Blocks)
      /\ F \subseteq Range(free_block_ids) /\ F \cap Range(base) = {}
  BY DEF GrowFrom, GrowBy
<1>b. \A b \in Blocks : block_hash'[b] = IF b \in F THEN NoHash ELSE block_hash[b]
  BY DEF GrowBy, ResetHashes, StaleEntries
<1>c. /\ block_table'[s] = base \o fresh
      /\ \A r \in Seqs : r # s => block_table'[r] = block_table[r]
      /\ num_cached_tokens'[s] = m
      /\ \A r \in Seqs : r # s => num_cached_tokens'[r] = num_cached_tokens[r]
      /\ token_ids' = token_ids /\ kv' = kv
  BY DEF GrowBy, IInv, PoolInv, TypeOK
<1>d. /\ m \in Nat /\ m <= num_tokens(s) /\ m <= BlockSize * Len(base)
      /\ BlockSize \in Nat \ {0} /\ Len(base) \in Nat /\ Len(fresh) \in Nat
  BY <1>a DEF GrowFrom, BlockManagerAssumption
<1>e. \A i \in 1 .. Len(base) : block_table'[s][i] = base[i]
  BY <1>a, <1>c
<1>f. Len(block_table'[s]) = Len(base) + Len(fresh)
  BY <1>a, <1>c
<1>1. ASSUME NEW r \in Seqs, r # s, NEW i \in 1 .. Len(block_table[r])
      PROVE  block_hash'[block_table[r][i]] = block_hash[block_table[r][i]]
  <2>1. block_table[r] \in Seq(Blocks)
    BY DEF IInv, PoolInv, TypeOK
  <2>2. block_table[r][i] \in Range(block_table[r])
    BY <2>1 DEF Range
  <2>3. block_table[r][i] \in Blocks /\ block_table[r][i] \notin Range(free_block_ids)
    BY <2>2, OwnedIsUsed DEF IInv
  <2> QED BY <1>a, <1>b, <2>3
<1>2. HashChain'
  <2> SUFFICES ASSUME NEW r \in Seqs
               PROVE  /\ num_cached_tokens'[r] <= Len(token_ids[r])
                      /\ num_cached_tokens'[r] <= BlockSize * Len(block_table'[r])
                      /\ \A i \in 1 .. Len(block_table'[r]) :
                           i * BlockSize <= num_cached_tokens'[r] =>
                             block_hash'[block_table'[r][i]] = PrefixHash(r, i)
    BY <1>c DEF HashChain, num_tokens, PrefixHash
  <2>1. CASE r = s
    <3>1. m <= BlockSize * (Len(base) + Len(fresh))
      <4>1. BlockSize * Len(base) <= BlockSize * (Len(base) + Len(fresh))
        BY <1>d, MulMono
      <4> QED BY <1>d, <4>1
    <3>2. ASSUME NEW i \in 1 .. Len(block_table'[r]), i * BlockSize <= m
          PROVE  block_hash'[block_table'[r][i]] = PrefixHash(r, i)
      <4>1. i \in Nat /\ i > 0
        BY <1>d, <1>f, <2>1
      <4>2. BlockSize * i <= BlockSize * Len(base)
        BY <1>d, <3>2, <4>1
      <4>3. i \in 1 .. Len(base)
        BY <1>d, <4>1, <4>2, MulOrder
      <4>4. base[i] \in Range(base) /\ base[i] \in Blocks
        BY <1>a, <4>3 DEF Range
      <4>5. block_hash'[base[i]] = block_hash[base[i]]
        BY <1>a, <1>b, <4>4
      <4>6. block_hash[base[i]] = PrefixHash(s, i)
        BY <3>2, <4>3 DEF GrowFrom
      <4> QED BY <1>e, <2>1, <4>3, <4>5, <4>6
    <3> QED BY <1>c, <1>d, <1>f, <2>1, <3>1, <3>2 DEF num_tokens
  <2>2. CASE r # s
    <3>1. block_table'[r] = block_table[r] /\ num_cached_tokens'[r] = num_cached_tokens[r]
      BY <1>c, <2>2
    <3>2. /\ num_cached_tokens[r] <= Len(token_ids[r])
          /\ num_cached_tokens[r] <= BlockSize * Len(block_table[r])
          /\ \A i \in 1 .. Len(block_table[r]) :
               i * BlockSize <= num_cached_tokens[r] =>
                 block_hash[block_table[r][i]] = PrefixHash(r, i)
      BY DEF IInv, HashChain, num_tokens
    <3>3. \A i \in 1 .. Len(block_table[r]) :
            block_hash'[block_table[r][i]] = block_hash[block_table[r][i]]
      BY <1>1, <2>2
    <3> QED BY <3>1, <3>2, <3>3
  <2> QED BY <2>1, <2>2
<1>3. CachedIsComputed'
  <2> SUFFICES ASSUME NEW r \in Seqs, NEW p \in 0 .. num_cached_tokens'[r] - 1
               PROVE  kv[block_table'[r][p \div BlockSize + 1]][p % BlockSize]
                        = SubSeq(token_ids[r], 1, p + 1)
    BY <1>c DEF CachedIsComputed, Computed, Holds, SlotOf
  <2>1. CASE r = s
    <3>1. p \in 0 .. m - 1
      BY <1>c, <2>1
    <3>2. p \in Nat /\ p < BlockSize * Len(base)
      BY <1>d, <3>1
    <3>3. p \div BlockSize + 1 \in 1 .. Len(base)
      BY <1>d, <3>2, BlockOfPosition
    <3>4. kv[base[p \div BlockSize + 1]][p % BlockSize] = SubSeq(token_ids[s], 1, p + 1)
      BY <3>1 DEF GrowFrom, Holds
    <3> QED BY <1>e, <2>1, <3>3, <3>4
  <2>2. CASE r # s
    <3>1. block_table'[r] = block_table[r] /\ num_cached_tokens'[r] = num_cached_tokens[r]
      BY <1>c, <2>2
    <3>2. \A q \in 0 .. num_cached_tokens[r] - 1 :
            kv[block_table[r][q \div BlockSize + 1]][q % BlockSize] = SubSeq(token_ids[r], 1, q + 1)
      BY DEF IInv, CachedIsComputed, Computed, Holds, SlotOf
    <3> QED BY <3>1, <3>2
  <2> QED BY <2>1, <2>2
<1>4. IndexIsSound'
  <2>1. /\ DOMAIN hash_to_block_id' \subseteq DOMAIN hash_to_block_id
        /\ \A h \in DOMAIN hash_to_block_id' : hash_to_block_id'[h] = hash_to_block_id[h]
    BY DEF GrowBy, ResetHashes, StaleEntries, Restrict
  <2> QED BY <1>c, <2>1 DEF IInv, IndexIsSound, Holds
<1> QED BY <1>2, <1>3, <1>4

\* Any step that gives blocks to a sequence keeps the invariant.
LEMMA GrowKeepsInv ==
  ASSUME BlockManagerAssumption, IInv, NEW s \in Seqs, NEW base, NEW fresh, NEW m,
         GrowFrom(s, base, m), GrowBy(s, base, fresh, m)
  PROVE  IInv'
<1>1. PoolInv'
  BY GrowKeepsPool DEF IInv
<1>2. HashChain' /\ CachedIsComputed' /\ IndexIsSound'
  BY GrowKeepsContents
<1> QED BY <1>1, <1>2 DEF IInv

\* Appending blocks to a table: extend and may_append.
LEMMA TakeKeepsInv ==
  ASSUME BlockManagerAssumption, IInv, NEW s \in Seqs, NEW n \in Nat, take_blocks(s, n)
  PROVE  IInv'
<1> DEFINE base == block_table[s]
           fresh == SubSeq(free_block_ids, 1, n)
           rest == SubSeq(free_block_ids, n + 1, Len(free_block_ids))
           m == num_cached_tokens[s]
<1>1. free_block_ids \in Seq(Blocks) /\ IsInjective(free_block_ids) /\ n \in 0 .. Len(free_block_ids)
  BY DEF IInv, PoolInv, TypeOK, PoolPartition, take_blocks
<1>2. /\ fresh \in Seq(Blocks) /\ rest \in Seq(Blocks)
      /\ IsInjective(fresh) /\ IsInjective(rest)
      /\ Range(fresh) \cap Range(rest) = {}
      /\ Range(fresh) \cup Range(rest) = Range(free_block_ids)
  BY <1>1, CutSpec
<1>3. base \in Seq(Blocks) /\ m \in Nat /\ IsInjective(base)
  BY DEF IInv, PoolInv, TypeOK, TablesInjective
<1>4. Range(base) \subseteq used_block_ids /\ Range(base) \cap Range(free_block_ids) = {}
  BY OwnedIsUsed DEF IInv
<1>5. GrowFrom(s, base, m)
  <2>1. /\ m <= num_tokens(s) /\ m <= BlockSize * Len(base)
        /\ \A i \in 1 .. Len(base) :
             i * BlockSize <= m => block_hash[base[i]] = PrefixHash(s, i)
    BY DEF IInv, HashChain
  <2>2. ASSUME NEW i \in 1 .. Len(base), i * BlockSize > m
        PROVE  /\ base[i] \in Range(block_table[s])
               /\ ref_count[base[i]] = 1
               /\ block_hash[base[i]] = NoHash
    <3>1. base[i] \in Range(base)
      BY <1>3 DEF Range
    <3> QED BY <2>2, <3>1 DEF IInv, PoolInv, WritesArePrivate
  <2>3. \A p \in 0 .. m - 1 :
          Holds(<<base[p \div BlockSize + 1], p % BlockSize>>, SubSeq(token_ids[s], 1, p + 1))
    BY DEF IInv, CachedIsComputed, Computed, SlotOf
  <2> QED BY <1>3, <2>1, <2>2, <2>3 DEF GrowFrom
<1>6. GrowBy(s, base, fresh, m)
  <2>1. free_block_ids' = rest
    BY DEF take_blocks
  <2>2. Range(free_block_ids') = Range(free_block_ids) \ (Range(fresh) \cup Range(base))
    BY <1>2, <1>4, <2>1
  <2>3. used_block_ids' = used_block_ids \cup Range(base) \cup Range(fresh)
    BY <1>4 DEF take_blocks
  <2>4. ref_count' = [b \in Blocks |->
          IF b \in Range(fresh) THEN 1
          ELSE IF b \in Range(base) \ Range(block_table[s]) THEN ref_count[b] + 1
          ELSE ref_count[b]]
    BY DEF take_blocks
  <2>5. /\ ResetHashes(Range(fresh))
        /\ block_table' = [block_table EXCEPT ![s] = base \o fresh]
        /\ UNCHANGED <<token_ids, num_cached_tokens, kv>>
    BY DEF take_blocks
  <2>6. num_cached_tokens' = [num_cached_tokens EXCEPT ![s] = m]
    BY <2>5 DEF IInv, PoolInv, TypeOK
  <2>7. Range(fresh) \subseteq Range(free_block_ids) /\ Range(fresh) \cap Range(base) = {}
    BY <1>2, <1>4
  <2> HIDE DEF base, fresh, rest, m
  <2> QED BY <1>2, <2>1, <2>2, <2>3, <2>4, <2>5, <2>6, <2>7 DEF GrowBy
<1> HIDE DEF base, fresh, m
<1> QED BY <1>5, <1>6, GrowKeepsInv

\* A prefix of a prefix is a prefix.
LEMMA PrefixOfPrefix ==
  ASSUME NEW T, NEW t \in Seq(T), NEW n \in 0 .. Len(t), NEW k \in 0 .. n
  PROVE  SubSeq(SubSeq(t, 1, n), 1, k) = SubSeq(t, 1, k)
<1>1. SubSeq(t, 1, n) \in Seq(T) /\ Len(SubSeq(t, 1, n)) = n
  OBVIOUS
<1>2. SubSeq(t, 1, k) \in Seq(T) /\ Len(SubSeq(t, 1, k)) = k
  OBVIOUS
<1>3. SubSeq(SubSeq(t, 1, n), 1, k) \in Seq(T) /\ Len(SubSeq(SubSeq(t, 1, n), 1, k)) = k
  BY <1>1
<1>4. \A i \in 1 .. k : SubSeq(SubSeq(t, 1, n), 1, k)[i] = SubSeq(t, 1, k)[i]
  OBVIOUS
<1> QED BY <1>2, <1>3, <1>4, SeqEqual

\* The hash of the first i blocks stands for i * BlockSize tokens.
LEMMA PrefixHashLen ==
  ASSUME BlockManagerAssumption, TypeOK, NEW s \in Seqs, NEW i \in Nat,
         i * BlockSize <= num_tokens(s)
  PROVE  /\ PrefixHash(s, i) \in Seq(Token)
         /\ Len(PrefixHash(s, i)) = i * BlockSize
         /\ i * BlockSize \in 0 .. num_tokens(s)
         /\ i > 0 => PrefixHash(s, i) # NoHash
<1>1. token_ids[s] \in Seq(Token) /\ BlockSize \in Nat \ {0}
  BY DEF TypeOK, BlockManagerAssumption
<1>2. i * BlockSize \in 0 .. Len(token_ids[s])
  BY <1>1 DEF num_tokens
<1>3. PrefixHash(s, i) \in Seq(Token) /\ Len(PrefixHash(s, i)) = i * BlockSize
  BY <1>1, <1>2 DEF PrefixHash
<1>4. i > 0 => i * BlockSize > 0
  BY <1>1
<1>5. Len(<<>>) = 0
  OBVIOUS
<1>6. i > 0 => PrefixHash(s, i) # NoHash
  BY <1>3, <1>4, <1>5 DEF NoHash
<1> QED BY <1>2, <1>3, <1>6 DEF num_tokens

\* Admission: the cached leading blocks are pinned by hash and the rest is taken from
\* the free list without them.
LEMMA AllocateKeepsInv ==
  ASSUME BlockManagerAssumption, IInv, NEW s \in Seqs, NEW c \in Nat, NEW through \in Nat,
         AllocateIncremental(s, c, through)
  PROVE  IInv' /\ Len(block_table'[s]) = BlocksFor(through)
<1> DEFINE base == [i \in 1 .. c |-> hash_to_block_id[PrefixHash(s, i)]]
           cached == Range(base)
           new == BlocksFor(through) - c
           rest == Keep(free_block_ids, Blocks \ cached)
           fresh == SubSeq(rest, 1, new)
           left == SubSeq(rest, new + 1, Len(rest))
           m == c * BlockSize
<1>a. BlockSize \in Nat \ {0} /\ m \in Nat
  BY DEF BlockManagerAssumption
<1>b. TypeOK /\ IndexMatchesBlocks
  BY DEF IInv, PoolInv
<1>c. m < through /\ through <= num_tokens(s) /\ num_tokens(s) \in Nat
  BY <1>b DEF AllocateIncremental, TypeOK, num_tokens
<1>d. ASSUME NEW i \in 1 .. c
      PROVE  /\ i \in Nat
             /\ i * BlockSize <= m
             /\ i * BlockSize <= num_tokens(s)
             /\ PrefixHash(s, i) \in DOMAIN hash_to_block_id
             /\ PrefixHash(s, i) \in Seq(Token)
             /\ Len(PrefixHash(s, i)) = i * BlockSize
  <2>1. i \in Nat /\ i * BlockSize <= m
    <3>1. BlockSize * i <= BlockSize * c
      BY <1>a, MulMono
    <3> QED BY <1>a, <3>1
  <2>2. i * BlockSize <= num_tokens(s)
    BY <1>a, <1>c, <2>1
  <2>3. PrefixHash(s, i) \in DOMAIN hash_to_block_id
    BY DEF AllocateIncremental, Hit
  <2> QED BY <1>b, <2>1, <2>2, <2>3, PrefixHashLen
<1>1. base \in Seq(Blocks) /\ Len(base) = c /\ DOMAIN base = 1 .. c
  <2>1. \A i \in 1 .. c : hash_to_block_id[PrefixHash(s, i)] \in Blocks
    BY <1>b, <1>d DEF TypeOK
  <2> QED BY <2>1, IsASeq
<1>2. \A i \in 1 .. c : /\ base[i] = hash_to_block_id[PrefixHash(s, i)]
                        /\ block_hash[base[i]] = PrefixHash(s, i)
  BY <1>b, <1>d DEF IndexMatchesBlocks
<1>3. IsInjective(base)
  <2> SUFFICES ASSUME NEW i \in 1 .. c, NEW j \in 1 .. c, base[i] = base[j]
               PROVE  i = j
    BY <1>1 DEF IsInjective
  <2>1. i * BlockSize = j * BlockSize
    BY <1>2, <1>d
  <2> QED BY <1>a, <2>1
<1>4. block_table[s] = <<>> /\ Range(block_table[s]) = {}
  BY DEF AllocateIncremental, allocate_incremental, Range
<1>5. GrowFrom(s, base, m)
  <2>1. m <= BlockSize * Len(base) /\ m <= num_tokens(s)
    BY <1>1, <1>a, <1>c
  <2>2. \A i \in 1 .. Len(base) : ~(i * BlockSize > m)
    BY <1>1, <1>a, <1>d
  <2>3. ASSUME NEW p \in 0 .. m - 1
        PROVE  Holds(<<base[p \div BlockSize + 1], p % BlockSize>>,
                     SubSeq(token_ids[s], 1, p + 1))
    <3> DEFINE i == p \div BlockSize + 1
               o == p % BlockSize
    <3>1. p \in Nat /\ p < BlockSize * c
      BY <1>a
    <3>2. /\ i \in 1 .. c /\ o \in 0 .. BlockSize - 1
          /\ p = BlockSize * (p \div BlockSize) + o
      BY <3>1, BlockOfPosition
    <3>3. /\ PrefixHash(s, i) \in DOMAIN hash_to_block_id
          /\ Len(PrefixHash(s, i)) = i * BlockSize
          /\ i * BlockSize <= num_tokens(s)
      BY <1>d, <3>2
    <3>4. Holds(<<base[i], o>>, SubSeq(PrefixHash(s, i), 1, i * BlockSize - BlockSize + o + 1))
      BY <1>2, <3>2, <3>3 DEF IInv, IndexIsSound
    <3>5. i * BlockSize - BlockSize + o + 1 = p + 1
      <4>1. p \div BlockSize \in Nat
        BY <1>a, <3>1, DivBounds
      <4> QED BY <1>a, <3>2, <4>1
    <3>6. p + 1 \in 0 .. i * BlockSize /\ i * BlockSize \in 0 .. Len(token_ids[s])
      <4>1. i * BlockSize \in Nat
        BY <1>a, <3>2
      <4> QED BY <1>a, <1>c, <3>2, <3>3, <3>5, <4>1 DEF num_tokens
    <3>7. SubSeq(PrefixHash(s, i), 1, p + 1) = SubSeq(token_ids[s], 1, p + 1)
      <4>1. token_ids[s] \in Seq(Token)
        BY <1>b DEF TypeOK
      <4> HIDE DEF i
      <4> QED BY <3>6, <4>1, PrefixOfPrefix DEF PrefixHash
    <3> QED BY <3>4, <3>5, <3>7
  <2> HIDE DEF base, m
  <2> QED BY <1>1, <1>2, <1>3, <1>4, <1>a, <2>1, <2>2, <2>3 DEF GrowFrom
<1>6. free_block_ids \in Seq(Blocks) /\ IsInjective(free_block_ids)
  BY DEF IInv, PoolInv, TypeOK, PoolPartition
<1>7. /\ rest \in Seq(Blocks) /\ IsInjective(rest)
      /\ Range(rest) = Range(free_block_ids) \ cached
  <2>1. Range(free_block_ids) \subseteq Blocks
    BY <1>6, ListRange
  <2>2. /\ rest \in Seq(Blocks) /\ IsInjective(rest)
        /\ Range(rest) = Range(free_block_ids) \cap (Blocks \ cached)
    BY <1>6, KeepSpec
  <2> QED BY <2>1, <2>2
<1>8. new \in 0 .. Len(rest)
  <2>1. cached \subseteq Blocks /\ IsFiniteSet(cached)
    BY <1>1, <1>3, ListRange, InjectiveLen
  <2>2. Range(free_block_ids) \cap cached = cached \ used_block_ids
    BY <2>1 DEF IInv, PoolInv, PoolPartition
  <2>3. IsFiniteSet(Range(free_block_ids)) /\ Cardinality(Range(free_block_ids)) = Len(free_block_ids)
    BY <1>6, InjectiveLen
  <2>4. Cardinality(Range(rest)) = Len(free_block_ids) - Cardinality(cached \ used_block_ids)
    <3>1. Cardinality(Range(free_block_ids) \ cached)
            = Cardinality(Range(free_block_ids)) - Cardinality(Range(free_block_ids) \cap cached)
      BY <2>3, FS_Difference
    <3> QED BY <1>7, <2>2, <2>3, <3>1
  <2>5. Cardinality(Range(rest)) = Len(rest)
    BY <1>7, InjectiveLen
  <2>6. Cardinality(cached \ used_block_ids) \in Nat
    BY <2>1, FS_Difference, FS_CardinalityType
  <2>7. new > 0 /\ Len(free_block_ids) >= new + Cardinality(cached \ used_block_ids)
    BY DEF AllocateIncremental, allocate_incremental
  <2>8. new \in Int
    BY <1>a DEF BlocksFor
  <2> HIDE DEF new, cached, rest
  <2> QED BY <1>6, <1>7, <2>4, <2>5, <2>6, <2>7, <2>8
<1>9. /\ fresh \in Seq(Blocks) /\ left \in Seq(Blocks)
      /\ IsInjective(fresh) /\ IsInjective(left)
      /\ Range(fresh) \cap Range(left) = {}
      /\ Range(fresh) \cup Range(left) = Range(rest)
      /\ Len(fresh) = new
  <2> HIDE DEF rest, new
  <2>1. Len(fresh) = new
    BY <1>7, <1>8, CutSpec
  <2>2. /\ fresh \in Seq(Blocks) /\ left \in Seq(Blocks)
        /\ IsInjective(fresh) /\ IsInjective(left)
        /\ Range(fresh) \cap Range(left) = {}
        /\ Range(fresh) \cup Range(left) = Range(rest)
    BY <1>7, <1>8, CutSpec
  <2> QED BY <2>1, <2>2
<1>10. GrowBy(s, base, fresh, m)
  <2>1. /\ free_block_ids' = left
        /\ used_block_ids' = used_block_ids \cup cached \cup Range(fresh)
        /\ ref_count' = [b \in Blocks |->
             IF b \in Range(fresh) \/ b \in cached \ used_block_ids THEN 1
             ELSE IF b \in cached THEN ref_count[b] + 1
             ELSE ref_count[b]]
        /\ ResetHashes(Range(fresh))
        /\ block_table' = [block_table EXCEPT ![s] = base \o fresh]
        /\ num_cached_tokens' = [num_cached_tokens EXCEPT ![s] = m]
        /\ UNCHANGED <<token_ids, kv>>
    BY DEF AllocateIncremental, allocate_incremental
  <2>2. \A b \in Blocks : b \notin used_block_ids => ref_count[b] = 0
    BY OwnersOf DEF IInv, PoolInv
  <2>3. Range(free_block_ids') = Range(free_block_ids) \ (Range(fresh) \cup cached)
    BY <1>7, <1>9, <2>1
  <2>4. ref_count' = [b \in Blocks |->
          IF b \in Range(fresh) THEN 1
          ELSE IF b \in cached \ Range(block_table[s]) THEN ref_count[b] + 1
          ELSE ref_count[b]]
    <3> DEFINE f == [b \in Blocks |->
                       IF b \in Range(fresh) THEN 1
                       ELSE IF b \in cached \ Range(block_table[s]) THEN ref_count[b] + 1
                       ELSE ref_count[b]]
               g == [b \in Blocks |->
                       IF b \in Range(fresh) \/ b \in cached \ used_block_ids THEN 1
                       ELSE IF b \in cached THEN ref_count[b] + 1
                       ELSE ref_count[b]]
    <3>1. ASSUME NEW b \in Blocks PROVE g[b] = f[b]
      <4> HIDE DEF cached, fresh
      <4> QED BY <1>4, <2>2
    <3>2. g = f
      <4> HIDE DEF cached, fresh
      <4> QED BY <3>1
    <3> QED BY <2>1, <3>2
  <2>5. Range(fresh) \subseteq Range(free_block_ids) /\ Range(fresh) \cap cached = {}
    BY <1>7, <1>9
  <2> HIDE DEF base, rest, fresh, left, m, new
  <2> QED BY <1>9, <2>1, <2>3, <2>4, <2>5 DEF GrowBy
<1>11. Len(block_table'[s]) = BlocksFor(through)
  <2>1. block_table'[s] = base \o fresh
    BY <1>b DEF AllocateIncremental, allocate_incremental, TypeOK
  <2>2. BlocksFor(through) \in Int
    BY <1>a DEF BlocksFor
  <2>3. Len(base \o fresh) = c + new
    BY <1>1, <1>9, ConcatProperties
  <2> HIDE DEF base, fresh
  <2> QED BY <2>1, <2>2, <2>3
<1> HIDE DEF base, fresh, m
<1>12. IInv'
  BY <1>5, <1>10, GrowKeepsInv
<1> QED BY <1>11, <1>12

-----------------------------------------------------------------------------
(* Steps that take blocks from sequences *)

\* A step that only takes blocks off tables and neither writes nor publishes keeps
\* what is known about the contents.
LEMMA ShrinkKeepsContents ==
  ASSUME BlockManagerAssumption, IInv,
         UNCHANGED <<block_hash, hash_to_block_id, token_ids, kv>>,
         \A s \in Seqs :
           /\ block_table'[s] \in Seq(Blocks)
           /\ num_cached_tokens'[s] \in Nat
           /\ num_cached_tokens'[s] <= num_cached_tokens[s]
           /\ num_cached_tokens'[s] <= BlockSize * Len(block_table'[s])
           /\ Len(block_table'[s]) <= Len(block_table[s])
           /\ \A i \in 1 .. Len(block_table'[s]) : block_table'[s][i] = block_table[s][i]
  PROVE  HashChain' /\ CachedIsComputed' /\ IndexIsSound'
<1>a. /\ block_hash' = block_hash /\ hash_to_block_id' = hash_to_block_id
      /\ token_ids' = token_ids /\ kv' = kv
  OBVIOUS
<1>b. \A s \in Seqs : /\ num_cached_tokens[s] \in Nat
                      /\ block_table[s] \in Seq(Blocks)
                      /\ token_ids[s] \in Seq(Token)
  BY DEF IInv, PoolInv, TypeOK
<1>c. BlockSize \in Nat \ {0}
  BY DEF BlockManagerAssumption
<1>1. HashChain'
  <2> SUFFICES ASSUME NEW s \in Seqs
               PROVE  /\ num_cached_tokens'[s] <= Len(token_ids[s])
                      /\ num_cached_tokens'[s] <= BlockSize * Len(block_table'[s])
                      /\ \A i \in 1 .. Len(block_table'[s]) :
                           i * BlockSize <= num_cached_tokens'[s] =>
                             block_hash[block_table'[s][i]] = PrefixHash(s, i)
    BY <1>a DEF HashChain, num_tokens, PrefixHash
  <2>1. num_cached_tokens[s] <= Len(token_ids[s])
    BY DEF IInv, HashChain, num_tokens
  <2>2. ASSUME NEW i \in 1 .. Len(block_table'[s]), i * BlockSize <= num_cached_tokens'[s]
        PROVE  block_hash[block_table'[s][i]] = PrefixHash(s, i)
    <3>1. i \in 1 .. Len(block_table[s]) /\ i \in Nat
      BY <1>b
    <3>2. i * BlockSize <= num_cached_tokens[s]
      BY <1>b, <1>c, <2>2, <3>1
    <3> QED BY <3>1, <3>2 DEF IInv, HashChain
  <2> QED BY <1>b, <2>1, <2>2
<1>2. CachedIsComputed'
  <2> SUFFICES ASSUME NEW s \in Seqs, NEW p \in 0 .. num_cached_tokens'[s] - 1
               PROVE  kv[block_table'[s][p \div BlockSize + 1]][p % BlockSize]
                        = SubSeq(token_ids[s], 1, p + 1)
    BY <1>a DEF CachedIsComputed, Computed, Holds, SlotOf
  <2>1. p \in 0 .. num_cached_tokens[s] - 1 /\ p \in Nat
    BY <1>b
  <2>2. p < BlockSize * Len(block_table'[s])
    BY <1>c, <2>1
  <2>3. p \div BlockSize + 1 \in 1 .. Len(block_table'[s])
    <3>1. Len(block_table'[s]) \in Nat
      OBVIOUS
    <3> QED BY <2>1, <2>2, <3>1, BlockOfPosition
  <2>4. kv[block_table[s][p \div BlockSize + 1]][p % BlockSize] = SubSeq(token_ids[s], 1, p + 1)
    BY <2>1 DEF IInv, CachedIsComputed, Computed, Holds, SlotOf
  <2> QED BY <2>3, <2>4
<1>3. IndexIsSound'
  BY <1>a DEF IInv, IndexIsSound, Holds
<1> QED BY <1>1, <1>2, <1>3

\* Releasing a sequence: only the blocks it was the last owner of become free.
LEMMA DeallocateKeepsInv ==
  ASSUME BlockManagerAssumption, IInv, NEW s \in Seqs, deallocate(s)
  PROVE  IInv'
<1> DEFINE owned == Range(block_table[s])
           released == {b \in owned : ref_count[b] = 1}
           back == Keep(Reversed(block_table[s]), released)
<1>a. /\ ref_count' = [b \in Blocks |->
                         IF b \in owned THEN ref_count[b] - 1 ELSE ref_count[b]]
      /\ free_block_ids' = free_block_ids \o back
      /\ used_block_ids' = used_block_ids \ released
      /\ block_table' = [block_table EXCEPT ![s] = <<>>]
      /\ num_cached_tokens' = [num_cached_tokens EXCEPT ![s] = 0]
  BY DEF deallocate, Released, Dereferenced
<1>b. UNCHANGED <<block_hash, hash_to_block_id, token_ids, kv>>
  BY DEF deallocate, indexVars
<1>c. /\ block_table[s] \in Seq(Blocks) /\ IsInjective(block_table[s])
      /\ free_block_ids \in Seq(Blocks) /\ IsInjective(free_block_ids)
  BY DEF IInv, PoolInv, TypeOK, PoolPartition, TablesInjective
<1>d. PoolInv /\ TypeOK
  BY DEF IInv, PoolInv
<1>e. \A b \in owned : /\ b \in Blocks /\ b \in used_block_ids
                       /\ b \notin Range(free_block_ids) /\ s \in Owners(b)
  BY <1>d, OwnedIsUsed
<1>f. \A b \in Blocks : /\ ref_count[b] \in Nat
                        /\ ref_count[b] = Cardinality(Owners(b))
                        /\ IsFiniteSet(Owners(b))
                        /\ b \notin used_block_ids <=> ref_count[b] = 0
                        /\ b \in used_block_ids <=> ref_count[b] > 0
  BY <1>d, OwnersOf DEF PoolInv, TypeOK, RefCountIsOwners
<1>g. /\ block_table'[s] = <<>> /\ num_cached_tokens'[s] = 0
      /\ \A r \in Seqs : r # s => /\ block_table'[r] = block_table[r]
                                  /\ num_cached_tokens'[r] = num_cached_tokens[r]
  BY <1>a, <1>d DEF TypeOK
<1>1. back \in Seq(Blocks) /\ IsInjective(back) /\ Range(back) = released
  <2>1. /\ Reversed(block_table[s]) \in Seq(Blocks)
        /\ Range(Reversed(block_table[s])) = owned
        /\ IsInjective(Reversed(block_table[s]))
    BY <1>c, ReversedSpec
  <2>2. Range(back) = owned \cap released
    BY <2>1, KeepSpec
  <2> QED BY <2>1, <2>2, KeepSpec
<1>2. TypeOK'
  <2>1. free_block_ids' \in Seq(Blocks)
    BY <1>1, <1>a, <1>c
  <2>2. \A b \in owned : ref_count[b] - 1 \in Nat
    BY <1>e, <1>f
  <2>3. ref_count' \in [Blocks -> Nat]
    BY <1>a, <1>f, <2>2
  <2>4. used_block_ids' \in SUBSET Blocks
    BY <1>a, <1>d DEF TypeOK
  <2>5. block_table' \in [Seqs -> Seq(Blocks)] /\ num_cached_tokens' \in [Seqs -> Nat]
    BY <1>a, <1>d DEF TypeOK
  <2> QED BY <1>b, <1>d, <2>1, <2>3, <2>4, <2>5 DEF TypeOK
<1>3. PoolPartition'
  <2>1. released \subseteq used_block_ids /\ Range(free_block_ids) \cap Range(back) = {}
    BY <1>1, <1>e
  <2>2. IsInjective(free_block_ids')
    BY <1>1, <1>a, <1>c, <2>1, ConcatInjective
  <2>3. Range(free_block_ids') = Range(free_block_ids) \cup released
    <3> HIDE DEF back, released
    <3>1. Range(free_block_ids \o back) = Range(free_block_ids) \cup Range(back)
      BY <1>1, <1>c, RangeConcatenation
    <3> QED BY <1>1, <1>a, <3>1
  <2> QED BY <1>a, <1>d, <2>1, <2>2, <2>3 DEF PoolInv, PoolPartition
<1>4. RefCountIsOwners'
  <2> SUFFICES ASSUME NEW b \in Blocks
               PROVE  /\ ref_count'[b] = Cardinality(Owners(b)')
                      /\ b \in used_block_ids' <=> ref_count'[b] > 0
    BY DEF RefCountIsOwners, Owners
  <2>1. Owners(b)' = Owners(b) \ {s}
    <3>1. Range(block_table'[s]) = {}
      BY <1>g DEF Range
    <3>2. Owners(b)' = {r \in Seqs : b \in Range(block_table'[r])}
      BY DEF Owners
    <3> QED BY <1>g, <3>1, <3>2 DEF Owners
  <2>2. Cardinality(Owners(b)') =
          IF s \in Owners(b) THEN Cardinality(Owners(b)) - 1 ELSE Cardinality(Owners(b))
    BY <1>f, <2>1, FS_RemoveElement
  <2>3. b \in owned <=> s \in Owners(b)
    BY DEF Owners
  <2>4. ref_count'[b] = IF b \in owned THEN ref_count[b] - 1 ELSE ref_count[b]
    BY <1>a
  <2> QED BY <1>a, <1>e, <1>f, <2>2, <2>3, <2>4
<1>5. TablesInjective'
  <2>1. IsInjective(<<>>)
    BY DEF IsInjective
  <2> QED BY <1>d, <1>g, <2>1 DEF PoolInv, TablesInjective
<1>6. IndexMatchesBlocks'
  BY <1>b, <1>d DEF PoolInv, IndexMatchesBlocks
<1>7. WritesArePrivate'
  <2> SUFFICES ASSUME NEW r \in Seqs, NEW i \in 1 .. Len(block_table'[r]),
                      i * BlockSize > num_cached_tokens'[r]
               PROVE  /\ ref_count'[block_table'[r][i]] = 1
                      /\ block_hash'[block_table'[r][i]] = NoHash
    BY DEF WritesArePrivate
  <2>1. r # s
    BY <1>g
  <2> DEFINE b == block_table[r][i]
  <2>2. block_table'[r] = block_table[r] /\ num_cached_tokens'[r] = num_cached_tokens[r]
    BY <1>g, <2>1
  <2>3. ref_count[b] = 1 /\ block_hash[b] = NoHash
    BY <1>d, <2>2 DEF PoolInv, WritesArePrivate
  <2>4. b \in Range(block_table[r])
    <3>1. block_table[r] \in Seq(Blocks) /\ i \in 1 .. Len(block_table[r])
      BY <1>d, <2>2 DEF TypeOK
    <3> QED BY <3>1 DEF Range
  <2>5. b \in Blocks /\ r \in Owners(b)
    BY <1>d, <2>4, OwnedIsUsed
  <2>6. Owners(b) = {r}
    BY <1>d, <2>3, <2>5, OwnersOf DEF PoolInv
  <2>7. b \notin owned
    BY <1>e, <2>1, <2>6
  <2> QED BY <1>a, <1>b, <2>2, <2>3, <2>5, <2>7
<1>8. PoolInv'
  BY <1>2, <1>3, <1>4, <1>5, <1>6, <1>7 DEF PoolInv
<1>9. \A r \in Seqs :
        /\ block_table'[r] \in Seq(Blocks)
        /\ num_cached_tokens'[r] \in Nat
        /\ num_cached_tokens'[r] <= num_cached_tokens[r]
        /\ num_cached_tokens'[r] <= BlockSize * Len(block_table'[r])
        /\ Len(block_table'[r]) <= Len(block_table[r])
        /\ \A i \in 1 .. Len(block_table'[r]) : block_table'[r][i] = block_table[r][i]
  <2> SUFFICES ASSUME NEW r \in Seqs
               PROVE  /\ block_table'[r] \in Seq(Blocks)
                      /\ num_cached_tokens'[r] \in Nat
                      /\ num_cached_tokens'[r] <= num_cached_tokens[r]
                      /\ num_cached_tokens'[r] <= BlockSize * Len(block_table'[r])
                      /\ Len(block_table'[r]) <= Len(block_table[r])
                      /\ \A i \in 1 .. Len(block_table'[r]) : block_table'[r][i] = block_table[r][i]
    OBVIOUS
  <2>1. block_table'[r] \in Seq(Blocks) /\ num_cached_tokens'[r] \in Nat
    BY <1>2 DEF TypeOK
  <2>2. block_table[r] \in Seq(Blocks) /\ num_cached_tokens[r] \in Nat
    BY <1>d DEF TypeOK
  <2>3. num_cached_tokens[r] <= BlockSize * Len(block_table[r])
    BY DEF IInv, HashChain
  <2>4. BlockSize \in Nat
    BY DEF BlockManagerAssumption
  <2>5. CASE r = s
    <3>1. block_table'[r] = <<>> /\ num_cached_tokens'[r] = 0 /\ Len(<<>>) = 0
      BY <1>g, <2>5
    <3> QED BY <2>1, <2>2, <2>4, <3>1
  <2>6. CASE r # s
    BY <1>g, <2>1, <2>2, <2>3, <2>6
  <2> QED BY <2>5, <2>6
<1>10. HashChain' /\ CachedIsComputed' /\ IndexIsSound'
  BY <1>9, <1>b, ShrinkKeepsContents
<1> QED BY <1>8, <1>10 DEF IInv

\* Taking back the blocks of a failed decode step: each is the last of its table,
\* unpublished and owned by that row alone, so the rows give back distinct blocks.
LEMMA RollbackKeepsInv ==
  ASSUME BlockManagerAssumption, IInv, NEW rows \in RowGroups, RollbackAppends(rows)
  PROVE  IInv'
<1> DEFINE R == Range(rows)
           last(r) == block_table[r][Len(block_table[r])]
           cut(r) == SubSeq(block_table[r], 1, Len(block_table[r]) - 1)
           suffix == [i \in 1 .. Len(rows) |-> last(rows[i])]
           P == Range(suffix)
<1>a. rows \in Seq(Seqs) /\ IsInjective(rows)
  BY DEF RowGroups
<1>b. Len(rows) \in Nat /\ DOMAIN rows = 1 .. Len(rows) /\ \A i \in 1 .. Len(rows) : rows[i] \in Seqs
  BY <1>a
<1>c. /\ R \subseteq Seqs
      /\ \A i \in 1 .. Len(rows) : rows[i] \in R
      /\ \A r \in R : \E i \in 1 .. Len(rows) : rows[i] = r
  BY <1>a, ListRange
<1>d. /\ \A i \in 1 .. Len(rows) : ref_count[suffix[i]] = 1 /\ block_hash[suffix[i]] = NoHash
      /\ free_block_ids' = suffix \o free_block_ids
      /\ used_block_ids' = used_block_ids \ P
      /\ ref_count' = [b \in Blocks |-> IF b \in P THEN 0 ELSE ref_count[b]]
      /\ block_table' = [s \in Seqs |-> IF s \in R THEN cut(s) ELSE block_table[s]]
  BY DEF RollbackAppends, rollback_uncommitted_appends
<1>e. UNCHANGED <<block_hash, hash_to_block_id, token_ids, num_cached_tokens, kv>>
  BY DEF RollbackAppends, rollback_uncommitted_appends, indexVars
<1>f. PoolInv /\ TypeOK /\ BlockSize \in Nat \ {0}
  BY DEF IInv, PoolInv, BlockManagerAssumption
<1>g. \A s \in Seqs : /\ block_table[s] \in Seq(Blocks)
                      /\ IsInjective(block_table[s])
                      /\ num_cached_tokens[s] \in Nat
  BY <1>f DEF PoolInv, TypeOK, TablesInjective
<1>h. \A r \in R : /\ block_table[r] # <<>>
                   /\ num_cached_tokens[r] <= BlockSize * (Len(block_table[r]) - 1)
  BY DEF RollbackAppends
<1>1. ASSUME NEW r \in R
      PROVE  /\ Len(block_table[r]) \in Nat \ {0}
             /\ last(r) \in Range(block_table[r])
             /\ last(r) \in Blocks /\ last(r) \in used_block_ids
             /\ last(r) \notin Range(free_block_ids)
             /\ last(r) \in P
             /\ ref_count[last(r)] = 1
             /\ Owners(last(r)) = {r}
  <2>1. r \in Seqs /\ block_table[r] \in Seq(Blocks) /\ block_table[r] # <<>>
    BY <1>c, <1>g, <1>h
  <2>2. Len(block_table[r]) \in Nat \ {0}
    BY <2>1
  <2>3. last(r) \in Range(block_table[r])
    BY <2>1, <2>2 DEF Range
  <2>4. /\ last(r) \in Blocks /\ last(r) \in used_block_ids
        /\ last(r) \notin Range(free_block_ids) /\ r \in Owners(last(r))
    BY <1>f, <2>1, <2>3, OwnedIsUsed
  <2>5. PICK i \in 1 .. Len(rows) : rows[i] = r
    BY <1>c
  <2>6. suffix[i] = last(r)
    BY <2>5
  <2>7. last(r) \in P
    BY <2>5, <2>6 DEF Range
  <2>8. ref_count[last(r)] = 1
    BY <1>d, <2>5, <2>6
  <2>9. Owners(last(r)) = {r}
    BY <1>f, <2>4, <2>8, OwnersOf DEF PoolInv
  <2> QED BY <2>2, <2>3, <2>4, <2>7, <2>8, <2>9
<1>2. \A b \in P : \E r \in R : b = last(r)
  <2>1. DOMAIN suffix = 1 .. Len(rows) /\ \A i \in 1 .. Len(rows) : suffix[i] = last(rows[i])
    OBVIOUS
  <2> QED BY <1>c, <2>1 DEF Range
<1>3. suffix \in Seq(Blocks)
  <2>1. \A i \in 1 .. Len(rows) : last(rows[i]) \in Blocks
    BY <1>1, <1>c
  <2> QED BY <1>b, <2>1, IsASeq
<1>4. IsInjective(suffix)
  <2> SUFFICES ASSUME NEW i \in 1 .. Len(rows), NEW j \in 1 .. Len(rows),
                      last(rows[i]) = last(rows[j])
               PROVE  i = j
    BY DEF IsInjective
  <2>1. Owners(last(rows[i])) = {rows[i]} /\ Owners(last(rows[j])) = {rows[j]}
    BY <1>1, <1>c
  <2>2. rows[i] = rows[j]
    BY <2>1
  <2> QED BY <1>a, <1>b, <2>2 DEF IsInjective
<1> HIDE DEF suffix, P
<1>5. /\ \A s \in Seqs \ R : block_table'[s] = block_table[s]
      /\ \A s \in R : block_table'[s] = cut(s)
  BY <1>c, <1>d
<1>6. ASSUME NEW r \in R
      PROVE  /\ cut(r) \in Seq(Blocks)
             /\ Len(cut(r)) = Len(block_table[r]) - 1
             /\ \A i \in 1 .. Len(block_table[r]) - 1 : cut(r)[i] = block_table[r][i]
             /\ IsInjective(cut(r))
             /\ last(r) \notin Range(cut(r))
             /\ \A b \in Range(block_table[r]) : b # last(r) => b \in Range(cut(r))
             /\ Range(cut(r)) \subseteq Range(block_table[r])
  <2> DEFINE t == block_table[r]
             n == Len(block_table[r])
  <2>1. t \in Seq(Blocks) /\ IsInjective(t) /\ n \in Nat \ {0} /\ n = Len(t) /\ DOMAIN t = 1 .. n
    BY <1>1, <1>c, <1>g
  <2> HIDE DEF t, n
  <2>2. /\ SubSeq(t, 1, n - 1) \in Seq(Blocks)
        /\ Len(SubSeq(t, 1, n - 1)) = n - 1
        /\ DOMAIN SubSeq(t, 1, n - 1) = 1 .. n - 1
        /\ \A i \in 1 .. n - 1 : SubSeq(t, 1, n - 1)[i] = t[i]
    BY <2>1
  <2>3. IsInjective(SubSeq(t, 1, n - 1)) /\ t[n] \notin Range(SubSeq(t, 1, n - 1))
    BY <2>1, <2>2 DEF IsInjective, Range
  <2>4. /\ \A b \in Range(t) : b # t[n] => b \in Range(SubSeq(t, 1, n - 1))
        /\ Range(SubSeq(t, 1, n - 1)) \subseteq Range(t)
    <3> DEFINE u == SubSeq(t, 1, n - 1)
    <3>1. \A i \in 1 .. n - 1 : i \in 1 .. n /\ u[i] = t[i]
      BY <2>1, <2>2
    <3>2. DOMAIN u = 1 .. n - 1
      BY <2>2
    <3> HIDE DEF u
    <3>3. Range(u) \subseteq Range(t)
      BY <2>1, <3>1, <3>2 DEF Range
    <3>4. ASSUME NEW b \in Range(t), b # t[n] PROVE b \in Range(u)
      <4>1. PICK i \in 1 .. n : t[i] = b
        BY <2>1 DEF Range
      <4>2. i \in 1 .. n - 1
        BY <2>1, <3>4, <4>1
      <4> QED BY <3>1, <3>2, <4>1, <4>2 DEF Range
    <3> QED BY <3>3, <3>4 DEF u
  <2> QED BY <2>2, <2>3, <2>4 DEF t, n
<1>7. TypeOK'
  <2>1. free_block_ids' \in Seq(Blocks)
    BY <1>3, <1>d, <1>f DEF TypeOK
  <2>2. ref_count' \in [Blocks -> Nat] /\ used_block_ids' \in SUBSET Blocks
    BY <1>d, <1>f DEF TypeOK
  <2>3. block_table' \in [Seqs -> Seq(Blocks)]
    BY <1>6, <1>d, <1>g
  <2> QED BY <1>e, <1>f, <2>1, <2>2, <2>3 DEF TypeOK
<1>8. PoolPartition'
  <2>1. P \subseteq used_block_ids /\ P \cap Range(free_block_ids) = {}
    BY <1>1, <1>2
  <2>2. free_block_ids \in Seq(Blocks) /\ IsInjective(free_block_ids)
    BY <1>f DEF PoolInv, TypeOK, PoolPartition
  <2>3. IsInjective(free_block_ids')
    BY <1>3, <1>4, <1>d, <2>1, <2>2, ConcatInjective DEF P
  <2>4. Range(suffix \o free_block_ids) = P \cup Range(free_block_ids)
    BY <1>3, <2>2, RangeConcatenation DEF P
  <2> QED BY <1>d, <1>f, <2>1, <2>3, <2>4 DEF PoolInv, PoolPartition
<1>9. RefCountIsOwners'
  <2> SUFFICES ASSUME NEW b \in Blocks
               PROVE  /\ ref_count'[b] = Cardinality(Owners(b)')
                      /\ b \in used_block_ids' <=> ref_count'[b] > 0
    BY DEF RefCountIsOwners, Owners
  <2>1. Owners(b)' = {s \in Seqs : b \in Range(block_table'[s])}
    BY DEF Owners
  <2>2. CASE b \in P
    <3>1. PICK r \in R : b = last(r)
      BY <1>2, <2>2
    <3>2. Owners(b) = {r}
      BY <1>1, <3>1
    <3>3. \A s \in Seqs : b \notin Range(block_table'[s])
      <4> SUFFICES ASSUME NEW s \in Seqs, b \in Range(block_table'[s]) PROVE FALSE
        OBVIOUS
      <4>1. b \in Range(block_table[s])
        BY <1>5, <1>6
      <4>2. s = r
        BY <3>2, <4>1 DEF Owners
      <4> QED BY <1>5, <1>6, <3>1, <4>2
    <3>4. Owners(b)' = {}
      BY <2>1, <3>3
    <3> QED BY <1>d, <2>2, <3>4, FS_EmptySet
  <2>3. CASE b \notin P
    <3>1. ASSUME NEW s \in Seqs
          PROVE  b \in Range(block_table'[s]) <=> b \in Range(block_table[s])
      <4>1. CASE s \in R
        <5>1. b # last(s)
          BY <1>1, <2>3, <4>1
        <5> QED BY <1>5, <1>6, <4>1, <5>1
      <4>2. CASE s \notin R
        BY <1>5, <4>2
      <4> QED BY <4>1, <4>2
    <3>2. Owners(b)' = Owners(b)
      BY <2>1, <3>1 DEF Owners
    <3> QED BY <1>d, <1>f, <2>3, <3>2 DEF PoolInv, RefCountIsOwners
  <2> QED BY <2>2, <2>3
<1>10. TablesInjective'
  BY <1>5, <1>6, <1>g DEF TablesInjective
<1>11. IndexMatchesBlocks'
  BY <1>e, <1>f DEF PoolInv, IndexMatchesBlocks
<1>12. ASSUME NEW s \in Seqs
       PROVE  /\ block_table'[s] \in Seq(Blocks)
              /\ num_cached_tokens'[s] \in Nat
              /\ num_cached_tokens'[s] <= num_cached_tokens[s]
              /\ num_cached_tokens'[s] <= BlockSize * Len(block_table'[s])
              /\ Len(block_table'[s]) <= Len(block_table[s])
              /\ \A i \in 1 .. Len(block_table'[s]) : block_table'[s][i] = block_table[s][i]
  <2>1. num_cached_tokens[s] <= BlockSize * Len(block_table[s])
    BY DEF IInv, HashChain
  <2>2. CASE s \in R
    <3>1. Len(block_table[s]) \in Nat
      BY <1>1, <2>2
    <3>2. num_cached_tokens[s] \in Nat /\ num_cached_tokens'[s] = num_cached_tokens[s]
      BY <1>e, <1>g
    <3>3. num_cached_tokens[s] <= BlockSize * (Len(block_table[s]) - 1)
      BY <1>h, <2>2
    <3>4. /\ block_table'[s] \in Seq(Blocks)
          /\ Len(block_table'[s]) = Len(block_table[s]) - 1
          /\ \A i \in 1 .. Len(block_table[s]) - 1 : block_table'[s][i] = block_table[s][i]
      <4>1. block_table'[s] = cut(s)
        BY <1>5, <2>2
      <4>2. /\ cut(s) \in Seq(Blocks)
            /\ Len(cut(s)) = Len(block_table[s]) - 1
            /\ \A i \in 1 .. Len(block_table[s]) - 1 : cut(s)[i] = block_table[s][i]
        BY <1>6, <2>2
      <4> HIDE DEF cut
      <4> QED BY <4>1, <4>2
    <3> QED BY <3>1, <3>2, <3>3, <3>4
  <2>3. CASE s \notin R
    BY <1>5, <1>e, <1>g, <2>1, <2>3
  <2> QED BY <2>2, <2>3
<1>13. WritesArePrivate'
  <2> SUFFICES ASSUME NEW r \in Seqs, NEW i \in 1 .. Len(block_table'[r]),
                      i * BlockSize > num_cached_tokens'[r]
               PROVE  /\ ref_count'[block_table'[r][i]] = 1
                      /\ block_hash'[block_table'[r][i]] = NoHash
    BY DEF WritesArePrivate
  <2> DEFINE b == block_table[r][i]
  <2>1. i \in 1 .. Len(block_table[r]) /\ block_table'[r][i] = b
    BY <1>12, <1>g
  <2>2. ref_count[b] = 1 /\ block_hash[b] = NoHash
    BY <1>e, <1>f, <2>1 DEF PoolInv, WritesArePrivate
  <2>3. b \in Range(block_table[r]) /\ b \in Range(block_table'[r])
    <3>1. b \in Range(block_table[r])
      BY <1>g, <2>1 DEF Range
    <3>2. block_table'[r] \in Seq(Blocks)
      BY <1>12
    <3> QED BY <2>1, <3>1, <3>2 DEF Range
  <2>4. b \in Blocks /\ r \in Owners(b)
    BY <1>f, <2>3, OwnedIsUsed
  <2>5. b \notin P
    <3> SUFFICES ASSUME NEW q \in R, b = last(q) PROVE FALSE
      BY <1>2
    <3>1. Owners(last(q)) = {q}
      BY <1>1
    <3>2. q = r
      BY <2>4, <3>1
    <3> QED BY <1>5, <1>6, <2>3, <3>2
  <2> QED BY <1>d, <1>e, <2>1, <2>2, <2>4, <2>5
<1>14. PoolInv'
  BY <1>7, <1>8, <1>9, <1>10, <1>11, <1>13 DEF PoolInv
<1>15. HashChain' /\ CachedIsComputed' /\ IndexIsSound'
  <2> HIDE DEF R
  <2> QED BY <1>12, <1>e, ShrinkKeepsContents
<1> QED BY <1>14, <1>15 DEF IInv

-----------------------------------------------------------------------------
(* Steps that write, publish and append *)

\* The bookkeeping does not read the tokens or the cache.
LEMMA PoolInvStable ==
  ASSUME PoolInv, TypeOK',
         UNCHANGED <<free_block_ids, used_block_ids, ref_count, block_hash, hash_to_block_id>>,
         UNCHANGED <<block_table, num_cached_tokens>>
  PROVE  PoolInv'
<1>1. PoolPartition'
  BY DEF PoolInv, PoolPartition
<1>2. RefCountIsOwners'
  BY DEF PoolInv, RefCountIsOwners, Owners
<1>3. TablesInjective'
  BY DEF PoolInv, TablesInjective
<1>4. IndexMatchesBlocks'
  BY DEF PoolInv, IndexMatchesBlocks
<1>5. WritesArePrivate'
  BY DEF PoolInv, WritesArePrivate
<1> QED BY <1>1, <1>2, <1>3, <1>4, <1>5 DEF PoolInv

\* A step that only changes tokens past the cached ones keeps the invariant.
LEMMA TokensKeepInv ==
  ASSUME BlockManagerAssumption, IInv,
         UNCHANGED <<poolVars, indexVars, block_table, num_cached_tokens, kv>>,
         token_ids' \in [Seqs -> Seq(Token)],
         \A s \in Seqs :
           /\ num_cached_tokens[s] <= Len(token_ids'[s])
           /\ \A k \in 0 .. num_cached_tokens[s] :
                SubSeq(token_ids'[s], 1, k) = SubSeq(token_ids[s], 1, k)
  PROVE  IInv'
<1>a. /\ UNCHANGED <<free_block_ids, used_block_ids, ref_count, block_hash, hash_to_block_id>>
      /\ UNCHANGED <<block_table, num_cached_tokens, kv>>
  BY DEF poolVars, indexVars
<1>b. PoolInv
  BY DEF IInv
<1>c. \A s \in Seqs : num_cached_tokens[s] \in Nat /\ block_table[s] \in Seq(Blocks)
  BY <1>b DEF PoolInv, TypeOK
<1>1. PoolInv'
  <2>1. TypeOK'
    BY <1>a, <1>b DEF PoolInv, TypeOK
  <2> QED BY <1>a, <1>b, <2>1, PoolInvStable
<1>2. HashChain'
  <2> SUFFICES ASSUME NEW s \in Seqs
               PROVE  /\ num_cached_tokens[s] <= BlockSize * Len(block_table[s])
                      /\ \A i \in 1 .. Len(block_table[s]) :
                           i * BlockSize <= num_cached_tokens[s] =>
                             block_hash[block_table[s][i]] = SubSeq(token_ids'[s], 1, i * BlockSize)
    BY <1>a DEF HashChain, num_tokens, PrefixHash
  <2>1. ASSUME NEW i \in 1 .. Len(block_table[s]), i * BlockSize <= num_cached_tokens[s]
        PROVE  block_hash[block_table[s][i]] = SubSeq(token_ids'[s], 1, i * BlockSize)
    <3>1. i * BlockSize \in 0 .. num_cached_tokens[s]
      BY <1>c, <2>1 DEF BlockManagerAssumption
    <3>2. block_hash[block_table[s][i]] = SubSeq(token_ids[s], 1, i * BlockSize)
      BY <2>1 DEF IInv, HashChain, PrefixHash
    <3> QED BY <3>1, <3>2
  <2> QED BY <2>1 DEF IInv, HashChain
<1>3. CachedIsComputed'
  <2> SUFFICES ASSUME NEW s \in Seqs, NEW p \in 0 .. num_cached_tokens[s] - 1
               PROVE  kv[block_table[s][p \div BlockSize + 1]][p % BlockSize]
                        = SubSeq(token_ids'[s], 1, p + 1)
    BY <1>a DEF CachedIsComputed, Computed, Holds, SlotOf
  <2>1. kv[block_table[s][p \div BlockSize + 1]][p % BlockSize] = SubSeq(token_ids[s], 1, p + 1)
    BY DEF IInv, CachedIsComputed, Computed, Holds, SlotOf
  <2>2. p + 1 \in 0 .. num_cached_tokens[s]
    BY <1>c
  <2> QED BY <2>1, <2>2
<1>4. IndexIsSound'
  BY <1>a DEF IInv, IndexIsSound, Holds
<1> QED BY <1>1, <1>2, <1>3, <1>4 DEF IInv

\* A sequence is created with nothing cached.
LEMMA CreateKeepsInv ==
  ASSUME BlockManagerAssumption, IInv, NEW s \in Seqs, NEW prompt \in Prompts,
         Create(s, prompt)
  PROVE  IInv'
<1>1. /\ token_ids[s] = <<>>
      /\ token_ids' = [token_ids EXCEPT ![s] = prompt]
      /\ UNCHANGED <<poolVars, indexVars, block_table, num_cached_tokens, kv>>
  BY DEF Create, new_sequence
<1>2. prompt \in Seq(Token)
  BY DEF BlockManagerAssumption
<1>3. token_ids \in [Seqs -> Seq(Token)] /\ num_cached_tokens \in [Seqs -> Nat]
  BY DEF IInv, PoolInv, TypeOK
<1>4. token_ids' \in [Seqs -> Seq(Token)]
  BY <1>1, <1>2, <1>3
<1>5. \A r \in Seqs : num_cached_tokens[r] <= Len(token_ids[r])
  BY DEF IInv, HashChain, num_tokens
<1>6. ASSUME NEW r \in Seqs
      PROVE  /\ num_cached_tokens[r] <= Len(token_ids'[r])
             /\ \A k \in 0 .. num_cached_tokens[r] :
                  SubSeq(token_ids'[r], 1, k) = SubSeq(token_ids[r], 1, k)
  <2>1. CASE r = s
    <3>1. num_cached_tokens[r] = 0
      BY <1>1, <1>3, <1>5, <2>1
    <3>2. Len(token_ids'[r]) \in Nat
      BY <1>4
    <3>3. \A k \in 0 .. num_cached_tokens[r] : k = 0
      BY <3>1
    <3>4. SubSeq(token_ids'[r], 1, 0) = <<>> /\ SubSeq(token_ids[r], 1, 0) = <<>>
      BY SubSeqEmpty
    <3> QED BY <3>1, <3>2, <3>3, <3>4
  <2>2. CASE r # s
    BY <1>1, <1>3, <1>5, <2>2
  <2> QED BY <2>1, <2>2
<1> QED BY <1>1, <1>4, <1>6, TokensKeepInv

\* A generated token is appended after the cached ones.
LEMMA AppendKeepsInv ==
  ASSUME BlockManagerAssumption, IInv, NEW s \in Seqs, NEW t \in Token, AppendToken(s, t)
  PROVE  IInv'
<1>1. /\ token_ids' = [token_ids EXCEPT ![s] = Append(token_ids[s], t)]
      /\ UNCHANGED <<poolVars, indexVars, block_table, num_cached_tokens, kv>>
  BY DEF AppendToken, append_token
<1>3. token_ids \in [Seqs -> Seq(Token)] /\ num_cached_tokens \in [Seqs -> Nat]
  BY DEF IInv, PoolInv, TypeOK
<1>4. token_ids' \in [Seqs -> Seq(Token)]
  BY <1>1, <1>3
<1>5. \A r \in Seqs : num_cached_tokens[r] <= Len(token_ids[r])
  BY DEF IInv, HashChain, num_tokens
<1>6. ASSUME NEW r \in Seqs
      PROVE  /\ num_cached_tokens[r] <= Len(token_ids'[r])
             /\ \A k \in 0 .. num_cached_tokens[r] :
                  SubSeq(token_ids'[r], 1, k) = SubSeq(token_ids[r], 1, k)
  <2>1. CASE r = s
    <3> DEFINE u == token_ids[s]
               v == Append(token_ids[s], t)
    <3>1. u \in Seq(Token) /\ token_ids'[r] = v /\ token_ids[r] = u
      BY <1>1, <1>3, <2>1
    <3>2. v \in Seq(Token) /\ Len(v) = Len(u) + 1 /\ \A i \in 1 .. Len(u) : v[i] = u[i]
      BY <3>1
    <3>3. Len(u) \in Nat /\ num_cached_tokens[r] <= Len(u) /\ num_cached_tokens[r] \in Nat
      BY <1>3, <1>5, <3>1
    <3> HIDE DEF u, v
    <3>4. ASSUME NEW k \in 0 .. num_cached_tokens[r]
          PROVE  SubSeq(v, 1, k) = SubSeq(u, 1, k)
      <4>1. k \in 0 .. Len(u) /\ k \in 0 .. Len(v)
        BY <3>2, <3>3
      <4>2. SubSeq(u, 1, k) \in Seq(Token) /\ Len(SubSeq(u, 1, k)) = k
        BY <3>1, <4>1
      <4>3. SubSeq(v, 1, k) \in Seq(Token) /\ Len(SubSeq(v, 1, k)) = k
        BY <3>2, <4>1
      <4>4. \A i \in 1 .. k : SubSeq(v, 1, k)[i] = SubSeq(u, 1, k)[i]
        BY <3>1, <3>2, <4>1
      <4> QED BY <4>2, <4>3, <4>4, SeqEqual
    <3> QED BY <3>1, <3>2, <3>3, <3>4
  <2>2. CASE r # s
    BY <1>1, <1>3, <1>5, <2>2
  <2> QED BY <2>1, <2>2
<1> QED BY <1>1, <1>4, <1>6, TokensKeepInv

\* The block of a position past the cached ones belongs to its sequence alone.
LEMMA NextPositions ==
  ASSUME BlockManagerAssumption, IInv, NEW s \in Seqs, NEW p \in Nat,
         p >= num_cached_tokens[s], p < BlockSize * Len(block_table[s])
  PROVE  LET b == block_table[s][p \div BlockSize + 1]
         IN  /\ p \div BlockSize + 1 \in 1 .. Len(block_table[s])
             /\ p % BlockSize \in 0 .. BlockSize - 1
             /\ b \in Blocks
             /\ Owners(b) = {s}
             /\ block_hash[b] = NoHash
<1> DEFINE i == p \div BlockSize + 1
           b == block_table[s][i]
<1>1. /\ block_table[s] \in Seq(Blocks) /\ Len(block_table[s]) \in Nat
      /\ num_cached_tokens[s] \in Nat /\ BlockSize \in Nat \ {0}
  BY DEF IInv, PoolInv, TypeOK, BlockManagerAssumption
<1>2. /\ i \in 1 .. Len(block_table[s])
      /\ p % BlockSize \in 0 .. BlockSize - 1
      /\ p = BlockSize * (p \div BlockSize) + (p % BlockSize)
  BY <1>1, BlockOfPosition
<1>3. i * BlockSize > num_cached_tokens[s]
  <2>1. p \div BlockSize \in Nat
    BY <1>1, DivBounds
  <2> DEFINE k == p \div BlockSize
             o == p % BlockSize
  <2>2. k \in Nat /\ o \in 0 .. BlockSize - 1 /\ p = BlockSize * k + o /\ i = k + 1
    BY <1>2, <2>1
  <2> HIDE DEF i, k, o
  <2>3. i * BlockSize = BlockSize * k + BlockSize
    BY <1>1, <2>2
  <2>4. BlockSize * k \in Nat
    BY <1>1, <2>2
  <2> QED BY <1>1, <2>2, <2>3, <2>4
<1> HIDE DEF i
<1>4. ref_count[b] = 1 /\ block_hash[b] = NoHash
  <2>1. WritesArePrivate
    BY DEF IInv, PoolInv
  <2> QED BY <1>2, <1>3, <2>1 DEF WritesArePrivate
<1>5. b \in Range(block_table[s])
  <2>1. DOMAIN block_table[s] = 1 .. Len(block_table[s])
    BY <1>1
  <2> QED BY <1>2, <2>1 DEF Range
<1>6. b \in Blocks /\ s \in Owners(b)
  BY <1>5, OwnedIsUsed DEF IInv
<1>7. Owners(b) = {s}
  BY <1>4, <1>6, OwnersOf DEF IInv, PoolInv
<1> QED BY <1>2, <1>4, <1>6, <1>7 DEF i

\* A forward pass writes only slots past the cached ones, in private blocks: nobody's
\* cached position and no published block is touched.
LEMMA ForwardKeepsInv ==
  ASSUME BlockManagerAssumption, IInv, NEW n \in [Seqs -> 0 .. MaxLen], Forward(n)
  PROVE  IInv'
<1> DEFINE slot == PagedSlots(n)
           Written(b, o) == \E s \in Seqs : \E p \in DOMAIN slot[s] : slot[s][p] = <<b, o>>
<1>a. /\ UNCHANGED <<free_block_ids, used_block_ids, ref_count, block_hash, hash_to_block_id>>
      /\ UNCHANGED <<token_ids, block_table, num_cached_tokens>>
  BY DEF Forward, store_kvcache, poolVars, indexVars, seqVars
<1>b. /\ BlockSize \in Nat \ {0} /\ MaxLen \in Nat
      /\ \A s \in Seqs : /\ n[s] \in Nat /\ num_cached_tokens[s] \in Nat
                         /\ token_ids[s] \in Seq(Token) /\ block_table[s] \in Seq(Blocks)
                         /\ IsInjective(block_table[s])
  BY DEF BlockManagerAssumption, IInv, PoolInv, TypeOK, TablesInjective
<1>1. ASSUME NEW s \in Seqs, NEW p \in DOMAIN slot[s]
      PROVE  /\ p \in Nat
             /\ p >= num_cached_tokens[s]
             /\ p < num_tokens(s)
             /\ p < BlockSize * Len(block_table[s])
             /\ slot[s][p] = SlotOf(s, p)
  <2>1. p \in num_cached_tokens[s] .. num_cached_tokens[s] + n[s] - 1 /\ slot[s][p] = SlotOf(s, p)
    BY DEF PagedSlots
  <2>2. p \in Nat /\ n[s] > 0 /\ p >= num_cached_tokens[s] /\ p < num_cached_tokens[s] + n[s]
    BY <1>b, <2>1
  <2>3. /\ num_cached_tokens[s] + n[s] <= num_tokens(s)
        /\ num_cached_tokens[s] + n[s] <= BlockSize * Len(block_table[s])
    BY <2>2 DEF Forward, Covered
  <2>4. num_tokens(s) \in Nat /\ BlockSize * Len(block_table[s]) \in Nat
    BY <1>b DEF num_tokens
  <2> QED BY <1>b, <2>1, <2>2, <2>3, <2>4
<1> HIDE DEF slot
<1>2. ASSUME NEW b \in Blocks, NEW o \in 0 .. BlockSize - 1
      PROVE  /\ kv'[b][o] \in Seq(Token)
             /\ ~Written(b, o) => kv'[b][o] = kv[b][o]
  <2> DEFINE w == CHOOSE s \in Seqs : \E p \in DOMAIN slot[s] : slot[s][p] = <<b, o>>
             q == CHOOSE p \in DOMAIN slot[w] : slot[w][p] = <<b, o>>
  <2>1. kv'[b][o] = IF Written(b, o) THEN SubSeq(token_ids[w], 1, q + 1) ELSE kv[b][o]
    BY DEF Forward, store_kvcache, slot
  <2>2. CASE Written(b, o)
    <3>1. w \in Seqs /\ q \in DOMAIN slot[w]
      BY <2>2
    <3> HIDE DEF w, q
    <3>2. q \in Nat /\ q + 1 <= Len(token_ids[w]) /\ token_ids[w] \in Seq(Token)
      BY <1>1, <1>b, <3>1 DEF num_tokens
    <3>3. SubSeq(token_ids[w], 1, q + 1) \in Seq(Token)
      BY <3>2
    <3> QED BY <2>1, <2>2, <3>3
  <2>3. CASE ~Written(b, o)
    BY <2>1, <2>3 DEF IInv, PoolInv, TypeOK
  <2> QED BY <2>2, <2>3
<1>3. kv' \in [Blocks -> [0 .. BlockSize - 1 -> Seq(Token)]]
  <2> DEFINE G(b, o) ==
               IF Written(b, o)
               THEN LET w == CHOOSE s \in Seqs : \E p \in DOMAIN slot[s] : slot[s][p] = <<b, o>>
                        q == CHOOSE p \in DOMAIN slot[w] : slot[w][p] = <<b, o>>
                    IN  SubSeq(token_ids[w], 1, q + 1)
               ELSE kv[b][o]
  <2>1. kv' = [b \in Blocks |-> [o \in 0 .. BlockSize - 1 |-> G(b, o)]]
    BY DEF Forward, store_kvcache, slot
  <2> HIDE DEF G, Written
  <2>2. \A b \in Blocks : \A o \in 0 .. BlockSize - 1 : kv'[b][o] = G(b, o)
    BY <2>1
  <2>3. \A b \in Blocks : \A o \in 0 .. BlockSize - 1 : G(b, o) \in Seq(Token)
    BY <1>2, <2>2
  <2> QED BY <2>1, <2>3
<1>4. PoolInv'
  <2>1. PoolInv
    BY DEF IInv
  <2>2. TypeOK'
    BY <1>3, <1>a, <2>1 DEF PoolInv, TypeOK
  <2> QED BY <1>a, <2>1, <2>2, PoolInvStable
<1>5. HashChain'
  BY <1>a DEF IInv, HashChain, num_tokens, PrefixHash
<1>6. CachedIsComputed'
  <2> SUFFICES ASSUME NEW r \in Seqs, NEW q \in 0 .. num_cached_tokens[r] - 1
               PROVE  kv'[block_table[r][q \div BlockSize + 1]][q % BlockSize]
                        = SubSeq(token_ids[r], 1, q + 1)
    BY <1>a DEF CachedIsComputed, Computed, Holds, SlotOf
  <2> DEFINE j == q \div BlockSize + 1
             b == block_table[r][j]
             o == q % BlockSize
  <2>1. q \in Nat /\ q < num_cached_tokens[r] /\ num_cached_tokens[r] <= BlockSize * Len(block_table[r])
    BY <1>b DEF IInv, HashChain
  <2>2. /\ j \in 1 .. Len(block_table[r]) /\ o \in 0 .. BlockSize - 1
        /\ q = BlockSize * (q \div BlockSize) + o
    <3>1. q < BlockSize * Len(block_table[r]) /\ Len(block_table[r]) \in Nat
      BY <1>b, <2>1
    <3> QED BY <2>1, <3>1, BlockOfPosition
  <2>3. kv[b][o] = SubSeq(token_ids[r], 1, q + 1)
    BY DEF IInv, CachedIsComputed, Computed, Holds, SlotOf
  <2>4. b \in Range(block_table[r])
    BY <1>b, <2>2 DEF Range
  <2>5. b \in Blocks /\ r \in Owners(b)
    BY <2>4, OwnedIsUsed DEF IInv
  <2>6. ASSUME NEW s \in Seqs, NEW p \in DOMAIN slot[s], slot[s][p] = <<b, o>>
        PROVE  FALSE
    <3> DEFINE i == p \div BlockSize + 1
    <3>1. /\ p \in Nat /\ p >= num_cached_tokens[s]
          /\ p < BlockSize * Len(block_table[s])
          /\ block_table[s][i] = b /\ p % BlockSize = o
      BY <1>1, <2>6 DEF SlotOf
    <3>2. i \in 1 .. Len(block_table[s]) /\ Owners(b) = {s}
      BY <3>1, NextPositions
    <3>3. s = r
      BY <2>5, <3>2
    <3>4. i = j
      <4> HIDE DEF i, j
      <4> QED BY <1>b, <2>2, <3>1, <3>2, <3>3 DEF IsInjective
    <3>5. p = BlockSize * (p \div BlockSize) + (p % BlockSize) /\ p \div BlockSize \in Nat
      BY <1>b, <3>1, DivBounds
    <3>6. q \div BlockSize \in Nat
      BY <1>b, <2>1, DivBounds
    <3>7. p = q
      <4>1. p \div BlockSize = q \div BlockSize
        BY <3>4, <3>5, <3>6
      <4>2. p = BlockSize * (q \div BlockSize) + o
        BY <3>1, <3>5, <4>1
      <4> QED BY <2>2, <4>2
    <3> QED BY <1>b, <2>1, <3>1, <3>3, <3>7
  <2>7. kv'[b][o] = kv[b][o]
    BY <1>2, <2>2, <2>5, <2>6
  <2> QED BY <2>3, <2>7
<1>7. IndexIsSound'
  <2> SUFFICES ASSUME NEW h \in DOMAIN hash_to_block_id, NEW o \in 0 .. BlockSize - 1
               PROVE  kv'[hash_to_block_id[h]][o] = SubSeq(h, 1, Len(h) - BlockSize + o + 1)
    BY <1>a DEF IndexIsSound, Holds
  <2> DEFINE b == hash_to_block_id[h]
  <2>1. b \in Blocks /\ block_hash[b] # NoHash
    BY DEF IInv, PoolInv, TypeOK, IndexMatchesBlocks
  <2>2. kv[b][o] = SubSeq(h, 1, Len(h) - BlockSize + o + 1)
    BY DEF IInv, IndexIsSound, Holds
  <2>3. ASSUME NEW s \in Seqs, NEW p \in DOMAIN slot[s], slot[s][p] = <<b, o>>
        PROVE  FALSE
    <3>1. /\ p \in Nat /\ p >= num_cached_tokens[s]
          /\ p < BlockSize * Len(block_table[s])
          /\ block_table[s][p \div BlockSize + 1] = b
      BY <1>1, <2>3 DEF SlotOf
    <3>2. block_hash[b] = NoHash
      BY <3>1, NextPositions
    <3> QED BY <2>1, <3>2
  <2>4. kv'[b][o] = kv[b][o]
    BY <1>2, <2>1, <2>3
  <2> QED BY <2>2, <2>4
<1> QED BY <1>4, <1>5, <1>6, <1>7 DEF IInv

\* After a forward pass the positions it was for are in the cache: no two of them
\* share a slot, so none was written over.
LEMMA ForwardComputes ==
  ASSUME BlockManagerAssumption, IInv, NEW n \in [Seqs -> 0 .. MaxLen], Forward(n),
         NEW r \in Seqs, n[r] > 0
  PROVE  Computed(r, num_cached_tokens[r], num_cached_tokens[r] + n[r] - 1)'
<1> DEFINE slot == PagedSlots(n)
<1>a. UNCHANGED <<token_ids, block_table, num_cached_tokens>>
  BY DEF Forward, store_kvcache, seqVars
<1>b. /\ BlockSize \in Nat \ {0} /\ MaxLen \in Nat
      /\ \A s \in Seqs : /\ n[s] \in Nat /\ num_cached_tokens[s] \in Nat
                         /\ token_ids[s] \in Seq(Token) /\ block_table[s] \in Seq(Blocks)
                         /\ IsInjective(block_table[s])
  BY DEF BlockManagerAssumption, IInv, PoolInv, TypeOK, TablesInjective
<1>1. ASSUME NEW s \in Seqs, NEW p \in DOMAIN slot[s]
      PROVE  /\ p \in Nat
             /\ p >= num_cached_tokens[s]
             /\ p < BlockSize * Len(block_table[s])
             /\ slot[s][p] = SlotOf(s, p)
  <2>1. p \in num_cached_tokens[s] .. num_cached_tokens[s] + n[s] - 1 /\ slot[s][p] = SlotOf(s, p)
    BY DEF PagedSlots
  <2>2. p \in Nat /\ n[s] > 0 /\ p >= num_cached_tokens[s] /\ p < num_cached_tokens[s] + n[s]
    BY <1>b, <2>1
  <2>3. num_cached_tokens[s] + n[s] <= BlockSize * Len(block_table[s])
    BY <2>2 DEF Forward, Covered
  <2>4. BlockSize * Len(block_table[s]) \in Nat
    BY <1>b
  <2> QED BY <1>b, <2>1, <2>2, <2>3, <2>4
<1> SUFFICES ASSUME NEW q \in num_cached_tokens[r] .. num_cached_tokens[r] + n[r] - 1
             PROVE  kv'[block_table[r][q \div BlockSize + 1]][q % BlockSize]
                      = SubSeq(token_ids[r], 1, q + 1)
  BY <1>a DEF Computed, Holds, SlotOf
<1> DEFINE j == q \div BlockSize + 1
           b == block_table[r][j]
           o == q % BlockSize
<1>2. q \in DOMAIN slot[r]
  BY DEF PagedSlots
<1> HIDE DEF slot
<1>3. q \in Nat /\ q >= num_cached_tokens[r] /\ q < BlockSize * Len(block_table[r])
      /\ slot[r][q] = <<b, o>>
  BY <1>1, <1>2 DEF SlotOf
<1>4. /\ j \in 1 .. Len(block_table[r]) /\ o \in 0 .. BlockSize - 1
      /\ b \in Blocks /\ Owners(b) = {r}
  BY <1>3, NextPositions
<1>5. ASSUME NEW s \in Seqs, NEW p \in DOMAIN slot[s], slot[s][p] = <<b, o>>
      PROVE  s = r /\ p = q
  <2> DEFINE i == p \div BlockSize + 1
  <2>1. /\ p \in Nat /\ p >= num_cached_tokens[s]
        /\ p < BlockSize * Len(block_table[s])
        /\ block_table[s][i] = b /\ p % BlockSize = o
    BY <1>1, <1>5 DEF SlotOf
  <2>2. i \in 1 .. Len(block_table[s]) /\ Owners(b) = {s}
    BY <2>1, NextPositions
  <2>3. s = r
    BY <1>4, <2>2
  <2>4. i = j
    <3> HIDE DEF i, j
    <3> QED BY <1>b, <1>4, <2>1, <2>2, <2>3, SMTT(30) DEF IsInjective
  <2>5. p = BlockSize * (p \div BlockSize) + (p % BlockSize) /\ p \div BlockSize \in Nat
    BY <1>b, <2>1, DivBounds
  <2>6. q = BlockSize * (q \div BlockSize) + (q % BlockSize) /\ q \div BlockSize \in Nat
    BY <1>b, <1>3, DivBounds
  <2>7. p \div BlockSize = q \div BlockSize
    BY <2>4, <2>5, <2>6
  <2> QED BY <2>1, <2>3, <2>5, <2>6, <2>7
<1> HIDE DEF b, o, j
<1> DEFINE w == CHOOSE s \in Seqs : \E p \in DOMAIN slot[s] : slot[s][p] = <<b, o>>
           x == CHOOSE p \in DOMAIN slot[w] : slot[w][p] = <<b, o>>
<1>6. w \in Seqs /\ \E p \in DOMAIN slot[w] : slot[w][p] = <<b, o>>
  BY <1>2, <1>3
<1>7. x \in DOMAIN slot[w] /\ slot[w][x] = <<b, o>>
  BY <1>6
<1>8. kv'[b][o] = SubSeq(token_ids[w], 1, x + 1)
  BY <1>2, <1>3, <1>4 DEF Forward, store_kvcache, slot
<1> HIDE DEF w, x
<1>9. w = r /\ x = q
  BY <1>5, <1>6, <1>7
<1> QED BY <1>8, <1>9 DEF b, o, j

\* x \div b counts the multiples of b up to x.
LEMMA DivFloor ==
  ASSUME NEW b \in Nat \ {0}, NEW x \in Nat
  PROVE  x \div b \in Nat /\ \A i \in Nat : i <= x \div b <=> i * b <= x
<1> DEFINE k == x \div b
           o == x % b
<1>1. k \in Nat /\ o \in 0 .. b - 1 /\ x = b * k + o
  BY DivBounds
<1> HIDE DEF k, o
<1>2. ASSUME NEW i \in Nat, i <= k PROVE i * b <= x
  <2>1. b * i <= b * k
    BY <1>1, <1>2, MulMono
  <2>2. i * b = b * i /\ b * i \in Nat /\ b * k \in Nat
    BY <1>1
  <2> QED BY <1>1, <2>1, <2>2
<1>3. ASSUME NEW i \in Nat, k < i PROVE ~(i * b <= x)
  <2>1. b * k + b <= b * i
    BY <1>1, <1>3, MulStrict
  <2>2. i * b = b * i /\ b * i \in Nat /\ b * k \in Nat
    BY <1>1
  <2> QED BY <1>1, <2>1, <2>2
<1>4. \A i \in Nat : i <= k <=> i * b <= x
  BY <1>1, <1>2, <1>3
<1> QED BY <1>1, <1>4 DEF k

\* What hash_blocks does in terms of prefixes: the blocks that become full get the
\* hash of the prefix they end, because the block before them carries its own.
LEMMA CommitEffect ==
  ASSUME BlockManagerAssumption, IInv, NEW s \in Seqs, NEW n \in Nat, Commit(s, n)
  PROVE  \E lo, hi \in Nat :
           LET at == lo + 1 .. hi
               c == num_cached_tokens[s]
               t == block_table[s]
           IN  /\ \A i \in Nat : i <= lo <=> i * BlockSize <= c
               /\ \A i \in Nat : i <= hi <=> i * BlockSize <= c + n
               /\ \A i \in at : i \in 1 .. Len(t) /\ i * BlockSize <= num_tokens(s)
               /\ block_hash' \in [Blocks -> Seq(Token)]
               /\ \A i \in at : block_hash'[t[i]] = PrefixHash(s, i)
               /\ \A b \in Blocks : (\A i \in at : t[i] # b) => block_hash'[b] = block_hash[b]
               /\ DOMAIN hash_to_block_id' = DOMAIN hash_to_block_id \cup {PrefixHash(s, i) : i \in at}
               /\ \A i \in at : hash_to_block_id'[PrefixHash(s, i)] = t[i]
               /\ \A x \in DOMAIN hash_to_block_id :
                    (\A i \in at : PrefixHash(s, i) # x) =>
                      hash_to_block_id'[x] = hash_to_block_id[x]
               /\ hash_to_block_id' = [x \in DOMAIN hash_to_block_id' |-> hash_to_block_id'[x]]
<1> DEFINE c == num_cached_tokens[s]
           t == block_table[s]
           lo == c \div BlockSize
           hi == (c + n) \div BlockSize
           at == lo + 1 .. hi
           prefix == IF lo > 0 THEN block_hash[t[lo]] ELSE NoHash
           h(i) == prefix \o SubSeq(token_ids[s], lo * BlockSize + 1, i * BlockSize)
<1>a. /\ BlockSize \in Nat \ {0} /\ c \in Nat /\ t \in Seq(Blocks) /\ IsInjective(t)
      /\ token_ids[s] \in Seq(Token) /\ TypeOK /\ block_hash \in [Blocks -> Seq(Token)]
  BY DEF BlockManagerAssumption, IInv, PoolInv, TypeOK, TablesInjective
<1>b. /\ c + n <= num_tokens(s) /\ c + n <= BlockSize * Len(t)
      /\ num_tokens(s) \in Nat /\ Len(t) \in Nat
  BY <1>a DEF Commit, Covered, num_tokens
<1>c. c + n \in Nat
  BY <1>a
<1>1. /\ lo \in Nat /\ hi \in Nat
      /\ \A i \in Nat : i <= lo <=> i * BlockSize <= c
      /\ \A i \in Nat : i <= hi <=> i * BlockSize <= c + n
  <2> HIDE DEF c
  <2> QED BY <1>a, <1>c, DivFloor
<1>2. /\ block_hash' = [b \in Blocks |->
           IF \E i \in at : t[i] = b
           THEN h(CHOOSE i \in at : t[i] = b)
           ELSE block_hash[b]]
      /\ hash_to_block_id' =
           [x \in DOMAIN hash_to_block_id \cup {h(i) : i \in at} |->
              IF \E i \in at : h(i) = x
              THEN t[CHOOSE i \in at : h(i) = x]
              ELSE hash_to_block_id[x]]
  BY DEF Commit, commit, hash_blocks, Completed, ChainSoFar
<1>3. ASSUME NEW i \in Nat, i <= hi
      PROVE  i * BlockSize <= num_tokens(s) /\ i <= Len(t)
  <2> HIDE DEF c, t, lo, hi
  <2>1. i * BlockSize \in Nat /\ i * BlockSize <= c + n
    BY <1>1, <1>3, <1>a
  <2>2. BlockSize * i <= BlockSize * Len(t)
    <3>1. i * BlockSize = BlockSize * i /\ BlockSize * Len(t) \in Nat
      BY <1>a, <1>b
    <3> QED BY <1>b, <1>c, <2>1, <3>1
  <2>3. i <= Len(t)
    BY <1>a, <1>b, <2>2, MulOrder
  <2> QED BY <1>b, <1>c, <2>1, <2>3
<1>4. lo <= hi /\ prefix = PrefixHash(s, lo)
  <2>1. lo * BlockSize \in Nat /\ lo * BlockSize <= c
    <3> HIDE DEF c, lo, hi
    <3>1. lo <= lo
      BY <1>1
    <3> QED BY <1>1, <1>a, <3>1
  <2>2. lo <= hi
    <3> HIDE DEF c, lo, hi
    <3>1. lo * BlockSize <= c + n
      BY <1>a, <1>c, <2>1
    <3> QED BY <1>1, <3>1
  <2>3. CASE lo > 0
    <3>1. lo \in 1 .. Len(t)
      <4>1. lo <= Len(t)
        BY <1>1, <1>3, <2>2
      <4> QED BY <1>1, <1>b, <2>3, <4>1
    <3> QED BY <2>1, <2>2, <2>3, <3>1 DEF IInv, HashChain
  <2>4. CASE lo = 0
    <3>1. lo * BlockSize = 0
      BY <1>a, <2>4
    <3>2. SubSeq(token_ids[s], 1, 0) = <<>>
      BY SubSeqEmpty
    <3> QED BY <2>2, <2>4, <3>1, <3>2 DEF PrefixHash, NoHash
  <2> QED BY <1>1, <2>3, <2>4
<1> HIDE DEF lo, hi
<1>5. ASSUME NEW i \in at
      PROVE  /\ i \in 1 .. Len(t) /\ i * BlockSize <= num_tokens(s)
             /\ PrefixHash(s, i) \in Seq(Token)
             /\ Len(PrefixHash(s, i)) = i * BlockSize
             /\ h(i) = PrefixHash(s, i)
  <2>1. i \in Nat /\ lo < i /\ i <= hi
    BY <1>1
  <2>2. i \in 1 .. Len(t) /\ i * BlockSize <= num_tokens(s)
    BY <1>1, <1>3, <1>b, <2>1
  <2>3. PrefixHash(s, i) \in Seq(Token) /\ Len(PrefixHash(s, i)) = i * BlockSize
    BY <1>a, <2>1, <2>2, PrefixHashLen
  <2>4. lo * BlockSize \in Nat /\ lo * BlockSize <= i * BlockSize /\ i * BlockSize \in Nat
    <3>1. BlockSize \in Nat /\ lo \in Nat /\ i \in Nat /\ lo <= i
      BY <1>1, <1>a, <2>1
    <3>2. BlockSize * lo <= BlockSize * i
      BY <3>1, MulMono
    <3>3. lo * BlockSize = BlockSize * lo /\ i * BlockSize = BlockSize * i
      BY <3>1
    <3>4. BlockSize * lo \in Nat /\ BlockSize * i \in Nat
      BY <3>1
    <3> QED BY <3>2, <3>3, <3>4
  <2> DEFINE k == lo * BlockSize
             e == i * BlockSize
  <2>5. k \in 0 .. Len(token_ids[s]) /\ e \in k .. Len(token_ids[s])
    BY <1>b, <2>2, <2>4 DEF num_tokens
  <2> HIDE DEF k, e
  <2>6. SubSeq(token_ids[s], 1, k) \o SubSeq(token_ids[s], k + 1, e) = SubSeq(token_ids[s], 1, e)
    <3>1. k \in 1 - 1 .. Len(token_ids[s]) /\ 1 \in 1 .. Len(token_ids[s]) + 1
      BY <1>a, <2>5
    <3> QED BY <1>a, <2>5, <3>1, ConcatAdjacentSubSeq
  <2>7. h(i) = PrefixHash(s, i)
    BY <1>4, <2>6 DEF PrefixHash, k, e
  <2> QED BY <2>2, <2>3, <2>7
<1>6. ASSUME NEW i \in at, NEW j \in at, h(i) = h(j) \/ t[i] = t[j]
      PROVE  i = j
  <2>1. i \in Nat /\ j \in Nat
    BY <1>1
  <2>2. CASE h(i) = h(j)
    <3>1. i * BlockSize = j * BlockSize
      BY <1>5, <2>2
    <3> QED BY <1>a, <2>1, <3>1
  <2>3. CASE t[i] = t[j]
    <3>1. i \in DOMAIN t /\ j \in DOMAIN t
      <4>1. i \in 1 .. Len(t) /\ j \in 1 .. Len(t)
        BY <1>5
      <4> HIDE DEF t
      <4> QED BY <1>a, <4>1
    <3> HIDE DEF t
    <3> QED BY <1>a, <2>3, <3>1 DEF IsInjective
  <2> QED BY <1>6, <2>2, <2>3
<1>7. ASSUME NEW i \in at PROVE t[i] \in Blocks /\ h(i) \in Seq(Token)
  <2>1. i \in 1 .. Len(t) /\ h(i) \in Seq(Token)
    BY <1>5
  <2> HIDE DEF t, h
  <2> QED BY <1>a, <2>1
<1> HIDE DEF at, h, t, c
<1>8. /\ \A i \in at : block_hash'[t[i]] = h(i)
      /\ \A b \in Blocks : (\A i \in at : t[i] # b) => block_hash'[b] = block_hash[b]
      /\ block_hash' \in [Blocks -> Seq(Token)]
  <2>1. ASSUME NEW i \in at PROVE (CHOOSE j \in at : t[j] = t[i]) = i
    BY <1>6
  <2>2. \A i \in at : block_hash'[t[i]] = h(i)
    BY <1>2, <1>7, <2>1
  <2>3. \A b \in Blocks : (\A i \in at : t[i] # b) => block_hash'[b] = block_hash[b]
    BY <1>2
  <2>4. ASSUME NEW b \in Blocks PROVE block_hash'[b] \in Seq(Token)
    BY <1>7, <1>a, <2>2, <2>3
  <2> QED BY <1>2, <2>2, <2>3, <2>4
<1>9. /\ DOMAIN hash_to_block_id' = DOMAIN hash_to_block_id \cup {h(i) : i \in at}
      /\ \A i \in at : hash_to_block_id'[h(i)] = t[i]
      /\ \A x \in DOMAIN hash_to_block_id :
           (\A i \in at : h(i) # x) => hash_to_block_id'[x] = hash_to_block_id[x]
      /\ hash_to_block_id' = [x \in DOMAIN hash_to_block_id' |-> hash_to_block_id'[x]]
  <2>1. ASSUME NEW i \in at PROVE (CHOOSE j \in at : h(j) = h(i)) = i
    BY <1>6
  <2>2. \A i \in at : hash_to_block_id'[h(i)] = t[i]
    BY <1>2, <2>1
  <2> QED BY <1>2, <2>2
<1>10. {h(i) : i \in at} = {PrefixHash(s, i) : i \in at}
  BY <1>5
<1>11. \A i \in at : h(i) = PrefixHash(s, i) /\ i \in 1 .. Len(t) /\ i * BlockSize <= num_tokens(s)
  BY <1>5
<1>12. /\ \A i \in at : block_hash'[t[i]] = PrefixHash(s, i)
       /\ DOMAIN hash_to_block_id' = DOMAIN hash_to_block_id \cup {PrefixHash(s, i) : i \in at}
       /\ \A i \in at : hash_to_block_id'[PrefixHash(s, i)] = t[i]
       /\ \A x \in DOMAIN hash_to_block_id :
            (\A i \in at : PrefixHash(s, i) # x) => hash_to_block_id'[x] = hash_to_block_id[x]
  BY <1>8, <1>9, <1>10, <1>11
<1>13. lo \in Nat /\ hi \in Nat
  BY <1>1
<1> USE <1>13
<1> WITNESS lo \in Nat, hi \in Nat
<1> QED BY <1>1, <1>8, <1>9, <1>11, <1>12 DEF at, t, c

\* Publishing: the blocks that become full were private, so no other entry of the
\* index and no other sequence can be affected.
LEMMA CommitKeepsInv ==
  ASSUME BlockManagerAssumption, IInv, NEW s \in Seqs, NEW n \in Nat, Commit(s, n)
  PROVE  IInv'
<1> DEFINE c == num_cached_tokens[s]
           t == block_table[s]
<1>1. PICK lo \in Nat, hi \in Nat :
        LET at == lo + 1 .. hi
        IN  /\ \A i \in Nat : i <= lo <=> i * BlockSize <= c
            /\ \A i \in Nat : i <= hi <=> i * BlockSize <= c + n
            /\ \A i \in at : i \in 1 .. Len(t) /\ i * BlockSize <= num_tokens(s)
            /\ block_hash' \in [Blocks -> Seq(Token)]
            /\ \A i \in at : block_hash'[t[i]] = PrefixHash(s, i)
            /\ \A b \in Blocks : (\A i \in at : t[i] # b) => block_hash'[b] = block_hash[b]
            /\ DOMAIN hash_to_block_id' = DOMAIN hash_to_block_id \cup {PrefixHash(s, i) : i \in at}
            /\ \A i \in at : hash_to_block_id'[PrefixHash(s, i)] = t[i]
            /\ \A x \in DOMAIN hash_to_block_id :
                 (\A i \in at : PrefixHash(s, i) # x) =>
                   hash_to_block_id'[x] = hash_to_block_id[x]
            /\ hash_to_block_id' = [x \in DOMAIN hash_to_block_id' |-> hash_to_block_id'[x]]
  BY CommitEffect
<1> DEFINE at == lo + 1 .. hi
<1>a. /\ UNCHANGED <<free_block_ids, used_block_ids, ref_count, token_ids, block_table, kv>>
      /\ num_cached_tokens' = [num_cached_tokens EXCEPT ![s] = c + n]
  BY DEF Commit, commit, poolVars
<1>b. /\ BlockSize \in Nat \ {0} /\ c \in Nat /\ t \in Seq(Blocks) /\ IsInjective(t)
      /\ token_ids[s] \in Seq(Token) /\ TypeOK /\ PoolInv
      /\ \A r \in Seqs : num_cached_tokens[r] \in Nat /\ block_table[r] \in Seq(Blocks)
  BY DEF BlockManagerAssumption, IInv, PoolInv, TypeOK, TablesInjective
<1>c. /\ num_cached_tokens'[s] = c + n
      /\ \A r \in Seqs : r # s => num_cached_tokens'[r] = num_cached_tokens[r]
  BY <1>a, <1>b DEF TypeOK
<1>d. c + n <= num_tokens(s) /\ c + n <= BlockSize * Len(t) /\ num_tokens(s) \in Nat
  BY <1>b DEF Commit, Covered, num_tokens
<1>2. ASSUME NEW i \in at
      PROVE  /\ i \in Nat /\ i \in 1 .. Len(t)
             /\ t[i] \in Blocks
             /\ i * BlockSize > c
             /\ i * BlockSize <= c + n
             /\ i * BlockSize <= num_tokens(s)
             /\ ref_count[t[i]] = 1
             /\ block_hash[t[i]] = NoHash
             /\ Owners(t[i]) = {s}
             /\ PrefixHash(s, i) \in Seq(Token)
             /\ Len(PrefixHash(s, i)) = i * BlockSize
             /\ PrefixHash(s, i) # NoHash
  <2>1. i \in Nat /\ i > 0 /\ i > lo /\ i <= hi
    OBVIOUS
  <2>2. i \in 1 .. Len(t) /\ i * BlockSize <= num_tokens(s) /\ i * BlockSize <= c + n
    BY <1>1, <2>1
  <2>3. i * BlockSize > c
    <3>1. ~(i * BlockSize <= c)
      BY <1>1, <2>1
    <3>2. i * BlockSize \in Nat
      BY <1>b, <2>1
    <3> QED BY <1>b, <3>1, <3>2
  <2>4. ref_count[t[i]] = 1 /\ block_hash[t[i]] = NoHash
    BY <1>b, <2>2, <2>3 DEF PoolInv, WritesArePrivate
  <2>5. t[i] \in Range(block_table[s])
    BY <1>b, <2>2 DEF Range
  <2>6. t[i] \in Blocks /\ s \in Owners(t[i])
    BY <1>b, <2>5, OwnedIsUsed
  <2>7. Owners(t[i]) = {s}
    BY <1>b, <2>4, <2>6, OwnersOf DEF PoolInv
  <2>8. /\ PrefixHash(s, i) \in Seq(Token) /\ Len(PrefixHash(s, i)) = i * BlockSize
        /\ PrefixHash(s, i) # NoHash
    BY <1>b, <2>1, <2>2, PrefixHashLen
  <2> QED BY <2>1, <2>2, <2>3, <2>4, <2>6, <2>7, <2>8
<1>3. /\ \A i \in at : block_hash'[t[i]] = PrefixHash(s, i)
      /\ \A b \in Blocks : (\A i \in at : t[i] # b) => block_hash'[b] = block_hash[b]
      /\ block_hash' \in [Blocks -> Seq(Token)]
  BY <1>1
<1>4. /\ DOMAIN hash_to_block_id' = DOMAIN hash_to_block_id \cup {PrefixHash(s, i) : i \in at}
      /\ \A i \in at : hash_to_block_id'[PrefixHash(s, i)] = t[i]
      /\ \A x \in DOMAIN hash_to_block_id :
           (\A i \in at : PrefixHash(s, i) # x) => hash_to_block_id'[x] = hash_to_block_id[x]
      /\ hash_to_block_id' = [x \in DOMAIN hash_to_block_id' |-> hash_to_block_id'[x]]
  BY <1>1
<1>5. /\ \A i \in Nat : i <= lo <=> i * BlockSize <= c
      /\ \A i \in Nat : i <= hi <=> i * BlockSize <= c + n
  BY <1>1
<1> HIDE DEF at, c, t
<1>6. \A x \in DOMAIN hash_to_block_id' :
        \/ \E i \in at : x = PrefixHash(s, i) /\ hash_to_block_id'[x] = t[i]
        \/ x \in DOMAIN hash_to_block_id /\ hash_to_block_id'[x] = hash_to_block_id[x]
  BY <1>4
<1>7. TypeOK'
  <2>1. DOMAIN hash_to_block_id' \subseteq Seq(Token)
    BY <1>2, <1>4, <1>b DEF TypeOK
  <2>2. \A x \in DOMAIN hash_to_block_id' : hash_to_block_id'[x] \in Blocks
    BY <1>2, <1>6, <1>b DEF TypeOK
  <2>3. hash_to_block_id' \in [DOMAIN hash_to_block_id' -> Blocks]
    BY <1>4, <2>2
  <2>4. num_cached_tokens' \in [Seqs -> Nat]
    BY <1>a, <1>b DEF TypeOK
  <2> QED BY <1>3, <1>a, <1>b, <2>1, <2>3, <2>4 DEF TypeOK
<1>8. IndexMatchesBlocks'
  <2> SUFFICES ASSUME NEW x \in DOMAIN hash_to_block_id'
               PROVE  x # NoHash /\ block_hash'[hash_to_block_id'[x]] = x
    BY DEF IndexMatchesBlocks, NoHash
  <2>1. CASE \E i \in at : x = PrefixHash(s, i) /\ hash_to_block_id'[x] = t[i]
    BY <1>2, <1>3, <2>1
  <2>2. CASE x \in DOMAIN hash_to_block_id /\ hash_to_block_id'[x] = hash_to_block_id[x]
    <3> DEFINE b == hash_to_block_id[x]
    <3>1. b \in Blocks /\ x # NoHash /\ block_hash[b] = x
      BY <1>b, <2>2 DEF PoolInv, TypeOK, IndexMatchesBlocks
    <3>2. \A i \in at : t[i] # b
      BY <1>2, <3>1
    <3> QED BY <1>3, <2>2, <3>1, <3>2
  <2> QED BY <1>6, <2>1, <2>2
\* A block of another sequence is not among the published ones.
<1>9. ASSUME NEW r \in Seqs, r # s, NEW j \in 1 .. Len(block_table[r])
      PROVE  block_hash'[block_table[r][j]] = block_hash[block_table[r][j]]
  <2> DEFINE b == block_table[r][j]
  <2>1. b \in Range(block_table[r])
    BY <1>b DEF Range
  <2>2. b \in Blocks /\ r \in Owners(b)
    BY <1>b, <2>1, OwnedIsUsed
  <2>3. \A i \in at : t[i] # b
    <3> SUFFICES ASSUME NEW i \in at, t[i] = b PROVE FALSE
      OBVIOUS
    <3>1. Owners(t[i]) = {s}
      BY <1>2
    <3> QED BY <1>9, <2>2, <3>1
  <2> QED BY <1>3, <2>2, <2>3
<1>10. ASSUME NEW j \in 1 .. Len(t), j \notin at
       PROVE  block_hash'[t[j]] = block_hash[t[j]]
  <2>1. t[j] \in Blocks
    BY <1>b
  <2>2. \A i \in at : t[i] # t[j]
    BY <1>2, <1>10, <1>b DEF IsInjective
  <2> QED BY <1>3, <2>1, <2>2
<1>11. WritesArePrivate'
  <2> SUFFICES ASSUME NEW r \in Seqs, NEW j \in 1 .. Len(block_table[r]),
                      j * BlockSize > num_cached_tokens'[r]
               PROVE  /\ ref_count[block_table[r][j]] = 1
                      /\ block_hash'[block_table[r][j]] = NoHash
    BY <1>a DEF WritesArePrivate
  <2>0. WritesArePrivate
    BY <1>b DEF PoolInv
  <2>1. CASE r = s
    <3>1. j \in 1 .. Len(t) /\ j \in Nat /\ j * BlockSize \in Nat
      BY <1>b, <2>1 DEF t
    <3>2. j * BlockSize > c /\ j * BlockSize > c + n
      BY <1>b, <1>c, <2>1, <3>1
    <3>3. j \notin at
      BY <1>2, <1>b, <3>1, <3>2
    <3>4. ref_count[t[j]] = 1 /\ block_hash[t[j]] = NoHash
      BY <2>0, <3>1, <3>2 DEF WritesArePrivate, t, c
    <3> QED BY <1>10, <2>1, <3>1, <3>3, <3>4 DEF t
  <2>2. CASE r # s
    <3>1. j * BlockSize > num_cached_tokens[r]
      BY <1>c, <2>2
    <3> QED BY <1>9, <2>0, <2>2, <3>1 DEF WritesArePrivate
  <2> QED BY <2>1, <2>2
<1>12. PoolInv'
  <2>1. PoolPartition' /\ RefCountIsOwners' /\ TablesInjective'
    BY <1>a, <1>b DEF PoolInv, PoolPartition, RefCountIsOwners, Owners, TablesInjective
  <2> QED BY <1>7, <1>8, <1>11, <2>1 DEF PoolInv
<1>13. HashChain'
  <2> SUFFICES ASSUME NEW r \in Seqs
               PROVE  /\ num_cached_tokens'[r] <= num_tokens(r)
                      /\ num_cached_tokens'[r] <= BlockSize * Len(block_table[r])
                      /\ \A j \in 1 .. Len(block_table[r]) :
                           j * BlockSize <= num_cached_tokens'[r] =>
                             block_hash'[block_table[r][j]] = PrefixHash(r, j)
    BY <1>a DEF HashChain, num_tokens, PrefixHash
  <2>1. CASE r = s
    <3>1. ASSUME NEW j \in 1 .. Len(t), j * BlockSize <= c + n
          PROVE  block_hash'[t[j]] = PrefixHash(s, j)
      <4>1. j \in Nat /\ j > 0
        BY <1>b
      <4>2. CASE j <= lo
        <5>1. j \notin at
          BY <4>1, <4>2 DEF at
        <5>2. j * BlockSize <= c
          BY <1>5, <4>1, <4>2
        <5>3. block_hash[t[j]] = PrefixHash(s, j)
          BY <5>2 DEF IInv, HashChain, t, c
        <5> QED BY <1>10, <5>1, <5>3
      <4>3. CASE j > lo
        <5>1. j \in at
          BY <1>5, <3>1, <4>1, <4>3 DEF at
        <5> QED BY <1>3, <5>1
      <4> QED BY <4>1, <4>2, <4>3
    <3> QED BY <1>c, <1>d, <2>1, <3>1 DEF t
  <2>2. CASE r # s
    <3>1. num_cached_tokens'[r] = num_cached_tokens[r]
      BY <1>c, <2>2
    <3>2. \A j \in 1 .. Len(block_table[r]) :
            block_hash'[block_table[r][j]] = block_hash[block_table[r][j]]
      BY <1>9, <2>2
    <3> QED BY <3>1, <3>2 DEF IInv, HashChain
  <2> QED BY <2>1, <2>2
<1>14. ASSUME NEW r \in Seqs, NEW p \in 0 .. num_cached_tokens'[r] - 1
       PROVE  kv[block_table[r][p \div BlockSize + 1]][p % BlockSize]
                = SubSeq(token_ids[r], 1, p + 1)
  <2>1. CASE p \in 0 .. num_cached_tokens[r] - 1
    BY <2>1 DEF IInv, CachedIsComputed, Computed, Holds, SlotOf
  <2>2. CASE p \notin 0 .. num_cached_tokens[r] - 1
    <3>1. r = s
      BY <1>c, <2>2
    <3>2. p \in c .. c + n - 1
      BY <1>b, <1>c, <2>2, <3>1 DEF c
    <3> QED BY <3>1, <3>2 DEF Commit, Computed, Holds, SlotOf, c
  <2> QED BY <2>1, <2>2
<1>15. CachedIsComputed'
  BY <1>14, <1>a DEF CachedIsComputed, Computed, Holds, SlotOf
<1>16. IndexIsSound'
  <2> SUFFICES ASSUME NEW x \in DOMAIN hash_to_block_id', NEW o \in 0 .. BlockSize - 1
               PROVE  kv[hash_to_block_id'[x]][o] = SubSeq(x, 1, Len(x) - BlockSize + o + 1)
    BY <1>a DEF IndexIsSound, Holds
  <2>1. CASE \E i \in at : x = PrefixHash(s, i) /\ hash_to_block_id'[x] = t[i]
    <3>1. PICK i \in at : x = PrefixHash(s, i) /\ hash_to_block_id'[x] = t[i]
      BY <2>1
    <3>2. /\ i \in Nat /\ i > 0 /\ i * BlockSize <= c + n /\ i * BlockSize <= num_tokens(s)
          /\ Len(x) = i * BlockSize
      BY <1>2, <3>1
    <3> DEFINE k == i - 1
               p == BlockSize * k + o
    <3>3. k \in Nat /\ BlockSize * k \in Nat /\ i * BlockSize = BlockSize * k + BlockSize
      BY <1>b, <3>2
    <3>4. p \in Nat /\ p + 1 <= i * BlockSize /\ Len(x) - BlockSize + o + 1 = p + 1
      <4> HIDE DEF k
      <4>1. p \in Nat /\ p + 1 <= BlockSize * k + BlockSize
        <5> DEFINE e == BlockSize * k
        <5>1. e \in Nat /\ o \in Nat /\ o <= BlockSize - 1 /\ BlockSize \in Nat /\ p = e + o
          BY <1>b, <3>3
        <5> HIDE DEF e, p
        <5>2. p \in Nat /\ p + 1 <= e + BlockSize
          BY <5>1
        <5> QED BY <5>2 DEF e
      <4>2. Len(x) = BlockSize * k + BlockSize
        BY <3>2, <3>3
      <4>3. Len(x) - BlockSize + o + 1 = p + 1
        BY <1>b, <3>3, <4>2
      <4> QED BY <3>3, <4>1, <4>3
    <3>5. p \div BlockSize = k /\ p % BlockSize = o
      BY <1>b, <3>3, DivOf
    <3> HIDE DEF p
    <3>6. p \in 0 .. num_cached_tokens'[s] - 1
      BY <1>b, <1>c, <3>2, <3>3, <3>4
    <3>7. kv[t[k + 1]][o] = SubSeq(token_ids[s], 1, p + 1)
      BY <1>14, <3>5, <3>6 DEF t
    <3>8. SubSeq(x, 1, p + 1) = SubSeq(token_ids[s], 1, p + 1)
      <4> DEFINE e == i * BlockSize
      <4>1. e \in 0 .. Len(token_ids[s]) /\ p + 1 \in 0 .. e
        BY <1>b, <3>2, <3>3, <3>4 DEF num_tokens
      <4>2. x = SubSeq(token_ids[s], 1, e)
        BY <3>1 DEF PrefixHash
      <4> HIDE DEF e
      <4> QED BY <1>b, <4>1, <4>2, PrefixOfPrefix
    <3>9. k + 1 = i
      BY <3>2
    <3> QED BY <3>1, <3>4, <3>7, <3>8, <3>9
  <2>2. CASE x \in DOMAIN hash_to_block_id /\ hash_to_block_id'[x] = hash_to_block_id[x]
    BY <2>2 DEF IInv, IndexIsSound, Holds
  <2> QED BY <1>6, <2>1, <2>2
<1> QED BY <1>12, <1>13, <1>15, <1>16 DEF IInv

-----------------------------------------------------------------------------
(* The theorems *)

\* The empty allocator satisfies the invariant.
LEMMA InitInv == BlockManagerAssumption /\ Init => IInv
<1> SUFFICES ASSUME BlockManagerAssumption, Init PROVE IInv
  OBVIOUS
<1>a. /\ NumBlocks \in Nat \ {0} /\ BlockSize \in Nat \ {0}
      /\ free_block_ids = [i \in 1 .. NumBlocks |-> i - 1]
      /\ used_block_ids = {}
      /\ hash_to_block_id = <<>>
  BY DEF BlockManagerAssumption, Init
<1>b. \A s \in Seqs : /\ block_table[s] = <<>> /\ token_ids[s] = <<>>
                      /\ num_cached_tokens[s] = 0
  BY DEF Init
<1>c. Len(<<>>) = 0 /\ DOMAIN <<>> = {} /\ DOMAIN hash_to_block_id = {}
  BY <1>a
<1>1. TypeOK
  <2>1. free_block_ids \in Seq(Blocks)
    <3>1. \A i \in 1 .. NumBlocks : i - 1 \in Blocks
      BY <1>a DEF Blocks
    <3> QED BY <1>a, <3>1, IsASeq
  <2>2. hash_to_block_id \in [DOMAIN hash_to_block_id -> Blocks]
    BY <1>a, <1>c
  <2>3. /\ block_table \in [Seqs -> Seq(Blocks)] /\ token_ids \in [Seqs -> Seq(Token)]
        /\ block_hash \in [Blocks -> Seq(Token)]
    BY DEF Init, NoHash
  <2>4. /\ kv \in [Blocks -> [0 .. BlockSize - 1 -> Seq(Token)]]
        /\ ref_count \in [Blocks -> Nat] /\ num_cached_tokens \in [Seqs -> Nat]
    BY DEF Init
  <2> QED BY <1>a, <1>c, <2>1, <2>2, <2>3, <2>4 DEF TypeOK
<1>2. PoolPartition
  <2>1. DOMAIN free_block_ids = 1 .. NumBlocks /\ \A i \in 1 .. NumBlocks : free_block_ids[i] = i - 1
    BY <1>a
  <2>2. IsInjective(free_block_ids)
    BY <1>a, <2>1 DEF IsInjective
  <2>3. Range(free_block_ids) = Blocks
    <3>1. ASSUME NEW b \in Blocks PROVE b \in Range(free_block_ids)
      <4>1. b + 1 \in 1 .. NumBlocks /\ free_block_ids[b + 1] = b
        BY <1>a, <2>1 DEF Blocks
      <4> QED BY <2>1, <4>1 DEF Range
    <3>2. ASSUME NEW b \in Range(free_block_ids) PROVE b \in Blocks
      BY <1>a, <2>1 DEF Range, Blocks
    <3> QED BY <3>1, <3>2
  <2> QED BY <1>a, <2>2, <2>3 DEF PoolPartition
<1>3. RefCountIsOwners
  <2> SUFFICES ASSUME NEW b \in Blocks
               PROVE  /\ ref_count[b] = Cardinality(Owners(b))
                      /\ b \in used_block_ids <=> ref_count[b] > 0
    BY DEF RefCountIsOwners
  <2>1. Owners(b) = {}
    BY <1>b, <1>c DEF Owners, Range
  <2>2. ref_count[b] = 0
    BY DEF Init
  <2> QED BY <1>a, <2>1, <2>2, FS_EmptySet
<1>4. TablesInjective
  BY <1>b, <1>c DEF TablesInjective, IsInjective
<1>5. IndexMatchesBlocks /\ IndexIsSound
  BY <1>c DEF IndexMatchesBlocks, IndexIsSound
<1>6. WritesArePrivate
  BY <1>b, <1>c DEF WritesArePrivate
<1>7. HashChain
  BY <1>a, <1>b, <1>c DEF HashChain, num_tokens
<1>8. CachedIsComputed
  BY <1>b DEF CachedIsComputed, Computed
<1> QED BY <1>1, <1>2, <1>3, <1>4, <1>5, <1>6, <1>7, <1>8 DEF IInv, PoolInv

\* Every operation keeps the invariant: one case per disjunct of Next.
LEMMA NextInv == BlockManagerAssumption /\ IInv /\ [Next]_bmVars => IInv'
<1> SUFFICES ASSUME BlockManagerAssumption, IInv, [Next]_bmVars PROVE IInv'
  OBVIOUS
<1>a. MaxLen \in Nat /\ BlockSize \in Nat \ {0}
  BY DEF BlockManagerAssumption
<1>1. ASSUME NEW s \in Seqs, NEW prompt \in Prompts, Create(s, prompt) PROVE IInv'
  BY <1>1, CreateKeepsInv
<1>2. ASSUME NEW s \in Seqs, NEW c \in 0 .. num_blocks(s), NEW through \in 1 .. MaxLen,
             AllocateIncremental(s, c, through)
      PROVE  IInv'
  <2>1. num_blocks(s) \in Int
    <3>1. num_tokens(s) \in Nat
      BY DEF IInv, PoolInv, TypeOK, num_tokens
    <3> QED BY <1>a, <3>1 DEF num_blocks, BlocksFor
  <2>2. c \in Nat /\ through \in Nat
    BY <1>a, <2>1
  <2> QED BY <1>2, <2>2, AllocateKeepsInv
<1>3. ASSUME NEW s \in Seqs, NEW through \in 1 .. MaxLen, Extend(s, through) PROVE IInv'
  <2>1. missing_blocks(s, through) \in Nat
    <3>1. block_table[s] \in Seq(Blocks)
      BY DEF IInv, PoolInv, TypeOK
    <3>2. BlocksFor(through) \in Int /\ Len(block_table[s]) \in Nat
      BY <1>a, <3>1 DEF BlocksFor
    <3> QED BY <3>2 DEF missing_blocks
  <2> QED BY <1>3, <2>1, TakeKeepsInv DEF Extend, extend
<1>4. ASSUME NEW s \in Seqs, MayAppend(s) PROVE IInv'
  <2> DEFINE n == IF num_tokens(s) % BlockSize = 1 THEN 1 ELSE 0
  <2>1. n \in Nat /\ take_blocks(s, n)
    BY <1>4 DEF MayAppend, may_append
  <2> HIDE DEF n
  <2> QED BY <2>1, TakeKeepsInv
<1>5. ASSUME NEW s \in Seqs, Deallocate(s) PROVE IInv'
  BY <1>5, DeallocateKeepsInv DEF Deallocate
<1>6. ASSUME NEW s \in Seqs, NEW n \in 1 .. MaxLen, Commit(s, n) PROVE IInv'
  <2>1. n \in Nat
    BY <1>a
  <2> QED BY <1>6, <2>1, CommitKeepsInv
<1>7. ASSUME NEW s \in Seqs, NEW t \in Token, AppendToken(s, t) PROVE IInv'
  BY <1>7, AppendKeepsInv
<1>8. ASSUME NEW rows \in RowGroups, RollbackAppends(rows) PROVE IInv'
  BY <1>8, RollbackKeepsInv
<1>9. ASSUME NEW n \in [Seqs -> 0 .. MaxLen], Forward(n) PROVE IInv'
  BY <1>9, ForwardKeepsInv
<1>10. CASE UNCHANGED bmVars
  <2>1. UNCHANGED <<free_block_ids, used_block_ids, ref_count, block_hash, hash_to_block_id,
                    token_ids, block_table, num_cached_tokens, kv>>
    BY <1>10 DEF bmVars, poolVars, indexVars, seqVars
  <2>2. PoolInv'
    <3>1. TypeOK'
      BY <2>1 DEF IInv, PoolInv, TypeOK
    <3> QED BY <2>1, <3>1, PoolInvStable DEF IInv
  <2>3. HashChain'
    BY <2>1 DEF IInv, HashChain, num_tokens, PrefixHash
  <2>4. CachedIsComputed'
    BY <2>1 DEF IInv, CachedIsComputed, Computed, Holds, SlotOf
  <2>5. IndexIsSound'
    BY <2>1 DEF IInv, IndexIsSound, Holds
  <2> QED BY <2>2, <2>3, <2>4, <2>5 DEF IInv
<1> QED BY <1>1, <1>2, <1>3, <1>4, <1>5, <1>6, <1>7, <1>8, <1>9, <1>10 DEF Next

\* The invariant holds in every state of every allocator.
THEOREM Invariance == Spec => []IInv
<1>1. BlockManagerAssumption
  BY BlockManagerAssumption
<1>2. Init => IInv
  BY <1>1, InitInv
<1>3. IInv /\ [Next]_bmVars => IInv'
  BY <1>1, NextInv
<1> QED BY <1>2, <1>3, PTL DEF Spec

\* Every field of the allocator and of a sequence keeps its type under any sequence
\* of the operations of block_manager.py.
THEOREM TypeCorrect == Spec => []TypeOK
<1>1. IInv => TypeOK
  BY DEF IInv, PoolInv
<1> QED BY <1>1, Invariance, PTL

\* No block is lost, handed out twice or listed twice, whatever is allocated,
\* shared, released and rolled back (_allocate_block, _deallocate_block and the
\* rollback of a failed step).
THEOREM PoolIsPartitioned == Spec => []PoolPartition
<1>1. IInv => PoolPartition
  BY DEF IInv, PoolInv
<1> QED BY <1>1, Invariance, PTL

\* Reference counts count the tables that name a block: deallocate frees a shared
\* prefix block with its last owner and never before.
THEOREM RefCountsAreExact == Spec => []RefCountIsOwners
<1>1. IInv => RefCountIsOwners
  BY DEF IInv, PoolInv
<1> QED BY <1>1, Invariance, PTL

\* A forward pass only ever writes blocks of one owner that the index does not know.
THEOREM WritesStayPrivate == Spec => []WritesArePrivate
<1>1. IInv => WritesArePrivate
  BY DEF IInv, PoolInv
<1> QED BY <1>1, Invariance, PTL

\* A token counted as cached is in the cache, through all sharing, recycling and
\* preemption.
THEOREM CachedTokensAreComputed == Spec => []CachedIsComputed
<1>1. IInv => CachedIsComputed
  BY DEF IInv
<1> QED BY <1>1, Invariance, PTL

\* A prefix-cache hit returns the keys and values of that prefix and of no other.
THEOREM PrefixCacheIsSound == Spec => []IndexIsSound
<1>1. IInv => IndexIsSound
  BY DEF IInv
<1> QED BY <1>1, Invariance, PTL

\* Tables name a block once, an index entry a block that still carries its hash, and
\* no hash chain has a gap: what hash_blocks, _allocate_block and can_allocate read of
\* the metadata is never out of date.
THEOREM MetadataStaysConsistent == Spec => []MetadataIsConsistent
<1>1. IInv => MetadataIsConsistent
  BY DEF IInv, PoolInv, MetadataIsConsistent
<1> QED BY <1>1, Invariance, PTL
=============================================================================
