------------------------- MODULE TemporaryAppendProofs -------------------------
(***************************************************************************)
(* Proofs about the temporary append reservations of                       *)
(* nanovllm/engine/block_manager.py: whatever becomes of a reservation,    *)
(* the allocator's invariant holds before, during and after it.            *)
(*                                                                         *)
(* A reservation is a second allocator state, the one to go back to, so    *)
(* the allocator's invariant is stated for any state: AllocOK(A, m) of a   *)
(* record A of the host fields and cache contents m.  Its fields are those *)
(* of commit_speculative's own snapshot, which is a third such state.      *)
(***************************************************************************)
EXTENDS TemporaryAppend, BlockManagerProofs, WellFoundedInduction

-----------------------------------------------------------------------------
(* The allocator's invariant, of any state *)

AllocTypes(A, m) ==
  /\ A.free \in Seq(Blocks)
  /\ A.used \in SUBSET Blocks
  /\ A.refs \in [Blocks -> Nat]
  /\ A.hashes \in [Blocks -> Seq(Token)]
  /\ DOMAIN A.index \subseteq Seq(Token)
  /\ A.index \in [DOMAIN A.index -> Blocks]
  /\ A.tokens \in [Seqs -> Seq(Token)]
  /\ A.tables \in [Seqs -> Seq(Blocks)]
  /\ A.cached \in [Seqs -> Nat]
  /\ m \in [Blocks -> [0 .. BlockSize - 1 -> Seq(Token)]]

\* The sequences whose table in A names b.
OwnersIn(A, b) == {s \in Seqs : b \in Range(A.tables[s])}

\* The pool: PoolPartition and RefCountIsOwners.
AllocPool(A) ==
  /\ IsInjective(A.free)
  /\ Range(A.free) \cap A.used = {}
  /\ Range(A.free) \cup A.used = Blocks
  /\ \A b \in Blocks : /\ A.refs[b] = Cardinality(OwnersIn(A, b))
                       /\ b \in A.used <=> A.refs[b] > 0

\* The tables: TablesInjective, WritesArePrivate and HashChain.
AllocTable(A, s) ==
  /\ IsInjective(A.tables[s])
  /\ A.cached[s] <= Len(A.tokens[s])
  /\ A.cached[s] <= BlockSize * Len(A.tables[s])
  /\ \A i \in 1 .. Len(A.tables[s]) :
       IF i * BlockSize > A.cached[s]
       THEN A.refs[A.tables[s][i]] = 1 /\ A.hashes[A.tables[s][i]] = NoHash
       ELSE A.hashes[A.tables[s][i]] = SubSeq(A.tokens[s], 1, i * BlockSize)

\* The slot of position p of s in A.
SlotIn(A, s, p) == <<A.tables[s][p \div BlockSize + 1], p % BlockSize>>

\* The first n positions of s are in the cache m.
HoldsIn(A, m, s, n) ==
  \A p \in 0 .. n - 1 : m[SlotIn(A, s, p)[1]][SlotIn(A, s, p)[2]] = SubSeq(A.tokens[s], 1, p + 1)

\* The index: IndexMatchesBlocks and IndexIsSound.
AllocIndex(A, m) ==
  \A h \in DOMAIN A.index :
    /\ h # NoHash
    /\ A.hashes[A.index[h]] = h
    /\ \A o \in 0 .. BlockSize - 1 : m[A.index[h]][o] = SubSeq(h, 1, Len(h) - BlockSize + o + 1)

AllocOK(A, m) ==
  /\ AllocTypes(A, m)
  /\ AllocPool(A)
  /\ \A s \in Seqs : AllocTable(A, s)
  /\ \A s \in Seqs : HoldsIn(A, m, s, A.cached[s])
  /\ AllocIndex(A, m)

\* H is the current state, or the next one.
IsNow(H) ==
  /\ H.free = free_block_ids /\ H.used = used_block_ids /\ H.index = hash_to_block_id
  /\ H.refs = ref_count /\ H.hashes = block_hash /\ H.reservation = reservation
  /\ H.tokens = token_ids /\ H.tables = block_table /\ H.cached = num_cached_tokens
  /\ H.draft = num_draft_cached_tokens

IsNext(H) ==
  /\ H.free = free_block_ids' /\ H.used = used_block_ids' /\ H.index = hash_to_block_id'
  /\ H.refs = ref_count' /\ H.hashes = block_hash' /\ H.reservation = reservation'
  /\ H.tokens = token_ids' /\ H.tables = block_table' /\ H.cached = num_cached_tokens'
  /\ H.draft = num_draft_cached_tokens'

\* What AllocOK reads.
SameAlloc(A, B) ==
  /\ A.free = B.free /\ A.used = B.used /\ A.refs = B.refs /\ A.hashes = B.hashes
  /\ A.index = B.index /\ A.tokens = B.tokens /\ A.tables = B.tables /\ A.cached = B.cached

\* The invariant reads these fields only.
LEMMA SameOK ==
  ASSUME NEW A, NEW B, NEW m, SameAlloc(A, B), AllocOK(A, m)
  PROVE  AllocOK(B, m)
<1>1. AllocTypes(B, m)
  BY DEF SameAlloc, AllocOK, AllocTypes
<1>2. AllocPool(B)
  BY DEF SameAlloc, AllocOK, AllocPool, OwnersIn
<1>3. \A s \in Seqs : AllocTable(B, s)
  BY DEF SameAlloc, AllocOK, AllocTable
<1>4. \A s \in Seqs : HoldsIn(B, m, s, B.cached[s])
  BY DEF SameAlloc, AllocOK, HoldsIn, SlotIn
<1>5. AllocIndex(B, m)
  BY DEF SameAlloc, AllocOK, AllocIndex
<1> QED BY <1>1, <1>2, <1>3, <1>4, <1>5 DEF AllocOK

\* For the current state it is the allocator's invariant.
LEMMA CurrentOK ==
  ASSUME BlockManagerAssumption, NEW A, A.free = free_block_ids, A.used = used_block_ids,
         A.refs = ref_count, A.hashes = block_hash, A.index = hash_to_block_id,
         A.tokens = token_ids, A.tables = block_table, A.cached = num_cached_tokens
  PROVE  IInv <=> AllocOK(A, kv)
<1>1. TypeOK <=> AllocTypes(A, kv)
  BY DEF TypeOK, AllocTypes
<1>2. PoolPartition /\ RefCountIsOwners <=> AllocPool(A)
  BY DEF PoolPartition, RefCountIsOwners, Owners, AllocPool, OwnersIn
<1>3. ASSUME TypeOK
      PROVE  TablesInjective /\ WritesArePrivate /\ HashChain <=> \A s \in Seqs : AllocTable(A, s)
  <2>1. \A s \in Seqs : num_cached_tokens[s] \in Nat /\ BlockSize \in Nat /\ Len(block_table[s]) \in Nat
    BY <1>3 DEF TypeOK, BlockManagerAssumption
  <2>2. ASSUME NEW s \in Seqs, NEW i \in 1 .. Len(block_table[s])
        PROVE  ~(i * BlockSize > num_cached_tokens[s]) <=> i * BlockSize <= num_cached_tokens[s]
    BY <2>1
  <2> QED BY <2>2 DEF TablesInjective, WritesArePrivate, HashChain, PrefixHash, num_tokens, AllocTable
<1>4. CachedIsComputed <=> \A s \in Seqs : HoldsIn(A, kv, s, A.cached[s])
  BY DEF CachedIsComputed, Computed, Holds, SlotOf, HoldsIn, SlotIn
<1>5. IndexMatchesBlocks /\ IndexIsSound <=> AllocIndex(A, kv)
  BY DEF IndexMatchesBlocks, IndexIsSound, Holds, AllocIndex
<1> QED BY <1>1, <1>2, <1>3, <1>4, <1>5 DEF IInv, PoolInv, AllocOK

\* The same of the next state.
LEMMA NextOK ==
  ASSUME BlockManagerAssumption, NEW A, A.free = free_block_ids', A.used = used_block_ids',
         A.refs = ref_count', A.hashes = block_hash', A.index = hash_to_block_id',
         A.tokens = token_ids', A.tables = block_table', A.cached = num_cached_tokens'
  PROVE  IInv' <=> AllocOK(A, kv')
<1>1. TypeOK' <=> AllocTypes(A, kv')
  BY DEF TypeOK, AllocTypes
<1>2. PoolPartition' /\ RefCountIsOwners' <=> AllocPool(A)
  BY DEF PoolPartition, RefCountIsOwners, Owners, AllocPool, OwnersIn
<1>3. ASSUME TypeOK'
      PROVE  TablesInjective' /\ WritesArePrivate' /\ HashChain' <=> \A s \in Seqs : AllocTable(A, s)
  <2>1. \A s \in Seqs : num_cached_tokens'[s] \in Nat /\ BlockSize \in Nat /\ Len(block_table'[s]) \in Nat
    BY <1>3 DEF TypeOK, BlockManagerAssumption
  <2>2. ASSUME NEW s \in Seqs, NEW i \in 1 .. Len(block_table'[s])
        PROVE  ~(i * BlockSize > num_cached_tokens'[s]) <=> i * BlockSize <= num_cached_tokens'[s]
    BY <2>1
  <2> QED BY <2>2 DEF TablesInjective, WritesArePrivate, HashChain, PrefixHash, num_tokens, AllocTable
<1>4. CachedIsComputed' <=> \A s \in Seqs : HoldsIn(A, kv', s, A.cached[s])
  BY DEF CachedIsComputed, Computed, Holds, SlotOf, HoldsIn, SlotIn
<1>5. IndexMatchesBlocks' /\ IndexIsSound' <=> AllocIndex(A, kv')
  BY DEF IndexMatchesBlocks, IndexIsSound, Holds, AllocIndex
<1> QED BY <1>1, <1>2, <1>3, <1>4, <1>5 DEF IInv, PoolInv, AllocOK


-----------------------------------------------------------------------------
(* Growing, evicting and writing *)

\* The elements of a list that was extended.
LEMMA ConcatRange ==
  ASSUME NEW T, NEW s \in Seq(T), NEW t \in Seq(T)
  PROVE  /\ s \o t \in Seq(T)
         /\ Range(s \o t) = Range(s) \cup Range(t)
         /\ Len(s \o t) = Len(s) + Len(t)
         /\ \A i \in 1 .. Len(s) : (s \o t)[i] = s[i]
         /\ \A i \in Len(s) + 1 .. Len(s) + Len(t) : (s \o t)[i] = t[i - Len(s)]
<1>1. /\ s \o t \in Seq(T) /\ Len(s \o t) = Len(s) + Len(t)
      /\ Len(s) \in Nat /\ Len(t) \in Nat
      /\ \A i \in 1 .. Len(s) : (s \o t)[i] = s[i]
      /\ \A i \in Len(s) + 1 .. Len(s) + Len(t) : (s \o t)[i] = t[i - Len(s)]
  OBVIOUS
<1>2. /\ DOMAIN s = 1 .. Len(s) /\ DOMAIN t = 1 .. Len(t)
      /\ DOMAIN (s \o t) = 1 .. Len(s) + Len(t)
  OBVIOUS
<1>3. ASSUME NEW x \in Range(s \o t) PROVE x \in Range(s) \cup Range(t)
  <2>1. PICK i \in 1 .. Len(s) + Len(t) : (s \o t)[i] = x
    BY <1>2 DEF Range
  <2>2. CASE i <= Len(s)
    BY <1>1, <1>2, <2>1, <2>2 DEF Range
  <2>3. CASE i > Len(s)
    <3>1. i - Len(s) \in 1 .. Len(t) /\ x = t[i - Len(s)]
      BY <1>1, <2>1, <2>3
    <3> QED BY <1>2, <3>1 DEF Range
  <2> QED BY <1>1, <2>2, <2>3
<1>4. ASSUME NEW x \in Range(s) PROVE x \in Range(s \o t)
  <2>1. PICK i \in 1 .. Len(s) : s[i] = x
    BY <1>2 DEF Range
  <2>2. i \in 1 .. Len(s) + Len(t) /\ (s \o t)[i] = x
    BY <1>1, <2>1
  <2> QED BY <1>2, <2>2 DEF Range
<1>5. ASSUME NEW x \in Range(t) PROVE x \in Range(s \o t)
  <2>1. PICK i \in 1 .. Len(t) : t[i] = x
    BY <1>2 DEF Range
  <2>2. PICK j : j = i + Len(s)
    OBVIOUS
  <2>3. j \in Len(s) + 1 .. Len(s) + Len(t) /\ j - Len(s) = i /\ j \in 1 .. Len(s) + Len(t)
    BY <1>1, <2>2
  <2>4. (s \o t)[j] = x
    BY <1>1, <2>1, <2>3
  <2> QED BY <1>2, <2>3, <2>4 DEF Range
<1> QED BY <1>1, <1>3, <1>4, <1>5

\* The blocks of a table are in use; one with a single reference has a single owner.
LEMMA OwnedIn ==
  ASSUME BlockManagerAssumption, NEW A, NEW m, AllocTypes(A, m), AllocPool(A), NEW s \in Seqs,
         NEW b \in Range(A.tables[s])
  PROVE  /\ b \in Blocks /\ b \in A.used /\ b \notin Range(A.free)
         /\ \A t \in Seqs : A.refs[b] = 1 /\ b \in Range(A.tables[t]) => t = s
<1>1. b \in Blocks
  BY ListRange DEF AllocTypes
<1>2. s \in OwnersIn(A, b) /\ IsFiniteSet(OwnersIn(A, b))
  BY FS_Subset DEF OwnersIn, BlockManagerAssumption
<1>3. A.refs[b] \in Nat /\ A.refs[b] = Cardinality(OwnersIn(A, b))
  BY <1>1 DEF AllocPool, AllocTypes
<1>4. A.refs[b] # 0
  BY <1>2, <1>3, FS_EmptySet
<1>5. b \in A.used
  BY <1>1, <1>3, <1>4 DEF AllocPool
<1>6. ASSUME NEW t \in Seqs, A.refs[b] = 1, b \in Range(A.tables[t]) PROVE t = s
  <2>1. t \in OwnersIn(A, b)
    BY <1>6 DEF OwnersIn
  <2>2. PICK x : OwnersIn(A, b) = {x}
    BY <1>2, <1>3, <1>6, FS_Singleton
  <2> QED BY <1>2, <2>1, <2>2
<1> QED BY <1>1, <1>5, <1>6 DEF AllocPool

\* B is A after each s took the blocks g[s], in all K, off the free list.
Grown(A, B, K, g) ==
  /\ K \subseteq Range(A.free)
  /\ g \in [Seqs -> Seq(Blocks)]
  /\ \A s \in Seqs : IsInjective(g[s]) /\ Range(g[s]) \subseteq K
  /\ \A s, t \in Seqs : s # t => Range(g[s]) \cap Range(g[t]) = {}
  /\ \A b \in K : \E s \in Seqs : b \in Range(g[s])
  /\ B.free \in Seq(Blocks) /\ IsInjective(B.free) /\ Range(B.free) = Range(A.free) \ K
  /\ B.used = A.used \cup K
  /\ B.refs \in [Blocks -> Nat]
  /\ \A b \in Blocks : B.refs[b] = IF b \in K THEN 1 ELSE A.refs[b]
  /\ B.hashes \in [Blocks -> Seq(Token)]
  /\ \A b \in Blocks : B.hashes[b] = IF b \in K THEN NoHash ELSE A.hashes[b]
  /\ B.index = EvictBlocks(A.index, K)
  /\ B.tokens = A.tokens /\ B.cached = A.cached
  /\ B.tables \in [Seqs -> Seq(Blocks)]
  /\ \A s \in Seqs : B.tables[s] = A.tables[s] \o g[s]

\* Several sequences may take blocks at once.
LEMMA GrowOK ==
  ASSUME BlockManagerAssumption, NEW A, NEW B, NEW m, NEW K, NEW g, AllocOK(A, m), Grown(A, B, K, g)
  PROVE  AllocOK(B, m)
<1>a. AllocTypes(A, m) /\ AllocPool(A) /\ AllocIndex(A, m)
  BY DEF AllocOK
<1>b. K \subseteq Blocks /\ K \cap A.used = {}
  BY <1>a, ListRange DEF Grown, AllocPool, AllocTypes
<1>c. \A s \in Seqs : /\ A.tables[s] \in Seq(Blocks) /\ g[s] \in Seq(Blocks)
                      /\ B.tables[s] = A.tables[s] \o g[s]
  BY <1>a DEF AllocTypes, Grown
<1>d. \A s \in Seqs : Range(A.tables[s]) \cap K = {}
  BY <1>a, <1>b, OwnedIn
<1>g. ASSUME NEW s \in Seqs
      PROVE  /\ Range(B.tables[s]) = Range(A.tables[s]) \cup Range(g[s])
             /\ Len(B.tables[s]) = Len(A.tables[s]) + Len(g[s])
             /\ \A i \in 1 .. Len(A.tables[s]) : B.tables[s][i] = A.tables[s][i]
             /\ \A i \in Len(A.tables[s]) + 1 .. Len(A.tables[s]) + Len(g[s]) :
                  B.tables[s][i] = g[s][i - Len(A.tables[s])]
  <2>1. PICK x, y, z : x = A.tables[s] /\ y = g[s] /\ z = B.tables[s]
    OBVIOUS
  <2>2. x \in Seq(Blocks) /\ y \in Seq(Blocks) /\ z = x \o y
    BY <1>c, <2>1
  <2>3. /\ Range(x \o y) = Range(x) \cup Range(y)
        /\ Len(x \o y) = Len(x) + Len(y)
        /\ \A i \in 1 .. Len(x) : (x \o y)[i] = x[i]
        /\ \A i \in Len(x) + 1 .. Len(x) + Len(y) : (x \o y)[i] = y[i - Len(x)]
    BY <2>2, ConcatRange
  <2>4. /\ Range(z) = Range(x) \cup Range(y)
        /\ Len(z) = Len(x) + Len(y)
        /\ \A i \in 1 .. Len(x) : z[i] = x[i]
        /\ \A i \in Len(x) + 1 .. Len(x) + Len(y) : z[i] = y[i - Len(x)]
    BY ONLY <2>2, <2>3
  <2> QED BY ONLY <2>1, <2>4
<1>e. \A s \in Seqs : Range(B.tables[s]) = Range(A.tables[s]) \cup Range(g[s])
  BY <1>g
<1>f. /\ DOMAIN B.index = {h \in DOMAIN A.index : A.index[h] \notin K}
      /\ \A h \in DOMAIN B.index : B.index[h] = A.index[h]
  BY DEF Grown, EvictBlocks, Restrict
<1>1. AllocTypes(B, m)
  <2>1. DOMAIN B.index \subseteq Seq(Token) /\ B.index \in [DOMAIN B.index -> Blocks]
    <3>1. B.index = [h \in DOMAIN B.index |-> A.index[h]]
      BY DEF Grown, EvictBlocks, Restrict
    <3>2. \A h \in DOMAIN B.index : A.index[h] \in Blocks /\ h \in Seq(Token)
      BY <1>a, <1>f DEF AllocTypes
    <3> QED BY <3>1, <3>2
  <2>2. B.used \in SUBSET Blocks
    BY <1>a, <1>b DEF AllocTypes, Grown
  <2> QED BY <1>a, <2>1, <2>2 DEF AllocTypes, Grown
<1>2. AllocPool(B)
  <2>1. /\ IsInjective(B.free)
        /\ Range(B.free) \cap B.used = {}
        /\ Range(B.free) \cup B.used = Blocks
    BY <1>a DEF Grown, AllocPool
  <2>2. ASSUME NEW b \in K
        PROVE  B.refs[b] = Cardinality(OwnersIn(B, b)) /\ (b \in B.used <=> B.refs[b] > 0)
    <3>1. PICK s \in Seqs : b \in Range(g[s])
      BY DEF Grown
    <3>2. OwnersIn(B, b) = {s}
      BY <1>d, <1>e, <3>1 DEF OwnersIn, Grown
    <3>3. Cardinality({s}) = 1
      BY FS_Singleton
    <3>4. B.refs[b] = 1 /\ b \in B.used
      BY <1>b DEF Grown
    <3> QED BY <3>2, <3>3, <3>4
  <2>3. ASSUME NEW b \in Blocks, b \notin K
        PROVE  B.refs[b] = Cardinality(OwnersIn(B, b)) /\ (b \in B.used <=> B.refs[b] > 0)
    <3>1. OwnersIn(B, b) = OwnersIn(A, b)
      BY <1>e, <2>3 DEF OwnersIn, Grown
    <3>2. B.refs[b] = A.refs[b] /\ (b \in B.used <=> b \in A.used)
      BY <2>3 DEF Grown
    <3> QED BY <1>a, <3>1, <3>2 DEF AllocPool
  <2> QED BY <2>1, <2>2, <2>3 DEF AllocPool
<1>3. ASSUME NEW s \in Seqs PROVE AllocTable(B, s)
  <2>a. /\ AllocTable(A, s) /\ A.cached[s] \in Nat /\ BlockSize \in Nat \ {0}
        /\ Len(A.tables[s]) \in Nat /\ Len(g[s]) \in Nat
    BY <1>a, <1>c DEF AllocOK, AllocTypes, BlockManagerAssumption
  <2>b. /\ Len(B.tables[s]) = Len(A.tables[s]) + Len(g[s])
        /\ \A i \in 1 .. Len(A.tables[s]) : B.tables[s][i] = A.tables[s][i]
        /\ \A i \in Len(A.tables[s]) + 1 .. Len(A.tables[s]) + Len(g[s]) :
             B.tables[s][i] = g[s][i - Len(A.tables[s])]
    BY <1>g
  <2>c. Len(B.tables[s]) = Len(A.tables[s]) + Len(g[s])
    BY <2>b
  <2>d. PICK x \in Nat, z \in Nat : x = Len(A.tables[s]) /\ z = Len(g[s])
    BY <2>a
  <2>f. Len(B.tables[s]) = x + z
    BY <2>c, <2>d
  <2>e. PICK y \in Nat : y = Len(B.tables[s]) /\ y = x + z
    BY <2>f
  <2>1. IsInjective(B.tables[s])
    <3>1. IsInjective(A.tables[s]) /\ IsInjective(g[s]) /\ Range(A.tables[s]) \cap Range(g[s]) = {}
      BY <1>d, <2>a DEF AllocTable, Grown
    <3> QED BY <1>c, <3>1, ConcatInjective
  <2>2. B.cached[s] <= Len(B.tokens[s]) /\ B.cached[s] = A.cached[s] /\ B.tokens[s] = A.tokens[s]
    BY <2>a DEF AllocTable, Grown
  <2>3. BlockSize * Len(A.tables[s]) <= BlockSize * Len(B.tables[s])
    <3>1. BlockSize * x <= BlockSize * y
      BY <2>a, <2>e, MulMono
    <3> QED BY <2>d, <2>e, <3>1
  <2>4. A.cached[s] <= BlockSize * Len(A.tables[s])
    BY <2>a DEF AllocTable
  <2>5. B.cached[s] <= BlockSize * Len(B.tables[s])
    <3>1. PICK v \in Nat, w \in Nat : v = BlockSize * Len(A.tables[s]) /\ w = BlockSize * Len(B.tables[s])
      <4>1. BlockSize * x \in Nat /\ BlockSize * y \in Nat
        BY <2>a
      <4> QED BY <2>d, <2>e, <4>1
    <3> QED BY <2>a, <2>2, <2>3, <2>4, <3>1
  <2>6. ASSUME NEW i \in 1 .. Len(B.tables[s])
        PROVE  IF i * BlockSize > B.cached[s]
               THEN B.refs[B.tables[s][i]] = 1 /\ B.hashes[B.tables[s][i]] = NoHash
               ELSE B.hashes[B.tables[s][i]] = SubSeq(B.tokens[s], 1, i * BlockSize)
    <3>1. CASE i <= Len(A.tables[s])
      <4>1. i \in 1 .. Len(A.tables[s]) /\ B.tables[s][i] = A.tables[s][i]
        BY <2>a, <2>b, <3>1
      <4>2. A.tables[s][i] \in Blocks /\ A.tables[s][i] \notin K
        <5>1. A.tables[s][i] \in Range(A.tables[s]) /\ Range(A.tables[s]) \subseteq Blocks
          BY <1>c, <4>1, ListRange
        <5> QED BY <1>d, <5>1
      <4>3. B.refs[B.tables[s][i]] = A.refs[A.tables[s][i]] /\ B.hashes[B.tables[s][i]] = A.hashes[A.tables[s][i]]
        <5>1. \A b \in Blocks : b \notin K => B.refs[b] = A.refs[b] /\ B.hashes[b] = A.hashes[b]
          BY DEF Grown
        <5> QED BY ONLY <4>1, <4>2, <5>1
      <4>4. IF i * BlockSize > A.cached[s]
               THEN A.refs[A.tables[s][i]] = 1 /\ A.hashes[A.tables[s][i]] = NoHash
               ELSE A.hashes[A.tables[s][i]] = SubSeq(A.tokens[s], 1, i * BlockSize)
        BY <2>a, <4>1 DEF AllocTable
      <4> QED BY <2>2, <4>3, <4>4
    <3>2. CASE i > Len(A.tables[s])
      <4>1. i - Len(A.tables[s]) \in 1 .. Len(g[s]) /\ B.tables[s][i] = g[s][i - Len(A.tables[s])]
        <5>0. i \in 1 .. y /\ i > x
          BY <2>d, <2>e, <3>2
        <5>1. i - x \in 1 .. z /\ i \in x + 1 .. x + z
          BY <2>e, <5>0
        <5> QED BY <2>b, <2>d, <5>1
      <4>2. B.tables[s][i] \in Range(g[s])
        BY <1>c, <4>1, ListRange
      <4>3. B.tables[s][i] \in K /\ B.tables[s][i] \in Blocks
        BY <1>b, <4>2 DEF Grown
      <4>4. B.refs[B.tables[s][i]] = 1 /\ B.hashes[B.tables[s][i]] = NoHash
        BY <4>3 DEF Grown
      <4>5. BlockSize * Len(A.tables[s]) + BlockSize <= BlockSize * i
        BY <2>a, <3>2, MulStrict
      <4>6. i * BlockSize > B.cached[s]
        <5>1. PICK u \in Nat : u = BlockSize * Len(A.tables[s])
          BY <2>a
        <5>2. PICK w \in Nat : w = BlockSize * i /\ w = i * BlockSize
          BY <2>a
        <5> QED BY <2>a, <2>2, <2>4, <4>5, <5>1, <5>2
      <4> QED BY <4>4, <4>6
    <3> QED BY <2>a, <2>b, <3>1, <3>2
  <2> QED BY <2>1, <2>2, <2>5, <2>6 DEF AllocTable
<1>4. ASSUME NEW s \in Seqs PROVE HoldsIn(B, m, s, B.cached[s])
  <2> SUFFICES ASSUME NEW p \in 0 .. B.cached[s] - 1
               PROVE  m[SlotIn(B, s, p)[1]][SlotIn(B, s, p)[2]] = SubSeq(B.tokens[s], 1, p + 1)
    BY DEF HoldsIn
  <2>1. B.cached[s] = A.cached[s] /\ B.tokens[s] = A.tokens[s] /\ A.cached[s] \in Nat
    BY <1>a DEF Grown, AllocTypes
  <2>2. p \in Nat /\ p < A.cached[s] /\ A.cached[s] <= BlockSize * Len(A.tables[s])
    BY <2>1 DEF AllocOK, AllocTable
  <2>3. p \div BlockSize + 1 \in 1 .. Len(A.tables[s])
    <3>1. Len(A.tables[s]) \in Nat /\ BlockSize \in Nat \ {0}
      BY <1>c DEF BlockManagerAssumption
    <3>2. p < BlockSize * Len(A.tables[s])
      <4>1. PICK y \in Nat : y = BlockSize * Len(A.tables[s])
        BY <3>1
      <4> QED BY <2>1, <2>2, <4>1
    <3>3. /\ p \div BlockSize \in Nat /\ p % BlockSize \in 0 .. BlockSize - 1
          /\ p = BlockSize * (p \div BlockSize) + (p % BlockSize)
      BY <2>2, <3>1, DivBounds
    <3>4. PICK q \in Nat : q = p \div BlockSize
      BY <3>3
    <3>5. ASSUME Len(A.tables[s]) <= q PROVE FALSE
      <4>1. BlockSize * Len(A.tables[s]) <= BlockSize * q
        BY <3>1, <3>5, MulMono
      <4>2. PICK y \in Nat, z \in Nat : y = BlockSize * Len(A.tables[s]) /\ z = BlockSize * q
        BY <3>1
      <4> QED BY <2>2, <3>2, <3>3, <3>4, <4>1, <4>2
    <3> QED BY <3>1, <3>4, <3>5
  <2>4. B.tables[s][p \div BlockSize + 1] = A.tables[s][p \div BlockSize + 1]
    BY <1>g, <2>3
  <2>5. SlotIn(B, s, p) = SlotIn(A, s, p)
    BY <2>4 DEF SlotIn
  <2>6. HoldsIn(A, m, s, A.cached[s])
    BY DEF AllocOK
  <2> QED BY <2>1, <2>5, <2>6 DEF HoldsIn
<1>5. AllocIndex(B, m)
  <2> SUFFICES ASSUME NEW h \in DOMAIN B.index
               PROVE  /\ h # NoHash
                      /\ B.hashes[B.index[h]] = h
                      /\ \A o \in 0 .. BlockSize - 1 :
                           m[B.index[h]][o] = SubSeq(h, 1, Len(h) - BlockSize + o + 1)
    BY DEF AllocIndex
  <2>1. h \in DOMAIN A.index /\ B.index[h] = A.index[h] /\ A.index[h] \notin K /\ A.index[h] \in Blocks
    BY <1>a, <1>f DEF AllocTypes
  <2>2. B.hashes[A.index[h]] = A.hashes[A.index[h]]
    BY <2>1 DEF Grown
  <2> QED BY <1>a, <2>1, <2>2 DEF AllocIndex
<1> QED BY <1>1, <1>2, <1>3, <1>4, <1>5 DEF AllocOK

\* B is A, with the hashes and index entries of the free blocks K dropped.
Evicted(A, B, K) ==
  /\ K \subseteq Range(A.free)
  /\ B.free = A.free /\ B.used = A.used /\ B.refs = A.refs /\ B.tokens = A.tokens
  /\ B.tables = A.tables /\ B.cached = A.cached
  /\ B.hashes \in [Blocks -> Seq(Token)]
  /\ \A b \in Blocks : B.hashes[b] = IF b \in K THEN NoHash ELSE A.hashes[b]
  /\ B.index = EvictBlocks(A.index, K)

\* Free blocks may lose their hashes, with the entries that lead to them.
LEMMA EvictOK ==
  ASSUME BlockManagerAssumption, NEW A, NEW B, NEW m, NEW K, AllocOK(A, m), Evicted(A, B, K)
  PROVE  AllocOK(B, m)
<1>a. AllocTypes(A, m) /\ AllocPool(A) /\ AllocIndex(A, m)
  BY DEF AllocOK
<1>0. /\ K \subseteq Range(A.free)
      /\ B.free = A.free /\ B.used = A.used /\ B.refs = A.refs /\ B.tokens = A.tokens
      /\ B.tables = A.tables /\ B.cached = A.cached
      /\ B.hashes \in [Blocks -> Seq(Token)]
      /\ \A b \in Blocks : B.hashes[b] = IF b \in K THEN NoHash ELSE A.hashes[b]
      /\ B.index = EvictBlocks(A.index, K)
  BY DEF Evicted
<1> USE <1>0
<1>b. \A s \in Seqs : Range(A.tables[s]) \cap K = {}
  BY <1>a, OwnedIn
<1>f. /\ DOMAIN B.index = {h \in DOMAIN A.index : A.index[h] \notin K}
      /\ \A h \in DOMAIN B.index : B.index[h] = A.index[h]
  BY DEF EvictBlocks, Restrict
<1>1. AllocTypes(B, m)
  <2>1. DOMAIN B.index \subseteq Seq(Token) /\ B.index \in [DOMAIN B.index -> Blocks]
    <3>1. B.index = [h \in DOMAIN B.index |-> A.index[h]]
      BY DEF EvictBlocks, Restrict
    <3>2. \A h \in DOMAIN B.index : A.index[h] \in Blocks /\ h \in Seq(Token)
      BY <1>a, <1>f DEF AllocTypes
    <3> QED BY <3>1, <3>2
  <2> QED BY <1>a, <2>1 DEF AllocTypes
<1>2. AllocPool(B)
  <2>1. \A b : OwnersIn(B, b) = OwnersIn(A, b)
    BY DEF OwnersIn
  <2> QED BY <1>a, <2>1 DEF AllocPool
<1>3. ASSUME NEW s \in Seqs PROVE AllocTable(B, s)
  <2>1. AllocTable(A, s) /\ A.tables[s] \in Seq(Blocks)
    BY <1>a DEF AllocOK, AllocTypes
  <2>2. ASSUME NEW i \in 1 .. Len(A.tables[s])
        PROVE  B.hashes[A.tables[s][i]] = A.hashes[A.tables[s][i]]
    <3>1. A.tables[s][i] \in Range(A.tables[s]) /\ Range(A.tables[s]) \subseteq Blocks
      BY <2>1, ListRange
    <3> QED BY <1>b, <3>1
  <2>3. /\ IsInjective(A.tables[s]) /\ A.cached[s] <= Len(A.tokens[s])
        /\ A.cached[s] <= BlockSize * Len(A.tables[s])
    BY <2>1 DEF AllocTable
  <2>4. ASSUME NEW i \in 1 .. Len(A.tables[s])
        PROVE  IF i * BlockSize > A.cached[s]
               THEN A.refs[A.tables[s][i]] = 1 /\ B.hashes[A.tables[s][i]] = NoHash
               ELSE B.hashes[A.tables[s][i]] = SubSeq(A.tokens[s], 1, i * BlockSize)
    BY <2>1, <2>2 DEF AllocTable
  <2> QED BY <2>3, <2>4 DEF AllocTable
<1>4. \A s \in Seqs : HoldsIn(B, m, s, B.cached[s])
  <2>1. \A s \in Seqs : HoldsIn(A, m, s, A.cached[s])
    BY DEF AllocOK
  <2>2. \A s, p : SlotIn(B, s, p) = SlotIn(A, s, p)
    BY DEF SlotIn
  <2> QED BY <2>1, <2>2 DEF HoldsIn
<1>5. AllocIndex(B, m)
  <2> SUFFICES ASSUME NEW h \in DOMAIN B.index
               PROVE  /\ h # NoHash
                      /\ B.hashes[B.index[h]] = h
                      /\ \A o \in 0 .. BlockSize - 1 :
                           m[B.index[h]][o] = SubSeq(h, 1, Len(h) - BlockSize + o + 1)
    BY DEF AllocIndex
  <2>1. h \in DOMAIN A.index /\ B.index[h] = A.index[h] /\ A.index[h] \notin K /\ A.index[h] \in Blocks
    BY <1>a, <1>f DEF AllocTypes
  <2>2. B.hashes[A.index[h]] = A.hashes[A.index[h]]
    BY <2>1
  <2> QED BY <1>a, <2>1, <2>2 DEF AllocIndex
<1> QED BY <1>1, <1>2, <1>3, <1>4, <1>5 DEF AllocOK

\* The block of a position that the table of s covers.
LEMMA SlotBlock ==
  ASSUME BlockManagerAssumption, NEW l \in Nat, NEW p \in Nat, p < BlockSize * l
  PROVE  /\ p \div BlockSize + 1 \in 1 .. l
         /\ p % BlockSize \in 0 .. BlockSize - 1
         /\ p \div BlockSize \in Nat
         /\ p = BlockSize * (p \div BlockSize) + (p % BlockSize)
<1>1. BlockSize \in Nat \ {0}
  BY DEF BlockManagerAssumption
<1>2. /\ p \div BlockSize \in Nat /\ p % BlockSize \in 0 .. BlockSize - 1
      /\ p = BlockSize * (p \div BlockSize) + (p % BlockSize)
  BY <1>1, DivBounds
<1>3. PICK q \in Nat : q = p \div BlockSize
  BY <1>2
<1>4. ASSUME l <= q PROVE FALSE
  <2>1. BlockSize * l <= BlockSize * q
    BY <1>1, <1>4, MulMono
  <2>2. PICK y \in Nat, z \in Nat : y = BlockSize * l /\ z = BlockSize * q
    BY <1>1
  <2> QED BY <1>2, <1>3, <2>1, <2>2
<1> QED BY <1>2, <1>3, <1>4

\* A slot that no cached position uses, in a block without a hash, may be written.
LEMMA WriteOK ==
  ASSUME BlockManagerAssumption, NEW A, NEW m, NEW n, AllocOK(A, m),
         n \in [Blocks -> [0 .. BlockSize - 1 -> Seq(Token)]],
         \A b \in Blocks, o \in 0 .. BlockSize - 1 :
           n[b][o] # m[b][o] =>
             /\ A.hashes[b] = NoHash
             /\ \A s \in Seqs : \A p \in 0 .. A.cached[s] - 1 : SlotIn(A, s, p) # <<b, o>>
  PROVE  AllocOK(A, n)
<1>1. AllocTypes(A, n) /\ AllocPool(A) /\ \A s \in Seqs : AllocTable(A, s)
  BY DEF AllocOK, AllocTypes
<1>2. ASSUME NEW s \in Seqs PROVE HoldsIn(A, n, s, A.cached[s])
  <2> SUFFICES ASSUME NEW p \in 0 .. A.cached[s] - 1
               PROVE  n[SlotIn(A, s, p)[1]][SlotIn(A, s, p)[2]] = SubSeq(A.tokens[s], 1, p + 1)
    BY DEF HoldsIn
  <2>1. /\ A.cached[s] \in Nat /\ A.tables[s] \in Seq(Blocks)
        /\ A.cached[s] <= BlockSize * Len(A.tables[s])
    BY DEF AllocOK, AllocTypes, AllocTable
  <2>2. p \in Nat /\ p < BlockSize * Len(A.tables[s])
    <3>1. BlockSize * Len(A.tables[s]) \in Nat
      BY <2>1 DEF BlockManagerAssumption
    <3> QED BY <2>1, <3>1
  <2>3. p \div BlockSize + 1 \in 1 .. Len(A.tables[s]) /\ p % BlockSize \in 0 .. BlockSize - 1
    <3>1. Len(A.tables[s]) \in Nat
      BY <2>1
    <3> QED BY <2>2, <3>1, SlotBlock
  <2>4. PICK b, o : b = A.tables[s][p \div BlockSize + 1] /\ o = p % BlockSize
    OBVIOUS
  <2>5. b \in Blocks /\ o \in 0 .. BlockSize - 1 /\ SlotIn(A, s, p) = <<b, o>>
    BY <2>1, <2>3, <2>4, ListRange DEF SlotIn
  <2>6. n[b][o] = m[b][o]
    BY <2>5
  <2>7. m[SlotIn(A, s, p)[1]][SlotIn(A, s, p)[2]] = SubSeq(A.tokens[s], 1, p + 1)
    BY DEF AllocOK, HoldsIn
  <2> QED BY <2>5, <2>6, <2>7
<1>3. AllocIndex(A, n)
  <2> SUFFICES ASSUME NEW h \in DOMAIN A.index
               PROVE  /\ h # NoHash
                      /\ A.hashes[A.index[h]] = h
                      /\ \A o \in 0 .. BlockSize - 1 :
                           n[A.index[h]][o] = SubSeq(h, 1, Len(h) - BlockSize + o + 1)
    BY DEF AllocIndex
  <2>1. /\ h # NoHash
        /\ A.hashes[A.index[h]] = h
        /\ \A o \in 0 .. BlockSize - 1 :
             m[A.index[h]][o] = SubSeq(h, 1, Len(h) - BlockSize + o + 1)
    BY DEF AllocOK, AllocIndex
  <2>2. A.index[h] \in Blocks
    BY DEF AllocOK, AllocTypes
  <2> QED BY <2>1, <2>2
<1> QED BY <1>1, <1>2, <1>3 DEF AllocOK

-----------------------------------------------------------------------------
(* A live reservation *)

\* The state that a rollback of H's reservation leads to.
Before(H) ==
  [free |-> H.reservation.free_before,
   used |-> H.reservation.used_before,
   index |-> H.reservation.index_before,
   refs |-> Overlay(H.reservation.ref_before, H.refs),
   hashes |-> Overlay(H.reservation.hash_before, H.hashes),
   tokens |-> H.tokens,
   tables |-> Overlay(H.reservation.table_before, H.tables),
   cached |-> H.cached]

Borrowed(H) == Range(H.reservation.allocation_order)

\* The borrowed blocks of each sequence.
BorrowedBy(H) ==
  [s \in Seqs |-> IF s \in Range(H.reservation.rows) THEN H.reservation.appended[s] ELSE <<>>]

\* The fields of a reservation.
LeaseTypes(r) ==
  /\ r = [rows |-> r.rows, allocation_order |-> r.allocation_order, appended |-> r.appended,
          table_before |-> r.table_before, cached_before |-> r.cached_before,
          draft_before |-> r.draft_before, free_before |-> r.free_before,
          used_before |-> r.used_before, index_before |-> r.index_before,
          ref_before |-> r.ref_before, hash_before |-> r.hash_before]
  /\ r.rows \in Seq(Seqs) /\ r.rows # <<>>
  /\ r.allocation_order \in Seq(Blocks)
  /\ r.appended \in [Range(r.rows) -> Seq(Blocks)]
  /\ r.table_before \in [Range(r.rows) -> Seq(Blocks)]
  /\ DOMAIN r.cached_before = Range(r.rows)
  /\ DOMAIN r.draft_before = Range(r.rows)
  /\ DOMAIN r.ref_before =
       Range(r.allocation_order) \cup UNION {Range(r.table_before[s]) : s \in Range(r.rows)}
  /\ DOMAIN r.hash_before = DOMAIN r.ref_before

\* H holds a reservation: the state to go back to is sound, and H is that state after
\* the rows took the borrowed blocks.
Lease(H, m) ==
  /\ LeaseTypes(H.reservation)
  /\ H.tables \in [Seqs -> Seq(Blocks)]
  /\ AllocOK(Before(H), m)
  /\ Grown(Before(H), H, Borrowed(H), BorrowedBy(H))
  /\ H.reservation.free_before = H.reservation.allocation_order \o H.free
  /\ \A b \in DOMAIN H.reservation.ref_before \ Borrowed(H) :
       /\ H.refs[b] = H.reservation.ref_before[b]
       /\ H.hashes[b] = H.reservation.hash_before[b]
  /\ \A s \in Range(H.reservation.rows) :
       /\ H.cached[s] = H.reservation.cached_before[s]
       /\ H.draft[s] = H.reservation.draft_before[s]

\* The fields of the state to go back to.
LEMMA BeforeIs ==
  ASSUME NEW H, NEW A, A = Before(H)
  PROVE  /\ A.free = H.reservation.free_before
         /\ A.used = H.reservation.used_before
         /\ A.index = H.reservation.index_before
         /\ A.refs = Overlay(H.reservation.ref_before, H.refs)
         /\ A.hashes = Overlay(H.reservation.hash_before, H.hashes)
         /\ A.tokens = H.tokens
         /\ A.tables = Overlay(H.reservation.table_before, H.tables)
         /\ A.cached = H.cached
  BY DEF Before

\* The allocator's invariant holds under a reservation.
LEMMA LeaseOK ==
  ASSUME BlockManagerAssumption, NEW H, NEW m, Lease(H, m)
  PROVE  AllocOK(H, m)
<1>1. PICK A, K, g : A = Before(H) /\ K = Borrowed(H) /\ g = BorrowedBy(H)
  OBVIOUS
<1>2. AllocOK(A, m) /\ Grown(A, H, K, g)
  BY <1>1 DEF Lease
<1> QED BY <1>2, GrowOK

\* What the code checks when it gives a reservation back is true as long as it is live.
THEOREM LeaseIsLive ==
  ASSUME BlockManagerAssumption, NEW H, IsNow(H), Lease(H, kv)
  PROVE  ReservationIsLive /\ Live
<1>2. /\ H.free = free_block_ids /\ H.used = used_block_ids /\ H.index = hash_to_block_id
      /\ H.refs = ref_count /\ H.hashes = block_hash /\ H.reservation = reservation
      /\ H.tables = block_table /\ H.cached = num_cached_tokens /\ H.draft = num_draft_cached_tokens
  BY DEF IsNow
<1> DEFINE r == reservation
<1>4. PICK K : K = Range(r.allocation_order)
  OBVIOUS
<1>5. PICK A : A = Before(H)
  OBVIOUS
<1>6. /\ A.free = r.free_before /\ A.used = r.used_before /\ A.index = r.index_before
      /\ A.refs = Overlay(r.ref_before, H.refs) /\ A.hashes = Overlay(r.hash_before, H.hashes)
      /\ A.tables = Overlay(r.table_before, H.tables)
  BY <1>2, <1>5, BeforeIs
<1>7. /\ LeaseTypes(r) /\ AllocOK(A, kv) /\ Grown(A, H, K, BorrowedBy(H))
      /\ r.free_before = r.allocation_order \o free_block_ids
      /\ \A b \in DOMAIN r.ref_before \ K :
           ref_count[b] = r.ref_before[b] /\ block_hash[b] = r.hash_before[b]
      /\ \A s \in Range(r.rows) :
           num_cached_tokens[s] = r.cached_before[s] /\ num_draft_cached_tokens[s] = r.draft_before[s]
  BY <1>2, <1>4, <1>5 DEF Lease, Borrowed
<1>8. free_block_ids \in Seq(Blocks) /\ r.allocation_order \in Seq(Blocks)
  BY <1>2, <1>7 DEF Grown, LeaseTypes
<1>9. IsInjective(r.allocation_order)
  <2>1. IsInjective(r.allocation_order \o free_block_ids)
    BY <1>6, <1>7 DEF AllocOK, AllocPool
  <2>2. PICK x, y : x = r.allocation_order /\ y = free_block_ids
    OBVIOUS
  <2>3. DOMAIN x = 1 .. Len(x) /\ Len(x) \in Nat /\ DOMAIN (x \o y) = 1 .. Len(x) + Len(y) /\ Len(y) \in Nat
    BY <1>8, <2>2
  <2>4. \A i \in 1 .. Len(x) : (x \o y)[i] = x[i] /\ i \in DOMAIN (x \o y)
    BY <1>8, <2>2, <2>3
  <2> QED BY <2>1, <2>2, <2>3, <2>4 DEF IsInjective
<1>10. free_block_ids = SubSeq(r.free_before, Len(r.allocation_order) + 1, Len(r.free_before))
  <2>1. PICK x, y, z : x = r.allocation_order /\ y = free_block_ids /\ z = SubSeq(x \o y, Len(x) + 1, Len(x \o y))
    OBVIOUS
  <2>2. /\ Len(x) \in Nat /\ Len(y) \in Nat /\ Len(x \o y) = Len(x) + Len(y)
        /\ x \o y \in Seq(Blocks) /\ y \in Seq(Blocks)
        /\ \A i \in Len(x) + 1 .. Len(x) + Len(y) : (x \o y)[i] = y[i - Len(x)]
    BY <1>8, <2>1
  <2>3. z \in Seq(Blocks) /\ Len(z) = Len(y) /\ \A i \in 1 .. Len(y) : z[i] = (x \o y)[Len(x) + i]
    BY <2>1, <2>2
  <2>4. \A i \in 1 .. Len(y) : z[i] = y[i]
    <3> SUFFICES ASSUME NEW i \in 1 .. Len(y) PROVE z[i] = y[i]
      OBVIOUS
    <3>1. Len(x) + i \in Len(x) + 1 .. Len(x) + Len(y) /\ Len(x) + i - Len(x) = i
      BY <2>2
    <3> QED BY <2>2, <2>3, <3>1
  <2>5. z = y
    BY <2>2, <2>3, <2>4, SeqEqual
  <2> QED BY <1>7, <2>1, <2>5
<1>11. used_block_ids = r.used_before \cup K
  BY <1>2, <1>6, <1>7 DEF Grown
<1>12. hash_to_block_id = Restrict(r.index_before,
         {h \in DOMAIN r.index_before : ~\E b \in K : r.hash_before[b] = h /\ r.index_before[h] = b})
  <2>1. ASSUME NEW h \in DOMAIN r.index_before, r.index_before[h] \in K
        PROVE  r.hash_before[r.index_before[h]] = h
    <3>1. A.hashes[r.index_before[h]] = h /\ r.index_before[h] \in Blocks
      BY <1>6, <1>7 DEF AllocOK, AllocIndex, AllocTypes
    <3>2. r.index_before[h] \in DOMAIN r.hash_before
      BY <1>4, <1>7, <2>1 DEF LeaseTypes
    <3>3. block_hash \in [Blocks -> Seq(Token)]
      BY <1>2, <1>7 DEF Grown
    <3> QED BY <1>2, <1>6, <3>1, <3>2, <3>3 DEF Overlay
  <2>2. {h \in DOMAIN r.index_before : ~\E b \in K : r.hash_before[b] = h /\ r.index_before[h] = b}
          = {h \in DOMAIN r.index_before : r.index_before[h] \notin K}
    BY <2>1
  <2>3. hash_to_block_id = EvictBlocks(r.index_before, K)
    BY <1>2, <1>6, <1>7 DEF Grown
  <2> QED BY <2>2, <2>3 DEF EvictBlocks
<1>13. ASSUME NEW b \in DOMAIN r.ref_before
       PROVE  IF b \in K THEN ref_count[b] = 1 /\ block_hash[b] = NoHash
              ELSE ref_count[b] = r.ref_before[b] /\ block_hash[b] = r.hash_before[b]
  <2>1. K \subseteq Blocks
    BY <1>4, <1>8, ListRange
  <2> QED BY <1>2, <1>7, <2>1 DEF Grown
<1>14. ASSUME NEW s \in Range(r.rows) PROVE block_table[s] = r.table_before[s] \o r.appended[s]
  <2>1. s \in Seqs /\ s \in DOMAIN r.table_before
    BY <1>7, ListRange DEF LeaseTypes
  <2>2. block_table \in [Seqs -> Seq(Blocks)] /\ block_table[s] = A.tables[s] \o BorrowedBy(H)[s]
    BY <1>2, <1>7, <2>1 DEF Grown
  <2>3. A.tables[s] = r.table_before[s]
    BY <1>2, <1>6, <2>1, <2>2 DEF Overlay
  <2>4. BorrowedBy(H)[s] = r.appended[s]
    BY <1>2, <2>1 DEF BorrowedBy
  <2> QED BY <2>2, <2>3, <2>4
<1>15. Live
  BY <1>7 DEF Live, LeaseTypes
<1>16. DOMAIN r.ref_before = K \cup UNION {Range(r.table_before[s]) : s \in Range(r.rows)}
  BY <1>4, <1>7 DEF LeaseTypes
<1>17. ReservationIsLive
  <2>1. \A b \in DOMAIN r.ref_before :
          IF b \in Range(r.allocation_order) THEN ref_count[b] = 1 /\ block_hash[b] = NoHash
          ELSE ref_count[b] = r.ref_before[b] /\ block_hash[b] = r.hash_before[b]
    BY <1>4, <1>13
  <2>2. \A s \in Range(r.rows) :
          /\ block_table[s] = r.table_before[s] \o r.appended[s]
          /\ num_cached_tokens[s] = r.cached_before[s]
          /\ num_draft_cached_tokens[s] = r.draft_before[s]
    BY <1>7, <1>14
  <2>3. hash_to_block_id = Restrict(r.index_before,
          {h \in DOMAIN r.index_before :
             ~\E b \in Range(r.allocation_order) : r.hash_before[b] = h /\ r.index_before[h] = b})
    BY <1>4, <1>12
  <2>4. /\ DOMAIN r.ref_before =
             Range(r.allocation_order) \cup UNION {Range(r.table_before[s]) : s \in Range(r.rows)}
        /\ used_block_ids = r.used_before \cup Range(r.allocation_order)
    BY <1>4, <1>11, <1>16
  <2> QED BY <1>9, <1>10, <2>1, <2>2, <2>3, <2>4 DEF ReservationIsLive
<1> QED BY <1>15, <1>17

-----------------------------------------------------------------------------
(* Counting the blocks of a reservation *)

\* A set of naturals has a least element.
LEMMA LeastNat ==
  ASSUME NEW S, S \subseteq Nat, S # {}
  PROVE  \E x \in S : \A y \in S : x <= y
<1> DEFINE R == OpToRel(<, Nat)
<1>1. IsWellFoundedOn(R, Nat)
  BY NatLessThanWellFounded
<1>2. \A x, y \in Nat : <<x, y>> \in R <=> x < y
  BY DEF OpToRel
<1>3. PICK x \in S : \A y \in S : ~(<<y, x>> \in R)
  BY <1>1, WFMin
<1> HIDE DEF R
<1>4. ASSUME NEW y \in S PROVE x <= y
  <2>1. x \in Nat /\ y \in Nat
    OBVIOUS
  <2>2. ~(y < x)
    BY <1>2, <1>3, <2>1
  <2> QED BY <2>1, <2>2
<1> QED BY <1>4

\* The blocks of the first i rows, when row j takes nb[j].
Pairs(nb, i) == UNION {{j} \X (1 .. nb[j]) : j \in 1 .. i}

\* Counting them row by row.
LEMMA PairCount ==
  ASSUME NEW n \in Nat, NEW nb \in [1 .. n -> Nat]
  PROVE  /\ \A i \in 0 .. n : IsFiniteSet(Pairs(nb, i)) /\ Cardinality(Pairs(nb, i)) \in Nat
         /\ Cardinality(Pairs(nb, 0)) = 0
         /\ \A i \in 1 .. n : Cardinality(Pairs(nb, i)) = Cardinality(Pairs(nb, i - 1)) + nb[i]
         /\ \A i, j \in 0 .. n : i <= j => Cardinality(Pairs(nb, i)) <= Cardinality(Pairs(nb, j))
<1>1. ASSUME NEW i \in 0 .. n PROVE IsFiniteSet(Pairs(nb, i)) /\ Cardinality(Pairs(nb, i)) \in Nat
  <2>1. IsFiniteSet(1 .. i)
    BY IntervalCard
  <2> DEFINE F(j) == {j} \X (1 .. nb[j])
  <2>2. IsFiniteSet({F(j) : j \in 1 .. i})
    <3>1. [j \in 1 .. i |-> F(j)] \in Surjection(1 .. i, {F(j) : j \in 1 .. i})
      BY DEF Surjection
    <3> QED BY <2>1, <3>1, FS_Surjection
  <2>3. ASSUME NEW j \in 1 .. i PROVE IsFiniteSet(F(j))
    <3>1. IsFiniteSet({j})
      BY FS_Singleton
    <3>2. nb[j] \in Nat
      OBVIOUS
    <3>3. IsFiniteSet(1 .. nb[j])
      BY <3>2, IntervalCard
    <3> QED BY <3>1, <3>3, FS_Product
  <2> HIDE DEF F
  <2>4. IsFiniteSet(UNION {F(j) : j \in 1 .. i})
    BY <2>2, <2>3, FS_UNION
  <2>5. IsFiniteSet(Pairs(nb, i))
    BY <2>4 DEF Pairs, F
  <2> QED BY <2>5, FS_CardinalityType
<1>2. Cardinality(Pairs(nb, 0)) = 0
  <2>1. Pairs(nb, 0) = {}
    BY DEF Pairs
  <2> QED BY <2>1, FS_EmptySet
<1>3. ASSUME NEW i \in 1 .. n
      PROVE  Cardinality(Pairs(nb, i)) = Cardinality(Pairs(nb, i - 1)) + nb[i]
  <2>1. PICK P, Q, X : P = Pairs(nb, i - 1) /\ Q = Pairs(nb, i) /\ X = {i} \X (1 .. nb[i])
    OBVIOUS
  <2>2. IsFiniteSet(P) /\ Cardinality(P) \in Nat
    BY <1>1, <2>1
  <2>3. IsFiniteSet(X) /\ Cardinality(X) = nb[i]
    <3>1. IsFiniteSet({i}) /\ Cardinality({i}) = 1
      BY FS_Singleton
    <3>2. nb[i] \in Nat /\ IsFiniteSet(1 .. nb[i]) /\ Cardinality(1 .. nb[i]) = nb[i]
      BY IntervalCard
    <3>3. IsFiniteSet({i} \X (1 .. nb[i])) /\ Cardinality({i} \X (1 .. nb[i])) = Cardinality({i}) * Cardinality(1 .. nb[i])
      BY <3>1, <3>2, FS_Product
    <3> QED BY <2>1, <3>1, <3>2, <3>3
  <2>4. Q = P \cup X
    <3>1. 1 .. i = (1 .. i - 1) \cup {i}
      OBVIOUS
    <3> QED BY <2>1, <3>1 DEF Pairs
  <2>5. P \cap X = {}
    <3>1. \A j \in 1 .. i - 1 : j # i
      OBVIOUS
    <3> QED BY <2>1, <3>1 DEF Pairs
  <2>6. Cardinality(P \cap X) = 0
    BY <2>5, FS_EmptySet
  <2>7. Cardinality(P \cup X) = Cardinality(P) + Cardinality(X) - Cardinality(P \cap X)
    BY <2>2, <2>3, FS_Union
  <2>8. nb[i] \in Nat
    OBVIOUS
  <2> QED BY <2>1, <2>2, <2>3, <2>4, <2>6, <2>7, <2>8
<1>4. ASSUME NEW i \in 0 .. n, NEW j \in 0 .. n, i <= j
      PROVE  Cardinality(Pairs(nb, i)) <= Cardinality(Pairs(nb, j))
  <2>1. 1 .. i \subseteq 1 .. j
    BY <1>4
  <2>2. Pairs(nb, i) \subseteq Pairs(nb, j)
    BY <2>1 DEF Pairs
  <2> QED BY <1>1, <2>2, FS_Subset
<1> QED BY <1>1, <1>2, <1>3, <1>4

\* The head of f cut into consecutive slices, the j-th from T[j - 1] + 1 to T[j].
CutAt(sl, f, T, n) == sl = [j \in 1 .. n |-> SubSeq(f, T[j - 1] + 1, T[j])]

\* The slices split the set S of elements.
Splits(sl, T, n, B, S) ==
  /\ \A j \in 1 .. n : /\ sl[j] \in Seq(B)
                       /\ Len(sl[j]) = T[j] - T[j - 1]
                       /\ IsInjective(sl[j])
                       /\ Range(sl[j]) \subseteq S
  /\ \A i, j \in 1 .. n : i # j => Range(sl[i]) \cap Range(sl[j]) = {}
  /\ \A b \in S : \E j \in 1 .. n : b \in Range(sl[j])

\* Consecutive slices of a list share out its front without overlap.
LEMMA Slices ==
  ASSUME NEW B, NEW f \in Seq(B), IsInjective(f), NEW n \in Nat, NEW T \in [0 .. n -> Nat],
         T[0] = 0, T[n] <= Len(f), \A i, j \in 0 .. n : i <= j => T[i] <= T[j]
  PROVE  \A sl : CutAt(sl, f, T, n) => Splits(sl, T, n, B, Range(SubSeq(f, 1, T[n])))
<1> DEFINE slice(j) == SubSeq(f, T[j - 1] + 1, T[j])
           all == Range(SubSeq(f, 1, T[n]))
<1>a. Len(f) \in Nat /\ DOMAIN f = 1 .. Len(f)
  OBVIOUS
<1>b. ASSUME NEW j \in 1 .. n
      PROVE  T[j - 1] \in Nat /\ T[j] \in Nat /\ T[j - 1] <= T[j] /\ T[j] <= T[n] /\ T[j] <= Len(f)
  <2>1. j \in 0 .. n /\ j - 1 \in 0 .. n /\ n \in 0 .. n
    OBVIOUS
  <2>2. T[j - 1] \in Nat /\ T[j] \in Nat /\ T[n] \in Nat
    BY <2>1
  <2>3. T[j - 1] <= T[j] /\ T[j] <= T[n]
    BY <2>1
  <2> QED BY <1>a, <2>2, <2>3
<1>c. ASSUME NEW j \in 1 .. n
      PROVE  /\ slice(j) \in Seq(B) /\ Len(slice(j)) = T[j] - T[j - 1]
             /\ DOMAIN slice(j) = 1 .. T[j] - T[j - 1]
             /\ \A i \in 1 .. T[j] - T[j - 1] : slice(j)[i] = f[T[j - 1] + i]
  <2>1. PICK u \in Nat, v \in Nat : u = T[j - 1] /\ v = T[j] /\ u <= v /\ v <= Len(f)
    BY <1>b
  <2>2. /\ SubSeq(f, u + 1, v) \in Seq(B) /\ Len(SubSeq(f, u + 1, v)) = v - u
        /\ \A i \in 1 .. v - u : SubSeq(f, u + 1, v)[i] = f[u + i]
    <3>1. u + 1 \in Int /\ v \in Int /\ u \in Int
      BY <2>1
    <3>2. \A i \in u + 1 .. v : f[i] \in B
      BY <1>a, <2>1
    <3>3. PICK z : z = SubSeq(f, u + 1, v)
      OBVIOUS
    <3>4. /\ z \in Seq(B)
          /\ Len(z) = IF u + 1 <= v THEN v - (u + 1) + 1 ELSE 0
          /\ \A i \in 1 .. v - (u + 1) + 1 : z[i] = f[u + 1 + i - 1]
      BY <3>1, <3>2, <3>3, SubSeqProperties
    <3>a. u <= v
      BY ONLY <2>1
    <3>b. v - u = IF u + 1 <= v THEN v - (u + 1) + 1 ELSE 0
      BY ONLY <3>a, u \in Nat, v \in Nat
    <3>5. Len(z) = v - u
      BY ONLY <3>4, <3>b
    <3>6. ASSUME NEW i \in 1 .. v - u PROVE z[i] = f[u + i]
      <4>1. i \in 1 .. v - (u + 1) + 1 /\ u + 1 + i - 1 = u + i
        BY ONLY i \in 1 .. v - u, u \in Nat, v \in Nat
      <4> QED BY <3>4, <4>1
    <3> QED BY <3>3, <3>4, <3>5, <3>6
  <2>3. DOMAIN SubSeq(f, u + 1, v) = 1 .. v - u
    BY ONLY <2>2
  <2> QED BY ONLY <2>1, <2>2, <2>3 DEF slice
<1>d. /\ T[n] \in Nat /\ T[n] <= Len(f)
      /\ \A b : b \in all <=> \E i \in 1 .. T[n] : f[i] = b
  <2>1. n \in 0 .. n
    OBVIOUS
  <2>2. T[n] \in Nat
    BY <2>1
  <2>3. PICK v \in Nat : v = T[n]
    BY <2>2
  <2>4. DOMAIN SubSeq(f, 1, v) = 1 .. v /\ \A i \in 1 .. v : SubSeq(f, 1, v)[i] = f[i]
    BY <1>a, <2>3
  <2> QED BY <2>2, <2>3, <2>4 DEF Range
<1>e. \A sl : CutAt(sl, f, T, n) => \A j \in 1 .. n : sl[j] = slice(j)
  BY DEF CutAt
<1> HIDE DEF slice, all
<1>1. ASSUME NEW j \in 1 .. n PROVE IsInjective(slice(j))
  <2> SUFFICES ASSUME NEW x \in 1 .. T[j] - T[j - 1], NEW y \in 1 .. T[j] - T[j - 1], slice(j)[x] = slice(j)[y]
               PROVE  x = y
    BY <1>c DEF IsInjective
  <2>1. PICK u \in Nat, v \in Nat : u = T[j - 1] /\ v = T[j] /\ u <= v /\ v <= Len(f)
    BY <1>b
  <2>2. u + x \in 1 .. Len(f) /\ u + y \in 1 .. Len(f)
    <3>1. x \in 1 .. v - u /\ y \in 1 .. v - u
      BY ONLY <2>1, x \in 1 .. T[j] - T[j - 1], y \in 1 .. T[j] - T[j - 1]
    <3>2. PICK N \in Nat : N = Len(f) /\ v <= N
      BY ONLY <1>a, <2>1
    <3>3. u + x \in 1 .. N /\ u + y \in 1 .. N
      BY ONLY <3>1, <3>2, u \in Nat, v \in Nat
    <3> QED BY ONLY <3>2, <3>3
  <2>3. f[u + x] = f[u + y]
    BY <1>c, <2>1
  <2>4. u + x = u + y
    BY <1>a, <2>2, <2>3 DEF IsInjective
  <2> QED BY <2>1, <2>4
<1>2. ASSUME NEW j \in 1 .. n
      PROVE  \A b : b \in Range(slice(j)) <=> \E i \in T[j - 1] + 1 .. T[j] : f[i] = b
  <2>1. PICK u \in Nat, v \in Nat : u = T[j - 1] /\ v = T[j] /\ u <= v /\ v <= Len(f)
    BY <1>b
  <2>2. DOMAIN slice(j) = 1 .. v - u /\ \A i \in 1 .. v - u : slice(j)[i] = f[u + i]
    BY <1>c, <2>1
  <2>3. ASSUME NEW b \in Range(slice(j)) PROVE \E i \in u + 1 .. v : f[i] = b
    <3>1. PICK i \in 1 .. v - u : slice(j)[i] = b
      BY <2>2 DEF Range
    <3>2. u + i \in u + 1 .. v /\ f[u + i] = b
      <4>1. u + i \in u + 1 .. v
        BY ONLY u \in Nat, v \in Nat, i \in 1 .. v - u
      <4> QED BY ONLY <2>2, <3>1, <4>1
    <3> QED BY <3>2
  <2>4. ASSUME NEW i \in u + 1 .. v PROVE f[i] \in Range(slice(j))
    <3>1. i - u \in 1 .. v - u /\ u + (i - u) = i
      BY <2>1
    <3> QED BY <2>2, <3>1 DEF Range
  <2> QED BY <2>1, <2>3, <2>4
<1>3. ASSUME NEW j \in 1 .. n, NEW b \in Range(slice(j)) PROVE b \in all
  <2>1. PICK u \in Nat, v \in Nat : u = T[j - 1] /\ v = T[j] /\ u <= v /\ v <= T[n]
    BY <1>b
  <2>2. PICK i \in u + 1 .. v : f[i] = b
    BY <1>2, <1>3, <2>1
  <2>3. i \in 1 .. T[n]
    BY <1>d, <2>1, <2>2
  <2> QED BY <1>d, <2>2, <2>3
<1>4. ASSUME NEW i \in 1 .. n, NEW j \in 1 .. n, i < j PROVE Range(slice(i)) \cap Range(slice(j)) = {}
  <2> SUFFICES ASSUME NEW b \in Range(slice(i)), b \in Range(slice(j)) PROVE FALSE
    OBVIOUS
  <2>1. PICK x \in T[i - 1] + 1 .. T[i] : f[x] = b
    BY <1>2
  <2>2. PICK y \in T[j - 1] + 1 .. T[j] : f[y] = b
    BY <1>2
  <2>3. T[i] <= T[j - 1]
    <3>1. i \in 0 .. n /\ j - 1 \in 0 .. n /\ i <= j - 1
      BY <1>4
    <3> QED BY <3>1
  <2>4. x \in 1 .. Len(f) /\ y \in 1 .. Len(f) /\ x < y
    <3>1. PICK u \in Nat, v \in Nat, w \in Nat, z \in Nat : u = T[i - 1] /\ v = T[i] /\ w = T[j - 1] /\ z = T[j]
      BY <1>b
    <3>2. v <= Len(f) /\ z <= Len(f) /\ v <= w
      BY <1>b, <2>3, <3>1
    <3>3. x \in u + 1 .. v /\ y \in w + 1 .. z
      BY <3>1
    <3>4. PICK N \in Nat : N = Len(f) /\ v <= N /\ z <= N
      BY ONLY <1>a, <3>2
    <3>5. v <= w /\ v <= N /\ z <= N
      BY ONLY <3>2, <3>4
    <3>6. x \in Int /\ u + 1 <= x /\ x <= v
      BY ONLY <3>3, u \in Nat, v \in Nat
    <3>7. y \in Int /\ w + 1 <= y /\ y <= z
      BY ONLY <3>3, w \in Nat, z \in Nat
    <3>8. x \in 1 .. N /\ y \in 1 .. N /\ x < y
      BY ONLY <3>5, <3>6, <3>7, u \in Nat, v \in Nat, w \in Nat, z \in Nat, N \in Nat
    <3> QED BY ONLY <3>4, <3>8
  <2>5. x = y
    BY <1>a, <2>1, <2>2, <2>4 DEF IsInjective
  <2> QED BY <2>4, <2>5
<1>5. ASSUME NEW b \in all PROVE \E j \in 1 .. n : b \in Range(slice(j))
  <2>1. PICK x \in 1 .. T[n] : f[x] = b
    BY <1>d, <1>5
  <2> DEFINE S == {j \in 0 .. n : x <= T[j]}
  <2>2. S \subseteq Nat /\ n \in S
    BY <1>d, <2>1
  <2>3. PICK j \in S : \A k \in S : j <= k
    BY <2>2, LeastNat
  <2>4. j \in 0 .. n /\ x <= T[j]
    BY <2>3
  <2>5. j # 0
    BY <1>d, <2>1, <2>4
  <2>6. j \in 1 .. n /\ j - 1 \in 0 .. n
    BY <2>4, <2>5
  <2>7. ~(x <= T[j - 1])
    <3>1. j - 1 \notin S
      BY <2>3, <2>6
    <3> QED BY <2>6, <3>1
  <2>8. x \in T[j - 1] + 1 .. T[j]
    <3>1. T[j - 1] \in Nat /\ T[j] \in Nat
      BY <1>b, <2>6
    <3> QED BY <1>d, <2>4, <2>7, <3>1
  <2> QED BY <1>2, <2>1, <2>6, <2>8
<1>6. \A i, j \in 1 .. n : i # j => Range(slice(i)) \cap Range(slice(j)) = {}
  <2> SUFFICES ASSUME NEW i \in 1 .. n, NEW j \in 1 .. n, i # j
               PROVE  Range(slice(i)) \cap Range(slice(j)) = {}
    OBVIOUS
  <2>1. CASE i < j
    BY <1>4, <2>1
  <2>2. CASE j < i
    BY <1>4, <2>2
  <2> QED BY <2>1, <2>2
<1>7. \A j \in 1 .. n : Range(slice(j)) \subseteq all
  BY <1>3
<1>8. /\ \A j \in 1 .. n : /\ slice(j) \in Seq(B)
                           /\ Len(slice(j)) = T[j] - T[j - 1]
                           /\ IsInjective(slice(j))
                           /\ Range(slice(j)) \subseteq all
      /\ \A i, j \in 1 .. n : i # j => Range(slice(i)) \cap Range(slice(j)) = {}
      /\ \A b \in all : \E j \in 1 .. n : b \in Range(slice(j))
  BY <1>1, <1>c, <1>5, <1>6, <1>7
<1> SUFFICES ASSUME NEW sl, CutAt(sl, f, T, n) PROVE Splits(sl, T, n, B, all)
  BY DEF all
<1>9. \A j \in 1 .. n : sl[j] = slice(j)
  BY <1>e
<1> QED BY ONLY <1>8, <1>9, Zenon DEF Splits

-----------------------------------------------------------------------------
(* reserve_temporary_append *)

\* The blocks for n tokens cover them, and one block fewer would not.
LEMMA BlocksCover ==
  ASSUME BlockManagerAssumption, NEW n \in Nat
  PROVE  /\ BlocksFor(n) \in Nat
         /\ n <= BlockSize * BlocksFor(n)
         /\ BlockSize * BlocksFor(n) < n + BlockSize
<1>1. BlockSize \in Nat \ {0} /\ n + BlockSize - 1 \in Nat
  BY DEF BlockManagerAssumption
<1>2. PICK q, r : q = (n + BlockSize - 1) \div BlockSize /\ r = (n + BlockSize - 1) % BlockSize
  OBVIOUS
<1>3. q \in Nat /\ r \in 0 .. BlockSize - 1 /\ n + BlockSize - 1 = BlockSize * q + r
  BY <1>1, <1>2, DivBounds
<1>4. PICK y \in Nat : y = BlockSize * q
  BY <1>1, <1>3
<1> QED BY <1>1, <1>2, <1>3, <1>4 DEF BlocksFor

\* A list is its head and its tail.
LEMMA CutJoins ==
  ASSUME NEW T, NEW s \in Seq(T), NEW n \in 0 .. Len(s)
  PROVE  s = SubSeq(s, 1, n) \o SubSeq(s, n + 1, Len(s))
<1>1. Len(s) \in Nat /\ n \in Nat /\ n <= Len(s)
  OBVIOUS
<1>2. PICK a, z : a = SubSeq(s, 1, n) /\ z = SubSeq(s, n + 1, Len(s))
  OBVIOUS
<1>3. /\ a \in Seq(T) /\ Len(a) = n /\ z \in Seq(T) /\ Len(z) = Len(s) - n
      /\ \A i \in 1 .. n : a[i] = s[i]
      /\ \A i \in 1 .. Len(s) - n : z[i] = s[n + i]
  BY <1>1, <1>2
<1>4. /\ a \o z \in Seq(T) /\ Len(a \o z) = Len(s)
      /\ \A i \in 1 .. n : (a \o z)[i] = a[i]
      /\ \A i \in n + 1 .. Len(s) : (a \o z)[i] = z[i - n]
  BY <1>1, <1>3
<1>5. ASSUME NEW i \in 1 .. Len(s) PROVE (a \o z)[i] = s[i]
  <2>1. CASE i <= n
    BY <1>1, <1>3, <1>4, <2>1
  <2>2. CASE i > n
    <3>1. i \in n + 1 .. Len(s) /\ i - n \in 1 .. Len(s) - n /\ n + (i - n) = i
      BY <1>1, <2>2
    <3> QED BY <1>3, <1>4, <3>1
  <2>3. i <= n \/ i > n
    BY <1>1
  <2> QED BY ONLY <2>1, <2>2, <2>3, Zenon
<1> QED BY <1>2, <1>4, <1>5, SeqEqual

\* The entries that taking blocks drops are the ones that name these blocks.
LEMMA StaleIs ==
  ASSUME IInv, NEW K
  PROVE  /\ DOMAIN hash_to_block_id \ StaleEntries(K)
              = {h \in DOMAIN hash_to_block_id : hash_to_block_id[h] \notin K}
         /\ Restrict(hash_to_block_id, DOMAIN hash_to_block_id \ StaleEntries(K))
              = EvictBlocks(hash_to_block_id, K)
<1>1. \A h \in DOMAIN hash_to_block_id : block_hash[hash_to_block_id[h]] = h
  BY DEF IInv, PoolInv, IndexMatchesBlocks
<1>2. DOMAIN hash_to_block_id \ StaleEntries(K)
        = {h \in DOMAIN hash_to_block_id : hash_to_block_id[h] \notin K}
  BY <1>1 DEF StaleEntries
<1> QED BY <1>2 DEF EvictBlocks

\* The shares of the rows in the blocks that a reservation takes.
ShareOf(rows, highest) ==
  [s \in Range(rows) |->
     LET i == CHOOSE i \in DOMAIN rows : rows[i] = s
     IN  SubSeq(free_block_ids, taken(rows, highest, i - 1) + 1, taken(rows, highest, i))]

\* They are disjoint and as large as the rows need, and together the list `order`.
SharedOut(app, order, rows, highest) ==
  /\ app \in [Range(rows) -> Seq(Blocks)]
  /\ \A s \in Range(rows) : /\ IsInjective(app[s])
                            /\ Range(app[s]) \subseteq Range(order)
                            /\ Len(app[s]) = new_blocks(s, highest[s])
  /\ \A s, t \in Range(rows) : s # t => Range(app[s]) \cap Range(app[t]) = {}
  /\ \A b \in Range(order) : \E s \in Range(rows) : b \in Range(app[s])

\* reserve_temporary_append shares out the front of the free list among its rows.
LEMMA Shares ==
  ASSUME BlockManagerAssumption, IInv, NEW rows \in Seq(Seqs), IsInjective(rows),
         NEW highest, \A s \in Range(rows) : highest[s] \in Nat,
         can_reserve(rows, highest), NEW total, total = taken(rows, highest, Len(rows)),
         NEW order, order = SubSeq(free_block_ids, 1, total), NEW app, app = ShareOf(rows, highest)
  PROVE  total \in 0 .. Len(free_block_ids) /\ SharedOut(app, order, rows, highest)
<1>a. /\ free_block_ids \in Seq(Blocks) /\ IsInjective(free_block_ids) /\ Len(free_block_ids) \in Nat
      /\ block_table \in [Seqs -> Seq(Blocks)]
  BY DEF IInv, PoolInv, TypeOK, PoolPartition
<1>b. Len(rows) \in Nat /\ DOMAIN rows = 1 .. Len(rows) /\ Range(rows) \subseteq Seqs
  BY ListRange
<1>1. PICK n \in Nat : n = Len(rows)
  BY <1>b
<1>2. PICK nb : nb = [j \in 1 .. n |-> new_blocks(rows[j], highest[rows[j]])]
  OBVIOUS
<1>3. nb \in [1 .. n -> Nat]
  <2> SUFFICES ASSUME NEW j \in 1 .. n PROVE new_blocks(rows[j], highest[rows[j]]) \in Nat
    BY <1>2
  <2>1. rows[j] \in Range(rows) /\ rows[j] \in Seqs
    BY <1>1, <1>b, ListRange
  <2>2. highest[rows[j]] + 1 \in Nat /\ Len(block_table[rows[j]]) \in Nat
    BY <1>a, <2>1
  <2>3. BlocksFor(highest[rows[j]] + 1) \in Nat
    BY <2>2, BlocksCover
  <2> QED BY <2>2, <2>3 DEF new_blocks, missing_blocks
<1>4. PICK T : T = [i \in 0 .. n |-> Cardinality(Pairs(nb, i))]
  OBVIOUS
<1>5. /\ T \in [0 .. n -> Nat] /\ T[0] = 0
      /\ \A i, j \in 0 .. n : i <= j => T[i] <= T[j]
      /\ \A i \in 1 .. n : T[i] = T[i - 1] + nb[i]
  <2>1. /\ \A i \in 0 .. n : Cardinality(Pairs(nb, i)) \in Nat
        /\ Cardinality(Pairs(nb, 0)) = 0
        /\ \A i \in 1 .. n : Cardinality(Pairs(nb, i)) = Cardinality(Pairs(nb, i - 1)) + nb[i]
        /\ \A i, j \in 0 .. n : i <= j => Cardinality(Pairs(nb, i)) <= Cardinality(Pairs(nb, j))
    BY <1>3, PairCount
  <2>2. \A i \in 1 .. n : i \in 0 .. n /\ i - 1 \in 0 .. n
    OBVIOUS
  <2> QED BY <1>4, <2>1, <2>2
<1>6. ASSUME NEW i \in 0 .. n PROVE taken(rows, highest, i) = T[i]
  <2>1. \A j \in 1 .. i : nb[j] = new_blocks(rows[j], highest[rows[j]])
    BY <1>2
  <2>2. UNION {{j} \X (1 .. new_blocks(rows[j], highest[rows[j]])) : j \in 1 .. i} = Pairs(nb, i)
    BY <2>1 DEF Pairs
  <2> QED BY <1>4, <2>2 DEF taken
<1>7. n \in 0 .. n /\ total = T[n] /\ T[n] \in Nat /\ T[n] <= Len(free_block_ids)
  BY <1>1, <1>5, <1>6 DEF can_reserve
<1>8. PICK f : f = free_block_ids
  OBVIOUS
<1>c. f \in Seq(Blocks) /\ IsInjective(f) /\ T[n] <= Len(f)
  BY <1>a, <1>7, <1>8
<1>d. PICK slice : CutAt(slice, f, T, n)
  BY DEF CutAt
<1>9. Splits(slice, T, n, Blocks, Range(SubSeq(f, 1, T[n])))
  <2>1. /\ f \in Seq(Blocks) /\ IsInjective(f) /\ n \in Nat /\ T \in [0 .. n -> Nat] /\ T[0] = 0
        /\ T[n] <= Len(f) /\ \A i, j \in 0 .. n : i <= j => T[i] <= T[j]
    BY <1>1, <1>5, <1>c
  <2> QED BY ONLY <1>d, <2>1, Slices, Zenon
<1>10. Range(order) = Range(SubSeq(f, 1, T[n]))
  BY <1>7, <1>8
<1>11. PICK at : at = [s \in Range(rows) |-> CHOOSE i \in DOMAIN rows : rows[i] = s]
  OBVIOUS
<1>12. /\ \A s \in Range(rows) : at[s] \in 1 .. n /\ rows[at[s]] = s
       /\ \A j \in 1 .. n : rows[j] \in Range(rows) /\ at[rows[j]] = j
  <2>1. ASSUME NEW s \in Range(rows) PROVE at[s] \in 1 .. n /\ rows[at[s]] = s
    <3>1. \E i \in DOMAIN rows : rows[i] = s
      BY DEF Range
    <3>2. at[s] \in DOMAIN rows /\ rows[at[s]] = s
      BY <1>11, <3>1
    <3> QED BY <1>1, <1>b, <3>2
  <2>2. ASSUME NEW j \in 1 .. n PROVE rows[j] \in Range(rows) /\ at[rows[j]] = j
    <3>1. rows[j] \in Range(rows) /\ j \in DOMAIN rows
      BY <1>1, <1>b, ListRange
    <3>2. at[rows[j]] \in DOMAIN rows /\ rows[at[rows[j]]] = rows[j]
      BY <1>1, <1>b, <2>1, <3>1
    <3> QED BY <3>1, <3>2 DEF IsInjective
  <2> QED BY <2>1, <2>2
<1>13. ASSUME NEW s \in Range(rows) PROVE app[s] = slice[at[s]]
  <2>1. at[s] \in 0 .. n /\ at[s] - 1 \in 0 .. n
    BY <1>12
  <2>2. taken(rows, highest, at[s]) = T[at[s]] /\ taken(rows, highest, at[s] - 1) = T[at[s] - 1]
    BY <1>6, <2>1
  <2>4. PICK i : i = CHOOSE j \in DOMAIN rows : rows[j] = s
    OBVIOUS
  <2>5. app[s] = SubSeq(free_block_ids, taken(rows, highest, i - 1) + 1, taken(rows, highest, i))
    BY <2>4 DEF ShareOf
  <2>6. at[s] = i
    BY <1>11, <2>4
  <2>3. app[s] = SubSeq(free_block_ids, taken(rows, highest, at[s] - 1) + 1, taken(rows, highest, at[s]))
    BY <2>5, <2>6
  <2> QED BY <1>8, <1>12, <1>d, <2>2, <2>3 DEF CutAt
<1>14. ASSUME NEW s \in Range(rows)
       PROVE  /\ app[s] \in Seq(Blocks) /\ IsInjective(app[s]) /\ Range(app[s]) \subseteq Range(order)
              /\ Len(app[s]) = new_blocks(s, highest[s])
  <2>1. at[s] \in 1 .. n /\ rows[at[s]] = s
    BY <1>12
  <2>2. /\ app[s] \in Seq(Blocks) /\ IsInjective(app[s]) /\ Range(app[s]) \subseteq Range(order)
        /\ Len(app[s]) = T[at[s]] - T[at[s] - 1]
    <3>1. PICK j \in 1 .. n : j = at[s]
      BY <2>1
    <3>2. app[s] = slice[j]
      BY <1>13, <3>1
    <3> QED BY <1>9, <1>10, <3>1, <3>2 DEF Splits
  <2>3. T[at[s]] - T[at[s] - 1] = nb[at[s]]
    <3>1. at[s] - 1 \in 0 .. n
      BY <2>1
    <3>2. T[at[s] - 1] \in Nat /\ nb[at[s]] \in Nat
      BY <1>3, <1>5, <2>1, <3>1
    <3>3. PICK u \in Nat, v \in Nat : u = T[at[s] - 1] /\ v = nb[at[s]]
      BY <3>2
    <3>4. T[at[s]] = u + v
      BY <1>5, <2>1, <3>3
    <3>5. u + v - u = v
      OBVIOUS
    <3> QED BY <3>3, <3>4, <3>5
  <2>4. nb[at[s]] = new_blocks(s, highest[s])
    BY <1>2, <2>1
  <2> QED BY <2>2, <2>3, <2>4
<1>15. app \in [Range(rows) -> Seq(Blocks)]
  BY <1>14 DEF ShareOf
<1>16. ASSUME NEW s \in Range(rows), NEW t \in Range(rows), s # t
       PROVE  Range(app[s]) \cap Range(app[t]) = {}
  <2>1. at[s] \in 1 .. n /\ at[t] \in 1 .. n /\ at[s] # at[t]
    BY <1>12, <1>16
  <2>2. app[s] = slice[at[s]] /\ app[t] = slice[at[t]]
    BY <1>13
  <2>3. Range(slice[at[s]]) \cap Range(slice[at[t]]) = {}
    BY <1>9, <2>1, Zenon DEF Splits
  <2> QED BY ONLY <2>2, <2>3, Zenon
<1>17. ASSUME NEW b \in Range(order) PROVE \E s \in Range(rows) : b \in Range(app[s])
  <2>1. PICK j \in 1 .. n : b \in Range(slice[j])
    BY <1>9, <1>10 DEF Splits
  <2>2. rows[j] \in Range(rows) /\ app[rows[j]] = slice[j]
    BY <1>12, <1>13
  <2> QED BY <2>1, <2>2
<1>18. total \in 0 .. Len(free_block_ids)
  BY <1>a, <1>7
<1> QED BY <1>14, <1>15, <1>16, <1>17, <1>18 DEF SharedOut

\* A reservation is taken: its state to go back to is the one before it, and the
\* tables of its rows reach the positions they will write.
THEOREM ReserveKeeps ==
  ASSUME BlockManagerAssumption, IInv, NEW rows \in Seq(Seqs), IsInjective(rows), rows # <<>>,
         NEW highest, \A s \in Range(rows) : highest[s] \in Nat,
         reserve_temporary_append(rows, highest), NEW H, IsNext(H)
  PROVE  /\ Lease(H, kv')
         /\ H.reservation.rows = rows
         /\ Before(H).tables = block_table
         /\ \A s \in Range(rows) : highest[s] < BlockSize * Len(H.tables[s])
<1>a. /\ free_block_ids \in Seq(Blocks) /\ used_block_ids \in SUBSET Blocks /\ ref_count \in [Blocks -> Nat]
      /\ block_hash \in [Blocks -> Seq(Token)] /\ block_table \in [Seqs -> Seq(Blocks)]
      /\ IsInjective(free_block_ids)
  BY DEF IInv, PoolInv, TypeOK, PoolPartition
<1>b. PICK total : total = taken(rows, highest, Len(rows))
  OBVIOUS
<1>c. PICK order : order = SubSeq(free_block_ids, 1, total)
  OBVIOUS
<1>d. PICK app : app = ShareOf(rows, highest)
  OBVIOUS
<1>e. PICK snap : snap = Range(order) \cup UNION {Range(block_table[s]) : s \in Range(rows)}
  OBVIOUS
<1>f. PICK r : r = [rows |-> rows, allocation_order |-> order, appended |-> app,
            table_before |-> [s \in Range(rows) |-> block_table[s]],
            cached_before |-> [s \in Range(rows) |-> num_cached_tokens[s]],
            draft_before |-> [s \in Range(rows) |-> num_draft_cached_tokens[s]],
            free_before |-> free_block_ids,
            used_before |-> used_block_ids,
            index_before |-> hash_to_block_id,
            ref_before |-> [b \in snap |-> ref_count[b]],
            hash_before |-> [b \in snap |-> block_hash[b]]]
  OBVIOUS
<1>g. /\ can_reserve(rows, highest)
      /\ reservation' = r
      /\ free_block_ids' = SubSeq(free_block_ids, total + 1, Len(free_block_ids))
      /\ used_block_ids' = used_block_ids \cup Range(order)
      /\ ref_count' = [b \in Blocks |-> IF b \in Range(order) THEN 1 ELSE ref_count[b]]
      /\ ResetHashes(Range(order))
      /\ block_table' = [s \in Seqs |->
           IF s \in Range(rows) THEN block_table[s] \o app[s] ELSE block_table[s]]
      /\ token_ids' = token_ids /\ num_cached_tokens' = num_cached_tokens /\ kv' = kv
      /\ num_draft_cached_tokens' = num_draft_cached_tokens
  BY <1>b, <1>c, <1>d, <1>e, <1>f DEF reserve_temporary_append, ShareOf
<1>h. /\ total \in 0 .. Len(free_block_ids)
      /\ app \in [Range(rows) -> Seq(Blocks)]
      /\ \A s \in Range(rows) : /\ IsInjective(app[s])
                                /\ Range(app[s]) \subseteq Range(order)
                                /\ Len(app[s]) = new_blocks(s, highest[s])
      /\ \A s, t \in Range(rows) : s # t => Range(app[s]) \cap Range(app[t]) = {}
      /\ \A b \in Range(order) : \E s \in Range(rows) : b \in Range(app[s])
  <2>1. can_reserve(rows, highest)
    BY <1>g
  <2>2. total \in 0 .. Len(free_block_ids) /\ SharedOut(app, order, rows, highest)
    BY <1>b, <1>c, <1>d, <2>1, Shares
  <2> QED BY <2>2 DEF SharedOut
<1>i. PICK f, z : f = free_block_ids /\ z = SubSeq(free_block_ids, total + 1, Len(free_block_ids))
  OBVIOUS
<1>j. /\ order \in Seq(Blocks) /\ z \in Seq(Blocks)
      /\ IsInjective(order) /\ IsInjective(z)
      /\ Range(order) \cap Range(z) = {}
      /\ Range(order) \cup Range(z) = Range(f)
  <2>1. f \in Seq(Blocks) /\ IsInjective(f) /\ total \in 0 .. Len(f)
    BY <1>a, <1>h, <1>i
  <2>2. order = SubSeq(f, 1, total) /\ z = SubSeq(f, total + 1, Len(f))
    BY <1>c, <1>i
  <2> QED BY <2>1, <2>2, CutSpec
<1>k. f = order \o z
  <2>1. f \in Seq(Blocks) /\ total \in 0 .. Len(f)
    BY <1>a, <1>h, <1>i
  <2> QED BY <1>c, <1>i, <2>1, CutJoins
<1>l. Range(order) \subseteq Blocks /\ Range(rows) \subseteq Seqs
  BY <1>j, ListRange
<1>m. /\ H.free = z /\ H.used = used_block_ids \cup Range(order)
      /\ H.index = EvictBlocks(hash_to_block_id, Range(order))
      /\ H.refs = [b \in Blocks |-> IF b \in Range(order) THEN 1 ELSE ref_count[b]]
      /\ H.hashes = [b \in Blocks |-> IF b \in Range(order) THEN NoHash ELSE block_hash[b]]
      /\ H.reservation = r
      /\ H.tokens = token_ids /\ H.cached = num_cached_tokens /\ H.draft = num_draft_cached_tokens
      /\ H.tables = [s \in Seqs |->
           IF s \in Range(rows) THEN block_table[s] \o app[s] ELSE block_table[s]]
  BY <1>g, <1>i, StaleIs DEF IsNext, ResetHashes
<1>n. /\ r.rows = rows /\ r.allocation_order = order /\ r.appended = app
      /\ r.table_before = [s \in Range(rows) |-> block_table[s]]
      /\ r.cached_before = [s \in Range(rows) |-> num_cached_tokens[s]]
      /\ r.draft_before = [s \in Range(rows) |-> num_draft_cached_tokens[s]]
      /\ r.free_before = free_block_ids
      /\ r.used_before = used_block_ids
      /\ r.index_before = hash_to_block_id
      /\ r.ref_before = [b \in snap |-> ref_count[b]]
      /\ r.hash_before = [b \in snap |-> block_hash[b]]
  BY <1>f
<1>o. PICK A : A = Before(H)
  OBVIOUS
<1>p. /\ A.free = free_block_ids /\ A.used = used_block_ids /\ A.index = hash_to_block_id
      /\ A.tokens = token_ids /\ A.cached = num_cached_tokens
      /\ A.refs = Overlay(r.ref_before, H.refs)
      /\ A.hashes = Overlay(r.hash_before, H.hashes)
      /\ A.tables = Overlay(r.table_before, H.tables)
  BY <1>m, <1>n, <1>o, BeforeIs
<1>1. A.refs = ref_count
  <2>1. DOMAIN r.ref_before = snap /\ \A b \in snap : r.ref_before[b] = ref_count[b]
    BY <1>n
  <2>2. DOMAIN H.refs = Blocks /\ \A b \in Blocks \ Range(order) : H.refs[b] = ref_count[b]
    BY <1>m
  <2>3. \A b \in Blocks : ref_count[b] = IF b \in DOMAIN r.ref_before THEN r.ref_before[b] ELSE H.refs[b]
    BY <1>e, <2>1, <2>2
  <2>4. ref_count = [x \in Blocks |-> ref_count[x]]
    BY <1>a
  <2>5. A.refs = [x \in DOMAIN H.refs |-> IF x \in DOMAIN r.ref_before THEN r.ref_before[x] ELSE H.refs[x]]
    BY <1>p DEF Overlay
  <2>6. A.refs = [x \in Blocks |-> ref_count[x]]
    BY <2>2, <2>3, <2>5
  <2> QED BY <2>4, <2>6
<1>2. A.hashes = block_hash
  <2>1. DOMAIN r.hash_before = snap /\ \A b \in snap : r.hash_before[b] = block_hash[b]
    BY <1>n
  <2>2. DOMAIN H.hashes = Blocks /\ \A b \in Blocks \ Range(order) : H.hashes[b] = block_hash[b]
    BY <1>m
  <2>3. \A b \in Blocks : block_hash[b] = IF b \in DOMAIN r.hash_before THEN r.hash_before[b] ELSE H.hashes[b]
    BY <1>e, <2>1, <2>2
  <2>4. block_hash = [x \in Blocks |-> block_hash[x]]
    BY <1>a
  <2>5. A.hashes = [x \in DOMAIN H.hashes |-> IF x \in DOMAIN r.hash_before THEN r.hash_before[x] ELSE H.hashes[x]]
    BY <1>p DEF Overlay
  <2>6. A.hashes = [x \in Blocks |-> block_hash[x]]
    BY <2>2, <2>3, <2>5
  <2> QED BY <2>4, <2>6
<1>3. A.tables = block_table
  <2>1. DOMAIN r.table_before = Range(rows) /\ \A s \in Range(rows) : r.table_before[s] = block_table[s]
    BY <1>n
  <2>2. DOMAIN H.tables = Seqs /\ \A s \in Seqs \ Range(rows) : H.tables[s] = block_table[s]
    BY <1>m
  <2>3. \A s \in Seqs : block_table[s] = IF s \in DOMAIN r.table_before THEN r.table_before[s] ELSE H.tables[s]
    BY <2>1, <2>2
  <2>4. block_table = [x \in Seqs |-> block_table[x]]
    BY <1>a
  <2>5. A.tables = [x \in DOMAIN H.tables |-> IF x \in DOMAIN r.table_before THEN r.table_before[x] ELSE H.tables[x]]
    BY <1>p DEF Overlay
  <2>6. A.tables = [x \in Seqs |-> block_table[x]]
    BY <2>2, <2>3, <2>5
  <2> QED BY <2>4, <2>6
<1>4. AllocOK(A, kv) /\ kv' = kv
  BY <1>1, <1>2, <1>3, <1>g, <1>p, CurrentOK
<1>5. LeaseTypes(r)
  <2>1. /\ r.rows \in Seq(Seqs) /\ r.rows # <<>> /\ r.allocation_order \in Seq(Blocks)
        /\ r.appended \in [Range(r.rows) -> Seq(Blocks)]
    BY <1>h, <1>j, <1>n
  <2>2. r.table_before \in [Range(r.rows) -> Seq(Blocks)]
    BY <1>a, <1>l, <1>n
  <2>3. DOMAIN r.cached_before = Range(r.rows) /\ DOMAIN r.draft_before = Range(r.rows)
    BY <1>n
  <2>4. DOMAIN r.hash_before = DOMAIN r.ref_before /\ DOMAIN r.ref_before = snap
    BY <1>n
  <2>5. UNION {Range(r.table_before[s]) : s \in Range(r.rows)} = UNION {Range(block_table[s]) : s \in Range(rows)}
    BY <1>n
  <2>6. DOMAIN r.ref_before =
          Range(r.allocation_order) \cup UNION {Range(r.table_before[s]) : s \in Range(r.rows)}
    BY <1>e, <1>n, <2>4, <2>5
  <2>7. r = [rows |-> r.rows, allocation_order |-> r.allocation_order, appended |-> r.appended,
          table_before |-> r.table_before, cached_before |-> r.cached_before,
          draft_before |-> r.draft_before, free_before |-> r.free_before,
          used_before |-> r.used_before, index_before |-> r.index_before,
          ref_before |-> r.ref_before, hash_before |-> r.hash_before]
    BY <1>f, <1>n
  <2> QED BY <2>1, <2>2, <2>3, <2>4, <2>6, <2>7 DEF LeaseTypes
<1>6. PICK K, g : K = Borrowed(H) /\ g = BorrowedBy(H)
  OBVIOUS
<1>7. K = Range(order) /\ g = [s \in Seqs |-> IF s \in Range(rows) THEN app[s] ELSE <<>>]
  BY <1>6, <1>m, <1>n DEF Borrowed, BorrowedBy
<1>8. Grown(A, H, K, g)
  <2>1. K \subseteq Range(A.free) /\ Range(H.free) = Range(A.free) \ K
    BY <1>7, <1>i, <1>j, <1>m, <1>p
  <2>2. g \in [Seqs -> Seq(Blocks)]
    BY <1>7, <1>h
  <2>3. ASSUME NEW s \in Seqs PROVE IsInjective(g[s]) /\ Range(g[s]) \subseteq K
    <3>1. IsInjective(<<>>) /\ Range(<<>>) = {}
      BY DEF IsInjective, Range
    <3> QED BY <1>7, <1>h, <3>1
  <2>4. ASSUME NEW s \in Seqs, NEW t \in Seqs, s # t PROVE Range(g[s]) \cap Range(g[t]) = {}
    <3>1. Range(<<>>) = {}
      BY DEF Range
    <3> QED BY <1>7, <1>h, <2>4, <3>1
  <2>5. ASSUME NEW b \in K PROVE \E s \in Seqs : b \in Range(g[s])
    BY <1>7, <1>h, <1>l
  <2>6. H.free \in Seq(Blocks) /\ IsInjective(H.free)
    BY <1>j, <1>m
  <2>7. H.used = A.used \cup K /\ H.index = EvictBlocks(A.index, K)
    BY <1>7, <1>m, <1>p
  <2>8. H.refs \in [Blocks -> Nat] /\ \A b \in Blocks : H.refs[b] = IF b \in K THEN 1 ELSE A.refs[b]
    BY <1>1, <1>7, <1>a, <1>m
  <2>9. H.hashes \in [Blocks -> Seq(Token)] /\ \A b \in Blocks : H.hashes[b] = IF b \in K THEN NoHash ELSE A.hashes[b]
    <3>1. NoHash \in Seq(Token)
      BY DEF NoHash
    <3> QED BY <1>2, <1>7, <1>a, <1>m, <3>1
  <2>10. H.tokens = A.tokens /\ H.cached = A.cached
    BY <1>m, <1>p
  <2>11. ASSUME NEW s \in Seqs PROVE H.tables[s] = A.tables[s] \o g[s] /\ H.tables[s] \in Seq(Blocks)
    <3>1. block_table[s] \in Seq(Blocks)
      BY <1>a
    <3>2. CASE s \in Range(rows)
      <4>1. app[s] \in Seq(Blocks)
        BY <1>h, <3>2
      <4>2. H.tables[s] = block_table[s] \o app[s] /\ g[s] = app[s]
        BY <1>7, <1>m, <3>2
      <4> QED BY <1>3, <3>1, <4>1, <4>2
    <3>3. CASE s \notin Range(rows)
      <4>1. H.tables[s] = block_table[s] /\ g[s] = <<>>
        BY <1>7, <1>m, <3>3
      <4>2. PICK x : x = block_table[s]
        OBVIOUS
      <4>3. x \in Seq(Blocks) /\ x \o <<>> = x
        BY <3>1, <4>2
      <4> QED BY <1>3, <4>1, <4>2, <4>3
    <3> QED BY <3>2, <3>3
  <2>12. H.tables \in [Seqs -> Seq(Blocks)]
    BY <1>m, <2>11
  <2> QED BY <2>1, <2>2, <2>3, <2>4, <2>5, <2>6, <2>7, <2>8, <2>9, <2>10, <2>11, <2>12 DEF Grown
<1>9. Lease(H, kv')
  <2>1. H.tables \in [Seqs -> Seq(Blocks)]
    BY <1>8 DEF Grown
  <2>2. H.reservation.free_before = H.reservation.allocation_order \o H.free
    BY <1>i, <1>k, <1>m, <1>n
  <2>3. ASSUME NEW b \in DOMAIN r.ref_before \ Range(order)
        PROVE  H.refs[b] = r.ref_before[b] /\ H.hashes[b] = r.hash_before[b]
    <3>1. b \in snap /\ b \in Blocks
      <4>1. \A s \in Range(rows) : Range(block_table[s]) \subseteq Blocks
        BY <1>a, <1>l, ListRange
      <4> QED BY <1>e, <1>l, <1>n, <4>1
    <3> QED BY <1>m, <1>n, <3>1, <2>3
  <2>4. \A s \in Range(rows) : H.cached[s] = r.cached_before[s] /\ H.draft[s] = r.draft_before[s]
    BY <1>m, <1>n
  <2>5. LeaseTypes(H.reservation)
    BY <1>5, <1>m
  <2>6. AllocOK(Before(H), kv') /\ Grown(Before(H), H, Borrowed(H), BorrowedBy(H))
    BY <1>4, <1>6, <1>8, <1>o
  <2>7. Borrowed(H) = Range(order) /\ H.reservation = r /\ r.rows = rows
    BY <1>6, <1>7, <1>m, <1>n
  <2>8. /\ \A b \in DOMAIN H.reservation.ref_before \ Borrowed(H) :
             /\ H.refs[b] = H.reservation.ref_before[b]
             /\ H.hashes[b] = H.reservation.hash_before[b]
        /\ \A s \in Range(H.reservation.rows) :
             /\ H.cached[s] = H.reservation.cached_before[s]
             /\ H.draft[s] = H.reservation.draft_before[s]
    BY ONLY <2>3, <2>4, <2>7, Zenon
  <2> QED BY <2>1, <2>2, <2>5, <2>6, <2>8 DEF Lease
<1>10. ASSUME NEW s \in Range(rows) PROVE highest[s] < BlockSize * Len(H.tables[s])
  <2>1. s \in Seqs /\ block_table[s] \in Seq(Blocks) /\ app[s] \in Seq(Blocks)
    BY <1>a, <1>h, <1>l
  <2>2. PICK h \in Nat, x \in Seq(Blocks), y \in Seq(Blocks) :
          h = highest[s] /\ x = block_table[s] /\ y = app[s]
    BY <2>1
  <2>3. Len(x) \in Nat /\ Len(y) \in Nat /\ Len(x \o y) = Len(x) + Len(y)
    BY <2>1, <2>2
  <2>4. H.tables[s] = x \o y
    BY <1>m, <2>1, <2>2
  <2>5. PICK u \in Nat, v \in Nat, q \in Nat : u = Len(x) /\ v = Len(y) /\ q = BlocksFor(h + 1)
    <3>1. h + 1 \in Nat
      OBVIOUS
    <3> QED BY <2>3, <3>1, BlocksCover
  <2>6. v = IF q > u THEN q - u ELSE 0
    BY <1>h, <2>2, <2>5 DEF new_blocks, missing_blocks
  <2>7. h + 1 <= BlockSize * q
    <3>1. h + 1 \in Nat
      OBVIOUS
    <3> QED BY <2>5, <3>1, BlocksCover
  <2>8. u + v \in Nat /\ q <= u + v
    BY <2>5, <2>6
  <2>9. BlockSize * q <= BlockSize * (u + v) /\ BlockSize \in Nat
    BY <2>5, <2>8, MulMono DEF BlockManagerAssumption
  <2>10. PICK i \in Nat, j \in Nat : i = BlockSize * q /\ j = BlockSize * (u + v)
    BY <2>5, <2>8, <2>9
  <2>11. h < j
    BY <2>7, <2>9, <2>10
  <2>12. Len(H.tables[s]) = u + v
    BY <2>3, <2>4, <2>5
  <2> QED BY <2>2, <2>10, <2>11, <2>12
<1> QED BY <1>3, <1>9, <1>10, <1>m, <1>n, <1>o

-----------------------------------------------------------------------------
(* What becomes of a reservation *)

\* Evicting twice is evicting once.
LEMMA EvictTwice ==
  ASSUME NEW index, NEW K
  PROVE  EvictBlocks(EvictBlocks(index, K), K) = EvictBlocks(index, K)
<1>1. PICK e : e = EvictBlocks(index, K)
  OBVIOUS
<1>2. /\ e = [h \in {h \in DOMAIN index : index[h] \notin K} |-> index[h]]
      /\ DOMAIN e = {h \in DOMAIN index : index[h] \notin K}
      /\ \A h \in DOMAIN e : e[h] = index[h]
  BY <1>1 DEF EvictBlocks, Restrict
<1>3. {h \in DOMAIN e : e[h] \notin K} = DOMAIN e
  BY <1>2
<1>4. EvictBlocks(e, K) = [h \in DOMAIN e |-> e[h]]
  BY <1>3 DEF EvictBlocks, Restrict
<1>5. [h \in DOMAIN e |-> e[h]] = e
  BY <1>2
<1> QED BY <1>1, <1>4, <1>5

\* The borrowed blocks do not come back with their hashes.
Unhashed(H) == \A b \in Borrowed(H) : Before(H).hashes[b] = NoHash

\* Target writes are prepared: only the hashes to go back to change.
THEOREM PrepareKeeps ==
  ASSUME BlockManagerAssumption, NEW H, IsNow(H), Lease(H, kv),
         prepare_temporary_target_writes, NEW J, IsNext(J)
  PROVE  /\ Lease(J, kv') /\ Unhashed(J)
         /\ J.reservation.rows = H.reservation.rows
         /\ Before(J).tables = Before(H).tables
<1> DEFINE r == H.reservation
           q == J.reservation
<1>a. /\ reservation' = [reservation EXCEPT
           !.index_before = EvictBlocks(@, Range(reservation.allocation_order)),
           !.hash_before = [b \in DOMAIN @ |->
              IF b \in Range(reservation.allocation_order) THEN NoHash ELSE @[b]]]
      /\ free_block_ids' = free_block_ids /\ used_block_ids' = used_block_ids /\ ref_count' = ref_count
      /\ block_hash' = block_hash /\ hash_to_block_id' = hash_to_block_id
      /\ token_ids' = token_ids /\ block_table' = block_table /\ num_cached_tokens' = num_cached_tokens
      /\ kv' = kv /\ num_draft_cached_tokens' = num_draft_cached_tokens
  BY DEF prepare_temporary_target_writes, bmVars, poolVars, indexVars, seqVars
<1>b. PICK K : K = Range(r.allocation_order)
  OBVIOUS
<1>c. /\ J.free = H.free /\ J.used = H.used /\ J.index = H.index /\ J.refs = H.refs
      /\ J.hashes = H.hashes /\ J.tokens = H.tokens /\ J.tables = H.tables
      /\ J.cached = H.cached /\ J.draft = H.draft
  BY <1>a DEF IsNow, IsNext
<1>d. LeaseTypes(r) /\ r = reservation /\ q = reservation'
  BY DEF Lease, IsNow, IsNext
<1>e. q = [r EXCEPT !.index_before = EvictBlocks(@, K),
                    !.hash_before = [b \in DOMAIN @ |-> IF b \in K THEN NoHash ELSE @[b]]]
  BY <1>a, <1>b, <1>d
<1>f. /\ q = [rows |-> r.rows, allocation_order |-> r.allocation_order, appended |-> r.appended,
          table_before |-> r.table_before, cached_before |-> r.cached_before,
          draft_before |-> r.draft_before, free_before |-> r.free_before,
          used_before |-> r.used_before, index_before |-> EvictBlocks(r.index_before, K),
          ref_before |-> r.ref_before,
          hash_before |-> [b \in DOMAIN r.hash_before |-> IF b \in K THEN NoHash ELSE r.hash_before[b]]]
  <2> DEFINE e == EvictBlocks(r.index_before, K)
             h == [b \in DOMAIN r.hash_before |-> IF b \in K THEN NoHash ELSE r.hash_before[b]]
  <2>1. r = [rows |-> r.rows, allocation_order |-> r.allocation_order, appended |-> r.appended,
          table_before |-> r.table_before, cached_before |-> r.cached_before,
          draft_before |-> r.draft_before, free_before |-> r.free_before,
          used_before |-> r.used_before, index_before |-> r.index_before,
          ref_before |-> r.ref_before, hash_before |-> r.hash_before]
    BY <1>d DEF LeaseTypes
  <2>2. q = [[r EXCEPT !.index_before = e] EXCEPT !.hash_before = h]
    BY <1>e, <2>1
  <2> HIDE DEF e, h, r, q
  <2>3. q = [rows |-> r.rows, allocation_order |-> r.allocation_order, appended |-> r.appended,
          table_before |-> r.table_before, cached_before |-> r.cached_before,
          draft_before |-> r.draft_before, free_before |-> r.free_before,
          used_before |-> r.used_before, index_before |-> e,
          ref_before |-> r.ref_before, hash_before |-> h]
    BY <2>1, <2>2
  <2> QED BY <2>3 DEF e, h
<1>g. /\ q.rows = r.rows /\ q.allocation_order = r.allocation_order /\ q.appended = r.appended
      /\ q.table_before = r.table_before /\ q.cached_before = r.cached_before
      /\ q.draft_before = r.draft_before /\ q.free_before = r.free_before
      /\ q.used_before = r.used_before /\ q.index_before = EvictBlocks(r.index_before, K)
      /\ q.ref_before = r.ref_before
      /\ q.hash_before = [b \in DOMAIN r.hash_before |-> IF b \in K THEN NoHash ELSE r.hash_before[b]]
  BY <1>f
<1>h. PICK A, B : A = Before(H) /\ B = Before(J)
  OBVIOUS
<1>i. /\ A.free = r.free_before /\ A.used = r.used_before /\ A.index = r.index_before
      /\ A.refs = Overlay(r.ref_before, H.refs) /\ A.hashes = Overlay(r.hash_before, H.hashes)
      /\ A.tokens = H.tokens /\ A.tables = Overlay(r.table_before, H.tables) /\ A.cached = H.cached
  BY <1>h, BeforeIs
<1>j. /\ B.free = q.free_before /\ B.used = q.used_before /\ B.index = q.index_before
      /\ B.refs = Overlay(q.ref_before, J.refs) /\ B.hashes = Overlay(q.hash_before, J.hashes)
      /\ B.tokens = J.tokens /\ B.tables = Overlay(q.table_before, J.tables) /\ B.cached = J.cached
  BY <1>h, BeforeIs
<1> HIDE DEF r, q
<1>k. /\ B.free = A.free /\ B.used = A.used /\ B.refs = A.refs /\ B.tokens = A.tokens
      /\ B.tables = A.tables /\ B.cached = A.cached /\ B.index = EvictBlocks(A.index, K)
  BY <1>c, <1>g, <1>i, <1>j
<1>l. Borrowed(H) = K /\ Borrowed(J) = K /\ BorrowedBy(J) = BorrowedBy(H)
  BY <1>b, <1>g DEF Borrowed, BorrowedBy, r, q
<1>m. AllocOK(A, kv) /\ Grown(A, H, K, BorrowedBy(H))
  BY <1>h, <1>l DEF Lease
<1>n. K \subseteq Blocks /\ H.hashes \in [Blocks -> Seq(Token)] /\ A.hashes \in [Blocks -> Seq(Token)]
  BY <1>b, <1>d, <1>m, ListRange DEF LeaseTypes, Grown, AllocOK, AllocTypes
<1>1. ASSUME NEW b \in Blocks PROVE B.hashes[b] = IF b \in K THEN NoHash ELSE A.hashes[b]
  <2>1. K \subseteq DOMAIN r.hash_before /\ DOMAIN q.hash_before = DOMAIN r.hash_before
    BY <1>b, <1>d, <1>g DEF LeaseTypes
  <2>2. \A x \in DOMAIN r.hash_before : q.hash_before[x] = IF x \in K THEN NoHash ELSE r.hash_before[x]
    BY <1>g
  <2>3. B.hashes[b] = IF b \in DOMAIN q.hash_before THEN q.hash_before[b] ELSE H.hashes[b]
    BY <1>c, <1>j, <1>n DEF Overlay
  <2>4. A.hashes[b] = IF b \in DOMAIN r.hash_before THEN r.hash_before[b] ELSE H.hashes[b]
    BY <1>i, <1>n DEF Overlay
  <2> QED BY <2>1, <2>2, <2>3, <2>4
<1>2. B.hashes \in [Blocks -> Seq(Token)]
  <2>1. B.hashes = [b \in Blocks |-> IF b \in DOMAIN q.hash_before THEN q.hash_before[b] ELSE J.hashes[b]]
    BY <1>c, <1>j, <1>n DEF Overlay
  <2>2. NoHash \in Seq(Token)
    BY DEF NoHash
  <2>3. \A b \in Blocks : B.hashes[b] \in Seq(Token)
    BY <1>1, <1>n, <2>2
  <2> QED BY <2>1, <2>3
<1>3. AllocOK(B, kv)
  <2>1. K \subseteq Range(A.free)
    BY <1>m DEF Grown
  <2>2. Evicted(A, B, K)
    BY <1>1, <1>2, <1>k, <2>1 DEF Evicted
  <2> QED BY <1>m, <2>2, EvictOK
<1>4. J.index = EvictBlocks(B.index, K)
  <2>1. H.index = EvictBlocks(A.index, K)
    BY <1>m DEF Grown
  <2> QED BY <1>c, <1>k, <2>1, EvictTwice
<1>5. Grown(B, J, K, BorrowedBy(J))
  <2>1. PICK g : g = BorrowedBy(H)
    OBVIOUS
  <2>2. Grown(A, H, K, g)
    BY <1>m, <2>1
  <2>3. \A b \in Blocks : J.hashes[b] = IF b \in K THEN NoHash ELSE B.hashes[b]
    BY <1>1, <1>c, <2>2 DEF Grown
  <2>4. Grown(B, J, K, g)
    BY <1>4, <1>c, <1>k, <2>2, <2>3 DEF Grown
  <2> QED BY <1>l, <2>1, <2>4
<1>6. LeaseTypes(q)
  <2>1. DOMAIN q.hash_before = DOMAIN r.hash_before
    BY <1>g
  <2>2. q = [rows |-> q.rows, allocation_order |-> q.allocation_order, appended |-> q.appended,
          table_before |-> q.table_before, cached_before |-> q.cached_before,
          draft_before |-> q.draft_before, free_before |-> q.free_before,
          used_before |-> q.used_before, index_before |-> q.index_before,
          ref_before |-> q.ref_before, hash_before |-> q.hash_before]
    BY <1>f, <1>g
  <2>3. /\ q.rows \in Seq(Seqs) /\ q.rows # <<>> /\ q.allocation_order \in Seq(Blocks)
        /\ q.appended \in [Range(q.rows) -> Seq(Blocks)]
        /\ q.table_before \in [Range(q.rows) -> Seq(Blocks)]
        /\ DOMAIN q.cached_before = Range(q.rows)
        /\ DOMAIN q.draft_before = Range(q.rows)
        /\ DOMAIN q.ref_before =
             Range(q.allocation_order) \cup UNION {Range(q.table_before[s]) : s \in Range(q.rows)}
        /\ DOMAIN q.hash_before = DOMAIN q.ref_before
    <3>1. /\ r.rows \in Seq(Seqs) /\ r.rows # <<>> /\ r.allocation_order \in Seq(Blocks)
          /\ r.appended \in [Range(r.rows) -> Seq(Blocks)]
          /\ r.table_before \in [Range(r.rows) -> Seq(Blocks)]
          /\ DOMAIN r.cached_before = Range(r.rows)
          /\ DOMAIN r.draft_before = Range(r.rows)
          /\ DOMAIN r.ref_before =
               Range(r.allocation_order) \cup UNION {Range(r.table_before[s]) : s \in Range(r.rows)}
          /\ DOMAIN r.hash_before = DOMAIN r.ref_before
      BY <1>d DEF LeaseTypes
    <3>2. /\ q.rows = r.rows /\ q.allocation_order = r.allocation_order /\ q.appended = r.appended
          /\ q.table_before = r.table_before /\ q.cached_before = r.cached_before
          /\ q.draft_before = r.draft_before /\ q.ref_before = r.ref_before
      BY <1>g
    <3> QED BY ONLY <2>1, <3>1, <3>2
  <2> QED BY <2>2, <2>3 DEF LeaseTypes
<1>7. Lease(J, kv')
  <2>1. /\ J.tables \in [Seqs -> Seq(Blocks)] /\ q.free_before = q.allocation_order \o J.free
        /\ \A s \in Range(q.rows) : J.cached[s] = q.cached_before[s] /\ J.draft[s] = q.draft_before[s]
    BY <1>c, <1>g DEF Lease, r
  <2>2. ASSUME NEW b \in DOMAIN q.ref_before \ K
        PROVE  J.refs[b] = q.ref_before[b] /\ J.hashes[b] = q.hash_before[b]
    <3>1. b \in DOMAIN r.ref_before \ Borrowed(H) /\ b \in DOMAIN r.hash_before
      BY <1>d, <1>g, <1>l DEF LeaseTypes
    <3>2. H.refs[b] = r.ref_before[b] /\ H.hashes[b] = r.hash_before[b]
      BY <3>1 DEF Lease, r
    <3> QED BY <1>c, <1>g, <2>2, <3>1, <3>2
  <2>3. kv' = kv
    BY <1>a
  <2> QED BY <1>3, <1>5, <1>6, <1>h, <1>l, <2>1, <2>2, <2>3 DEF Lease, q
<1>8. Unhashed(J)
  BY <1>1, <1>h, <1>l, <1>n DEF Unhashed
<1> QED BY <1>7, <1>8, <1>g, <1>h, <1>k DEF r, q

\* A reservation is rolled back: all its tables and counts are the ones before it.
THEOREM RollbackKeeps ==
  ASSUME BlockManagerAssumption, NEW H, IsNow(H), Lease(H, kv), rollback_temporary_append
  PROVE  /\ IInv' /\ ~Live'
         /\ block_table' = Before(H).tables
         /\ num_cached_tokens' = num_cached_tokens
         /\ DOMAIN num_draft_cached_tokens = Seqs =>
              num_draft_cached_tokens' = [s \in Seqs |-> num_draft_cached_tokens[s]]
<1> DEFINE r == reservation
<1>a. PICK A : A = Before(H)
  OBVIOUS
<1>b. /\ H.refs = ref_count /\ H.hashes = block_hash /\ H.reservation = r
      /\ H.tokens = token_ids /\ H.tables = block_table /\ H.cached = num_cached_tokens
      /\ H.draft = num_draft_cached_tokens
  BY DEF IsNow
<1>c. /\ A.free = r.free_before /\ A.used = r.used_before /\ A.index = r.index_before
      /\ A.refs = Overlay(r.ref_before, H.refs) /\ A.hashes = Overlay(r.hash_before, H.hashes)
      /\ A.tokens = H.tokens /\ A.tables = Overlay(r.table_before, H.tables) /\ A.cached = H.cached
  BY <1>a, <1>b, BeforeIs
<1>d. /\ LeaseTypes(r) /\ AllocOK(A, kv)
      /\ \A s \in Range(r.rows) : H.cached[s] = r.cached_before[s] /\ H.draft[s] = r.draft_before[s]
  BY <1>a, <1>b DEF Lease
<1>1. num_cached_tokens' = num_cached_tokens
  <2>1. num_cached_tokens \in [Seqs -> Nat] /\ DOMAIN r.cached_before = Range(r.rows)
    BY <1>b, <1>c, <1>d DEF AllocOK, AllocTypes, LeaseTypes
  <2>2. num_cached_tokens' = [s \in Seqs |-> IF s \in Range(r.rows) THEN r.cached_before[s] ELSE num_cached_tokens[s]]
    BY <2>1 DEF rollback_temporary_append, Overlay
  <2>3. num_cached_tokens' = [s \in Seqs |-> num_cached_tokens[s]]
    BY <1>b, <1>d, <2>2
  <2> QED BY <2>1, <2>3
<1>2. ASSUME DOMAIN num_draft_cached_tokens = Seqs
      PROVE  num_draft_cached_tokens' = [s \in Seqs |-> num_draft_cached_tokens[s]]
  <2>1. DOMAIN r.draft_before = Range(r.rows)
    BY <1>d DEF LeaseTypes
  <2>2. num_draft_cached_tokens' =
          [s \in Seqs |-> IF s \in Range(r.rows) THEN r.draft_before[s] ELSE num_draft_cached_tokens[s]]
    BY <1>2, <2>1 DEF rollback_temporary_append, Overlay
  <2> QED BY <1>b, <1>d, <2>2
<1>3. /\ A.free = free_block_ids' /\ A.used = used_block_ids' /\ A.refs = ref_count'
      /\ A.hashes = block_hash' /\ A.index = hash_to_block_id' /\ A.tokens = token_ids'
      /\ A.tables = block_table' /\ A.cached = num_cached_tokens' /\ kv' = kv
  BY <1>1, <1>b, <1>c DEF rollback_temporary_append, HashesBefore
<1>4. IInv'
  BY <1>3, <1>d, NextOK
<1>5. ~Live'
  BY DEF rollback_temporary_append, Live, NoReservation
<1> QED BY <1>1, <1>2, <1>3, <1>4, <1>5, <1>a

\* A reservation is finalized: every row keeps a prefix of what it borrowed.
THEOREM FinalizeKeeps ==
  ASSUME BlockManagerAssumption, NEW H, IsNow(H), Lease(H, kv), NEW keep,
         finalize_temporary_append(keep)
  PROVE  /\ IInv' /\ ~Live'
         /\ \A s \in Seqs \ Range(reservation.rows) : block_table'[s] = block_table[s]
         /\ \A s \in Range(reservation.rows) :
              /\ keep[s] \in Nat
              /\ Len(block_table'[s]) = Len(Before(H).tables[s]) + keep[s]
              /\ Len(block_table'[s]) <= Len(block_table[s])
              /\ \A i \in 1 .. Len(block_table'[s]) : block_table'[s][i] = block_table[s][i]
<1> DEFINE r == reservation
<1>a. PICK A, K, g : A = Before(H) /\ K = Borrowed(H) /\ g = BorrowedBy(H)
  OBVIOUS
<1>b. /\ H.free = free_block_ids /\ H.refs = ref_count /\ H.hashes = block_hash /\ H.reservation = r
      /\ H.tokens = token_ids /\ H.tables = block_table /\ H.cached = num_cached_tokens
  BY DEF IsNow
<1>c. /\ A.free = r.free_before /\ A.used = r.used_before /\ A.index = r.index_before
      /\ A.refs = Overlay(r.ref_before, ref_count) /\ A.hashes = Overlay(r.hash_before, block_hash)
      /\ A.tokens = token_ids /\ A.tables = Overlay(r.table_before, block_table)
      /\ A.cached = num_cached_tokens
  BY <1>a, <1>b, BeforeIs
<1>d. LeaseTypes(r) /\ AllocOK(A, kv) /\ Grown(A, H, K, g)
  BY <1>a, <1>b DEF Lease
<1>e. K = Range(r.allocation_order) /\ g = [s \in Seqs |-> IF s \in Range(r.rows) THEN r.appended[s] ELSE <<>>]
  BY <1>a, <1>b DEF Borrowed, BorrowedBy
<1>f. PICK kept : kept = [s \in Range(r.rows) |-> SubSeq(r.appended[s], 1, keep[s])]
  OBVIOUS
<1>g. PICK M : M = UNION {Range(kept[s]) : s \in Range(r.rows)}
  OBVIOUS
<1>h. /\ \A s \in Range(r.rows) : keep[s] \in 0 .. Len(r.appended[s])
      /\ block_table' = [s \in Seqs |->
           IF s \in Range(r.rows) THEN r.table_before[s] \o kept[s] ELSE block_table[s]]
      /\ ref_count' = Overlay(Restrict(r.ref_before, K \ M), ref_count)
      /\ block_hash' = Overlay(Restrict(r.hash_before, K \ M), block_hash)
      /\ free_block_ids' = FreeWithReleased(M)
      /\ used_block_ids' = r.used_before \cup M
      /\ hash_to_block_id' = EvictBlocks(r.index_before, M)
      /\ reservation' = NoReservation
      /\ token_ids' = token_ids /\ num_cached_tokens' = num_cached_tokens /\ kv' = kv
  BY <1>e, <1>f, <1>g DEF finalize_temporary_append
<1>i. /\ Range(r.rows) \subseteq Seqs /\ r.appended \in [Range(r.rows) -> Seq(Blocks)]
      /\ r.table_before \in [Range(r.rows) -> Seq(Blocks)]
      /\ K \subseteq DOMAIN r.ref_before /\ DOMAIN r.hash_before = DOMAIN r.ref_before
  BY <1>d, <1>e, ListRange DEF LeaseTypes
<1>j. /\ ref_count \in [Blocks -> Nat] /\ block_hash \in [Blocks -> Seq(Token)]
      /\ block_table \in [Seqs -> Seq(Blocks)] /\ A.free \in Seq(Blocks) /\ IsInjective(A.free)
      /\ A.refs \in [Blocks -> Nat] /\ A.hashes \in [Blocks -> Seq(Token)]
      /\ K \subseteq Range(A.free) /\ Range(A.free) \subseteq Blocks
  BY <1>b, <1>d, ListRange DEF Grown, AllocOK, AllocTypes, AllocPool
<1>1. ASSUME NEW s \in Range(r.rows)
      PROVE  /\ kept[s] \in Seq(Blocks) /\ Len(kept[s]) = keep[s] /\ keep[s] \in Nat
             /\ keep[s] <= Len(r.appended[s])
             /\ \A i \in 1 .. keep[s] : kept[s][i] = r.appended[s][i]
             /\ IsInjective(kept[s]) /\ Range(kept[s]) \subseteq Range(r.appended[s])
             /\ Range(kept[s]) \subseteq M
  <2>1. PICK x, k : x = r.appended[s] /\ k = keep[s]
    OBVIOUS
  <2>2. x \in Seq(Blocks) /\ k \in 0 .. Len(x) /\ IsInjective(x)
    <3>1. g[s] = x /\ s \in Seqs
      BY <1>e, <1>i, <2>1
    <3> QED BY <1>d, <1>h, <1>i, <2>1, <3>1 DEF Grown
  <2>3. Len(x) \in Nat /\ k \in Nat /\ k <= Len(x)
    BY <2>2
  <2>4. /\ SubSeq(x, 1, k) \in Seq(Blocks) /\ Len(SubSeq(x, 1, k)) = k
        /\ \A i \in 1 .. k : SubSeq(x, 1, k)[i] = x[i]
        /\ IsInjective(SubSeq(x, 1, k))
        /\ Range(SubSeq(x, 1, k)) \subseteq Range(x)
    BY <2>2, CutSpec
  <2>5. kept[s] = SubSeq(x, 1, k)
    BY <1>f, <2>1
  <2> QED BY <1>g, <2>1, <2>3, <2>4, <2>5
<1>2. \A b \in M : \E s \in Range(r.rows) : b \in Range(kept[s])
  BY <1>g
<1>3. M \subseteq K
  <2>1. \A s \in Range(r.rows) : Range(r.appended[s]) \subseteq K
    BY <1>d, <1>e, <1>i DEF Grown
  <2> QED BY <1>1, <1>2, <2>1
<1>4. PICK f : f = [s \in Seqs |-> IF s \in Range(r.rows) THEN kept[s] ELSE <<>>]
  OBVIOUS
<1>5. PICK B : B = [free |-> free_block_ids', used |-> used_block_ids', index |-> hash_to_block_id',
                    refs |-> ref_count', hashes |-> block_hash', tokens |-> token_ids',
                    tables |-> block_table', cached |-> num_cached_tokens']
  OBVIOUS
<1>6. /\ B.free = free_block_ids' /\ B.used = used_block_ids' /\ B.index = hash_to_block_id'
      /\ B.refs = ref_count' /\ B.hashes = block_hash' /\ B.tokens = token_ids'
      /\ B.tables = block_table' /\ B.cached = num_cached_tokens'
  BY <1>5
<1>7. Grown(A, B, M, f)
  <2>0. Range(<<>>) = {} /\ IsInjective(<<>>)
    BY DEF IsInjective, Range
  <2>1. M \subseteq Range(A.free)
    BY <1>3, <1>j
  <2>2. f \in [Seqs -> Seq(Blocks)]
    BY <1>1, <1>4
  <2>3. \A s \in Seqs : IsInjective(f[s]) /\ Range(f[s]) \subseteq M
    BY <1>1, <1>4, <2>0
  <2>4. ASSUME NEW s \in Seqs, NEW t \in Seqs, s # t PROVE Range(f[s]) \cap Range(f[t]) = {}
    <3>1. Range(g[s]) \cap Range(g[t]) = {}
      BY <1>d, <2>4 DEF Grown
    <3>2. Range(f[s]) \subseteq Range(g[s]) /\ Range(f[t]) \subseteq Range(g[t])
      BY <1>1, <1>4, <1>e, <2>0
    <3> QED BY <3>1, <3>2
  <2>5. \A b \in M : \E s \in Seqs : b \in Range(f[s])
    BY <1>2, <1>4, <1>i
  <2>6. B.free \in Seq(Blocks) /\ IsInjective(B.free) /\ Range(B.free) = Range(A.free) \ M
    <3>1. B.free = Keep(A.free, Blocks \ M)
      BY <1>6, <1>c, <1>h DEF FreeWithReleased
    <3>2. PICK z : z = Keep(A.free, Blocks \ M)
      OBVIOUS
    <3>3. z \in Seq(Blocks) /\ Range(z) = Range(A.free) \cap (Blocks \ M) /\ IsInjective(z)
      BY <1>j, <3>2, KeepSpec
    <3> QED BY <1>j, <3>1, <3>2, <3>3
  <2>7. B.used = A.used \cup M /\ B.index = EvictBlocks(A.index, M)
    BY <1>6, <1>c, <1>h
  <2>8. B.tokens = A.tokens /\ B.cached = A.cached
    BY <1>6, <1>c, <1>h
  <2>9. ASSUME NEW b \in Blocks PROVE B.refs[b] = IF b \in M THEN 1 ELSE A.refs[b]
    <3>1. DOMAIN Restrict(r.ref_before, K \ M) = K \ M /\ \A x \in K \ M : Restrict(r.ref_before, K \ M)[x] = r.ref_before[x]
      BY DEF Restrict
    <3>2. B.refs[b] = IF b \in K \ M THEN r.ref_before[b] ELSE ref_count[b]
      <4>1. PICK R : R = Restrict(r.ref_before, K \ M)
        OBVIOUS
      <4>2. B.refs = [x \in Blocks |-> IF x \in DOMAIN R THEN R[x] ELSE ref_count[x]]
        BY <1>6, <1>h, <1>j, <4>1 DEF Overlay
      <4>3. B.refs[b] = IF b \in DOMAIN R THEN R[b] ELSE ref_count[b]
        BY <4>2
      <4> QED BY <3>1, <4>1, <4>3
    <3>3. A.refs[b] = IF b \in DOMAIN r.ref_before THEN r.ref_before[b] ELSE ref_count[b]
      BY <1>c, <1>j DEF Overlay
    <3>4. ref_count[b] = IF b \in K THEN 1 ELSE A.refs[b]
      BY <1>b, <1>d DEF Grown
    <3> QED BY <1>3, <1>i, <3>2, <3>3, <3>4
  <2>10. B.refs \in [Blocks -> Nat]
    <3>1. B.refs = [b \in Blocks |-> IF b \in DOMAIN Restrict(r.ref_before, K \ M)
                                     THEN Restrict(r.ref_before, K \ M)[b] ELSE ref_count[b]]
      BY <1>6, <1>h, <1>j DEF Overlay
    <3>2. \A b \in Blocks : B.refs[b] \in Nat
      BY <1>j, <2>9
    <3> QED BY <3>1, <3>2
  <2>11. ASSUME NEW b \in Blocks PROVE B.hashes[b] = IF b \in M THEN NoHash ELSE A.hashes[b]
    <3>1. DOMAIN Restrict(r.hash_before, K \ M) = K \ M /\ \A x \in K \ M : Restrict(r.hash_before, K \ M)[x] = r.hash_before[x]
      BY DEF Restrict
    <3>2. B.hashes[b] = IF b \in K \ M THEN r.hash_before[b] ELSE block_hash[b]
      <4>1. PICK R : R = Restrict(r.hash_before, K \ M)
        OBVIOUS
      <4>2. B.hashes = [x \in Blocks |-> IF x \in DOMAIN R THEN R[x] ELSE block_hash[x]]
        BY <1>6, <1>h, <1>j, <4>1 DEF Overlay
      <4>3. B.hashes[b] = IF b \in DOMAIN R THEN R[b] ELSE block_hash[b]
        BY <4>2
      <4> QED BY <3>1, <4>1, <4>3
    <3>3. A.hashes[b] = IF b \in DOMAIN r.hash_before THEN r.hash_before[b] ELSE block_hash[b]
      BY <1>c, <1>j DEF Overlay
    <3>4. block_hash[b] = IF b \in K THEN NoHash ELSE A.hashes[b]
      BY <1>b, <1>d DEF Grown
    <3> QED BY <1>3, <1>i, <3>2, <3>3, <3>4
  <2>12. B.hashes \in [Blocks -> Seq(Token)]
    <3>1. B.hashes = [b \in Blocks |-> IF b \in DOMAIN Restrict(r.hash_before, K \ M)
                                       THEN Restrict(r.hash_before, K \ M)[b] ELSE block_hash[b]]
      BY <1>6, <1>h, <1>j DEF Overlay
    <3>2. NoHash \in Seq(Token)
      BY DEF NoHash
    <3>3. \A b \in Blocks : B.hashes[b] \in Seq(Token)
      BY <1>j, <2>11, <3>2
    <3> QED BY <3>1, <3>3
  <2>13. ASSUME NEW s \in Seqs PROVE B.tables[s] = A.tables[s] \o f[s] /\ B.tables[s] \in Seq(Blocks)
    <3>1. CASE s \in Range(r.rows)
      <4>1. A.tables[s] = r.table_before[s]
        BY <1>c, <1>i, <1>j, <3>1 DEF Overlay
      <4>2. B.tables[s] = r.table_before[s] \o kept[s] /\ f[s] = kept[s]
        BY <1>4, <1>6, <1>h, <3>1
      <4>3. r.table_before[s] \in Seq(Blocks) /\ kept[s] \in Seq(Blocks)
        BY <1>1, <1>i, <3>1
      <4> QED BY <4>1, <4>2, <4>3
    <3>2. CASE s \notin Range(r.rows)
      <4>1. A.tables[s] = block_table[s]
        BY <1>c, <1>i, <1>j, <3>2 DEF Overlay
      <4>2. B.tables[s] = block_table[s] /\ f[s] = <<>>
        BY <1>4, <1>6, <1>h, <3>2
      <4>3. PICK x \in Seq(Blocks) : x = block_table[s]
        BY <1>j
      <4>4. x \o <<>> = x
        OBVIOUS
      <4> QED BY <4>1, <4>2, <4>3, <4>4
    <3> QED BY <3>1, <3>2
  <2>14. B.tables \in [Seqs -> Seq(Blocks)]
    BY <1>6, <1>h, <2>13
  <2> QED BY <2>1, <2>2, <2>3, <2>4, <2>5, <2>6, <2>7, <2>8, <2>9, <2>10, <2>11, <2>12, <2>13, <2>14 DEF Grown
<1>8. AllocOK(B, kv')
  <2>1. AllocOK(B, kv)
    BY <1>7, <1>d, GrowOK
  <2> QED BY <1>h, <2>1
<1>9. IInv'
  BY <1>6, <1>8, NextOK
<1>10. ~Live'
  BY <1>h DEF Live, NoReservation
<1>11. \A s \in Seqs \ Range(r.rows) : block_table'[s] = block_table[s]
  BY <1>h
<1>12. ASSUME NEW s \in Range(r.rows)
       PROVE  /\ keep[s] \in Nat
              /\ Len(block_table'[s]) = Len(A.tables[s]) + keep[s]
              /\ Len(block_table'[s]) <= Len(block_table[s])
              /\ \A i \in 1 .. Len(block_table'[s]) : block_table'[s][i] = block_table[s][i]
  <2>1. s \in Seqs /\ A.tables[s] = r.table_before[s]
    BY <1>c, <1>i, <1>j DEF Overlay
  <2>2. block_table[s] = A.tables[s] \o g[s]
    BY <1>b, <1>d, <2>1 DEF Grown
  <2>3. PICK x, y, z : x = r.table_before[s] /\ y = r.appended[s] /\ z = kept[s]
    OBVIOUS
  <2>4. /\ x \in Seq(Blocks) /\ y \in Seq(Blocks) /\ z \in Seq(Blocks)
        /\ block_table[s] = x \o y /\ block_table'[s] = x \o z
    BY <1>1, <1>e, <1>h, <1>i, <2>1, <2>2, <2>3
  <2>5. PICK l \in Nat, m \in Nat, k \in Nat : l = Len(x) /\ m = Len(y) /\ k = Len(z)
    BY <2>4
  <2>6. k = keep[s] /\ k <= m /\ \A i \in 1 .. k : z[i] = y[i]
    BY <1>1, <2>3, <2>5
  <2>7. /\ Len(x \o y) = l + m /\ Len(x \o z) = l + k
        /\ \A i \in 1 .. l : (x \o y)[i] = x[i] /\ (x \o z)[i] = x[i]
        /\ \A i \in l + 1 .. l + m : (x \o y)[i] = y[i - l]
        /\ \A i \in l + 1 .. l + k : (x \o z)[i] = z[i - l]
    BY <2>4, <2>5
  <2>8. ASSUME NEW i \in 1 .. l + k PROVE (x \o z)[i] = (x \o y)[i]
    <3>1. CASE i <= l
      BY <2>5, <2>7, <3>1
    <3>2. CASE i > l
      <4>1. i \in l + 1 .. l + m /\ i \in l + 1 .. l + k /\ i - l \in 1 .. k
        BY <2>5, <2>6, <3>2
      <4> QED BY <2>6, <2>7, <4>1
    <3>3. i <= l \/ i > l
      BY <2>5
    <3> QED BY ONLY <3>1, <3>2, <3>3, Zenon
  <2>9. l + k <= l + m
    BY <2>5, <2>6
  <2>10. Len(block_table'[s]) = l + k /\ Len(block_table[s]) = l + m /\ Len(A.tables[s]) = l
    BY <2>1, <2>3, <2>4, <2>5, <2>7
  <2>11. \A i \in 1 .. l + k : block_table'[s][i] = block_table[s][i]
    BY <2>4, <2>8
  <2> QED BY <2>5, <2>6, <2>9, <2>10, <2>11
<1> QED BY <1>9, <1>10, <1>11, <1>12, <1>a

-----------------------------------------------------------------------------
(* Slots and writes *)

\* Two sequences have cached the same prefix through position p.
SharePrefix(A, s, t, p) ==
  /\ p < A.cached[s] /\ p < A.cached[t]
  /\ SubSeq(A.tokens[s], 1, p + 1) = SubSeq(A.tokens[t], 1, p + 1)

\* Two positions use the same slot only if they are the same, or if both are cached
\* and end the same prefix.
LEMMA SharedSlot ==
  ASSUME BlockManagerAssumption, NEW A, NEW m, AllocOK(A, m), NEW s \in Seqs, NEW t \in Seqs,
         NEW p \in Nat, p < BlockSize * Len(A.tables[s]),
         NEW q \in Nat, q < BlockSize * Len(A.tables[t]), SlotIn(A, s, p) = SlotIn(A, t, q)
  PROVE  p = q /\ (s = t \/ SharePrefix(A, s, t, p))
<1>a. /\ AllocTypes(A, m) /\ AllocPool(A) /\ AllocTable(A, s) /\ AllocTable(A, t)
  BY DEF AllocOK
<1>b. /\ A.tables[s] \in Seq(Blocks) /\ A.tables[t] \in Seq(Blocks)
      /\ A.tokens[s] \in Seq(Token) /\ A.tokens[t] \in Seq(Token)
      /\ A.cached[s] \in Nat /\ A.cached[t] \in Nat /\ BlockSize \in Nat \ {0}
  BY <1>a DEF AllocTypes, BlockManagerAssumption
<1>c. PICK c \in Nat, d \in Nat, bs \in Nat \ {0} : c = A.cached[s] /\ d = A.cached[t] /\ bs = BlockSize
  BY <1>b
<1>1. PICK x, y : x = A.tables[s] /\ y = A.tables[t]
  OBVIOUS
<1>2. Len(x) \in Nat /\ Len(y) \in Nat /\ x \in Seq(Blocks) /\ y \in Seq(Blocks)
  BY <1>1, <1>b
<1>3. PICK u \in Nat, v \in Nat : u = p \div BlockSize /\ v = q \div BlockSize
  BY <1>b, DivBounds
<1>4. /\ u + 1 \in 1 .. Len(x) /\ p % BlockSize \in 0 .. BlockSize - 1 /\ p = BlockSize * u + (p % BlockSize)
  BY <1>1, <1>2, <1>3, SlotBlock
<1>5. /\ v + 1 \in 1 .. Len(y) /\ q % BlockSize \in 0 .. BlockSize - 1 /\ q = BlockSize * v + (q % BlockSize)
  BY <1>1, <1>2, <1>3, SlotBlock
<1>6. x[u + 1] = y[v + 1] /\ p % BlockSize = q % BlockSize
  BY <1>1, <1>3 DEF SlotIn
<1>7. PICK i \in 1 .. Len(x), j \in 1 .. Len(y) : i = u + 1 /\ j = v + 1
  BY <1>4, <1>5
<1>8. x[i] = y[j] /\ i \in Nat /\ j \in Nat /\ x[i] \in Range(x) /\ y[j] \in Range(y)
  BY <1>2, <1>6, <1>7, ListRange
<1>9. u = v => p = q
  BY <1>4, <1>5, <1>6
<1>10. ASSUME s = t PROVE p = q
  <2>1. IsInjective(x) /\ y = x
    BY <1>1, <1>10, <1>a DEF AllocTable
  <2>2. DOMAIN x = 1 .. Len(x)
    BY <1>2
  <2>3. i = j
    BY <1>8, <2>1, <2>2 DEF IsInjective
  <2> QED BY <1>3, <1>7, <1>9, <2>3
<1>11. ASSUME A.refs[x[i]] = 1 PROVE s = t
  <2>1. PICK b : b = x[i]
    OBVIOUS
  <2>2. b \in Range(A.tables[s]) /\ b \in Range(A.tables[t]) /\ A.refs[b] = 1
    BY <1>1, <1>8, <1>11, <2>1
  <2> QED BY <1>a, <2>2, OwnedIn
<1>12. ASSUME s # t
       PROVE  /\ p = q /\ p < A.cached[s] /\ p < A.cached[t]
              /\ SubSeq(A.tokens[s], 1, p + 1) = SubSeq(A.tokens[t], 1, p + 1)
  <2>1. A.refs[x[i]] # 1 /\ A.refs[y[j]] # 1
    BY <1>8, <1>11, <1>12
  <2>2. PICK k \in Nat, l \in Nat : k = i * BlockSize /\ l = j * BlockSize
    BY <1>8, <1>b
  <2>3. /\ ~(k > A.cached[s]) /\ A.hashes[x[i]] = SubSeq(A.tokens[s], 1, k)
        /\ ~(l > A.cached[t]) /\ A.hashes[y[j]] = SubSeq(A.tokens[t], 1, l)
    BY <1>1, <1>7, <1>a, <2>1, <2>2 DEF AllocTable
  <2>4. PICK f, g : f = A.tokens[s] /\ g = A.tokens[t]
    OBVIOUS
  <2>5. /\ f \in Seq(Token) /\ g \in Seq(Token) /\ Len(f) \in Nat /\ Len(g) \in Nat
        /\ k <= Len(f) /\ l <= Len(g) /\ k <= A.cached[s] /\ l <= A.cached[t]
    <3>1. A.cached[s] <= Len(f) /\ A.cached[t] <= Len(g)
      BY <1>a, <2>4 DEF AllocTable
    <3>2. f \in Seq(Token) /\ g \in Seq(Token) /\ Len(f) \in Nat /\ Len(g) \in Nat
      <4>1. f \in Seq(Token) /\ g \in Seq(Token)
        BY <1>b, <2>4
      <4> QED BY ONLY <4>1, LenProperties
    <3>3. ~(k > c) /\ ~(l > d) /\ c <= Len(f) /\ d <= Len(g)
      BY <1>c, <2>3, <3>1
    <3>4. k <= c /\ l <= d /\ k <= Len(f) /\ l <= Len(g)
      BY <2>2, <3>2, <3>3
    <3> QED BY <1>c, <3>2, <3>4
  <2>6. SubSeq(f, 1, k) = SubSeq(g, 1, l)
    BY <1>8, <2>3, <2>4
  <2>7. Len(SubSeq(f, 1, k)) = k /\ Len(SubSeq(g, 1, l)) = l
    BY <2>5
  <2>8. k = l
    BY <2>6, <2>7
  <2>9. i = j
    <3>0. bs * i = i * bs /\ bs * j = j * bs
      BY <1>8, <1>c
    <3>1. bs * i = bs * j
      BY <1>c, <2>2, <2>8, <3>0
    <3>4. bs * i <= bs * j /\ bs * j <= bs * i
      BY <1>8, <1>c, <3>1
    <3>2. i <= j /\ j <= i
      BY <1>8, <1>c, <3>4, MulOrder
    <3> QED BY <1>8, <3>2
  <2>10. p = q
    BY <1>3, <1>7, <1>9, <2>9
  <2>11. p + 1 <= k
    <3>0. bs * u \in Nat /\ (u + 1) * bs = bs * u + bs
      BY ONLY u \in Nat, bs \in Nat
    <3>1. PICK z \in Nat, o \in 0 .. bs - 1 : z = bs * u /\ o = p % BlockSize
      BY <1>4, <1>c, <3>0
    <3>2. k = z + bs /\ p = z + o
      BY <1>4, <1>7, <1>c, <2>2, <3>0, <3>1
    <3> QED BY <1>c, <3>1, <3>2
  <2>12. SubSeq(f, 1, p + 1) = SubSeq(SubSeq(f, 1, k), 1, p + 1) /\ SubSeq(g, 1, p + 1) = SubSeq(SubSeq(g, 1, l), 1, p + 1)
    BY <2>5, <2>8, <2>11, PrefixOfPrefix
  <2>13. p < A.cached[s] /\ p < A.cached[t]
    BY <1>c, <2>2, <2>5, <2>8, <2>11
  <2> QED BY <2>4, <2>6, <2>10, <2>12, <2>13
<1> QED BY <1>10, <1>12 DEF SharePrefix

\* Taking blocks moves no position.
LEMMA SlotKept ==
  ASSUME BlockManagerAssumption, NEW A, NEW B, NEW K, NEW g, NEW m, AllocOK(A, m), Grown(A, B, K, g),
         NEW s \in Seqs, NEW p \in Nat, p < BlockSize * Len(A.tables[s])
  PROVE  SlotIn(B, s, p) = SlotIn(A, s, p) /\ p < BlockSize * Len(B.tables[s])
<1>1. PICK x, y : x = A.tables[s] /\ y = g[s]
  OBVIOUS
<1>2. x \in Seq(Blocks) /\ y \in Seq(Blocks) /\ B.tables[s] = x \o y
  BY <1>1 DEF AllocOK, AllocTypes, Grown
<1>3. PICK k \in Nat, l \in Nat : k = Len(x) /\ l = Len(y)
  BY <1>2
<1>4. Len(x \o y) = k + l /\ \A i \in 1 .. k : (x \o y)[i] = x[i]
  BY <1>2, <1>3
<1>5. PICK i : i = p \div BlockSize + 1
  OBVIOUS
<1>6. i \in 1 .. k
  BY <1>1, <1>3, <1>5, SlotBlock
<1>7. SlotIn(B, s, p) = SlotIn(A, s, p)
  BY <1>1, <1>2, <1>4, <1>5, <1>6 DEF SlotIn
<1>8. p < BlockSize * (k + l)
  <2>1. BlockSize \in Nat /\ k + l \in Nat /\ k <= k + l
    BY <1>3 DEF BlockManagerAssumption
  <2>2. BlockSize * k <= BlockSize * (k + l)
    BY <2>1, MulMono
  <2>3. PICK u \in Nat, v \in Nat : u = BlockSize * k /\ v = BlockSize * (k + l)
    BY <2>1
  <2>4. p < u /\ u <= v
    BY <1>1, <1>3, <2>2, <2>3
  <2>5. p < v
    BY <2>3, <2>4
  <2> QED BY <2>3, <2>5
<1> QED BY <1>2, <1>4, <1>7, <1>8

\* The slot of a position that the table covers is a slot of the cache.
LEMMA SlotTyped ==
  ASSUME BlockManagerAssumption, NEW A, NEW m, AllocTypes(A, m), NEW s \in Seqs,
         NEW p \in Nat, p < BlockSize * Len(A.tables[s])
  PROVE  /\ SlotIn(A, s, p)[1] \in Blocks /\ SlotIn(A, s, p)[2] \in 0 .. BlockSize - 1
         /\ SlotIn(A, s, p)[1] \in Range(A.tables[s])
<1>1. PICK x : x = A.tables[s]
  OBVIOUS
<1>2. x \in Seq(Blocks) /\ Len(x) \in Nat
  BY <1>1 DEF AllocTypes
<1>3. p \div BlockSize + 1 \in 1 .. Len(x) /\ p % BlockSize \in 0 .. BlockSize - 1
  BY <1>1, <1>2, SlotBlock
<1>4. x[p \div BlockSize + 1] \in Blocks /\ x[p \div BlockSize + 1] \in Range(x)
  BY <1>2, <1>3, ListRange
<1> QED BY <1>1, <1>3, <1>4 DEF SlotIn

\* n is m, but for slots of positions past the cached ones.
WrittenPast(A, m, n) ==
  /\ n \in [Blocks -> [0 .. BlockSize - 1 -> Seq(Token)]]
  /\ \A b \in Blocks, o \in 0 .. BlockSize - 1 :
       n[b][o] # m[b][o] =>
         \E s \in Seqs : \E p \in Nat :
           /\ A.cached[s] <= p /\ p < BlockSize * Len(A.tables[s])
           /\ SlotIn(A, s, p) = <<b, o>>

\* Such a slot has no hash and no cached position.
LEMMA PastIsFree ==
  ASSUME BlockManagerAssumption, NEW A, NEW m, AllocOK(A, m), NEW b, NEW o, NEW s \in Seqs, NEW p \in Nat,
         A.cached[s] <= p, p < BlockSize * Len(A.tables[s]), SlotIn(A, s, p) = <<b, o>>
  PROVE  /\ A.hashes[b] = NoHash
         /\ \A t \in Seqs : \A q \in 0 .. A.cached[t] - 1 : SlotIn(A, t, q) # <<b, o>>
<1>1. AllocTypes(A, m) /\ AllocTable(A, s) /\ A.cached[s] \in Nat /\ BlockSize \in Nat \ {0}
  BY DEF AllocOK, AllocTypes, BlockManagerAssumption
<1>2. PICK x : x = A.tables[s]
  OBVIOUS
<1>3. x \in Seq(Blocks) /\ Len(x) \in Nat
  BY <1>1, <1>2 DEF AllocTypes
<1>4. PICK u \in Nat : u = p \div BlockSize
  BY <1>1, DivBounds
<1>5. u + 1 \in 1 .. Len(x) /\ p % BlockSize \in 0 .. BlockSize - 1 /\ p = BlockSize * u + (p % BlockSize)
  BY <1>2, <1>3, <1>4, SlotBlock
<1>6. (u + 1) * BlockSize > A.cached[s]
  <2>0. p % BlockSize \in Nat
    BY ONLY <1>1, <1>5
  <2>1. PICK bs \in Nat \ {0}, c \in Nat, r \in Nat : bs = BlockSize /\ c = A.cached[s] /\ r = p % BlockSize
    BY ONLY <1>1, <2>0
  <2>2. bs * u \in Nat /\ (u + 1) * bs = bs * u + bs
    BY ONLY u \in Nat, bs \in Nat
  <2>3. PICK z \in Nat : z = bs * u
    BY <2>2
  <2>4. p = z + r /\ r < bs /\ c <= p
    BY <1>5, <2>1, <2>3
  <2>5. z + bs > c
    BY <2>1, <2>3, <2>4
  <2> QED BY <2>1, <2>2, <2>3, <2>5
<1>7. x[u + 1] = b
  BY <1>2, <1>4 DEF SlotIn
<1>8. A.hashes[b] = NoHash
  BY <1>1, <1>2, <1>5, <1>6, <1>7 DEF AllocTable
<1>9. ASSUME NEW t \in Seqs, NEW q \in 0 .. A.cached[t] - 1, SlotIn(A, t, q) = <<b, o>> PROVE FALSE
  <2>1. A.cached[t] \in Nat /\ Len(A.tables[t]) \in Nat /\ A.cached[t] <= BlockSize * Len(A.tables[t])
    BY <1>1 DEF AllocOK, AllocTypes, AllocTable
  <2>2. PICK c \in Nat, d \in Nat : c = A.cached[t] /\ d = BlockSize * Len(A.tables[t])
    BY <1>1, <2>1
  <2>3. q \in Nat /\ q < c /\ q < BlockSize * Len(A.tables[t])
    BY ONLY <2>1, <2>2, q \in 0 .. A.cached[t] - 1
  <2>4. SlotIn(A, s, p) = SlotIn(A, t, q)
    BY <1>9
  <2>5. p = q /\ (s = t \/ p < A.cached[s])
    <3>1. p = q /\ (s = t \/ SharePrefix(A, s, t, p))
      BY <2>3, <2>4, SharedSlot
    <3> QED BY <3>1 DEF SharePrefix
  <2> QED BY <1>1, <2>2, <2>3, <2>5
<1> QED BY <1>8, <1>9

\* Writes past the cached positions keep the allocator's invariant.
LEMMA PastWriteOK ==
  ASSUME BlockManagerAssumption, NEW A, NEW m, NEW n, AllocOK(A, m), WrittenPast(A, m, n)
  PROVE  AllocOK(A, n)
<1>1. ASSUME NEW b \in Blocks, NEW o \in 0 .. BlockSize - 1, n[b][o] # m[b][o]
      PROVE  /\ A.hashes[b] = NoHash
             /\ \A s \in Seqs : \A p \in 0 .. A.cached[s] - 1 : SlotIn(A, s, p) # <<b, o>>
  <2>1. PICK s \in Seqs, p \in Nat : /\ A.cached[s] <= p /\ p < BlockSize * Len(A.tables[s])
                                     /\ SlotIn(A, s, p) = <<b, o>>
    BY <1>1 DEF WrittenPast
  <2> QED BY <2>1, PastIsFree
<1> QED BY <1>1, WriteOK DEF WrittenPast

\* Under a reservation they also keep the state to go back to, once its hashes are gone.
LEMMA LeaseWrites ==
  ASSUME BlockManagerAssumption, NEW H, NEW m, NEW n, Lease(H, m), Unhashed(H), WrittenPast(H, m, n)
  PROVE  Lease(H, n)
<1>1. PICK A, K, g : A = Before(H) /\ K = Borrowed(H) /\ g = BorrowedBy(H)
  OBVIOUS
<1>2. AllocOK(A, m) /\ Grown(A, H, K, g) /\ AllocOK(H, m)
  BY <1>1, LeaseOK DEF Lease
<1>3. ASSUME NEW b \in Blocks, NEW o \in 0 .. BlockSize - 1, n[b][o] # m[b][o]
      PROVE  /\ A.hashes[b] = NoHash
             /\ \A s \in Seqs : \A p \in 0 .. A.cached[s] - 1 : SlotIn(A, s, p) # <<b, o>>
  <2>1. /\ H.hashes[b] = NoHash
        /\ \A s \in Seqs : \A p \in 0 .. H.cached[s] - 1 : SlotIn(H, s, p) # <<b, o>>
    <3>1. PICK s \in Seqs, p \in Nat : /\ H.cached[s] <= p /\ p < BlockSize * Len(H.tables[s])
                                       /\ SlotIn(H, s, p) = <<b, o>>
      BY <1>3 DEF WrittenPast
    <3> QED BY <1>2, <3>1, PastIsFree
  <2>2. A.hashes[b] = NoHash
    <3>1. CASE b \in K
      BY <1>1, <3>1 DEF Unhashed
    <3>2. CASE b \notin K
      BY <1>2, <2>1, <3>2 DEF Grown
    <3> QED BY <3>1, <3>2
  <2>3. ASSUME NEW s \in Seqs, NEW p \in 0 .. A.cached[s] - 1 PROVE SlotIn(A, s, p) # <<b, o>>
    <3>1. A.cached[s] = H.cached[s] /\ A.cached[s] \in Nat /\ Len(A.tables[s]) \in Nat
          /\ A.cached[s] <= BlockSize * Len(A.tables[s]) /\ BlockSize \in Nat
      <4>1. AllocTypes(A, m) /\ AllocTable(A, s) /\ A.cached = H.cached
        BY <1>2 DEF Grown, AllocOK
      <4>2. BlockSize \in Nat
        BY DEF BlockManagerAssumption
      <4> QED BY ONLY <4>1, <4>2, s \in Seqs DEF AllocTypes, AllocTable
    <3>2. PICK c \in Nat, d \in Nat : c = A.cached[s] /\ d = BlockSize * Len(A.tables[s])
      BY <3>1
    <3>3. p \in Nat /\ p < BlockSize * Len(A.tables[s])
      BY <3>1, <3>2
    <3>4. SlotIn(H, s, p) = SlotIn(A, s, p)
      BY <1>2, <3>3, SlotKept
    <3> QED BY <2>1, <3>1, <3>4
  <2> QED BY <2>2, <2>3
<1>4. AllocOK(A, n)
  BY <1>2, <1>3, WriteOK DEF WrittenPast
<1> QED BY <1>1, <1>4 DEF Lease

-----------------------------------------------------------------------------
(* A pass over positions that may not be committed *)

\* A text that goes on from t starts with the prefixes of t.
LEMMA PrefixOfText ==
  ASSUME NEW T, NEW x \in Seq(T), NEW y \in Seq(T), NEW k \in 0 .. Len(x)
  PROVE  SubSeq(x \o y, 1, k) = SubSeq(x, 1, k)
<1>1. PICK l \in Nat, m \in Nat : l = Len(x) /\ m = Len(y)
  OBVIOUS
<1>2. k \in Nat /\ k <= l
  BY <1>1
<1>3. x \o y \in Seq(T) /\ Len(x \o y) = l + m /\ \A i \in 1 .. l : (x \o y)[i] = x[i]
  BY <1>1
<1>4. k \in 0 .. Len(x \o y) /\ k \in 0 .. Len(x)
  BY <1>1, <1>2, <1>3
<1>5. PICK u, v : u = SubSeq(x \o y, 1, k) /\ v = SubSeq(x, 1, k)
  OBVIOUS
<1>6. u \in Seq(T) /\ Len(u) = k /\ \A i \in 1 .. k : u[i] = (x \o y)[i]
  BY <1>2, <1>3, <1>4, <1>5
<1>7. v \in Seq(T) /\ Len(v) = k /\ \A i \in 1 .. k : v[i] = x[i]
  BY <1>2, <1>4, <1>5
<1>8. \A i \in 1 .. k : u[i] = v[i]
  BY <1>1, <1>2, <1>3, <1>6, <1>7
<1> QED BY <1>5, <1>6, <1>7, <1>8, SeqEqual

\* A pass over positions at[s] of texts that go on from the tokens of s.
PassOver(A, at, text) ==
  /\ DOMAIN at \subseteq Seqs
  /\ \A s \in DOMAIN at :
       /\ text[s] \in Seq(Token)
       /\ \A k \in 0 .. Len(A.tokens[s]) : SubSeq(text[s], 1, k) = SubSeq(A.tokens[s], 1, k)
       /\ at[s] \subseteq Nat
       /\ \A p \in at[s] : p < Len(text[s]) /\ p < BlockSize * Len(A.tables[s])

\* What such a pass leaves in a slot.
SlotAfter(A, at, text, c, n, b, o) ==
  \/ /\ n[b][o] = c[b][o]
     /\ \A s \in DOMAIN at : \A p \in at[s] : SlotIn(A, s, p) # <<b, o>>
  \/ \E s \in DOMAIN at : \E p \in at[s] :
       SlotIn(A, s, p) = <<b, o>> /\ n[b][o] = SubSeq(text[s], 1, p + 1)

\* A slot holds what one of the writing positions stored, or what it held.
LEMMA StoredSlot ==
  ASSUME BlockManagerAssumption, NEW A, A.tables = block_table, NEW at, NEW text, NEW c,
         c \in [Blocks -> [0 .. BlockSize - 1 -> Seq(Token)]], PassOver(A, at, text),
         NEW n, n = Stored(c, at, text)
  PROVE  /\ n \in [Blocks -> [0 .. BlockSize - 1 -> Seq(Token)]]
         /\ \A b \in Blocks, o \in 0 .. BlockSize - 1 : SlotAfter(A, at, text, c, n, b, o)
<1> DEFINE wr(b, o, s, p) == SlotOf(s, p) = <<b, o>>
           val(b, o) ==
             IF \E s \in DOMAIN at : \E p \in at[s] : wr(b, o, s, p)
             THEN LET s == CHOOSE s \in DOMAIN at : \E p \in at[s] : wr(b, o, s, p)
                      p == CHOOSE p \in at[s] : wr(b, o, s, p)
                  IN  SubSeq(text[s], 1, p + 1)
             ELSE c[b][o]
<1>1. n = [b \in Blocks |-> [o \in 0 .. BlockSize - 1 |-> val(b, o)]]
  BY DEF Stored
<1>2. \A s, p : SlotOf(s, p) = SlotIn(A, s, p)
  BY DEF SlotOf, SlotIn
<1>3. ASSUME NEW b \in Blocks, NEW o \in 0 .. BlockSize - 1
      PROVE  /\ val(b, o) \in Seq(Token)
             /\ \/ /\ val(b, o) = c[b][o]
                   /\ \A s \in DOMAIN at : \A p \in at[s] : SlotIn(A, s, p) # <<b, o>>
                \/ \E s \in DOMAIN at : \E p \in at[s] :
                     SlotIn(A, s, p) = <<b, o>> /\ val(b, o) = SubSeq(text[s], 1, p + 1)
  <2>1. CASE \E s \in DOMAIN at : \E p \in at[s] : wr(b, o, s, p)
    <3>1. PICK s : s = CHOOSE t \in DOMAIN at : \E p \in at[t] : wr(b, o, t, p)
      OBVIOUS
    <3>2. s \in DOMAIN at /\ \E p \in at[s] : wr(b, o, s, p)
      BY <2>1, <3>1
    <3>3. PICK p : p = CHOOSE q \in at[s] : wr(b, o, s, q)
      OBVIOUS
    <3>4. p \in at[s] /\ wr(b, o, s, p)
      BY <3>2, <3>3
    <3>5. val(b, o) = SubSeq(text[s], 1, p + 1)
      BY <2>1, <3>1, <3>3
    <3> HIDE DEF wr, val
    <3>6. SubSeq(text[s], 1, p + 1) \in Seq(Token)
      <4>1. PICK x : x = text[s]
        OBVIOUS
      <4>2. x \in Seq(Token) /\ p \in Nat /\ p < Len(x)
        BY <3>2, <3>4, <4>1 DEF PassOver
      <4>3. Len(x) \in Nat /\ p + 1 \in 0 .. Len(x)
        BY <4>2
      <4>4. SubSeq(x, 1, p + 1) \in Seq(Token)
        BY <4>2, <4>3
      <4> QED BY <4>1, <4>4
    <3>7. SlotIn(A, s, p) = <<b, o>>
      BY <1>2, <3>4 DEF wr
    <3> QED BY <3>2, <3>4, <3>5, <3>6, <3>7
  <2>2. CASE ~\E s \in DOMAIN at : \E p \in at[s] : wr(b, o, s, p)
    <3>1. val(b, o) = c[b][o]
      BY <2>2
    <3>2. \A s \in DOMAIN at : \A p \in at[s] : SlotIn(A, s, p) # <<b, o>>
      BY <1>2, <2>2
    <3>3. c[b][o] \in Seq(Token)
      OBVIOUS
    <3> HIDE DEF val, wr
    <3> QED BY <3>1, <3>2, <3>3
  <2> QED BY <2>1, <2>2
<1> HIDE DEF val, wr
<1>4. n \in [Blocks -> [0 .. BlockSize - 1 -> Seq(Token)]]
  BY <1>1, <1>3
<1>5. \A b \in Blocks, o \in 0 .. BlockSize - 1 : n[b][o] = val(b, o)
  BY <1>1
<1>6. ASSUME NEW b \in Blocks, NEW o \in 0 .. BlockSize - 1
      PROVE  \/ /\ n[b][o] = c[b][o]
                /\ \A s \in DOMAIN at : \A p \in at[s] : SlotIn(A, s, p) # <<b, o>>
             \/ \E s \in DOMAIN at : \E p \in at[s] :
                  SlotIn(A, s, p) = <<b, o>> /\ n[b][o] = SubSeq(text[s], 1, p + 1)
  <2>1. PICK v : v = val(b, o)
    OBVIOUS
  <2>2. n[b][o] = v
    BY <1>5, <2>1
  <2>3. \/ /\ v = c[b][o]
           /\ \A s \in DOMAIN at : \A p \in at[s] : SlotIn(A, s, p) # <<b, o>>
        \/ \E s \in DOMAIN at : \E p \in at[s] :
             SlotIn(A, s, p) = <<b, o>> /\ v = SubSeq(text[s], 1, p + 1)
    BY <1>3, <2>1
  <2> QED BY ONLY <2>2, <2>3, Zenon
<1> QED BY <1>4, <1>6 DEF SlotAfter

\* What a pass over `at` leaves of position p of t, of text x and n cached tokens: its text
\* where it computed it, else the content c it found, or the same prefix of a shared block.
SlotLeft(at, text, c, m, x, n, t, b, o, p) ==
  /\ t \in DOMAIN at /\ p \in at[t] => m[b][o] = SubSeq(text[t], 1, p + 1)
  /\ ~(t \in DOMAIN at /\ p \in at[t]) =>
       m[b][o] = c[b][o] \/ (p < n /\ m[b][o] = SubSeq(x, 1, p + 1))

\* A position that the pass went over holds its text, whoever else shares the slot;
\* any other keeps what it had or, if it is cached, holds its tokens.
LEMMA StoredAt ==
  ASSUME BlockManagerAssumption, NEW A, A.tables = block_table, NEW m, AllocOK(A, m),
         NEW at, NEW text, NEW c, c \in [Blocks -> [0 .. BlockSize - 1 -> Seq(Token)]],
         PassOver(A, at, text), NEW n, n = Stored(c, at, text),
         NEW t \in Seqs, NEW p \in Nat, p < BlockSize * Len(A.tables[t]),
         NEW b, NEW o, SlotIn(A, t, p) = <<b, o>>
  PROVE  SlotLeft(at, text, c, n, A.tokens[t], A.cached[t], t, b, o, p)
<1>0. AllocTypes(A, m) /\ AllocPool(A) /\ \A s \in Seqs : AllocTable(A, s)
  BY DEF AllocOK
<1>1. b \in Blocks /\ o \in 0 .. BlockSize - 1
  <2>1. SlotIn(A, t, p)[1] \in Blocks /\ SlotIn(A, t, p)[2] \in 0 .. BlockSize - 1
    BY <1>0, SlotTyped
  <2> QED BY <2>1
<1>2. \/ /\ n[b][o] = c[b][o]
         /\ \A s \in DOMAIN at : \A q \in at[s] : SlotIn(A, s, q) # <<b, o>>
      \/ \E s \in DOMAIN at : \E q \in at[s] :
           SlotIn(A, s, q) = <<b, o>> /\ n[b][o] = SubSeq(text[s], 1, q + 1)
  <2>1. SlotAfter(A, at, text, c, n, b, o)
    BY <1>1, StoredSlot
  <2> QED BY <2>1 DEF SlotAfter
<1>3. CASE /\ n[b][o] = c[b][o]
           /\ \A s \in DOMAIN at : \A q \in at[s] : SlotIn(A, s, q) # <<b, o>>
  BY <1>3 DEF SlotLeft
<1>4. ASSUME NEW s \in DOMAIN at, NEW q \in at[s], SlotIn(A, s, q) = <<b, o>>,
             n[b][o] = SubSeq(text[s], 1, q + 1)
      PROVE  /\ t \in DOMAIN at /\ p \in at[t] => n[b][o] = SubSeq(text[t], 1, p + 1)
             /\ ~(t \in DOMAIN at /\ p \in at[t]) =>
                  \/ n[b][o] = c[b][o]
                  \/ p < A.cached[t] /\ n[b][o] = SubSeq(A.tokens[t], 1, p + 1)
  <2>1. s \in Seqs /\ q \in Nat /\ q < BlockSize * Len(A.tables[s])
    BY DEF PassOver
  <2>2. /\ q = p
        /\ \/ s = t
           \/ /\ p < A.cached[s] /\ p < A.cached[t]
              /\ SubSeq(A.tokens[s], 1, p + 1) = SubSeq(A.tokens[t], 1, p + 1)
    <3>1. SlotIn(A, s, q) = SlotIn(A, t, p)
      BY <1>4
    <3>2. q = p /\ (s = t \/ SharePrefix(A, s, t, q))
      BY <2>1, <3>1, SharedSlot
    <3> QED BY <3>2 DEF SharePrefix
  <2>3. CASE s = t
    BY <1>4, <2>2, <2>3
  <2>4. CASE /\ p < A.cached[s] /\ p < A.cached[t]
             /\ SubSeq(A.tokens[s], 1, p + 1) = SubSeq(A.tokens[t], 1, p + 1)
    <3>1. p + 1 \in 0 .. Len(A.tokens[s]) /\ p + 1 \in 0 .. Len(A.tokens[t])
      <4>1. /\ A.cached[s] \in Nat /\ A.cached[t] \in Nat
            /\ Len(A.tokens[s]) \in Nat /\ Len(A.tokens[t]) \in Nat
            /\ A.cached[s] <= Len(A.tokens[s]) /\ A.cached[t] <= Len(A.tokens[t])
        BY <1>0, <2>1 DEF AllocTypes, AllocTable
      <4>2. PICK u \in Nat, v \in Nat, x \in Nat, y \in Nat :
              u = A.cached[s] /\ v = A.cached[t] /\ x = Len(A.tokens[s]) /\ y = Len(A.tokens[t])
        BY <4>1
      <4>3. p < u /\ p < v /\ u <= x /\ v <= y
        BY ONLY <2>4, <4>1, <4>2
      <4>4. p + 1 \in 0 .. x /\ p + 1 \in 0 .. y
        BY ONLY <4>3, p \in Nat, u \in Nat, v \in Nat, x \in Nat, y \in Nat
      <4> QED BY ONLY <4>2, <4>4
    <3>2. SubSeq(text[s], 1, p + 1) = SubSeq(A.tokens[s], 1, p + 1)
      BY <3>1 DEF PassOver
    <3>3. t \in DOMAIN at => SubSeq(text[t], 1, p + 1) = SubSeq(A.tokens[t], 1, p + 1)
      BY <3>1 DEF PassOver
    <3> QED BY <1>4, <2>2, <2>4, <3>2, <3>3
  <2> QED BY <2>2, <2>3, <2>4
<1> QED BY <1>2, <1>3, <1>4 DEF SlotLeft

\* A pass over positions past the cached ones writes only there.
LEMMA StoredPast ==
  ASSUME BlockManagerAssumption, NEW A, A.tables = block_table, NEW at, NEW text, NEW c,
         c \in [Blocks -> [0 .. BlockSize - 1 -> Seq(Token)]], PassOver(A, at, text),
         \A s \in DOMAIN at : \A p \in at[s] : A.cached[s] <= p,
         NEW n, n = Stored(c, at, text)
  PROVE  WrittenPast(A, c, n)
<1>1. n \in [Blocks -> [0 .. BlockSize - 1 -> Seq(Token)]]
  BY StoredSlot
<1>2. ASSUME NEW b \in Blocks, NEW o \in 0 .. BlockSize - 1, n[b][o] # c[b][o]
      PROVE  \E s \in Seqs : \E p \in Nat :
               /\ A.cached[s] <= p /\ p < BlockSize * Len(A.tables[s])
               /\ SlotIn(A, s, p) = <<b, o>>
  <2>1. \/ /\ n[b][o] = c[b][o]
           /\ \A s \in DOMAIN at : \A q \in at[s] : SlotIn(A, s, q) # <<b, o>>
        \/ \E s \in DOMAIN at : \E q \in at[s] :
             SlotIn(A, s, q) = <<b, o>> /\ n[b][o] = SubSeq(text[s], 1, q + 1)
    <3>1. SlotAfter(A, at, text, c, n, b, o)
      BY StoredSlot
    <3> QED BY <3>1 DEF SlotAfter
  <2>4. PICK s \in DOMAIN at : \E q \in at[s] : SlotIn(A, s, q) = <<b, o>>
    BY <1>2, <2>1
  <2>2. PICK q \in at[s] : SlotIn(A, s, q) = <<b, o>>
    BY <2>4
  <2>3. s \in Seqs /\ q \in Nat /\ q < BlockSize * Len(A.tables[s]) /\ A.cached[s] <= q
    BY DEF PassOver
  <2> QED BY <2>2, <2>3
<1> QED BY <1>1, <1>2 DEF WrittenPast

\* What it leaves where the tables lead.
PassLeft(A, at, text, c, m) ==
  \A t \in Seqs, p \in Nat :
    p < BlockSize * Len(A.tables[t]) =>
      SlotLeft(at, text, c, m, A.tokens[t], A.cached[t], t,
               A.tables[t][p \div BlockSize + 1], p % BlockSize, p)

\* What a pass over the rows leaves in a cache.
LEMMA PassLeaves ==
  ASSUME BlockManagerAssumption, NEW A, A.tables = block_table, NEW m, AllocOK(A, m),
         NEW at, NEW text, NEW c, c \in [Blocks -> [0 .. BlockSize - 1 -> Seq(Token)]],
         PassOver(A, at, text), NEW n, n = Stored(c, at, text)
  PROVE  PassLeft(A, at, text, c, n)
<1> SUFFICES ASSUME NEW t \in Seqs, NEW p \in Nat, p < BlockSize * Len(A.tables[t]),
                    NEW b, b = A.tables[t][p \div BlockSize + 1], NEW o, o = p % BlockSize
             PROVE  SlotLeft(at, text, c, n, A.tokens[t], A.cached[t], t, b, o, p)
  BY DEF PassLeft
<1>1. SlotIn(A, t, p) = <<b, o>>
  BY DEF SlotIn
<1> QED BY <1>1, StoredAt

=============================================================================
