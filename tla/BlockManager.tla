----------------------------- MODULE BlockManager -----------------------------
(***************************************************************************)
(* The paged KV-cache allocator of nanovllm/engine/block_manager.py and    *)
(* the fields of a Sequence that it reads and writes.                      *)
(*                                                                         *)
(* A sequence's tokens are laid out over fixed-size blocks named by its    *)
(* block_table.  A full block can be published under the hash of the whole *)
(* prefix that ends in it and then be shared, by reference count, with a   *)
(* later sequence that starts with the same tokens.  A block nobody refers *)
(* to goes to the tail of the free list with its hash, so that it can      *)
(* still be found, until it is taken from the head for new contents.       *)
(*                                                                         *)
(* The hash of a block is represented by the token prefix it is computed   *)
(* from: compute_hash chains the hash of the previous block with the       *)
(* tokens of this one, which is concatenation of prefixes.  The xxh64      *)
(* digest is thereby assumed free of collisions.                           *)
(*                                                                         *)
(* kv is the contents of the target model's cache, which the Python code   *)
(* never sees: for each slot, the token prefix whose last position was     *)
(* computed into it.  It is what the properties compare the metadata with. *)
(***************************************************************************)
EXTENDS Integers, Sequences, FiniteSets, Functions

CONSTANTS
  NumBlocks,   \* config.num_kvcache_blocks
  BlockSize,   \* config.kvcache_block_size
  Seqs,        \* identifiers of the sequences ever created
  Token,       \* the vocabulary
  Prompts,     \* the prompts a sequence may start with
  MaxLen       \* bound: tokens a sequence may grow to

\* config.py requires positive sizes, the block size a multiple of 256.
ASSUME BlockManagerAssumption ==
  /\ NumBlocks \in Nat \ {0}
  /\ BlockSize \in Nat \ {0, 1}
  /\ IsFiniteSet(Seqs)
  /\ Prompts \subseteq Seq(Token) \ {<<>>}
  /\ MaxLen \in Nat

VARIABLES
  free_block_ids,     \* deque, head first
  used_block_ids,
  ref_count,          \* Block.ref_count
  block_hash,         \* Block.hash
  hash_to_block_id,   \* the prefix-cache index
  token_ids,          \* Sequence.token_ids
  block_table,        \* Sequence.block_table
  num_cached_tokens,  \* Sequence.num_cached_tokens
  kv                  \* contents of the target KV cache (see above)

poolVars == <<free_block_ids, used_block_ids, ref_count>>
indexVars == <<block_hash, hash_to_block_id>>
seqVars == <<token_ids, block_table, num_cached_tokens>>
bmVars == <<poolVars, indexVars, seqVars, kv>>

-----------------------------------------------------------------------------
(* Helpers *)

Blocks == 0 .. NumBlocks - 1
NoHash == <<>>                        \* Block.hash = -1

\* The elements of s that lie in S, in their order in s: by rank rather than by
\* recursion, so that what it returns can be proved from counting alone.
KeptAt(s, S) == {i \in DOMAIN s : s[i] \in S}
KeptUpTo(s, S, i) == {k \in KeptAt(s, S) : k <= i}
NthKept(s, S, n) == CHOOSE i \in KeptAt(s, S) : Cardinality(KeptUpTo(s, S, i)) = n
Keep(s, S) == [n \in 1 .. Cardinality(KeptAt(s, S)) |-> s[NthKept(s, S, n)]]

Reversed(s) == [i \in 1 .. Len(s) |-> s[Len(s) + 1 - i]]

BlocksFor(n) == (n + BlockSize - 1) \div BlockSize
num_tokens(s) == Len(token_ids[s])
num_blocks(s) == BlocksFor(num_tokens(s))

\* The chained hash of the first i blocks of s.
PrefixHash(s, i) == SubSeq(token_ids[s], 1, i * BlockSize)

\* The sequences whose block_table names b.
Owners(b) == {s \in Seqs : b \in Range(block_table[s])}

-----------------------------------------------------------------------------
(* Admission test: can_allocate *)

Hit(s, i) == PrefixHash(s, i) \in DOMAIN hash_to_block_id

\* The walk over the leading blocks stops at the first miss, and never takes the
\* last block: at least one token is left to compute.
num_cached_blocks(s) ==
  CHOOSE c \in 0 .. num_blocks(s) - 1 :
    /\ \A i \in 1 .. c : Hit(s, i)
    /\ c = num_blocks(s) - 1 \/ ~Hit(s, c + 1)

can_allocate(s) ==
  LET cached == {hash_to_block_id[PrefixHash(s, i)] : i \in 1 .. num_cached_blocks(s)}
  IN  Len(free_block_ids) >= num_blocks(s) - Cardinality(cached \cap used_block_ids)

can_append(s) ==
  Len(free_block_ids) >= IF num_tokens(s) % BlockSize = 1 THEN 1 ELSE 0

-----------------------------------------------------------------------------
(* Operations *)

\* Mutant: a recycled block's entry stays in the index.
NoStaleEntries(F) == {}

\* The index entries that a recycling of the blocks of F makes wrong.
StaleEntries(F) ==
  {h \in DOMAIN hash_to_block_id : \E b \in F : block_hash[b] = h /\ hash_to_block_id[h] = b}

\* _allocate_block for every block of F: its hash is dropped, and its entry in
\* the index too if the entry still names it.
ResetHashes(F) ==
  /\ block_hash' = [b \in Blocks |-> IF b \in F THEN NoHash ELSE block_hash[b]]
  /\ hash_to_block_id' =
       Restrict(hash_to_block_id, DOMAIN hash_to_block_id \ StaleEntries(F))

\* Pin the c cached leading blocks and take new ones through position `through`.
\* The test is the one the code makes before it changes anything.
allocate_incremental(s, c, through) ==
  LET cached_ids == [i \in 1 .. c |-> hash_to_block_id[PrefixHash(s, i)]]
      cached == Range(cached_ids)
      new == BlocksFor(through) - c
      rest == Keep(free_block_ids, Blocks \ cached)
      fresh == SubSeq(rest, 1, new)
  IN  /\ block_table[s] = <<>>
      /\ new > 0
      /\ Len(free_block_ids) >= new + Cardinality(cached \ used_block_ids)
      /\ free_block_ids' = SubSeq(rest, new + 1, Len(rest))
      /\ used_block_ids' = used_block_ids \cup cached \cup Range(fresh)
      /\ ref_count' = [b \in Blocks |->
           IF b \in Range(fresh) \/ b \in cached \ used_block_ids THEN 1
           ELSE IF b \in cached THEN ref_count[b] + 1
           ELSE ref_count[b]]
      /\ ResetHashes(Range(fresh))
      /\ block_table' = [block_table EXCEPT ![s] = cached_ids \o fresh]
      /\ num_cached_tokens' = [num_cached_tokens EXCEPT ![s] = c * BlockSize]
      /\ UNCHANGED <<token_ids, kv>>

\* Append n blocks from the head of the free list to the table of s.
take_blocks(s, n) ==
  LET fresh == SubSeq(free_block_ids, 1, n)
  IN  /\ Len(free_block_ids) >= n
      /\ free_block_ids' = SubSeq(free_block_ids, n + 1, Len(free_block_ids))
      /\ used_block_ids' = used_block_ids \cup Range(fresh)
      /\ ref_count' = [b \in Blocks |-> IF b \in Range(fresh) THEN 1 ELSE ref_count[b]]
      /\ ResetHashes(Range(fresh))
      /\ block_table' = [block_table EXCEPT ![s] = @ \o fresh]
      /\ UNCHANGED <<token_ids, num_cached_tokens, kv>>

\* Blocks missing from the table of s to cover its first `through` tokens.
missing_blocks(s, through) ==
  IF BlocksFor(through) > Len(block_table[s])
  THEN BlocksFor(through) - Len(block_table[s]) ELSE 0

can_extend(s, through) == Len(free_block_ids) >= missing_blocks(s, through)

extend(s, through) == take_blocks(s, missing_blocks(s, through))

\* Mutant: the new block is taken one token early.
may_append_early(s) == take_blocks(s, IF num_tokens(s) % BlockSize = 0 THEN 1 ELSE 0)

may_append(s) == take_blocks(s, IF num_tokens(s) % BlockSize = 1 THEN 1 ELSE 0)

\* Mutant: every block of the table is freed, shared or not.
ReleasedShared(s) == Range(block_table[s])

\* The blocks that s is the last owner of.
Released(s) == {b \in Range(block_table[s]) : ref_count[b] = 1}

\* Mutant: a released block is dereferenced once more.
DereferencedTwice(s) ==
  [b \in Blocks |-> IF b \in Released(s) THEN ref_count[b] - 2
                    ELSE IF b \in Range(block_table[s]) THEN ref_count[b] - 1
                    ELSE ref_count[b]]

\* The reference counts without those of the table of s.
Dereferenced(s) ==
  [b \in Blocks |-> IF b \in Range(block_table[s]) THEN ref_count[b] - 1 ELSE ref_count[b]]

\* References are dropped from the last block to the first; a block whose count
\* reaches zero joins the tail of the free list and keeps its hash.
deallocate(s) ==
  /\ ref_count' = Dereferenced(s)
  /\ free_block_ids' = free_block_ids \o Keep(Reversed(block_table[s]), Released(s))
  /\ used_block_ids' = used_block_ids \ Released(s)
  /\ block_table' = [block_table EXCEPT ![s] = <<>>]
  /\ num_cached_tokens' = [num_cached_tokens EXCEPT ![s] = 0]
  /\ UNCHANGED <<indexVars, token_ids, kv>>

\* Take back the blocks may_append gave to `rows`, in scheduling order: the free
\* list gets them back at its head.
rollback_uncommitted_appends(rows) ==
  LET suffix == [i \in 1 .. Len(rows) |->
                   block_table[rows[i]][Len(block_table[rows[i]])]]
  IN  /\ \A i \in 1 .. Len(rows) : ref_count[suffix[i]] = 1 /\ block_hash[suffix[i]] = NoHash
      /\ free_block_ids' = suffix \o free_block_ids
      /\ used_block_ids' = used_block_ids \ Range(suffix)
      /\ ref_count' = [b \in Blocks |-> IF b \in Range(suffix) THEN 0 ELSE ref_count[b]]
      /\ block_table' = [s \in Seqs |->
           IF s \in Range(rows)
           THEN SubSeq(block_table[s], 1, Len(block_table[s]) - 1)
           ELSE block_table[s]]
      /\ UNCHANGED <<indexVars, token_ids, num_cached_tokens, kv>>

\* Mutant: the block that the tokens only begin to fill counts as complete.
CompletedEarly(s, n) ==
  num_cached_tokens[s] \div BlockSize + 1 .. BlocksFor(num_cached_tokens[s] + n)

\* The blocks of s that its next n tokens complete.
Completed(s, n) ==
  num_cached_tokens[s] \div BlockSize + 1 .. (num_cached_tokens[s] + n) \div BlockSize

\* Mutant: the chain starts anew with every call.
NewChain(s, start) == NoHash

\* The chain continues from the hash stored in the preceding block.
ChainSoFar(s, start) == IF start > 0 THEN block_hash[block_table[s][start]] ELSE NoHash

\* Publish the blocks that the next n tokens of s complete.
hash_blocks(s, n) ==
  LET start == num_cached_tokens[s] \div BlockSize
      h(i) == ChainSoFar(s, start) \o SubSeq(token_ids[s], start * BlockSize + 1, i * BlockSize)
      at == Completed(s, n)
  IN  /\ block_hash' = [b \in Blocks |->
           IF \E i \in at : block_table[s][i] = b
           THEN h(CHOOSE i \in at : block_table[s][i] = b)
           ELSE block_hash[b]]
      /\ hash_to_block_id' =
           [x \in DOMAIN hash_to_block_id \cup {h(i) : i \in at} |->
              IF \E i \in at : h(i) = x
              THEN block_table[s][CHOOSE i \in at : h(i) = x]
              ELSE hash_to_block_id[x]]

\* The first half of a postprocess row: publish, then count the tokens as cached.
commit(s, n) ==
  /\ hash_blocks(s, n)
  /\ num_cached_tokens' = [num_cached_tokens EXCEPT ![s] = @ + n]
  /\ UNCHANGED <<poolVars, token_ids, block_table, kv>>

append_token(s, t) ==
  /\ token_ids' = [token_ids EXCEPT ![s] = Append(@, t)]
  /\ UNCHANGED <<poolVars, indexVars, block_table, num_cached_tokens, kv>>

\* Sequence.__init__
new_sequence(s, prompt) ==
  /\ token_ids' = [token_ids EXCEPT ![s] = prompt]
  /\ UNCHANGED <<poolVars, indexVars, block_table, num_cached_tokens, kv>>

\* The forward pass stores one row of keys and values per scheduled position;
\* slot[s] maps position p of s to the <<block, offset>> the runner computed.
store_kvcache(slot) ==
  /\ UNCHANGED <<poolVars, indexVars, seqVars>>
  /\ kv' = [b \in Blocks |-> [o \in 0 .. BlockSize - 1 |->
       IF \E s \in Seqs : \E p \in DOMAIN slot[s] : slot[s][p] = <<b, o>>
       THEN LET s == CHOOSE s \in Seqs : \E p \in DOMAIN slot[s] : slot[s][p] = <<b, o>>
                p == CHOOSE p \in DOMAIN slot[s] : slot[s][p] = <<b, o>>
            IN  SubSeq(token_ids[s], 1, p + 1)
       ELSE kv[b][o]]]

-----------------------------------------------------------------------------
(* Specification: any client that respects the allocator's call contract *)

\* Where the paged layout puts position p of s.
SlotOf(s, p) == <<block_table[s][p \div BlockSize + 1], p % BlockSize>>

\* The n[s] positions of each s that follow its cached ones, in that layout.
PagedSlots(n) ==
  [s \in Seqs |->
     [p \in num_cached_tokens[s] .. num_cached_tokens[s] + n[s] - 1 |-> SlotOf(s, p)]]

Holds(slot, prefix) == kv[slot[1]][slot[2]] = prefix

\* Positions first .. last of s have their keys and values in place.
Computed(s, first, last) ==
  \A p \in first .. last : Holds(SlotOf(s, p), SubSeq(token_ids[s], 1, p + 1))

\* The next n tokens of s exist and its table has room for them.
Covered(s, n) ==
  /\ num_cached_tokens[s] + n <= num_tokens(s)
  /\ num_cached_tokens[s] + n <= BlockSize * Len(block_table[s])

Create(s, prompt) ==
  /\ token_ids[s] = <<>>
  /\ new_sequence(s, prompt)

AllocateIncremental(s, c, through) ==
  /\ through > c * BlockSize
  /\ through <= num_tokens(s)
  /\ \A i \in 1 .. c : Hit(s, i)
  /\ allocate_incremental(s, c, through)

Extend(s, through) ==
  /\ block_table[s] # <<>>
  /\ through <= num_tokens(s)
  /\ extend(s, through)

\* A decode row: all tokens but the last are cached, in a table of no more blocks.
MayAppend(s) ==
  /\ num_cached_tokens[s] > 0
  /\ num_cached_tokens[s] = num_tokens(s) - 1
  /\ Len(block_table[s]) = BlocksFor(num_cached_tokens[s])
  /\ may_append(s)

Deallocate(s) ==
  /\ block_table[s] # <<>>
  /\ deallocate(s)

\* Only blocks past the cached tokens can be taken back.
RollbackAppends(rows) ==
  /\ \A s \in Range(rows) :
       /\ block_table[s] # <<>>
       /\ num_cached_tokens[s] <= BlockSize * (Len(block_table[s]) - 1)
  /\ rollback_uncommitted_appends(rows)

Forward(n) ==
  /\ \A s \in Seqs : n[s] > 0 => Covered(s, n[s])
  /\ store_kvcache(PagedSlots(n))

Commit(s, n) ==
  /\ Covered(s, n)
  /\ Computed(s, num_cached_tokens[s], num_cached_tokens[s] + n - 1)
  /\ commit(s, n)

AppendToken(s, t) ==
  /\ token_ids[s] # <<>>
  /\ num_cached_tokens[s] = num_tokens(s)
  /\ num_tokens(s) < MaxLen
  /\ append_token(s, t)

Init ==
  /\ free_block_ids = [i \in 1 .. NumBlocks |-> i - 1]
  /\ used_block_ids = {}
  /\ ref_count = [b \in Blocks |-> 0]
  /\ block_hash = [b \in Blocks |-> NoHash]
  /\ hash_to_block_id = <<>>
  /\ token_ids = [s \in Seqs |-> <<>>]
  /\ block_table = [s \in Seqs |-> <<>>]
  /\ num_cached_tokens = [s \in Seqs |-> 0]
  /\ kv = [b \in Blocks |-> [o \in 0 .. BlockSize - 1 |-> <<>>]]

\* The groups of rows one failed decode step can roll back.
RowGroups == {r \in UNION {[1 .. n -> Seqs] : n \in 1 .. Cardinality(Seqs)} : IsInjective(r)}

Next ==
  \/ \E s \in Seqs :
       \/ \E prompt \in Prompts : Create(s, prompt)
       \/ \E c \in 0 .. num_blocks(s), through \in 1 .. MaxLen : AllocateIncremental(s, c, through)
       \/ \E through \in 1 .. MaxLen : Extend(s, through)
       \/ MayAppend(s)
       \/ Deallocate(s)
       \/ \E n \in 1 .. MaxLen : Commit(s, n)
       \/ \E t \in Token : AppendToken(s, t)
  \/ \E rows \in RowGroups : RollbackAppends(rows)
  \/ \E n \in [Seqs -> 0 .. MaxLen] : Forward(n)

Spec == Init /\ [][Next]_bmVars

-----------------------------------------------------------------------------
(* Properties *)

\* Every allocator and sequence field keeps its type; the index is a partial
\* function from hashed prefixes to blocks.
TypeOK ==
  /\ free_block_ids \in Seq(Blocks)
  /\ used_block_ids \in SUBSET Blocks
  /\ ref_count \in [Blocks -> Nat]
  /\ block_hash \in [Blocks -> Seq(Token)]
  /\ DOMAIN hash_to_block_id \subseteq Seq(Token)
  /\ hash_to_block_id \in [DOMAIN hash_to_block_id -> Blocks]
  /\ token_ids \in [Seqs -> Seq(Token)]
  /\ block_table \in [Seqs -> Seq(Blocks)]
  /\ num_cached_tokens \in [Seqs -> Nat]
  /\ kv \in [Blocks -> [0 .. BlockSize - 1 -> Seq(Token)]]

\* No block is lost or listed twice: after any sequence of allocations, releases
\* and rollbacks the free list (without repetition) and the used set split the pool.
PoolPartition ==
  /\ IsInjective(free_block_ids)
  /\ Range(free_block_ids) \cap used_block_ids = {}
  /\ Range(free_block_ids) \cup used_block_ids = Blocks

\* A reference count is exactly the number of block tables naming the block, so a
\* block is released when its last owner goes and never while one is left.
RefCountIsOwners ==
  \A b \in Blocks :
    /\ ref_count[b] = Cardinality(Owners(b))
    /\ b \in used_block_ids <=> ref_count[b] > 0

\* A sequence never holds one block twice.
TablesInjective == \A s \in Seqs : IsInjective(block_table[s])

\* The index never points at a block that was since given other contents: its
\* entry for a prefix names a block still carrying that prefix's hash.
IndexMatchesBlocks ==
  \A h \in DOMAIN hash_to_block_id : h # NoHash /\ block_hash[hash_to_block_id[h]] = h

\* The block a sequence will write next, and every later one of its table, is its
\* own and unpublished: a forward pass never writes into a shared or indexed block.
WritesArePrivate ==
  \A s \in Seqs : \A i \in 1 .. Len(block_table[s]) :
    i * BlockSize > num_cached_tokens[s] =>
      /\ ref_count[block_table[s][i]] = 1
      /\ block_hash[block_table[s][i]] = NoHash

\* Every full cached block carries the hash of the whole prefix up to it, so the
\* chain that hash_blocks continues from the preceding block is never cut.
HashChain ==
  \A s \in Seqs :
    /\ num_cached_tokens[s] <= num_tokens(s)
    /\ num_cached_tokens[s] <= BlockSize * Len(block_table[s])
    /\ \A i \in 1 .. Len(block_table[s]) :
         i * BlockSize <= num_cached_tokens[s] =>
           block_hash[block_table[s][i]] = PrefixHash(s, i)

\* The bookkeeping that the properties around it rest on: tables without repetition,
\* an index without dangling entries, hash chains without gaps.
MetadataIsConsistent == TablesInjective /\ IndexMatchesBlocks /\ HashChain

\* What a sequence counts as cached really is in the cache: for each such position
\* the slot its table leads to holds the keys and values of that very prefix.
CachedIsComputed ==
  \A s \in Seqs : Computed(s, 0, num_cached_tokens[s] - 1)

\* The prefix cache never returns another prefix: a block found by hash, used or
\* free, holds the keys and values of the last BlockSize positions of the prefix.
IndexIsSound ==
  \A h \in DOMAIN hash_to_block_id : \A o \in 0 .. BlockSize - 1 :
    Holds(<<hash_to_block_id[h], o>>, SubSeq(h, 1, Len(h) - BlockSize + o + 1))
=============================================================================
