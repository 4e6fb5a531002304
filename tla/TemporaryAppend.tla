---------------------------- MODULE TemporaryAppend ----------------------------
(***************************************************************************)
(* Temporary append reservations of nanovllm/engine/block_manager.py: the  *)
(* blocks a speculative cycle borrows for positions that may never be      *)
(* committed.                                                              *)
(*                                                                         *)
(* At most one reservation is live.  It records everything that is needed  *)
(* to hand all its blocks back as if they had never been taken, or to keep *)
(* a prefix of each row's blocks and hand back the rest.                   *)
(*                                                                         *)
(* The draft model has a KV cache of its own that is addressed through the *)
(* same block tables; draft_kv is its contents, represented like kv.       *)
(***************************************************************************)
EXTENDS BlockManager

VARIABLES
  num_draft_cached_tokens,  \* Sequence.num_draft_cached_tokens
  draft_kv,                 \* contents of the draft KV cache
  reservation               \* the live TemporaryBlockReservation

NoReservation == [rows |-> <<>>]
Live == reservation.rows # <<>>

\* g, with the values of f where f has one.
Overlay(f, g) == [x \in DOMAIN g |-> IF x \in DOMAIN f THEN f[x] ELSE g[x]]

-----------------------------------------------------------------------------
(* reserve_temporary_append: rows are sequences, highest[s] the last position  *)
(* of s that will be written                                                   *)

new_blocks(s, highest) == missing_blocks(s, highest + 1)

\* New blocks of the first i rows: a count of pairs rather than a sum, so that it can
\* be reasoned about.
taken(rows, highest, i) ==
  Cardinality(UNION {{j} \X (1 .. new_blocks(rows[j], highest[rows[j]])) : j \in 1 .. i})

can_reserve(rows, highest) == taken(rows, highest, Len(rows)) <= Len(free_block_ids)

reserve_temporary_append(rows, highest) ==
  LET total == taken(rows, highest, Len(rows))
      order == SubSeq(free_block_ids, 1, total)
      row(s) == CHOOSE i \in DOMAIN rows : rows[i] = s
      appended == [s \in Range(rows) |->
        SubSeq(free_block_ids, taken(rows, highest, row(s) - 1) + 1, taken(rows, highest, row(s)))]
      snapshot == Range(order) \cup UNION {Range(block_table[s]) : s \in Range(rows)}
  IN  /\ ~Live
      /\ can_reserve(rows, highest)
      /\ reservation' =
           [rows |-> rows,
            allocation_order |-> order,
            appended |-> appended,
            table_before |-> [s \in Range(rows) |-> block_table[s]],
            cached_before |-> [s \in Range(rows) |-> num_cached_tokens[s]],
            draft_before |-> [s \in Range(rows) |-> num_draft_cached_tokens[s]],
            free_before |-> free_block_ids,
            used_before |-> used_block_ids,
            index_before |-> hash_to_block_id,
            ref_before |-> [b \in snapshot |-> ref_count[b]],
            hash_before |-> [b \in snapshot |-> block_hash[b]]]
      /\ free_block_ids' = SubSeq(free_block_ids, total + 1, Len(free_block_ids))
      /\ used_block_ids' = used_block_ids \cup Range(order)
      /\ ref_count' = [b \in Blocks |-> IF b \in Range(order) THEN 1 ELSE ref_count[b]]
      /\ ResetHashes(Range(order))
      /\ block_table' = [s \in Seqs |->
           IF s \in Range(rows) THEN block_table[s] \o appended[s] ELSE block_table[s]]
      /\ UNCHANGED <<token_ids, num_cached_tokens, kv, num_draft_cached_tokens, draft_kv>>

-----------------------------------------------------------------------------
(* What can become of a reservation *)

\* Without the entries whose block is in B.
EvictBlocks(index, B) == Restrict(index, {h \in DOMAIN index : index[h] \notin B})

\* Mutant: the snapshot is left as it is.
prepare_nothing == UNCHANGED <<reservation, bmVars, num_draft_cached_tokens, draft_kv>>

\* The borrowed blocks' old target contents are about to be overwritten, so they
\* must not come back with their hashes.
prepare_temporary_target_writes ==
  LET overwritten == Range(reservation.allocation_order)
  IN  /\ reservation' = [reservation EXCEPT
           !.index_before = EvictBlocks(@, overwritten),
           !.hash_before = [b \in DOMAIN @ |-> IF b \in overwritten THEN NoHash ELSE @[b]]]
      /\ UNCHANGED <<bmVars, num_draft_cached_tokens, draft_kv>>

HashesBefore == Overlay(reservation.hash_before, block_hash)

rollback_temporary_append ==
  /\ block_table' = Overlay(reservation.table_before, block_table)
  /\ num_cached_tokens' = Overlay(reservation.cached_before, num_cached_tokens)
  /\ num_draft_cached_tokens' = Overlay(reservation.draft_before, num_draft_cached_tokens)
  /\ ref_count' = Overlay(reservation.ref_before, ref_count)
  /\ block_hash' = HashesBefore
  /\ free_block_ids' = reservation.free_before
  /\ used_block_ids' = reservation.used_before
  /\ hash_to_block_id' = reservation.index_before
  /\ reservation' = NoReservation
  /\ UNCHANGED <<token_ids, kv, draft_kv>>

\* Mutant: the blocks that are not kept are not given back.
FreeWithoutReleased(Kept) == free_block_ids

FreeWithReleased(Kept) == Keep(reservation.free_before, Blocks \ Kept)

\* keep[s] of the blocks appended to s stay with it; the others get their old
\* metadata and their old places in the free list back.
finalize_temporary_append(keep) ==
  LET kept == [s \in Range(reservation.rows) |-> SubSeq(reservation.appended[s], 1, keep[s])]
      Kept == UNION {Range(kept[s]) : s \in DOMAIN kept}
      released == Range(reservation.allocation_order) \ Kept
  IN  /\ \A s \in DOMAIN kept : keep[s] \in 0 .. Len(reservation.appended[s])
      /\ block_table' = [s \in Seqs |->
           IF s \in DOMAIN kept THEN reservation.table_before[s] \o kept[s] ELSE block_table[s]]
      /\ ref_count' = Overlay(Restrict(reservation.ref_before, released), ref_count)
      /\ block_hash' = Overlay(Restrict(reservation.hash_before, released), block_hash)
      /\ free_block_ids' = FreeWithReleased(Kept)
      /\ used_block_ids' = reservation.used_before \cup Kept
      /\ hash_to_block_id' = EvictBlocks(reservation.index_before, Kept)
      /\ reservation' = NoReservation
      /\ UNCHANGED <<token_ids, num_cached_tokens, kv, num_draft_cached_tokens, draft_kv>>

-----------------------------------------------------------------------------
(* Model writes through the block tables *)

\* `cache` after positions at[s] of text[s] were computed into it, for every s.
Stored(cache, at, text) ==
  LET Writes(b, o, s, p) == SlotOf(s, p) = <<b, o>>
  IN  [b \in Blocks |-> [o \in 0 .. BlockSize - 1 |->
        IF \E s \in DOMAIN at : \E p \in at[s] : Writes(b, o, s, p)
        THEN LET s == CHOOSE s \in DOMAIN at : \E p \in at[s] : Writes(b, o, s, p)
                 p == CHOOSE p \in at[s] : Writes(b, o, s, p)
             IN  SubSeq(text[s], 1, p + 1)
        ELSE cache[b][o]]]

-----------------------------------------------------------------------------
(* Properties *)

\* _validate_live_temporary_reservation, which the code tests only when it gives a
\* reservation back, holds as long as one is live: nothing but the reservation has
\* moved a block, a hash, a table or a count since it was taken.
ReservationIsLive ==
  LET r == reservation
      allocated == Range(r.allocation_order)
  IN  Live =>
        /\ IsInjective(r.allocation_order)
        /\ DOMAIN r.ref_before =
             allocated \cup UNION {Range(r.table_before[s]) : s \in Range(r.rows)}
        /\ free_block_ids =
             SubSeq(r.free_before, Len(r.allocation_order) + 1, Len(r.free_before))
        /\ used_block_ids = r.used_before \cup allocated
        /\ hash_to_block_id = Restrict(r.index_before,
             {h \in DOMAIN r.index_before :
                ~\E b \in allocated : r.hash_before[b] = h /\ r.index_before[h] = b})
        /\ \A b \in DOMAIN r.ref_before :
             IF b \in allocated
             THEN ref_count[b] = 1 /\ block_hash[b] = NoHash
             ELSE ref_count[b] = r.ref_before[b] /\ block_hash[b] = r.hash_before[b]
        /\ \A s \in Range(r.rows) :
             /\ block_table[s] = r.table_before[s] \o r.appended[s]
             /\ num_cached_tokens[s] = r.cached_before[s]
             /\ num_draft_cached_tokens[s] = r.draft_before[s]

\* What a sequence counts as covered by the draft cache is there, and it is never
\* more than the target cache covers.
DraftCachedIsComputed ==
  \A s \in Seqs :
    /\ num_draft_cached_tokens[s] <= num_cached_tokens[s]
    /\ \A p \in 0 .. num_draft_cached_tokens[s] - 1 :
         draft_kv[SlotOf(s, p)[1]][SlotOf(s, p)[2]] = SubSeq(token_ids[s], 1, p + 1)
=============================================================================
