--------------------------- MODULE FlashblockCache ---------------------------
(***************************************************************************)
(* The buffer of flashblocks/src/cache.rs for flashblocks that arrive      *)
(* before their parent canonical block.  A cache is a record               *)
(*                                                                         *)
(*   entries  the flashblocks held, at most one per (block, index)         *)
(*   latest   latest_canonical, always Some after FlashblockCache::new     *)
(***************************************************************************)
EXTENDS Integers, Validation

CONSTANT MaxCacheAhead      \* MAX_CACHE_AHEAD_BLOCKS

ASSUME MaxCacheAheadAssumption == MaxCacheAhead \in Nat \ {0}

NewCache(latest) == [entries |-> {}, latest |-> latest]

HasFlashblock(cache, block, index) ==
    \E f \in cache.entries : f.block = block /\ f.index = index

\* Mutant of IsCacheable: one block further ahead.
IsCacheableFurther(cache, block) == block <= cache.latest + MaxCacheAhead + 2

IsCacheable(cache, block) == block <= cache.latest + MaxCacheAhead + 1

\* insert: entries far below the new block go, and so does the entry the new
\* flashblock replaces.  A flashblock that is not cacheable changes nothing.
Insert(cache, fb) ==
    IF IsCacheable(cache, fb.block)
    THEN [cache EXCEPT !.entries =
             {fb} \cup {f \in @ : /\ f.block > SaturatingSub(fb.block, MaxCacheAhead)
                                  /\ ~(f.block = fb.block /\ f.index = fb.index)}]
    ELSE cache

\* update_canonical.
UpdateCanonical(cache, block) ==
    [entries |-> {f \in cache.entries : f.block > block}, latest |-> block]

\* drain: what it returns, and what it leaves.
Drained(cache, block) == {f \in cache.entries : f.block = block}
AfterDrain(cache, block) ==
    [cache EXCEPT !.entries = {f \in @ : f.block # block}]
=============================================================================
