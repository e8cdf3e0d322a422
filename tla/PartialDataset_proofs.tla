----------------------- MODULE PartialDataset_proofs -----------------------
(* For every size, chunk size, number of cores, readers and waiters: the      *)
(* inductive invariant of PartialDataset (the arithmetic of the chunks, the   *)
(* ranges of the variables, who runs when; then what fill threads wrote, what *)
(* the cursors bound, what is published), the theorems it gives, and that     *)
(* PartialDataset implements PrefixStore.                                     *)
EXTENDS PartialDataset, TLAPS

\* The items of chunk c before n are derived for generation g.
ChunkIs(c, n, g) == \A i \in ChunkStart(c) .. n - 1 : data[i] = g

\* The values the publishing cursors take: starts of chunks, and the end.
Boundaries == {ChunkStart(c) : c \in Chunks} \cup {AllocatedItems}

\* Between emptying the prefix and starting the next fill.
Resetting == spc \in {"bump", "token", "setup"}

\* Fill threads are joinable, of this generation, and absent during a reset.
Threads ==
  /\ spc # "token" => token = generation_
  /\ spc \in {"join", "joining", "lock", "quiesce", "bump"} => generation_ < MaxRotations
  /\ \A c \in Chunks : c \notin fill_threads_ => wpc[c] = "off"
  /\ \A c \in Chunks : Alive(c) => wgen[c] = generation_
  /\ spc \in {"lock", "quiesce"} \/ Resetting => fill_threads_ = {}
  /\ spc = "spawn" => \A c \in fill_threads_ : c < spawned

\* What fill threads wrote and what they know.
Filled ==
  /\ \A c \in Chunks : wpc[c] = "fill" =>
       /\ ChunkStart(c) <= pos[c] /\ pos[c] <= ChunkEnd(c)
       /\ ChunkIs(c, pos[c], generation_)
  /\ ~Resetting => \A c \in Chunks : chunk_done_[c] => ChunkIs(c, ChunkEnd(c), generation_)
  /\ contiguous_done_ \in Boundaries
  /\ \A c \in Chunks : wpc[c] \in {"scan", "exchange", "raise"} =>
       cursor[c] \in Boundaries /\ PrefixIs(cursor[c], generation_)
  /\ \A c \in Chunks : wpc[c] = "complete" => PrefixIs(AllocatedItems, generation_)

\* A reset leaves nothing published, and no reader is inside the exclusive section.
ResetState ==
  /\ Resetting => item_count_ = 0 /\ contiguous_done_ = 0 /\ ~fill_complete_
  /\ \A r \in Readers : rpc[r] = "in" => spc \notin {"bump", "token"}
  /\ \A r \in Readers : bound[r] = 0 \/ (rpc[r] = "in" /\ bound[r] <= item_count_)

IInv ==
  /\ TypeOK /\ Threads /\ Filled /\ ResetState
  /\ PublishedPrefixValid /\ CompleteMeansComputed

-----------------------------------------------------------------------------
(* The cutting into chunks *)

\* The facts about products and quotients that the chunk arithmetic of start_fill() needs.
LEMMA ProductType == \A a, b \in Nat : a * b \in Nat
  OBVIOUS

\* More chunks of one size cover at least as many items.
LEMMA ProductMonotone == \A a, b, c \in Nat : a <= b => a * c <= b * c
  OBVIOUS

\* A chunk starts where the one before it ends.
LEMMA ProductSuccessor == \A a, b \in Nat : (a + 1) * b = a * b + b
  OBVIOUS

\* The fill loop finds the owner of a chunk boundary by division.
LEMMA ProductQuotient == \A a \in Nat, b \in Nat \ {0} : (a * b) \div b = a
  OBVIOUS

\* The rounded-up quotient is a natural number.
LEMMA CeilDivType ==
  ASSUME NEW a \in Nat \ {0}, NEW b \in Nat \ {0}
  PROVE  CeilDiv(a, b) \in Nat \ {0} /\ a <= CeilDiv(a, b) * b
BY DEF CeilDiv

\* There is at least one worker and one item per worker, and the chunks cover the
\* whole allocation.
LEMMA WorkersType ==
  /\ NumWorkers \in Nat \ {0} /\ ItemsPerWorker \in Nat \ {0}
  /\ AllocatedItems <= NumWorkers * ItemsPerWorker
<1>1. NumWorkers \in Nat \ {0}
  BY Zenon, CeilDivType, SizeAssumption DEF SizeAssumption, NumWorkers, MinOf
<1>2. /\ ItemsPerWorker \in Nat \ {0}
      /\ AllocatedItems <= ItemsPerWorker * NumWorkers
  BY Zenon, <1>1, CeilDivType, SizeAssumption DEF SizeAssumption, ItemsPerWorker
<1> QED
  BY <1>1, <1>2

\* With no more cores than kFillChunkItems + 1, no fill thread of start_fill() is given
\* an empty range (so the early break of its spawning loop is never taken): what
\* ChunkAssumption states.
THEOREM ChunksNonEmpty ==
  ASSUME AvailCores <= FillChunkItems + 1
  PROVE  ChunkStart(NumWorkers - 1) < AllocatedItems
<1> DEFINE W == NumWorkers
           q == ItemsPerWorker
           T == AllocatedItems
           K == FillChunkItems
<1>1. W \in Nat \ {0} /\ q \in Nat \ {0} /\ T \in Nat \ {0} /\ K \in Nat \ {0}
  BY Zenon, WorkersType, SizeAssumption DEF SizeAssumption
<1>2. W <= CeilDiv(T, K) /\ W <= K + 1
  BY CeilDivType, SizeAssumption DEF SizeAssumption, NumWorkers, MinOf
<1>3. (W - 1) * K < T
  <2>1. CeilDiv(T, K) * K < T + K
    BY <1>1 DEF CeilDiv
  <2>2. W * K <= CeilDiv(T, K) * K
    BY Zenon, <1>1, <1>2, CeilDivType, ProductMonotone
  <2> HIDE DEF W, K, T
  <2>3. (W - 1) * K = W * K - K
    BY <1>1
  <2>4. W * K \in Nat /\ CeilDiv(T, K) * K \in Nat
    BY Zenon, <1>1, CeilDivType, ProductType
  <2> QED
    BY <1>1, <2>1, <2>2, <2>3, <2>4
<1>4. (q - 1) * W < T
  <2>1. q * W < T + W
    BY <1>1 DEF ItemsPerWorker, CeilDiv
  <2> HIDE DEF W, q, T
  <2>2. (q - 1) * W = q * W - W
    BY <1>1
  <2> QED
    BY <1>1, <2>1, <2>2, ProductType
<1>5. (W - 1) * q < T
  <2> HIDE DEF W, q, T, K
  <2>1. CASE q <= W - 1
    <3>1. (W - 1) * q <= (W - 1) * (W - 1)
      BY <1>1, <2>1
    <3>2. (W - 1) * (W - 1) <= (W - 1) * K
      BY <1>1, <1>2
    <3>3. W - 1 \in Nat
      BY <1>1
    <3>4. (W - 1) * q \in Nat /\ (W - 1) * (W - 1) \in Nat /\ (W - 1) * K \in Nat
      BY Zenon, <1>1, <3>3, ProductType
    <3> QED
      BY <1>1, <1>3, <3>1, <3>2, <3>4
  <2>2. CASE q >= W
    <3>1. (W - 1) * q = W * q - q /\ (q - 1) * W = W * q - W
      BY <1>1
    <3>2. W * q \in Nat
      BY Zenon, <1>1, ProductType
    <3> QED
      BY <1>1, <1>4, <2>2, <3>1, <3>2
  <2> QED
    BY <1>1, <2>1, <2>2
<1> QED
  BY Zenon, <1>5 DEF ChunkStart

\* Chunks are non-empty ranges of items; the next one starts where one ends, the last
\* ends with the allocation; the chunk computed back from a start is the chunk; and
\* the span the publishing loop adds leads to the end of the chunk.
LEMMA ChunkFacts ==
  ASSUME NEW c \in Chunks
  PROVE  /\ c \in Nat /\ c < NumWorkers
         /\ ChunkStart(c) \in Nat /\ ChunkEnd(c) \in Nat
         /\ ChunkStart(c) < ChunkEnd(c) /\ ChunkEnd(c) <= AllocatedItems
         /\ c + 1 < NumWorkers => ChunkEnd(c) = ChunkStart(c + 1)
         /\ c + 1 = NumWorkers => ChunkEnd(c) = AllocatedItems
         /\ Owning(ChunkStart(c)) = c
         /\ ChunkStart(c) + ChunkSpan(c) = ChunkEnd(c)
<1> DEFINE W == NumWorkers
           q == ItemsPerWorker
           T == AllocatedItems
<1>1. c \in Nat /\ c < W /\ W \in Nat \ {0} /\ q \in Nat \ {0} /\ T \in Nat \ {0}
  BY WorkersType, SizeAssumption DEF SizeAssumption, Chunks
<1>2. T <= W * q /\ (W - 1) * q < T
  BY Zenon, WorkersType, ChunkAssumption DEF ChunkAssumption, ChunkStart
<1>3. /\ ChunkStart(c) = c * q /\ Owning(ChunkStart(c)) = (c * q) \div q
      /\ ChunkEnd(c) = IF c * q + q <= T THEN c * q + q ELSE T
      /\ ChunkSpan(c) = IF c + 1 < W THEN q ELSE T - c * q
      /\ ChunkStart(c + 1) = (c + 1) * q
  BY Zenon DEF ChunkStart, ChunkEnd, ChunkSpan, Owning, MinOf
<1> HIDE DEF W, q, T
<1>4. c * q \in Nat /\ (c + 1) * q = c * q + q /\ (c * q) \div q = c
  BY Zenon, <1>1, ProductType, ProductSuccessor, ProductQuotient
<1>5. W - 1 \in Nat /\ c <= W - 1
  BY <1>1
<1>6. c * q <= (W - 1) * q /\ (W - 1) * q \in Nat
  BY Zenon, <1>1, <1>5, ProductType, ProductMonotone
<1>7. c * q < T
  BY <1>1, <1>2, <1>4, <1>6
<1>8. ASSUME c + 1 < W PROVE c * q + q <= (W - 1) * q
  <2>1. c + 1 \in Nat /\ c + 1 <= W - 1
    BY <1>1, <1>8
  <2>2. (c + 1) * q <= (W - 1) * q
    BY Zenon, <1>1, <1>5, <2>1, ProductMonotone
  <2> QED
    BY Zenon, <1>4, <2>2
<1>9. ASSUME c + 1 = W PROVE c * q + q = W * q
  BY Zenon, <1>4, <1>9
<1>10. W * q \in Nat
  BY Zenon, <1>1, ProductType
<1>11. CASE c + 1 < W
  <2>1. c * q + q <= T
    BY <1>1, <1>2, <1>4, <1>6, <1>8, <1>11
  <2> QED
    BY <1>1, <1>3, <1>4, <1>7, <1>11, <2>1 DEF W, T
<1>12. CASE c + 1 = W
  <2>1. c * q + q >= T
    BY Zenon, <1>1, <1>2, <1>4, <1>9, <1>10, <1>12
  <2>2. ChunkEnd(c) = T
    BY <1>1, <1>3, <1>4, <2>1
  <2> QED
    BY <1>1, <1>3, <1>4, <1>7, <1>12, <2>2 DEF W, T
<1> QED
  BY <1>1, <1>11, <1>12

-----------------------------------------------------------------------------
(* The step lemmas: one per conjunct of the invariant, one case per action *)

\* A cursor on a boundary that may swallow a chunk moves to the end of that chunk,
\* again a boundary, over items of that chunk.
LEMMA SwallowFacts ==
  ASSUME NEW n \in Boundaries, CanSwallow(n)
  PROVE  \E k \in Chunks :
           /\ n = ChunkStart(k) /\ Owning(n) = k /\ chunk_done_[k]
           /\ n + ChunkSpan(Owning(n)) = ChunkEnd(k)
           /\ ChunkEnd(k) \in Boundaries
<1>1. AllocatedItems \in Nat
  BY Zenon, SizeAssumption DEF SizeAssumption
<1>2. n # AllocatedItems
  BY <1>1 DEF CanSwallow
<1>3. PICK k \in Chunks : n = ChunkStart(k)
  BY Zenon, <1>2 DEF Boundaries
<1>4. Owning(n) = k /\ n + ChunkSpan(Owning(n)) = ChunkEnd(k)
  BY Zenon, <1>3, ChunkFacts
<1>5. chunk_done_[k]
  BY Zenon, <1>4 DEF CanSwallow
<1>6. ChunkEnd(k) \in Boundaries
  <2>1. CASE k + 1 < NumWorkers
    <3>1. k + 1 \in Chunks
      BY <2>1, ChunkFacts, WorkersType DEF Chunks
    <3> QED
      BY Zenon, <2>1, <3>1, ChunkFacts DEF Boundaries
  <2>2. CASE k + 1 = NumWorkers
    BY Zenon, <2>2, ChunkFacts DEF Boundaries
  <2> QED
    BY <2>1, <2>2, ChunkFacts, WorkersType
<1> QED
  BY Zenon, <1>3, <1>4, <1>5, <1>6

\* The boundaries lie within the allocation, and zero is one of them.
LEMMA BoundaryType == Boundaries \subseteq 0 .. AllocatedItems /\ 0 \in Boundaries
<1>1. AllocatedItems \in Nat
  BY Zenon, SizeAssumption DEF SizeAssumption
<1>2. \A c \in Chunks : ChunkStart(c) \in 0 .. AllocatedItems
  BY <1>1, ChunkFacts
<1>3. 0 \in Chunks /\ ChunkStart(0) = 0
  BY WorkersType DEF Chunks, ChunkStart
<1> QED
  BY <1>1, <1>2, <1>3 DEF Boundaries

\* A freshly constructed PartialDataset satisfies the inductive invariant.
LEMMA InitIInv == Init => IInv
<1> SUFFICES ASSUME Init PROVE IInv
  BY Zenon
<1>0. AllocatedItems \in Nat \ {0} /\ MaxRotations \in Nat /\ NumWorkers \in Nat \ {0}
  BY Zenon, SizeAssumption, WorkersType DEF SizeAssumption
<1>1. TypeOK
  <2>1. /\ fill_complete_ \in BOOLEAN /\ fill_failed_ \in BOOLEAN
        /\ shutdown_requested_ \in BOOLEAN
        /\ chunk_done_ \in [Chunks -> BOOLEAN] /\ stop_ \in [Generations -> BOOLEAN]
    BY Zenon DEF Init
  <2> QED
    BY <1>0, <2>1 DEF Init, TypeOK, Items, Generations, Chunks
<1>2. Threads
  BY Zenon DEF Init, Threads, Alive, Resetting
<1>3. Filled /\ ResetState
  BY Zenon, BoundaryType DEF Init, Filled, ResetState, Resetting
<1>4. PublishedPrefixValid /\ CompleteMeansComputed
  BY DEF Init, PublishedPrefixValid, CompleteMeansComputed, PrefixIs
<1> QED
  BY Zenon, <1>1, <1>2, <1>3, <1>4 DEF IInv

\* Every step keeps the variables in range.
LEMMA TypeStep == IInv /\ [Next]_vars => TypeOK'
<1> SUFFICES ASSUME IInv, [Next]_vars PROVE TypeOK'
  BY Zenon
<1>1. TypeOK
  BY Zenon DEF IInv
<1>2. AllocatedItems \in Nat \ {0} /\ MaxRotations \in Nat /\ NumWorkers \in Nat \ {0}
  BY Zenon, SizeAssumption, WorkersType DEF SizeAssumption
<1>11. ASSUME NEW c \in Chunks, fill_cancelled(c) PROVE TypeOK'
  BY <1>11, <1>1
  DEF TypeOK, fill_cancelled, vars, published, flags, joins, workers, starter, readers,
      canceller
<1>12. ASSUME NEW c \in Chunks, fill_item(c) PROVE TypeOK'
  <2>1. pos[c] < ChunkEnd(c) /\ pos[c] \in Nat /\ ChunkEnd(c) <= AllocatedItems
    BY <1>12, <1>1, <1>2, ChunkFacts DEF fill_item, TypeOK
  <2>2. pos[c] + 1 \in 0 .. AllocatedItems
    BY <2>1, <1>2, ChunkFacts
  <2>3. pos' \in [Chunks -> 0 .. AllocatedItems]
    BY Zenon, <1>12, <1>1, <2>2 DEF TypeOK, fill_item
  <2>4. data' \in [Items -> Generations]
    BY Zenon, <1>12, <1>1 DEF TypeOK, fill_item
  <2>5. UNCHANGED <<item_count_, contiguous_done_, chunk_done_, flags, joins, wpc, wgen, cursor,
                    prev, starter, readers, qpc, canceller>>
    BY Zenon, <1>12 DEF fill_item
  <2> QED
    BY <1>1, <2>3, <2>4, <2>5 DEF TypeOK, flags, joins, starter, readers, canceller
<1>13. ASSUME NEW c \in Chunks, fill_throws(c) PROVE TypeOK'
  BY <1>13, <1>1
  DEF TypeOK, fill_throws, vars, published, flags, joins, workers, starter, readers,
      canceller
<1>14. ASSUME NEW c \in Chunks, mark_done(c) PROVE TypeOK'
  BY <1>14, <1>1
  DEF TypeOK, mark_done, vars, published, flags, joins, workers, starter, readers,
      canceller
<1>15. ASSUME NEW c \in Chunks, load_cursor(c) PROVE TypeOK'
  BY <1>15, <1>1
  DEF TypeOK, load_cursor, vars, published, flags, joins, workers, starter, readers,
      canceller
<1>16. ASSUME NEW c \in Chunks, scan_chunk(c) PROVE TypeOK'
  <2>1. CASE CanSwallow(cursor[c])
    <3>1. cursor[c] \in Boundaries
      BY Zenon, <1>16 DEF IInv, Filled, scan_chunk
    <3>2. cursor[c] + ChunkSpan(Owning(cursor[c])) \in 0 .. AllocatedItems
      BY Zenon, <2>1, <3>1, SwallowFacts, BoundaryType
    <3> QED
      BY <1>16, <1>1, <2>1, <3>2 DEF TypeOK, scan_chunk, published, flags, joins, starter,
         readers, canceller
  <2>2. CASE ~CanSwallow(cursor[c])
    BY <1>16, <1>1, <2>2 DEF TypeOK, scan_chunk, published, flags, joins, starter, readers,
       canceller
  <2> QED
    BY Zenon, <2>1, <2>2
<1>17. ASSUME NEW c \in Chunks, exchange_bound(c) PROVE TypeOK'
  BY <1>17, <1>1
  DEF TypeOK, exchange_bound, vars, published, flags, joins, workers, starter, readers,
      canceller
<1>18. ASSUME NEW c \in Chunks, raise_item_count(c) PROVE TypeOK'
  BY <1>18, <1>1
  DEF TypeOK, raise_item_count, vars, published, flags, joins, workers,
      starter, readers, canceller
<1>19. ASSUME NEW c \in Chunks, check_cancelled(c) PROVE TypeOK'
  BY <1>19, <1>1
  DEF TypeOK, check_cancelled, vars, published, flags, joins, workers, starter, readers,
      canceller
<1>20. ASSUME NEW c \in Chunks, check_complete(c) PROVE TypeOK'
  BY <1>20, <1>1
  DEF TypeOK, check_complete, vars, published, flags, joins, workers, starter, readers,
      canceller
<1>21. ASSUME NEW c \in Chunks, set_complete(c) PROVE TypeOK'
  BY <1>21, <1>1
  DEF TypeOK, set_complete, vars, published, flags, joins, workers, starter, readers,
      canceller
<1>22. ASSUME start_fill(MaxRotations) PROVE TypeOK'
  BY Zenon, <1>22, <1>1
  DEF TypeOK, start_fill, vars, published, flags, joins, workers, starter, readers,
      canceller
<1>23. ASSUME start_fill_lock_join PROVE TypeOK'
  BY Zenon, <1>23, <1>1
  DEF TypeOK, start_fill_lock_join, vars, published, flags, joins, workers,
      starter, readers, canceller
<1>24. ASSUME start_fill_joined PROVE TypeOK'
  BY <1>24, <1>1, <1>2
  DEF TypeOK, start_fill_joined, vars, published, flags, joins, workers, starter,
      readers, canceller, DropHandles, Joined, Generations
<1>25. ASSUME start_fill_wait_readers PROVE TypeOK'
  BY Zenon, <1>25, <1>1
  DEF TypeOK, start_fill_wait_readers, vars, published, flags, joins, workers,
      starter, readers, canceller
<1>26. ASSUME start_fill_reset PROVE TypeOK'
  <2>1. fill_complete_' \in BOOLEAN /\ fill_failed_' \in BOOLEAN
    BY Zenon, <1>26 DEF start_fill_reset
  <2>2. item_count_' \in 0 .. AllocatedItems /\ contiguous_done_' \in 0 .. AllocatedItems
    BY <1>26, <1>2 DEF start_fill_reset
  <2> QED
    BY Zenon, <1>26, <1>1, <2>1, <2>2 DEF TypeOK, start_fill_reset, joins, workers, readers,
       canceller
<1>27. ASSUME start_fill_generation PROVE TypeOK'
  <2>1. generation_ + 1 \in Generations
    BY <1>27, <1>1, <1>2 DEF IInv, TypeOK, Threads, start_fill_generation, Generations
  <2> QED
    BY Zenon, <1>27, <1>1, <2>1 DEF TypeOK, start_fill_generation, published, joins, workers,
       readers, canceller
<1>28. ASSUME start_fill_token PROVE TypeOK'
  BY Zenon, <1>28, <1>1
  DEF TypeOK, start_fill_token, vars, published, flags, joins, workers,
      starter, readers, canceller
<1>29. ASSUME start_fill_setup PROVE TypeOK'
  BY <1>29, <1>1, <1>2
  DEF TypeOK, start_fill_setup, vars, published, flags, joins, workers,
      starter, readers, canceller
<1>30. ASSUME start_fill_spawn PROVE TypeOK'
  <2>1. spawned \in Chunks /\ spawned + 1 \in 0 .. NumWorkers
    BY <1>30, <1>1, <1>2 DEF TypeOK, start_fill_spawn, Chunks
  <2>2. ChunkStart(spawned) \in 0 .. AllocatedItems
    BY <1>2, <2>1, ChunkFacts
  <2> QED
    BY <1>30, <1>1, <1>2, <2>1, <2>2 DEF TypeOK, start_fill_spawn, published, flags, readers,
       canceller
<1>31. ASSUME start_fill_return PROVE TypeOK'
  BY <1>31, <1>1, <1>2
  DEF TypeOK, start_fill_return, vars, published, flags, joins, workers,
      starter, readers, canceller
<1>32. ASSUME NEW r \in Readers, read_guard(r) PROVE TypeOK'
  BY <1>32, <1>1
  DEF TypeOK, read_guard, vars, published, flags, joins, workers, starter, readers,
      canceller
<1>33. ASSUME NEW r \in Readers, snapshot_bound(r) PROVE TypeOK'
  BY <1>33, <1>1
  DEF TypeOK, snapshot_bound, vars, published, flags, joins, workers, starter, readers,
      canceller
<1>34. ASSUME NEW r \in Readers, release_guard(r) PROVE TypeOK'
  BY <1>34, <1>1, <1>2
  DEF TypeOK, release_guard, vars, published, flags, joins, workers, starter, readers,
      canceller
<1>35. ASSUME NEW x \in Waiters, wait_for_fill(x) PROVE TypeOK'
  BY <1>35, <1>1
  DEF TypeOK, wait_for_fill, vars, published, flags, joins, workers, starter, readers,
      canceller
<1>36. ASSUME NEW x \in Waiters, wait_poll(x) PROVE TypeOK'
  BY <1>36, <1>1
  DEF TypeOK, wait_poll, vars, published, flags, joins, workers, starter, readers,
      canceller
<1>37. ASSUME NEW x \in Waiters, wait_lock_join(x) PROVE TypeOK'
  BY ZenonT(60), <1>37, <1>1
  DEF TypeOK, wait_lock_join, vars, published, flags, joins, workers, starter, readers,
      canceller
<1>38. ASSUME NEW x \in Waiters, wait_return(x) PROVE TypeOK'
  BY <1>38, <1>1, <1>2
  DEF TypeOK, wait_return, vars, published, flags, joins, workers, starter, readers,
      canceller, DropHandles, Joined, Generations
<1>39. ASSUME cancel PROVE TypeOK'
  BY Zenon, <1>39, <1>1
  DEF TypeOK, cancel, vars, published, flags, joins, workers, starter, readers,
      canceller
<1>40. ASSUME cancel_read_token PROVE TypeOK'
  BY <1>40, <1>1
  DEF TypeOK, cancel_read_token, vars, published, flags, joins, workers,
      starter, readers, canceller
<1>41. ASSUME cancel_signal PROVE TypeOK'
  BY ZenonT(60), <1>41, <1>1
  DEF TypeOK, cancel_signal, vars, published, flags, joins, workers, starter, readers,
      canceller
<1>42. CASE UNCHANGED vars
  BY ZenonT(60), <1>42, <1>1
  DEF TypeOK, vars, published, flags, joins, workers, starter, readers, canceller
<1> QED
  BY Zenon, <1>11, <1>12, <1>13, <1>14, <1>15, <1>16, <1>17, <1>18, <1>19, <1>20, <1>21, <1>22,
     <1>23, <1>24, <1>25, <1>26, <1>27, <1>28, <1>29, <1>30, <1>31, <1>32, <1>33, <1>34,
     <1>35, <1>36, <1>37, <1>38, <1>39, <1>40, <1>41, <1>42
  DEF Next, FillStep, StartFillStep, WaitStep, CancelStep

\* The steps of readers, waiters that do not join, and cancel().
Bystander ==
  \/ \E r \in Readers : read_guard(r) \/ snapshot_bound(r) \/ release_guard(r)
  \/ \E x \in Waiters : wait_for_fill(x) \/ wait_poll(x) \/ wait_lock_join(x)
  \/ cancel \/ cancel_read_token \/ cancel_signal
  \/ UNCHANGED vars

\* They touch neither the data, nor the generation, nor fill threads, nor start_fill().
LEMMA BystanderFrame ==
  ASSUME Bystander
  PROVE  UNCHANGED <<published, fill_complete_, generation_, token, fill_threads_, workers,
                     starter>>
<1>1. ASSUME NEW r \in Readers, read_guard(r) \/ snapshot_bound(r) \/ release_guard(r)
      PROVE  UNCHANGED <<published, flags, joins, workers, starter>>
  BY Zenon, <1>1 DEF read_guard, snapshot_bound, release_guard
<1>2. ASSUME NEW x \in Waiters, wait_for_fill(x) \/ wait_poll(x) \/ wait_lock_join(x)
      PROVE  UNCHANGED <<published, flags, fill_threads_, workers, starter>>
  BY Zenon, <1>2 DEF wait_for_fill, wait_poll, wait_lock_join, joins
<1>3. ASSUME cancel \/ cancel_read_token \/ cancel_signal
      PROVE  UNCHANGED <<published, fill_complete_, generation_, token, joins, workers, starter>>
  BY Zenon, <1>3 DEF cancel, cancel_read_token, cancel_signal, flags
<1> QED
  BY Zenon, <1>1, <1>2, <1>3 DEF Bystander, flags, joins, vars

\* Every step keeps fill threads joinable and of the current generation.
LEMMA ThreadsStep == IInv /\ [Next]_vars => Threads'
<1> SUFFICES ASSUME IInv, [Next]_vars PROVE Threads'
  BY Zenon
<1>1. TypeOK /\ Threads
  BY Zenon DEF IInv
<1>2. MaxRotations \in Nat /\ NumWorkers \in Nat \ {0}
  BY Zenon, SizeAssumption, WorkersType DEF SizeAssumption
<1>11. ASSUME NEW c \in Chunks, fill_cancelled(c) PROVE Threads'
  BY Zenon, <1>11, <1>1
  DEF TypeOK, Threads, Alive, Resetting, fill_cancelled, vars, published, flags, joins,
      workers, starter, readers, canceller
<1>12. ASSUME NEW c \in Chunks, fill_item(c) PROVE Threads'
  BY Zenon, <1>12, <1>1
  DEF TypeOK, Threads, Alive, Resetting, fill_item, vars, published, flags, joins,
      workers, starter, readers, canceller
<1>13. ASSUME NEW c \in Chunks, fill_throws(c) PROVE Threads'
  BY Zenon, <1>13, <1>1
  DEF TypeOK, Threads, Alive, Resetting, fill_throws, vars, published, flags, joins,
      workers, starter, readers, canceller
<1>14. ASSUME NEW c \in Chunks, mark_done(c) PROVE Threads'
  BY Zenon, <1>14, <1>1
  DEF TypeOK, Threads, Alive, Resetting, mark_done, vars, published, flags, joins,
      workers, starter, readers, canceller
<1>15. ASSUME NEW c \in Chunks, load_cursor(c) PROVE Threads'
  BY Zenon, <1>15, <1>1
  DEF TypeOK, Threads, Alive, Resetting, load_cursor, vars, published, flags, joins,
      workers, starter, readers, canceller
<1>16. ASSUME NEW c \in Chunks, scan_chunk(c) PROVE Threads'
  BY Zenon, <1>16, <1>1
  DEF TypeOK, Threads, Alive, Resetting, scan_chunk, vars, published, flags, joins,
      workers, starter, readers, canceller
<1>17. ASSUME NEW c \in Chunks, exchange_bound(c) PROVE Threads'
  BY Zenon, <1>17, <1>1
  DEF TypeOK, Threads, Alive, Resetting, exchange_bound, vars, published, flags, joins,
      workers, starter, readers, canceller
<1>18. ASSUME NEW c \in Chunks, raise_item_count(c) PROVE Threads'
  BY Zenon, <1>18, <1>1
  DEF TypeOK, Threads, Alive, Resetting, raise_item_count, vars, published, flags,
      joins, workers, starter, readers, canceller
<1>19. ASSUME NEW c \in Chunks, check_cancelled(c) PROVE Threads'
  BY Zenon, <1>19, <1>1
  DEF TypeOK, Threads, Alive, Resetting, check_cancelled, vars, published, flags, joins,
      workers, starter, readers, canceller
<1>20. ASSUME NEW c \in Chunks, check_complete(c) PROVE Threads'
  BY Zenon, <1>20, <1>1
  DEF TypeOK, Threads, Alive, Resetting, check_complete, vars, published, flags, joins,
      workers, starter, readers, canceller
<1>21. ASSUME NEW c \in Chunks, set_complete(c) PROVE Threads'
  BY Zenon, <1>21, <1>1
  DEF TypeOK, Threads, Alive, Resetting, set_complete, vars, published, flags, joins,
      workers, starter, readers, canceller
<1>22. ASSUME start_fill(MaxRotations) PROVE Threads'
  BY Zenon, <1>22, <1>1, <1>2
  DEF TypeOK, Threads, Alive, Resetting, start_fill, vars, published, flags, joins,
      workers, starter, readers, canceller
<1>23. ASSUME start_fill_lock_join PROVE Threads'
  BY Zenon, <1>23, <1>1
  DEF TypeOK, Threads, Alive, Resetting, start_fill_lock_join, vars, published, flags,
      joins, workers, starter, readers, canceller
<1>24. ASSUME start_fill_joined PROVE Threads'
  BY Zenon, <1>24, <1>1
  DEF TypeOK, Threads, Alive, Resetting, start_fill_joined, vars, published, flags,
      joins, workers, starter, readers, canceller, DropHandles, Joined
<1>25. ASSUME start_fill_wait_readers PROVE Threads'
  BY Zenon, <1>25, <1>1
  DEF TypeOK, Threads, Alive, Resetting, start_fill_wait_readers, vars, published,
      flags, joins, workers, starter, readers, canceller
<1>26. ASSUME start_fill_reset PROVE Threads'
  BY Zenon, <1>26, <1>1
  DEF TypeOK, Threads, Alive, Resetting, start_fill_reset, vars, published, flags,
      joins, workers, starter, readers, canceller
<1>27. ASSUME start_fill_generation PROVE Threads'
  BY Zenon, <1>27, <1>1, <1>2
  DEF TypeOK, Threads, Alive, Resetting, start_fill_generation, vars, published, flags,
      joins, workers, starter, readers, canceller, Generations
<1>28. ASSUME start_fill_token PROVE Threads'
  BY Zenon, <1>28, <1>1, <1>2
  DEF TypeOK, Threads, Alive, Resetting, start_fill_token, vars, published, flags,
      joins, workers, starter, readers, canceller
<1>29. ASSUME start_fill_setup PROVE Threads'
  BY Zenon, <1>29, <1>1
  DEF TypeOK, Threads, Alive, Resetting, start_fill_setup, vars, published, flags,
      joins, workers, starter, readers, canceller
<1>30. ASSUME start_fill_spawn PROVE Threads'
  <2>1. /\ spawned \in Chunks /\ spawned < spawned + 1
        /\ \A k \in Chunks : k < spawned => k < spawned + 1
    <3>1. spawned \in 0 .. NumWorkers /\ spawned < NumWorkers
      BY Zenon, <1>30, <1>1 DEF TypeOK, start_fill_spawn
    <3> QED
      BY <1>2, <3>1 DEF Chunks
  <2> QED
    BY Zenon, <1>30, <1>1, <2>1
    DEF TypeOK, Threads, Alive, Resetting, start_fill_spawn, published, flags, readers
<1>31. ASSUME start_fill_return PROVE Threads'
  BY Zenon, <1>31, <1>1
  DEF TypeOK, Threads, Alive, Resetting, start_fill_return, vars, published, flags,
      joins, workers, starter, readers, canceller
<1>38. ASSUME NEW x \in Waiters, wait_return(x) PROVE Threads'
  BY Zenon, <1>38, <1>1
  DEF TypeOK, Threads, Alive, Resetting, wait_return, vars, published, flags, joins,
      workers, starter, readers, canceller, DropHandles, Joined
<1>39. ASSUME Bystander PROVE Threads'
  BY Zenon, <1>39, <1>1, BystanderFrame
  DEF TypeOK, Threads, Alive, Resetting, published, workers, starter
<1> QED
  BY Zenon, <1>11, <1>12, <1>13, <1>14, <1>15, <1>16, <1>17, <1>18, <1>19, <1>20, <1>21, <1>22,
     <1>23, <1>24, <1>25, <1>26, <1>27, <1>28, <1>29, <1>30, <1>31, <1>38, <1>39
  DEF Next, FillStep, StartFillStep, WaitStep, CancelStep, Bystander

\* Every step keeps a reset prefix empty and the readers within the bound.
LEMMA ResetStep == IInv /\ [Next]_vars => ResetState'
<1> SUFFICES ASSUME IInv, [Next]_vars PROVE ResetState'
  BY Zenon
<1>1. TypeOK /\ Threads /\ ResetState
  BY Zenon DEF IInv
<1>2. AllocatedItems \in Nat
  BY Zenon, SizeAssumption DEF SizeAssumption
<1>11. ASSUME NEW c \in Chunks, fill_cancelled(c) PROVE ResetState'
  BY Zenon, <1>11, <1>1
  DEF TypeOK, ResetState, Resetting, fill_cancelled, vars, published, flags, joins,
      workers, starter, readers, canceller
<1>12. ASSUME NEW c \in Chunks, fill_item(c) PROVE ResetState'
  BY Zenon, <1>12, <1>1
  DEF TypeOK, ResetState, Resetting, fill_item, vars, published, flags, joins, workers,
      starter, readers, canceller
<1>13. ASSUME NEW c \in Chunks, fill_throws(c) PROVE ResetState'
  BY Zenon, <1>13, <1>1
  DEF TypeOK, ResetState, Resetting, fill_throws, vars, published, flags, joins,
      workers, starter, readers, canceller
<1>14. ASSUME NEW c \in Chunks, mark_done(c) PROVE ResetState'
  BY Zenon, <1>14, <1>1
  DEF TypeOK, ResetState, Resetting, mark_done, vars, published, flags, joins, workers,
      starter, readers, canceller
<1>15. ASSUME NEW c \in Chunks, load_cursor(c) PROVE ResetState'
  BY Zenon, <1>15, <1>1
  DEF TypeOK, ResetState, Resetting, load_cursor, vars, published, flags, joins,
      workers, starter, readers, canceller
<1>16. ASSUME NEW c \in Chunks, scan_chunk(c) PROVE ResetState'
  BY Zenon, <1>16, <1>1
  DEF TypeOK, ResetState, Resetting, scan_chunk, vars, published, flags, joins, workers,
      starter, readers, canceller
<1>17. ASSUME NEW c \in Chunks, exchange_bound(c) PROVE ResetState'
  BY Zenon, <1>17, <1>1
  DEF TypeOK, ResetState, Resetting, exchange_bound, vars, published, flags, joins,
      workers, starter, readers, canceller, Threads
<1>18. ASSUME NEW c \in Chunks, raise_item_count(c) PROVE ResetState'
  BY <1>18, <1>1, <1>2
  DEF TypeOK, ResetState, Resetting, raise_item_count, vars, published, flags, joins,
      workers, starter, readers, canceller, Threads
<1>19. ASSUME NEW c \in Chunks, check_cancelled(c) PROVE ResetState'
  BY Zenon, <1>19, <1>1
  DEF TypeOK, ResetState, Resetting, check_cancelled, vars, published, flags, joins,
      workers, starter, readers, canceller
<1>20. ASSUME NEW c \in Chunks, check_complete(c) PROVE ResetState'
  BY Zenon, <1>20, <1>1
  DEF TypeOK, ResetState, Resetting, check_complete, vars, published, flags, joins,
      workers, starter, readers, canceller
<1>21. ASSUME NEW c \in Chunks, set_complete(c) PROVE ResetState'
  BY Zenon, <1>21, <1>1
  DEF TypeOK, ResetState, Resetting, set_complete, vars, published, flags, joins,
      workers, starter, readers, canceller, Threads
<1>22. ASSUME start_fill(MaxRotations) PROVE ResetState'
  BY Zenon, <1>22, <1>1
  DEF TypeOK, ResetState, Resetting, start_fill, vars, published, flags, joins, workers,
      starter, readers, canceller
<1>23. ASSUME start_fill_lock_join PROVE ResetState'
  BY Zenon, <1>23, <1>1
  DEF TypeOK, ResetState, Resetting, start_fill_lock_join, vars, published, flags,
      joins, workers, starter, readers, canceller
<1>24. ASSUME start_fill_joined PROVE ResetState'
  BY Zenon, <1>24, <1>1
  DEF TypeOK, ResetState, Resetting, start_fill_joined, vars, published, flags, joins,
      workers, starter, readers, canceller, DropHandles
<1>25. ASSUME start_fill_wait_readers PROVE ResetState'
  BY Zenon, <1>25, <1>1
  DEF TypeOK, ResetState, Resetting, start_fill_wait_readers, vars, published, flags,
      joins, workers, starter, readers, canceller
<1>26. ASSUME start_fill_reset PROVE ResetState'
  BY Zenon, <1>26, <1>1, <1>2
  DEF TypeOK, ResetState, Resetting, start_fill_reset, vars, published, flags, joins,
      workers, starter, readers, canceller
<1>27. ASSUME start_fill_generation PROVE ResetState'
  BY Zenon, <1>27, <1>1
  DEF TypeOK, ResetState, Resetting, start_fill_generation, vars, published, flags,
      joins, workers, starter, readers, canceller
<1>28. ASSUME start_fill_token PROVE ResetState'
  BY Zenon, <1>28, <1>1
  DEF TypeOK, ResetState, Resetting, start_fill_token, vars, published, flags, joins,
      workers, starter, readers, canceller
<1>29. ASSUME start_fill_setup PROVE ResetState'
  BY Zenon, <1>29, <1>1
  DEF TypeOK, ResetState, Resetting, start_fill_setup, vars, published, flags, joins,
      workers, starter, readers, canceller
<1>30. ASSUME start_fill_spawn PROVE ResetState'
  BY Zenon, <1>30, <1>1
  DEF TypeOK, ResetState, Resetting, start_fill_spawn, vars, published, flags, joins,
      workers, starter, readers, canceller
<1>31. ASSUME start_fill_return PROVE ResetState'
  BY Zenon, <1>31, <1>1
  DEF TypeOK, ResetState, Resetting, start_fill_return, vars, published, flags, joins,
      workers, starter, readers, canceller, Threads
<1>32. ASSUME NEW r \in Readers, read_guard(r) PROVE ResetState'
  BY Zenon, <1>32, <1>1, <1>2
  DEF TypeOK, ResetState, Resetting, read_guard, vars, published, flags, joins, workers,
      starter, readers, canceller, ReaderAdmitted
<1>33. ASSUME NEW r \in Readers, snapshot_bound(r) PROVE ResetState'
  BY <1>33, <1>1, <1>2
  DEF TypeOK, ResetState, Resetting, snapshot_bound, vars, published, flags, joins,
      workers, starter, readers, canceller
<1>34. ASSUME NEW r \in Readers, release_guard(r) PROVE ResetState'
  BY Zenon, <1>34, <1>1
  DEF TypeOK, ResetState, Resetting, release_guard, vars, published, flags, joins,
      workers, starter, readers, canceller
<1>35. ASSUME NEW x \in Waiters, wait_for_fill(x) PROVE ResetState'
  BY Zenon, <1>35, <1>1
  DEF TypeOK, ResetState, Resetting, wait_for_fill, vars, published, flags, joins,
      workers, starter, readers, canceller
<1>36. ASSUME NEW x \in Waiters, wait_poll(x) PROVE ResetState'
  BY Zenon, <1>36, <1>1
  DEF TypeOK, ResetState, Resetting, wait_poll, vars, published, flags, joins, workers,
      starter, readers, canceller
<1>37. ASSUME NEW x \in Waiters, wait_lock_join(x) PROVE ResetState'
  BY Zenon, <1>37, <1>1
  DEF TypeOK, ResetState, Resetting, wait_lock_join, vars, published, flags, joins,
      workers, starter, readers, canceller
<1>38. ASSUME NEW x \in Waiters, wait_return(x) PROVE ResetState'
  BY Zenon, <1>38, <1>1
  DEF TypeOK, ResetState, Resetting, wait_return, vars, published, flags, joins,
      workers, starter, readers, canceller, DropHandles
<1>39. ASSUME cancel PROVE ResetState'
  BY Zenon, <1>39, <1>1
  DEF TypeOK, ResetState, Resetting, cancel, vars, published, flags, joins, workers,
      starter, readers, canceller
<1>40. ASSUME cancel_read_token PROVE ResetState'
  BY Zenon, <1>40, <1>1
  DEF TypeOK, ResetState, Resetting, cancel_read_token, vars, published, flags, joins,
      workers, starter, readers, canceller
<1>41. ASSUME cancel_signal PROVE ResetState'
  BY Zenon, <1>41, <1>1
  DEF TypeOK, ResetState, Resetting, cancel_signal, vars, published, flags, joins,
      workers, starter, readers, canceller
<1>42. CASE UNCHANGED vars
  BY Zenon, <1>42, <1>1
  DEF ResetState, Resetting, vars, published, flags, joins, workers, starter, readers,
      canceller
<1> QED
  BY Zenon, <1>11, <1>12, <1>13, <1>14, <1>15, <1>16, <1>17, <1>18, <1>19, <1>20, <1>21, <1>22,
     <1>23, <1>24, <1>25, <1>26, <1>27, <1>28, <1>29, <1>30, <1>31, <1>32, <1>33, <1>34,
     <1>35, <1>36, <1>37, <1>38, <1>39, <1>40, <1>41, <1>42
  DEF Next, FillStep, StartFillStep, WaitStep, CancelStep

-----------------------------------------------------------------------------
(* The data.                                                                *)

\* fill_item() overwrites nothing that already holds the current generation's bytes,
\* because every fill thread works for the current generation.
LEMMA FillItemKeeps ==
  ASSUME IInv, NEW c \in Chunks, fill_item(c)
  PROVE  /\ pos[c] \in Items /\ pos' = [pos EXCEPT ![c] = pos[c] + 1]
         /\ \A i \in Items : data[i] = generation_ => data'[i] = generation_
         /\ data'[pos[c]] = generation_
         /\ UNCHANGED <<item_count_, contiguous_done_, chunk_done_, generation_,
                        fill_complete_, wpc, cursor, spc>>
<1>1. TypeOK /\ Threads /\ wpc[c] = "fill"
  BY Zenon DEF IInv, fill_item
<1>2. wgen[c] = generation_
  BY Zenon, <1>1 DEF Threads, Alive
<1>3. pos[c] \in Items
  <2>1. pos[c] \in 0 .. AllocatedItems /\ pos[c] < ChunkEnd(c)
    BY Zenon, <1>1 DEF TypeOK, fill_item
  <2> QED
    BY <2>1, ChunkFacts, SizeAssumption DEF Items, SizeAssumption
<1>4. data' = [data EXCEPT ![pos[c]] = generation_]
  BY Zenon, <1>2 DEF fill_item
<1> QED
  BY Zenon, <1>1, <1>3, <1>4 DEF TypeOK, fill_item, flags, starter

\* Every step keeps the published prefix of the current generation.
LEMMA PublishedStep == IInv /\ [Next]_vars => PublishedPrefixValid'
<1> SUFFICES ASSUME IInv, [Next]_vars PROVE PublishedPrefixValid'
  BY Zenon
<1>1. TypeOK /\ Threads /\ Filled /\ ResetState /\ PublishedPrefixValid
  BY Zenon DEF IInv
<1>2. AllocatedItems \in Nat
  BY Zenon, SizeAssumption DEF SizeAssumption
<1>11. ASSUME NEW c \in Chunks, fill_cancelled(c) PROVE PublishedPrefixValid'
  BY Zenon, <1>11, <1>1
  DEF PublishedPrefixValid, PrefixIs, fill_cancelled, vars, published, flags, joins,
      workers, starter, readers, canceller
<1>12. ASSUME NEW c \in Chunks, fill_item(c) PROVE PublishedPrefixValid'
  BY SMTT(30), <1>12, <1>1, <1>2, FillItemKeeps
  DEF TypeOK, Items, PublishedPrefixValid, PrefixIs
<1>13. ASSUME NEW c \in Chunks, fill_throws(c) PROVE PublishedPrefixValid'
  BY Zenon, <1>13, <1>1
  DEF PublishedPrefixValid, PrefixIs, fill_throws, vars, published, flags, joins,
      workers, starter, readers, canceller
<1>14. ASSUME NEW c \in Chunks, mark_done(c) PROVE PublishedPrefixValid'
  BY Zenon, <1>14, <1>1
  DEF PublishedPrefixValid, PrefixIs, mark_done, vars, published, flags, joins, workers,
      starter, readers, canceller
<1>15. ASSUME NEW c \in Chunks, load_cursor(c) PROVE PublishedPrefixValid'
  BY Zenon, <1>15, <1>1
  DEF PublishedPrefixValid, PrefixIs, load_cursor, vars, published, flags, joins,
      workers, starter, readers, canceller
<1>16. ASSUME NEW c \in Chunks, scan_chunk(c) PROVE PublishedPrefixValid'
  BY Zenon, <1>16, <1>1
  DEF PublishedPrefixValid, PrefixIs, scan_chunk, vars, published, flags, joins,
      workers, starter, readers, canceller
<1>17. ASSUME NEW c \in Chunks, exchange_bound(c) PROVE PublishedPrefixValid'
  BY Zenon, <1>17, <1>1, <1>2
  DEF TypeOK, Filled, PublishedPrefixValid, PrefixIs, exchange_bound, vars, published,
      flags, joins, workers, starter, readers, canceller
<1>18. ASSUME NEW c \in Chunks, raise_item_count(c) PROVE PublishedPrefixValid'
  BY Zenon, <1>18, <1>1, <1>2
  DEF TypeOK, Filled, PublishedPrefixValid, PrefixIs, raise_item_count, vars, published,
      flags, joins, workers, starter, readers, canceller
<1>19. ASSUME NEW c \in Chunks, check_cancelled(c) PROVE PublishedPrefixValid'
  BY Zenon, <1>19, <1>1
  DEF PublishedPrefixValid, PrefixIs, check_cancelled, vars, published, flags, joins,
      workers, starter, readers, canceller
<1>20. ASSUME NEW c \in Chunks, check_complete(c) PROVE PublishedPrefixValid'
  BY Zenon, <1>20, <1>1
  DEF PublishedPrefixValid, PrefixIs, check_complete, vars, published, flags, joins,
      workers, starter, readers, canceller
<1>21. ASSUME NEW c \in Chunks, set_complete(c) PROVE PublishedPrefixValid'
  BY Zenon, <1>21, <1>1
  DEF PublishedPrefixValid, PrefixIs, set_complete, vars, published, flags, joins,
      workers, starter, readers, canceller
<1>22. ASSUME start_fill(MaxRotations) PROVE PublishedPrefixValid'
  BY Zenon, <1>22, <1>1
  DEF PublishedPrefixValid, PrefixIs, start_fill, vars, published, flags, joins,
      workers, starter, readers, canceller
<1>23. ASSUME start_fill_lock_join PROVE PublishedPrefixValid'
  BY Zenon, <1>23, <1>1
  DEF PublishedPrefixValid, PrefixIs, start_fill_lock_join, vars, published, flags,
      joins, workers, starter, readers, canceller
<1>24. ASSUME start_fill_joined PROVE PublishedPrefixValid'
  BY Zenon, <1>24, <1>1
  DEF PublishedPrefixValid, PrefixIs, start_fill_joined, vars, published, flags, joins,
      workers, starter, readers, canceller, DropHandles
<1>25. ASSUME start_fill_wait_readers PROVE PublishedPrefixValid'
  BY Zenon, <1>25, <1>1
  DEF PublishedPrefixValid, PrefixIs, start_fill_wait_readers, vars, published, flags,
      joins, workers, starter, readers, canceller
<1>26. ASSUME start_fill_reset PROVE PublishedPrefixValid'
  BY <1>26, <1>1
  DEF PublishedPrefixValid, PrefixIs, start_fill_reset, vars, published, flags, joins,
      workers, starter, readers, canceller
<1>27. ASSUME start_fill_generation PROVE PublishedPrefixValid'
  BY <1>27, <1>1
  DEF ResetState, Resetting, PublishedPrefixValid, PrefixIs, start_fill_generation,
      vars, published, flags, joins, workers, starter, readers, canceller
<1>28. ASSUME start_fill_token PROVE PublishedPrefixValid'
  BY Zenon, <1>28, <1>1
  DEF PublishedPrefixValid, PrefixIs, start_fill_token, vars, published, flags, joins,
      workers, starter, readers, canceller
<1>29. ASSUME start_fill_setup PROVE PublishedPrefixValid'
  BY Zenon, <1>29, <1>1
  DEF PublishedPrefixValid, PrefixIs, start_fill_setup, vars, published, flags, joins,
      workers, starter, readers, canceller
<1>30. ASSUME start_fill_spawn PROVE PublishedPrefixValid'
  BY Zenon, <1>30, <1>1
  DEF PublishedPrefixValid, PrefixIs, start_fill_spawn, vars, published, flags, joins,
      workers, starter, readers, canceller
<1>31. ASSUME start_fill_return PROVE PublishedPrefixValid'
  BY Zenon, <1>31, <1>1
  DEF PublishedPrefixValid, PrefixIs, start_fill_return, vars, published, flags, joins,
      workers, starter, readers, canceller
<1>38. ASSUME NEW x \in Waiters, wait_return(x) PROVE PublishedPrefixValid'
  BY Zenon, <1>38, <1>1
  DEF PublishedPrefixValid, PrefixIs, wait_return, vars, published, flags, joins,
      workers, starter, readers, canceller, DropHandles
<1>39. ASSUME Bystander PROVE PublishedPrefixValid'
  BY Zenon, <1>39, <1>1, BystanderFrame
  DEF PublishedPrefixValid, PrefixIs, published, workers, starter
<1> QED
  BY Zenon, <1>11, <1>12, <1>13, <1>14, <1>15, <1>16, <1>17, <1>18, <1>19, <1>20, <1>21, <1>22,
     <1>23, <1>24, <1>25, <1>26, <1>27, <1>28, <1>29, <1>30, <1>31, <1>38, <1>39
  DEF Next, FillStep, StartFillStep, WaitStep, CancelStep, Bystander

\* Every step keeps a complete fill fully computed.
LEMMA CompleteStep == IInv /\ [Next]_vars => CompleteMeansComputed'
<1> SUFFICES ASSUME IInv, [Next]_vars PROVE CompleteMeansComputed'
  BY Zenon
<1>1. TypeOK /\ Threads /\ Filled /\ ResetState /\ CompleteMeansComputed
  BY Zenon DEF IInv
<1>2. AllocatedItems \in Nat
  BY Zenon, SizeAssumption DEF SizeAssumption
<1>11. ASSUME NEW c \in Chunks, fill_cancelled(c) PROVE CompleteMeansComputed'
  BY Zenon, <1>11, <1>1
  DEF CompleteMeansComputed, PrefixIs, fill_cancelled, vars, published, flags, joins,
      workers, starter, readers, canceller
<1>12. ASSUME NEW c \in Chunks, fill_item(c) PROVE CompleteMeansComputed'
  BY Zenon, <1>12, <1>1, <1>2, FillItemKeeps
  DEF Items, CompleteMeansComputed, PrefixIs
<1>13. ASSUME NEW c \in Chunks, fill_throws(c) PROVE CompleteMeansComputed'
  BY Zenon, <1>13, <1>1
  DEF CompleteMeansComputed, PrefixIs, fill_throws, vars, published, flags, joins,
      workers, starter, readers, canceller
<1>14. ASSUME NEW c \in Chunks, mark_done(c) PROVE CompleteMeansComputed'
  BY Zenon, <1>14, <1>1
  DEF CompleteMeansComputed, PrefixIs, mark_done, vars, published, flags, joins,
      workers, starter, readers, canceller
<1>15. ASSUME NEW c \in Chunks, load_cursor(c) PROVE CompleteMeansComputed'
  BY Zenon, <1>15, <1>1
  DEF CompleteMeansComputed, PrefixIs, load_cursor, vars, published, flags, joins,
      workers, starter, readers, canceller
<1>16. ASSUME NEW c \in Chunks, scan_chunk(c) PROVE CompleteMeansComputed'
  BY Zenon, <1>16, <1>1
  DEF CompleteMeansComputed, PrefixIs, scan_chunk, vars, published, flags, joins,
      workers, starter, readers, canceller
<1>17. ASSUME NEW c \in Chunks, exchange_bound(c) PROVE CompleteMeansComputed'
  BY Zenon, <1>17, <1>1
  DEF CompleteMeansComputed, PrefixIs, exchange_bound, vars, published, flags, joins,
      workers, starter, readers, canceller
<1>18. ASSUME NEW c \in Chunks, raise_item_count(c) PROVE CompleteMeansComputed'
  BY Zenon, <1>18, <1>1
  DEF CompleteMeansComputed, PrefixIs, raise_item_count, vars, published, flags, joins,
      workers, starter, readers, canceller
<1>19. ASSUME NEW c \in Chunks, check_cancelled(c) PROVE CompleteMeansComputed'
  BY Zenon, <1>19, <1>1
  DEF CompleteMeansComputed, PrefixIs, check_cancelled, vars, published, flags, joins,
      workers, starter, readers, canceller
<1>20. ASSUME NEW c \in Chunks, check_complete(c) PROVE CompleteMeansComputed'
  BY Zenon, <1>20, <1>1
  DEF CompleteMeansComputed, PrefixIs, check_complete, vars, published, flags, joins,
      workers, starter, readers, canceller
<1>21. ASSUME NEW c \in Chunks, set_complete(c) PROVE CompleteMeansComputed'
  BY Zenon, <1>21, <1>1
  DEF Filled, CompleteMeansComputed, PrefixIs, set_complete, vars, published, flags,
      joins, workers, starter, readers, canceller
<1>22. ASSUME start_fill(MaxRotations) PROVE CompleteMeansComputed'
  BY Zenon, <1>22, <1>1
  DEF CompleteMeansComputed, PrefixIs, start_fill, vars, published, flags, joins,
      workers, starter, readers, canceller
<1>23. ASSUME start_fill_lock_join PROVE CompleteMeansComputed'
  BY Zenon, <1>23, <1>1
  DEF CompleteMeansComputed, PrefixIs, start_fill_lock_join, vars, published, flags,
      joins, workers, starter, readers, canceller
<1>24. ASSUME start_fill_joined PROVE CompleteMeansComputed'
  BY Zenon, <1>24, <1>1
  DEF CompleteMeansComputed, PrefixIs, start_fill_joined, vars, published, flags, joins,
      workers, starter, readers, canceller, DropHandles
<1>25. ASSUME start_fill_wait_readers PROVE CompleteMeansComputed'
  BY Zenon, <1>25, <1>1
  DEF CompleteMeansComputed, PrefixIs, start_fill_wait_readers, vars, published, flags,
      joins, workers, starter, readers, canceller
<1>26. ASSUME start_fill_reset PROVE CompleteMeansComputed'
  BY Zenon, <1>26, <1>1
  DEF CompleteMeansComputed, PrefixIs, start_fill_reset, vars, published, flags, joins,
      workers, starter, readers, canceller
<1>27. ASSUME start_fill_generation PROVE CompleteMeansComputed'
  BY Zenon, <1>27, <1>1
  DEF ResetState, Resetting, CompleteMeansComputed, PrefixIs, start_fill_generation,
      vars, published, flags, joins, workers, starter, readers, canceller
<1>28. ASSUME start_fill_token PROVE CompleteMeansComputed'
  BY Zenon, <1>28, <1>1
  DEF CompleteMeansComputed, PrefixIs, start_fill_token, vars, published, flags, joins,
      workers, starter, readers, canceller
<1>29. ASSUME start_fill_setup PROVE CompleteMeansComputed'
  BY Zenon, <1>29, <1>1
  DEF CompleteMeansComputed, PrefixIs, start_fill_setup, vars, published, flags, joins,
      workers, starter, readers, canceller
<1>30. ASSUME start_fill_spawn PROVE CompleteMeansComputed'
  BY Zenon, <1>30, <1>1
  DEF CompleteMeansComputed, PrefixIs, start_fill_spawn, vars, published, flags, joins,
      workers, starter, readers, canceller
<1>31. ASSUME start_fill_return PROVE CompleteMeansComputed'
  BY Zenon, <1>31, <1>1
  DEF CompleteMeansComputed, PrefixIs, start_fill_return, vars, published, flags, joins,
      workers, starter, readers, canceller
<1>38. ASSUME NEW x \in Waiters, wait_return(x) PROVE CompleteMeansComputed'
  BY Zenon, <1>38, <1>1
  DEF CompleteMeansComputed, PrefixIs, wait_return, vars, published, flags, joins,
      workers, starter, readers, canceller, DropHandles
<1>39. ASSUME Bystander PROVE CompleteMeansComputed'
  BY Zenon, <1>39, <1>1, BystanderFrame
  DEF CompleteMeansComputed, PrefixIs, published, workers, starter
<1> QED
  BY Zenon, <1>11, <1>12, <1>13, <1>14, <1>15, <1>16, <1>17, <1>18, <1>19, <1>20, <1>21, <1>22,
     <1>23, <1>24, <1>25, <1>26, <1>27, <1>28, <1>29, <1>30, <1>31, <1>38, <1>39
  DEF Next, FillStep, StartFillStep, WaitStep, CancelStep, Bystander

\* Filled speaks of the data, the flags and the cursors, so a step that only moves fill
\* threads to labels about which it says nothing keeps it.
LEMMA FilledFrame ==
  ASSUME Filled, Resetting => Resetting',
         UNCHANGED <<data, generation_, chunk_done_, contiguous_done_>>,
         \A k \in Chunks :
           \/ wpc'[k] = wpc[k] /\ pos'[k] = pos[k] /\ cursor'[k] = cursor[k]
           \/ wpc'[k] \in {"off", "load", "final", "bound", "done"}
  PROVE  Filled'
BY Zenon DEF Filled, PrefixIs, ChunkIs

\* Every step keeps what fill threads wrote and know.
LEMMA FilledStep == IInv /\ [Next]_vars => Filled'
<1> SUFFICES ASSUME IInv, [Next]_vars PROVE Filled'
  BY Zenon
<1>1. TypeOK /\ Threads /\ Filled /\ ResetState /\ PublishedPrefixValid
  BY Zenon DEF IInv
<1>2. AllocatedItems \in Nat
  BY Zenon, SizeAssumption DEF SizeAssumption
<1>11. ASSUME NEW c \in Chunks, fill_cancelled(c) PROVE Filled'
  BY Zenon, <1>11, <1>1, FilledFrame
  DEF TypeOK, Resetting, fill_cancelled, vars, published, flags, joins, workers,
      starter, readers, canceller
<1>12. ASSUME NEW c \in Chunks, fill_item(c) PROVE Filled'
  <2>0. /\ pos[c] \in Items /\ pos' = [pos EXCEPT ![c] = pos[c] + 1]
        /\ \A i \in Items : data[i] = generation_ => data'[i] = generation_
        /\ data'[pos[c]] = generation_
        /\ UNCHANGED <<contiguous_done_, chunk_done_, generation_, wpc, cursor, spc>>
    BY Zenon, <1>12, FillItemKeeps
  <2>1. \A n \in Nat : n <= AllocatedItems /\ PrefixIs(n, generation_) => PrefixIs(n, generation_)'
    <3> SUFFICES ASSUME NEW n \in Nat, n <= AllocatedItems, PrefixIs(n, generation_),
                        NEW i \in 0 .. n - 1
                 PROVE  data'[i] = generation_'
      BY Zenon, <2>0 DEF PrefixIs
    <3>1. i \in Items /\ data[i] = generation_
      BY <1>2 DEF Items, PrefixIs
    <3> QED
      BY Zenon, <2>0, <3>1
  <2>2. \A k \in Chunks : \A n \in Nat :
          n <= AllocatedItems /\ ChunkIs(k, n, generation_) => ChunkIs(k, n, generation_)'
    <3> SUFFICES ASSUME NEW k \in Chunks, NEW n \in Nat, n <= AllocatedItems,
                        ChunkIs(k, n, generation_), NEW i \in ChunkStart(k) .. n - 1
                 PROVE  data'[i] = generation_'
      BY Zenon, <2>0 DEF ChunkIs
    <3>1. i \in Items /\ data[i] = generation_
      BY <1>2, ChunkFacts DEF Items, ChunkIs
    <3> QED
      BY Zenon, <2>0, <3>1
  <2>3. ASSUME NEW k \in Chunks, wpc'[k] = "fill"
        PROVE  /\ ChunkStart(k) <= pos'[k] /\ pos'[k] <= ChunkEnd(k)
               /\ ChunkIs(k, pos[k], generation_)'
    <3>1. /\ wpc[k] = "fill" /\ pos[k] \in Nat /\ pos[k] <= AllocatedItems
          /\ ChunkStart(k) <= pos[k] /\ pos[k] <= ChunkEnd(k)
          /\ ChunkIs(k, pos[k], generation_)
      BY <1>1, <1>2, <2>0, <2>3 DEF Filled, TypeOK
    <3>2. \A i \in ChunkStart(k) .. pos[k] - 1 : data'[i] = generation_'
      BY Zenon, <2>2, <3>1 DEF ChunkIs
    <3>3. CASE k = c
      <4>1. pos'[k] = pos[k] + 1 /\ data'[pos[k]] = generation_' /\ pos[k] < ChunkEnd(k)
        BY Zenon, <1>12, <1>1, <2>0, <3>3 DEF TypeOK, fill_item
      <4> QED
        BY <3>1, <3>2, <4>1, ChunkFacts DEF ChunkIs
    <3>4. CASE k # c
      <4>1. pos'[k] = pos[k]
        BY Zenon, <1>1, <2>0, <3>4 DEF TypeOK
      <4> QED
        BY Zenon, <3>1, <3>2, <4>1 DEF ChunkIs
    <3> QED
      BY Zenon, <3>3, <3>4
  <2>4. \A k \in Chunks : ChunkEnd(k) \in Nat /\ ChunkEnd(k) <= AllocatedItems
    BY Zenon, ChunkFacts
  <2>5. ~Resetting' => \A k \in Chunks : chunk_done_'[k] => ChunkIs(k, ChunkEnd(k), generation_)'
    BY Zenon, <1>1, <2>0, <2>2, <2>4 DEF Filled, Resetting
  <2>6. ASSUME NEW k \in Chunks, wpc'[k] \in {"scan", "exchange", "raise"}
        PROVE  cursor'[k] \in Boundaries /\ PrefixIs(cursor[k], generation_)'
    <3>1. /\ cursor[k] \in Boundaries /\ PrefixIs(cursor[k], generation_)
          /\ cursor[k] \in Nat /\ cursor[k] <= AllocatedItems
      <4>1. cursor[k] \in Boundaries /\ PrefixIs(cursor[k], generation_)
        BY Zenon, <1>1, <2>0, <2>6 DEF Filled
      <4>2. cursor[k] \in 0 .. AllocatedItems
        BY Zenon, <1>1 DEF TypeOK
      <4> QED
        BY <1>2, <4>1, <4>2
    <3>2. PrefixIs(cursor[k], generation_)'
      BY ZenonT(60), <2>0, <2>1, <3>1 DEF PrefixIs
    <3> QED
      BY Zenon, <2>0, <3>1, <3>2
  <2>7. \A k \in Chunks : wpc'[k] = "complete" => PrefixIs(AllocatedItems, generation_)'
    <3>1. AllocatedItems <= AllocatedItems
      BY <1>2
    <3>2. \A k \in Chunks : wpc[k] = "complete" => PrefixIs(AllocatedItems, generation_)
      BY Zenon, <1>1 DEF Filled
    <3> QED
      BY Zenon, <1>2, <2>0, <2>1, <3>1, <3>2
  <2>8. contiguous_done_' \in Boundaries
    BY Zenon, <1>1, <2>0 DEF Filled
  <2> QED
    BY Zenon, <2>3, <2>5, <2>6, <2>7, <2>8 DEF Filled
<1>13. ASSUME NEW c \in Chunks, fill_throws(c) PROVE Filled'
  BY Zenon, <1>13, <1>1, FilledFrame
  DEF TypeOK, Resetting, fill_throws, vars, published, flags, joins, workers,
      starter, readers, canceller
<1>14. ASSUME NEW c \in Chunks, mark_done(c) PROVE Filled'
  <2>1. ChunkIs(c, ChunkEnd(c), generation_)
    <3>1. /\ pos[c] \in 0 .. AllocatedItems /\ pos[c] >= ChunkEnd(c) /\ pos[c] <= ChunkEnd(c)
          /\ ChunkIs(c, pos[c], generation_)
      BY Zenon, <1>14, <1>1 DEF mark_done, Filled, TypeOK
    <3>2. pos[c] = ChunkEnd(c)
      BY <1>2, <3>1, ChunkFacts
    <3> QED
      BY Zenon, <3>1, <3>2
  <2> QED
    BY Zenon, <1>14, <1>1, <2>1
    DEF TypeOK, Filled, ChunkIs, PrefixIs, Resetting, mark_done, flags, starter
<1>15. ASSUME NEW c \in Chunks, load_cursor(c) PROVE Filled'
  BY ZenonT(60), <1>15, <1>1
  DEF PublishedPrefixValid, TypeOK, Filled, ChunkIs, PrefixIs, Resetting, load_cursor,
      vars, published, flags, joins, workers, starter, readers, canceller
<1>16. ASSUME NEW c \in Chunks, scan_chunk(c) PROVE Filled'
  <2>1. CASE CanSwallow(cursor[c])
    <3>1. cursor[c] \in Boundaries /\ PrefixIs(cursor[c], generation_)
      BY Zenon, <1>16, <1>1 DEF scan_chunk, Filled
    <3>2. PICK k \in Chunks :
            /\ cursor[c] = ChunkStart(k) /\ Owning(cursor[c]) = k /\ chunk_done_[k]
            /\ cursor[c] + ChunkSpan(Owning(cursor[c])) = ChunkEnd(k)
            /\ ChunkEnd(k) \in Boundaries
      BY Zenon, <2>1, <3>1, SwallowFacts
    <3>3. ~Resetting
      BY Zenon, <1>16, <1>1 DEF scan_chunk, Threads
    <3>4. PrefixIs(ChunkEnd(k), generation_)
      <4>1. PrefixIs(ChunkStart(k), generation_) /\ ChunkIs(k, ChunkEnd(k), generation_)
        BY Zenon, <1>1, <3>1, <3>2, <3>3 DEF Filled
      <4> QED
        BY <4>1, ChunkFacts DEF PrefixIs, ChunkIs
    <3>5. cursor' = [cursor EXCEPT ![c] = ChunkEnd(k)] /\ wpc' = wpc
      BY Zenon, <1>16, <2>1, <3>2 DEF scan_chunk
    <3> QED
      BY ZenonT(60), <1>16, <1>1, <3>2, <3>4, <3>5
      DEF TypeOK, Filled, ChunkIs, PrefixIs, Resetting, scan_chunk, published, flags, starter
  <2>2. CASE ~CanSwallow(cursor[c])
    BY ZenonT(60), <1>16, <1>1, <2>2
    DEF TypeOK, Filled, ChunkIs, PrefixIs, Resetting, scan_chunk, published, flags, starter
  <2> QED
    BY Zenon, <2>1, <2>2
<1>17. ASSUME NEW c \in Chunks, exchange_bound(c) PROVE Filled'
  BY ZenonT(60), <1>17, <1>1
  DEF TypeOK, Filled, ChunkIs, PrefixIs, Resetting, exchange_bound, vars, published,
      flags, joins, workers, starter, readers, canceller
<1>18. ASSUME NEW c \in Chunks, raise_item_count(c) PROVE Filled'
  BY ZenonT(60), <1>18, <1>1
  DEF TypeOK, Filled, ChunkIs, PrefixIs, Resetting, raise_item_count, vars, published,
      flags, joins, workers, starter, readers, canceller
<1>19. ASSUME NEW c \in Chunks, check_cancelled(c) PROVE Filled'
  BY Zenon, <1>19, <1>1, FilledFrame
  DEF TypeOK, Resetting, check_cancelled, vars, published, flags, joins, workers,
      starter, readers, canceller
<1>20. ASSUME NEW c \in Chunks, check_complete(c) PROVE Filled'
  <2>1. contiguous_done_ >= AllocatedItems => contiguous_done_ = AllocatedItems
    <3>1. contiguous_done_ \in 0 .. AllocatedItems
      BY Zenon, <1>1 DEF TypeOK
    <3> QED
      BY <1>2, <3>1
  <2> QED
    BY Zenon, <1>20, <1>1, <2>1
    DEF PublishedPrefixValid, TypeOK, Filled, ChunkIs, PrefixIs, Resetting,
        check_complete, published, flags, starter
<1>21. ASSUME NEW c \in Chunks, set_complete(c) PROVE Filled'
  BY Zenon, <1>21, <1>1, FilledFrame
  DEF TypeOK, Resetting, set_complete, vars, published, flags, joins, workers,
      starter, readers, canceller
<1>22. ASSUME start_fill(MaxRotations) PROVE Filled'
  BY Zenon, <1>22, <1>1, FilledFrame
  DEF TypeOK, Resetting, start_fill, vars, published, flags, joins, workers,
      starter, readers, canceller
<1>23. ASSUME start_fill_lock_join PROVE Filled'
  BY Zenon, <1>23, <1>1, FilledFrame
  DEF TypeOK, Resetting, start_fill_lock_join, vars, published, flags, joins, workers,
      starter, readers, canceller
<1>24. ASSUME start_fill_joined PROVE Filled'
  BY Zenon, <1>24, <1>1, FilledFrame
  DEF TypeOK, Resetting, start_fill_joined, DropHandles, Joined, vars, published,
      flags, joins, workers, starter, readers, canceller
<1>25. ASSUME start_fill_wait_readers PROVE Filled'
  BY Zenon, <1>25, <1>1, FilledFrame
  DEF TypeOK, Resetting, start_fill_wait_readers, vars, published, flags, joins, workers,
      starter, readers, canceller
<1>26. ASSUME start_fill_reset PROVE Filled'
  BY Zenon, <1>26, <1>1, BoundaryType
  DEF Threads, Alive, TypeOK, Filled, ChunkIs, PrefixIs, Resetting, start_fill_reset,
      vars, published, flags, joins, workers, starter, readers, canceller
<1>27. ASSUME start_fill_generation PROVE Filled'
  BY Zenon, <1>27, <1>1
  DEF Threads, TypeOK, Filled, ChunkIs, PrefixIs, Resetting, start_fill_generation,
      vars, published, flags, joins, workers, starter, readers, canceller
<1>28. ASSUME start_fill_token PROVE Filled'
  BY Zenon, <1>28, <1>1
  DEF TypeOK, Filled, ChunkIs, PrefixIs, Resetting, start_fill_token, vars, published,
      flags, joins, workers, starter, readers, canceller
<1>29. ASSUME start_fill_setup PROVE Filled'
  BY ZenonT(60), <1>29, <1>1
  DEF TypeOK, Filled, ChunkIs, PrefixIs, Resetting, start_fill_setup, vars, published,
      flags, joins, workers, starter, readers, canceller
<1>30. ASSUME start_fill_spawn PROVE Filled'
  <2>1. spawned \in Chunks /\ spawned \in Nat
    BY <1>30, <1>1, WorkersType DEF TypeOK, start_fill_spawn, Chunks
  <2>2. ChunkIs(spawned, ChunkStart(spawned), generation_)
    BY <2>1, ChunkFacts DEF ChunkIs
  <2>3. /\ wpc' = [wpc EXCEPT ![spawned] = "fill"] /\ DOMAIN wpc = Chunks
        /\ pos' = [pos EXCEPT ![spawned] = ChunkStart(spawned)] /\ DOMAIN pos = Chunks
        /\ cursor' = [cursor EXCEPT ![spawned] = 0] /\ DOMAIN cursor = Chunks
        /\ UNCHANGED <<data, generation_, chunk_done_, contiguous_done_, spc>>
    BY Zenon, <1>30, <1>1 DEF TypeOK, start_fill_spawn, published, flags
  <2>4. ChunkStart(spawned) <= ChunkStart(spawned) /\ ChunkStart(spawned) <= ChunkEnd(spawned)
    BY <2>1, ChunkFacts
  <2>5. ASSUME NEW k \in Chunks
        PROVE  /\ wpc'[k] = "fill" => /\ ChunkStart(k) <= pos'[k] /\ pos'[k] <= ChunkEnd(k)
                                      /\ ChunkIs(k, pos[k], generation_)'
               /\ wpc'[k] # "fill" => wpc'[k] = wpc[k] /\ cursor'[k] = cursor[k]
    <3>1. CASE k = spawned
      BY Zenon, <2>1, <2>2, <2>3, <2>4, <3>1 DEF ChunkIs
    <3>2. CASE k # spawned
      BY Zenon, <1>1, <2>3, <3>2 DEF Filled, ChunkIs
    <3> QED
      BY Zenon, <3>1, <3>2
  <2> QED
    BY ZenonT(60), <1>1, <2>3, <2>5 DEF Filled, ChunkIs, PrefixIs, Resetting
<1>31. ASSUME start_fill_return PROVE Filled'
  BY Zenon, <1>31, <1>1, FilledFrame
  DEF TypeOK, Resetting, start_fill_return, vars, published, flags, joins, workers,
      starter, readers, canceller
<1>38. ASSUME NEW x \in Waiters, wait_return(x) PROVE Filled'
  BY Zenon, <1>38, <1>1, FilledFrame
  DEF TypeOK, Resetting, wait_return, DropHandles, Joined, vars, published,
      flags, joins, workers, starter, readers, canceller
<1>39. ASSUME Bystander PROVE Filled'
  BY Zenon, <1>39, <1>1, FilledFrame, BystanderFrame
  DEF Resetting, published, workers, starter
<1> QED
  BY Zenon, <1>11, <1>12, <1>13, <1>14, <1>15, <1>16, <1>17, <1>18, <1>19, <1>20, <1>21, <1>22,
     <1>23, <1>24, <1>25, <1>26, <1>27, <1>28, <1>29, <1>30, <1>31, <1>38, <1>39
  DEF Next, FillStep, StartFillStep, WaitStep, CancelStep, Bystander

-----------------------------------------------------------------------------
\* Every step of start_fill(), a fill thread, a reader, a waiter or cancel() keeps it.
LEMMA NextIInv == IInv /\ [Next]_vars => IInv'
BY Zenon, TypeStep, ThreadsStep, FilledStep, ResetStep, PublishedStep, CompleteStep DEF IInv

-----------------------------------------------------------------------------
(* The theorems *)

\* Every behaviour of PartialDataset keeps the inductive invariant.
THEOREM Invariance == Spec => []IInv
<1> QED
  BY InitIInv, NextIInv, PTL DEF Spec

\* Every variable of PartialDataset stays in range: in particular item_count_, the
\* cursors and the fill positions never pass allocated_items_.
THEOREM TypeCorrect == Spec => []TypeOK
<1>1. IInv => TypeOK
  BY Zenon DEF IInv
<1> QED
  BY Invariance, <1>1, PTL

\* Whatever the number of fill threads and the order in which they finish and publish,
\* every item below item_count_ and contiguous_done_ is of the current generation.
THEOREM PrefixCorrect == Spec => []PublishedPrefixValid
<1>1. IInv => PublishedPrefixValid
  BY Zenon DEF IInv
<1> QED
  BY Invariance, <1>1, PTL

\* fill_complete() is only ever observed with all allocated_items_ computed.
THEOREM CompletionCorrect == Spec => []CompleteMeansComputed
<1>1. IInv => CompleteMeansComputed
  BY Zenon DEF IInv
<1> QED
  BY Invariance, <1>1, PTL

\* A hash under a ReadGuard reads items of one generation only, up to the bound it
\* snapshotted, for as long as it holds the guard.
THEOREM GuardedReads == Spec => []GuardedReadStable
<1>1. IInv => GuardedReadStable
  <2> SUFFICES ASSUME IInv, NEW r \in Readers, rpc[r] = "in"
               PROVE  bound[r] <= item_count_ /\ PrefixIs(bound[r], generation_)
    BY Zenon DEF GuardedReadStable
  <2>1. TypeOK /\ ResetState /\ PublishedPrefixValid /\ AllocatedItems \in Nat
    BY Zenon, SizeAssumption DEF IInv, SizeAssumption
  <2>2. bound[r] \in Nat /\ item_count_ \in Nat
    BY <2>1 DEF TypeOK
  <2>3. bound[r] <= item_count_
    BY <2>1, <2>2 DEF ResetState
  <2> QED
    BY <2>1, <2>2, <2>3 DEF PublishedPrefixValid, PrefixIs
<1> QED
  BY Invariance, <1>1, PTL

\* start_fill() never leaves a thread of the previous fill behind: every fill thread
\* that runs is joinable, works for the current seed and observes the current token.
THEOREM NoStray == Spec => []NoStrayFillThread
<1>1. IInv => NoStrayFillThread
  BY Zenon DEF IInv, TypeOK, Threads, Resetting, Alive, NoStrayFillThread
<1> QED
  BY Invariance, <1>1, PTL

-----------------------------------------------------------------------------
(* PartialDataset implements PrefixStore *)

Prefix == [i \in 1 .. item_count_ |-> data[i - 1]]
Inside == {r \in Readers : rpc[r] = "in"}

\* The published items, as the sequence of generations the abstract store holds.
LEMMA PrefixSequence ==
  ASSUME TypeOK
  PROVE  Prefix \in Seq(Generations) /\ Len(Prefix) = item_count_
<1>1. AllocatedItems \in Nat /\ item_count_ \in Nat /\ item_count_ <= AllocatedItems
  BY SizeAssumption DEF SizeAssumption, TypeOK
<1>2. \A i \in 1 .. item_count_ : data[i - 1] \in Generations
  <2>1. data \in [Items -> Generations]
    BY Zenon DEF TypeOK
  <2> QED
    BY <1>1, <2>1 DEF Items
<1> QED
  BY <1>1, <1>2 DEF Prefix

\* A step that leaves the bound, the generation, the guards and the items below the
\* bound alone is a stutter of the store.
LEMMA StoreStutters ==
  ASSUME TypeOK, UNCHANGED <<generation_, item_count_, rpc>>,
         \A i \in 0 .. item_count_ - 1 : data'[i] = data[i]
  PROVE  UNCHANGED <<generation_, Prefix, Inside>>
<1>1. item_count_ \in Nat
  BY SizeAssumption DEF SizeAssumption, TypeOK
<1>2. Prefix' = Prefix
  BY <1>1 DEF Prefix
<1> QED
  BY Zenon, <1>2 DEF Inside

\* Every step of PartialDataset is a step of PrefixStore, or a stutter.
LEMMA StoreSteps == IInv /\ [Next]_vars => [Store!StoreNext]_(Store!store)
<1> SUFFICES ASSUME IInv, [Next]_vars PROVE [Store!StoreNext]_(Store!store)
  BY Zenon
<1>1. TypeOK /\ Filled /\ ResetState /\ PublishedPrefixValid
  BY Zenon DEF IInv
<1>2. AllocatedItems \in Nat
  BY Zenon, SizeAssumption DEF SizeAssumption
<1> DEFINE StoreStep ==
      \/ Inside = {} /\ Prefix' = << >> /\ UNCHANGED <<generation_, Inside>>
      \/ /\ Inside = {} /\ Prefix = << >> /\ generation_' = generation_ + 1
         /\ UNCHANGED <<Prefix, Inside>>
      \/ /\ \E n \in Len(Prefix) + 1 .. AllocatedItems :
              Prefix' = [i \in 1 .. n |-> generation_]
         /\ UNCHANGED <<generation_, Inside>>
      \/ \E h \in Readers : Inside' = Inside \cup {h} /\ UNCHANGED <<generation_, Prefix>>
      \/ \E h \in Readers : Inside' = Inside \ {h} /\ UNCHANGED <<generation_, Prefix>>
      \/ UNCHANGED <<generation_, Prefix, Inside>>
<1>11. ASSUME NEW c \in Chunks, fill_cancelled(c) PROVE StoreStep
  BY ZenonT(30), <1>11, <1>1, StoreStutters
  DEF fill_cancelled, vars, published, flags, joins, workers, starter, readers,
      canceller
<1>12. ASSUME NEW c \in Chunks, fill_item(c) PROVE StoreStep
  <2>1. \A i \in 0 .. item_count_ - 1 : data'[i] = data[i]
    BY <1>12, <1>1, <1>2, FillItemKeeps DEF TypeOK, PublishedPrefixValid, PrefixIs, Items
  <2>2. UNCHANGED <<generation_, item_count_, rpc>>
    BY Zenon, <1>12 DEF fill_item, flags, readers
  <2> QED
    BY Zenon, <1>1, <2>1, <2>2, StoreStutters
<1>13. ASSUME NEW c \in Chunks, fill_throws(c) PROVE StoreStep
  BY Zenon, <1>13, <1>1, StoreStutters
  DEF fill_throws, vars, published, flags, joins, workers, starter, readers, canceller
<1>14. ASSUME NEW c \in Chunks, mark_done(c) PROVE StoreStep
  BY Zenon, <1>14, <1>1, StoreStutters
  DEF mark_done, vars, published, flags, joins, workers, starter, readers, canceller
<1>15. ASSUME NEW c \in Chunks, load_cursor(c) PROVE StoreStep
  BY Zenon, <1>15, <1>1, StoreStutters
  DEF load_cursor, vars, published, flags, joins, workers, starter, readers, canceller
<1>16. ASSUME NEW c \in Chunks, scan_chunk(c) PROVE StoreStep
  BY Zenon, <1>16, <1>1, StoreStutters
  DEF scan_chunk, vars, published, flags, joins, workers, starter, readers, canceller
<1>17. ASSUME NEW c \in Chunks, exchange_bound(c) PROVE StoreStep
  BY Zenon, <1>17, <1>1, StoreStutters
  DEF exchange_bound, vars, published, flags, joins, workers, starter, readers,
      canceller
<1>18. ASSUME NEW c \in Chunks, raise_item_count(c) PROVE StoreStep
  <2>1. UNCHANGED <<generation_, data, rpc>>
    BY Zenon, <1>18 DEF raise_item_count, flags, readers
  <2>2. CASE item_count_ < cursor[c]
    <3>1. /\ item_count_' = cursor[c] /\ cursor[c] \in item_count_ + 1 .. AllocatedItems
          /\ PrefixIs(cursor[c], generation_) /\ item_count_ \in Nat
      <4>1. /\ item_count_' = cursor[c] /\ PrefixIs(cursor[c], generation_)
            /\ cursor[c] \in 0 .. AllocatedItems /\ item_count_ \in 0 .. AllocatedItems
        BY Zenon, <1>18, <1>1, <2>2 DEF raise_item_count, TypeOK, Filled
      <4> QED
        BY <1>2, <2>2, <4>1
    <3>2. Prefix' = [i \in 1 .. cursor[c] |-> generation_]
      BY <1>2, <2>1, <3>1 DEF Prefix, PrefixIs
    <3>3. Inside' = Inside
      BY Zenon, <2>1 DEF Inside
    <3>4. cursor[c] \in Len(Prefix) + 1 .. AllocatedItems
      BY Zenon, <1>1, <3>1, PrefixSequence
    <3> QED
      BY Zenon, <2>1, <3>2, <3>3, <3>4
  <2>3. CASE ~(item_count_ < cursor[c])
    <3>1. item_count_' = item_count_
      BY ZenonT(30), <1>18, <2>3 DEF raise_item_count
    <3> QED
      BY Zenon, <1>1, <2>1, <3>1, StoreStutters
  <2> QED
    BY Zenon, <2>2, <2>3
<1>19. ASSUME NEW c \in Chunks, check_cancelled(c) PROVE StoreStep
  BY Zenon, <1>19, <1>1, StoreStutters
  DEF check_cancelled, vars, published, flags, joins, workers, starter, readers,
      canceller
<1>20. ASSUME NEW c \in Chunks, check_complete(c) PROVE StoreStep
  BY Zenon, <1>20, <1>1, StoreStutters
  DEF check_complete, vars, published, flags, joins, workers, starter, readers,
      canceller
<1>21. ASSUME NEW c \in Chunks, set_complete(c) PROVE StoreStep
  BY Zenon, <1>21, <1>1, StoreStutters
  DEF set_complete, vars, published, flags, joins, workers, starter, readers, canceller
<1>22. ASSUME start_fill(MaxRotations) PROVE StoreStep
  BY Zenon, <1>22, <1>1, StoreStutters
  DEF start_fill, vars, published, flags, joins, workers, starter, readers, canceller
<1>23. ASSUME start_fill_lock_join PROVE StoreStep
  BY Zenon, <1>23, <1>1, StoreStutters
  DEF start_fill_lock_join, vars, published, flags, joins, workers, starter, readers,
      canceller
<1>24. ASSUME start_fill_joined PROVE StoreStep
  BY Zenon, <1>24, <1>1, StoreStutters
  DEF start_fill_joined, vars, published, flags, joins, workers, starter, readers,
      canceller
<1>25. ASSUME start_fill_wait_readers PROVE StoreStep
  BY Zenon, <1>25, <1>1, StoreStutters
  DEF start_fill_wait_readers, vars, published, flags, joins, workers, starter, readers,
      canceller
<1>26. ASSUME start_fill_reset PROVE StoreStep
  <2>1. item_count_' = 0 /\ Inside = {} /\ UNCHANGED <<generation_, rpc>>
    BY Zenon, <1>26 DEF start_fill_reset, readers, Inside
  <2>2. Prefix' = << >>
    BY <2>1 DEF Prefix
  <2> QED
    BY Zenon, <2>1, <2>2 DEF Inside
<1>27. ASSUME start_fill_generation PROVE StoreStep
  <2>1. /\ generation_' = generation_ + 1 /\ item_count_ = 0
        /\ UNCHANGED <<item_count_, data, rpc>>
    BY Zenon, <1>27, <1>1 DEF start_fill_generation, ResetState, Resetting, published, readers
  <2>2. Inside = {}
    BY Zenon, <1>27, <1>1 DEF start_fill_generation, ResetState, TypeOK, Inside
  <2>3. Prefix = << >> /\ Prefix' = Prefix
    BY <2>1 DEF Prefix
  <2> QED
    BY Zenon, <2>1, <2>2, <2>3 DEF Inside
<1>28. ASSUME start_fill_token PROVE StoreStep
  BY Zenon, <1>28, <1>1, StoreStutters
  DEF start_fill_token, vars, published, flags, joins, workers, starter, readers,
      canceller
<1>29. ASSUME start_fill_setup PROVE StoreStep
  BY Zenon, <1>29, <1>1, StoreStutters
  DEF start_fill_setup, vars, published, flags, joins, workers, starter, readers,
      canceller
<1>30. ASSUME start_fill_spawn PROVE StoreStep
  BY Zenon, <1>30, <1>1, StoreStutters
  DEF start_fill_spawn, vars, published, flags, joins, workers, starter, readers,
      canceller
<1>31. ASSUME start_fill_return PROVE StoreStep
  BY Zenon, <1>31, <1>1, StoreStutters
  DEF start_fill_return, vars, published, flags, joins, workers, starter, readers,
      canceller
<1>32. ASSUME NEW r \in Readers, read_guard(r) PROVE StoreStep
  <2>1. UNCHANGED <<generation_, item_count_, data>>
    BY Zenon, <1>32 DEF read_guard, flags, published
  <2>2. Inside' = Inside \cup {r}
    BY Zenon, <1>32, <1>1 DEF read_guard, Inside, TypeOK
  <2> QED
    BY Zenon, <2>1, <2>2 DEF Prefix
<1>33. ASSUME NEW r \in Readers, snapshot_bound(r) PROVE StoreStep
  BY Zenon, <1>33, <1>1, StoreStutters
  DEF snapshot_bound, vars, published, flags, joins, workers, starter, readers,
      canceller
<1>34. ASSUME NEW r \in Readers, release_guard(r) PROVE StoreStep
  <2>1. UNCHANGED <<generation_, item_count_, data>>
    BY Zenon, <1>34 DEF release_guard, flags, published
  <2>2. Inside' = Inside \ {r}
    BY Zenon, <1>34, <1>1 DEF release_guard, Inside, TypeOK
  <2> QED
    BY Zenon, <2>1, <2>2 DEF Prefix
<1>35. ASSUME NEW x \in Waiters, wait_for_fill(x) PROVE StoreStep
  BY Zenon, <1>35, <1>1, StoreStutters
  DEF wait_for_fill, vars, published, flags, joins, workers, starter, readers, canceller
<1>36. ASSUME NEW x \in Waiters, wait_poll(x) PROVE StoreStep
  BY Zenon, <1>36, <1>1, StoreStutters
  DEF wait_poll, vars, published, flags, joins, workers, starter, readers, canceller
<1>37. ASSUME NEW x \in Waiters, wait_lock_join(x) PROVE StoreStep
  BY Zenon, <1>37, <1>1, StoreStutters
  DEF wait_lock_join, vars, published, flags, joins, workers, starter, readers,
      canceller
<1>38. ASSUME NEW x \in Waiters, wait_return(x) PROVE StoreStep
  BY Zenon, <1>38, <1>1, StoreStutters
  DEF wait_return, vars, published, flags, joins, workers, starter, readers, canceller
<1>39. ASSUME cancel PROVE StoreStep
  BY Zenon, <1>39, <1>1, StoreStutters
  DEF cancel, vars, published, flags, joins, workers, starter, readers, canceller
<1>40. ASSUME cancel_read_token PROVE StoreStep
  BY Zenon, <1>40, <1>1, StoreStutters
  DEF cancel_read_token, vars, published, flags, joins, workers, starter, readers,
      canceller
<1>41. ASSUME cancel_signal PROVE StoreStep
  BY Zenon, <1>41, <1>1, StoreStutters
  DEF cancel_signal, vars, published, flags, joins, workers, starter, readers, canceller
<1>42. ASSUME UNCHANGED vars PROVE StoreStep
  BY Zenon, <1>42, <1>1, StoreStutters
  DEF vars, published, flags, joins, workers, starter, readers, canceller
<1>43. StoreStep
  <2> HIDE DEF StoreStep
  <2> QED
    BY Zenon, <1>11, <1>12, <1>13, <1>14, <1>15, <1>16, <1>17, <1>18, <1>19, <1>20, <1>21, <1>22,
       <1>23, <1>24, <1>25, <1>26, <1>27, <1>28, <1>29, <1>30, <1>31, <1>32, <1>33, <1>34,
       <1>35, <1>36, <1>37, <1>38, <1>39, <1>40, <1>41, <1>42
    DEF Next, FillStep, StartFillStep, WaitStep, CancelStep
<1> QED
  BY Zenon, <1>43 DEF Store!StoreNext, Store!store, Store!Clear, Store!Bump, Store!Extend,
               Store!Enter, Store!Leave, Prefix, Inside

\* The detailed class implements the abstract store: start_fill(), any number of fill
\* threads, waiters and cancel() look to a ReadGuard holder like a prefix that only
\* grows, holds one generation, and is never rotated under a guard.
THEOREM Refinement == Spec => ImplementsPrefixStore
<1>1. Init => Store!StoreInit
  BY DEF Init, Store!StoreInit
<1>2. IInv /\ [Next]_vars => [Store!StoreNext]_(Store!store)
  BY Zenon, StoreSteps
<1> QED
  BY <1>1, <1>2, Invariance, PTL DEF Spec, Store!StoreSpec, ImplementsPrefixStore

-----------------------------------------------------------------------------
\* The bound is published, or about to be by a thread that has stored it.
Published ==
  \/ item_count_ = AllocatedItems
  \/ \E c \in Chunks : wpc[c] = "raise" /\ cursor[c] = AllocatedItems

\* Whoever sees the end of the allocation as the contiguous bound, or has acted on it.
SeenEnd ==
  \/ fill_complete_ \/ contiguous_done_ = AllocatedItems
  \/ \E c \in Chunks : wpc[c] = "complete"

\* Between exchange_bound and raise_item_count a fill thread may be overtaken by another
\* that marks the fill complete; item_count_ is still going to be raised.
EndPublished == SeenEnd => Published

\* A fill thread's step changes no other thread's place or cursor, and only the final test
\* of the bound leads to marking the fill complete.
LEMMA FillFrame ==
  ASSUME TypeOK, NEW c \in Chunks, FillStep(c) \/ fill_throws(c)
  PROVE  /\ \A d \in Chunks \ {c} : wpc'[d] = wpc[d] /\ cursor'[d] = cursor[d]
         /\ wpc'[c] = "complete" => check_complete(c)
<1> DEFINE Frame == /\ \A d \in Chunks \ {c} : wpc'[d] = wpc[d] /\ cursor'[d] = cursor[d]
                    /\ wpc'[c] = "complete" => check_complete(c)
<1>0. wpc = [d \in Chunks |-> wpc[d]] /\ cursor = [d \in Chunks |-> cursor[d]]
  BY Zenon DEF TypeOK
<1>1. CASE fill_cancelled(c)
  BY Zenon, <1>0, <1>1 DEF fill_cancelled
<1>2. CASE fill_item(c)
  BY Zenon, <1>0, <1>2 DEF fill_item
<1>3. CASE fill_throws(c)
  BY Zenon, <1>0, <1>3 DEF fill_throws
<1>4. CASE mark_done(c)
  BY Zenon, <1>0, <1>4 DEF mark_done
<1>5. CASE load_cursor(c)
  BY Zenon, <1>0, <1>5 DEF load_cursor
<1>6. CASE scan_chunk(c)
  BY Zenon, <1>0, <1>6 DEF scan_chunk
<1>7. CASE exchange_bound(c)
  BY Zenon, <1>0, <1>7 DEF exchange_bound
<1>8. CASE raise_item_count(c)
  BY Zenon, <1>0, <1>8 DEF raise_item_count
<1>9. CASE check_cancelled(c)
  BY Zenon, <1>0, <1>9 DEF check_cancelled
<1>10. CASE check_complete(c)
  <2>1. \A d \in Chunks \ {c} : wpc'[d] = wpc[d] /\ cursor'[d] = cursor[d]
    BY Zenon, <1>0, <1>10 DEF check_complete
  <2> QED
    BY Zenon, <1>10, <2>1
<1>11. CASE set_complete(c)
  BY Zenon, <1>0, <1>11 DEF set_complete
<1> HIDE DEF Frame
<1> QED
  BY Zenon, <1>1, <1>2, <1>3, <1>4, <1>5, <1>6, <1>7, <1>8, <1>9, <1>10, <1>11 DEF FillStep, Frame

\* The fill threads' steps: the bound, once published or about to be, stays so.
LEMMA FillPublished ==
  ASSUME IInv, NEW c \in Chunks, FillStep(c) \/ fill_throws(c)
  PROVE  Published => Published'
<1>1. TypeOK
  BY Zenon DEF IInv
<1>2. item_count_ \in 0 .. AllocatedItems /\ cursor[c] \in 0 .. AllocatedItems
  BY Zenon, <1>1 DEF TypeOK
<1>3. CASE UNCHANGED item_count_ /\ wpc[c] # "raise"
  <2>1. \A d \in Chunks \ {c} : wpc'[d] = wpc[d] /\ cursor'[d] = cursor[d]
    BY Zenon, <1>1, FillFrame
  <2> QED
    BY Zenon, <1>3, <2>1 DEF Published
<1>4. CASE raise_item_count(c)
  <2>1. \A d \in Chunks \ {c} : wpc'[d] = wpc[d] /\ cursor'[d] = cursor[d]
    BY Zenon, <1>1, FillFrame
  <2>2. item_count_' = IF item_count_ < cursor[c] THEN cursor[c] ELSE item_count_
    BY Zenon, <1>4 DEF raise_item_count
  <2>3. AllocatedItems \in Nat
    BY Zenon, SizeAssumption DEF SizeAssumption
  <2>4. item_count_ = AllocatedItems \/ cursor[c] = AllocatedItems => item_count_' = AllocatedItems
    BY <1>2, <2>2, <2>3
  <2>5. ASSUME NEW d \in Chunks \ {c}, wpc[d] = "raise", cursor[d] = AllocatedItems
        PROVE  Published'
    BY Zenon, <2>1, <2>5 DEF Published
  <2> QED
    BY Zenon, <2>4, <2>5 DEF Published
<1> QED
  BY Zenon, <1>3, <1>4 DEF FillStep, fill_cancelled, fill_item, fill_throws, mark_done, load_cursor,
    scan_chunk, exchange_bound, check_cancelled, check_complete, set_complete, published

\* The end is never seen before it is published or about to be: every step.
LEMMA EndPublishedStep == IInv /\ EndPublished /\ [Next]_vars => EndPublished'
<1> SUFFICES ASSUME IInv, EndPublished, [Next]_vars PROVE EndPublished'
  BY Zenon
<1>1. TypeOK /\ Threads
  BY Zenon DEF IInv
<1>2. AllocatedItems \in Nat \ {0}
  BY Zenon, SizeAssumption DEF SizeAssumption
<1>3. ASSUME NEW c \in Chunks, FillStep(c) \/ fill_throws(c) PROVE EndPublished'
  <2>1. Published => Published'
    BY Zenon, <1>3, FillPublished
  <2>2. CASE exchange_bound(c)
    <3>1. /\ contiguous_done_' = cursor[c] /\ wpc'[c] = "raise" /\ cursor'[c] = cursor[c]
          /\ UNCHANGED fill_complete_
      BY Zenon, <1>1, <2>2 DEF TypeOK, exchange_bound, flags
    <3>2. \A d \in Chunks : wpc'[d] = "complete" => wpc[d] = "complete"
      BY Zenon, <1>1, <2>2 DEF TypeOK, exchange_bound
    <3> QED
      BY Zenon, <2>1, <3>1, <3>2 DEF EndPublished, SeenEnd, Published
  <2>3. CASE check_complete(c)
    <3>1. UNCHANGED <<fill_complete_, contiguous_done_>>
      BY Zenon, <2>3 DEF check_complete, flags, published
    <3>2. \A d \in Chunks : wpc'[d] = "complete" => SeenEnd
      BY <1>1, <1>2, <2>3 DEF TypeOK, check_complete, SeenEnd
    <3> QED
      BY Zenon, <2>1, <3>1, <3>2 DEF EndPublished, SeenEnd
  <2>4. CASE set_complete(c)
    <3>1. SeenEnd
      BY Zenon, <2>4 DEF set_complete, SeenEnd
    <3> QED
      BY Zenon, <2>1, <3>1 DEF EndPublished
  <2>5. CASE ~exchange_bound(c) /\ ~check_complete(c) /\ ~set_complete(c)
    <3>1. UNCHANGED <<fill_complete_, contiguous_done_>>
      BY ZenonT(30), <1>3, <2>5 DEF FillStep, fill_cancelled, fill_item, fill_throws, mark_done,
        load_cursor, scan_chunk, raise_item_count, check_cancelled, flags, published
    <3>2. \A d \in Chunks : wpc'[d] = "complete" => wpc[d] = "complete"
      BY Zenon, <1>1, <1>3, <2>5, FillFrame
    <3> QED
      BY Zenon, <2>1, <3>1, <3>2 DEF EndPublished, SeenEnd
  <2> QED
    BY Zenon, <2>2, <2>3, <2>4, <2>5
<1>4. ASSUME AllJoinable, DropHandles, UNCHANGED <<published, fill_complete_>>
      PROVE  EndPublished'
  <2>1. \A c \in Chunks : wpc[c] \in {"done", "off"} /\ wpc'[c] \in {"done", "off"}
    BY Zenon, <1>1, <1>4 DEF Threads, AllJoinable, DropHandles, Joined
  <2>2. SeenEnd' => SeenEnd
    BY Zenon, <1>4, <2>1 DEF SeenEnd, published
  <2>3. Published => item_count_ = AllocatedItems
    BY Zenon, <2>1 DEF Published
  <2> QED
    BY Zenon, <1>4, <2>2, <2>3 DEF EndPublished, Published, published
<1>5. CASE start_fill_reset
  <2>1. \A c \in Chunks : wpc'[c] = "off"
    BY Zenon, <1>1, <1>5 DEF Threads, start_fill_reset, workers
  <2> QED
    BY Zenon, <1>2, <1>5, <2>1 DEF start_fill_reset, EndPublished, SeenEnd
<1>6. CASE start_fill_spawn
  <2>1. spawned \in Chunks /\ spawned \notin fill_threads_
    <3>1. /\ spawned \in 0 .. NumWorkers /\ spawned < NumWorkers
          /\ \A c \in fill_threads_ : c < spawned
      BY Zenon, <1>1, <1>6 DEF TypeOK, Threads, start_fill_spawn
    <3> QED
      BY <3>1, WorkersType DEF Chunks
  <2>2. wpc[spawned] = "off"
    BY Zenon, <1>1, <2>1 DEF Threads
  <2>3. /\ \A c \in Chunks \ {spawned} : wpc'[c] = wpc[c] /\ cursor'[c] = cursor[c]
        /\ wpc'[spawned] = "fill"
        /\ UNCHANGED <<fill_complete_, contiguous_done_, item_count_>>
    BY Zenon, <1>1, <1>6, <2>1 DEF TypeOK, start_fill_spawn, flags, published
  <2> QED
    BY Zenon, <2>1, <2>2, <2>3 DEF EndPublished, SeenEnd, Published
<1>7. CASE UNCHANGED <<fill_complete_, contiguous_done_, item_count_, wpc, cursor>>
  BY Zenon, <1>7 DEF EndPublished, SeenEnd, Published
<1>8. CASE start_fill_joined \/ \E x \in Waiters : wait_return(x)
  BY SMTT(20), <1>4, <1>8 DEF start_fill_joined, wait_return, flags
<1>9. CASE start_fill(MaxRotations) \/ StartFillStep
  BY Zenon, <1>5, <1>6, <1>7, <1>8, <1>9 DEF start_fill, StartFillStep, start_fill_lock_join,
    start_fill_wait_readers, start_fill_generation, start_fill_token, start_fill_setup,
    start_fill_return, flags, published, workers
<1>10. ASSUME NEW r \in Readers, read_guard(r) \/ snapshot_bound(r) \/ release_guard(r)
       PROVE  EndPublished'
  BY Zenon, <1>7, <1>10 DEF read_guard, snapshot_bound, release_guard, flags, published, workers
<1>11. ASSUME NEW x \in Waiters, wait_for_fill(x) \/ WaitStep(x) PROVE EndPublished'
  BY Zenon, <1>7, <1>8, <1>11 DEF wait_for_fill, WaitStep, wait_poll, wait_lock_join, flags,
    published,
    workers
<1>12. CASE cancel \/ CancelStep
  BY Zenon, <1>7, <1>12 DEF cancel, CancelStep, cancel_read_token, cancel_signal, flags, published,
    workers
<1>13. CASE UNCHANGED vars
  BY Zenon, <1>7, <1>13 DEF vars, flags, published, workers
<1> QED
  BY Zenon, <1>3, <1>9, <1>10, <1>11, <1>12, <1>13 DEF Next

\* wait_for_fill() joins before it returns: with the fill marked complete, the whole
\* prefix is published then, for every number of fill threads and waiters.
THEOREM WaitersReturnFull == Spec => WaitReturnsFull
<1> DEFINE Step == \A x \in Waiters : qpc[x] = "joining" /\ qpc'[x] = "idle" /\ fill_complete_
                     => item_count_ = AllocatedItems
<1>1. Init => EndPublished
  BY Zenon, SizeAssumption DEF SizeAssumption, Init, EndPublished, SeenEnd
<1>2. IInv /\ EndPublished /\ [Next]_vars => [Step]_vars
  <2> SUFFICES ASSUME IInv, EndPublished, Next, NEW x \in Waiters,
                      qpc[x] = "joining", qpc'[x] = "idle", fill_complete_
               PROVE  item_count_ = AllocatedItems
    BY Zenon DEF vars
  <2>1. TypeOK /\ Threads /\ Published
    BY Zenon DEF IInv, EndPublished, SeenEnd
  <2>2. AllJoinable
    <3>1. ASSUME NEW y \in Waiters, wait_for_fill(y) \/ wait_poll(y) \/ wait_lock_join(y)
          PROVE  FALSE
      BY Zenon, <2>1, <3>1 DEF TypeOK, wait_for_fill, wait_poll, wait_lock_join
    <3>2. ASSUME NEW y \in Waiters, wait_return(y) PROVE AllJoinable
      BY Zenon, <3>2 DEF wait_return
    <3>3. qpc' # qpc
      BY Zenon
    <3> QED
      BY ZenonT(60), <3>1, <3>2, <3>3 DEF Next, FillStep, fill_cancelled, fill_item, fill_throws,
        mark_done, load_cursor, scan_chunk, exchange_bound, raise_item_count, check_cancelled,
        check_complete, set_complete, start_fill, StartFillStep, start_fill_lock_join,
        start_fill_joined, start_fill_wait_readers, start_fill_reset, start_fill_generation,
        start_fill_token, start_fill_setup, start_fill_spawn, start_fill_return, read_guard,
        snapshot_bound, release_guard, WaitStep, cancel, CancelStep, cancel_read_token,
        cancel_signal
  <2>3. \A c \in Chunks : wpc[c] \in {"done", "off"}
    BY Zenon, <2>1, <2>2 DEF Threads, AllJoinable
  <2> QED
    BY Zenon, <2>1, <2>3 DEF Published
<1> QED
  BY <1>1, <1>2, EndPublishedStep, Invariance, PTL DEF Spec, WaitReturnsFull
=============================================================================
