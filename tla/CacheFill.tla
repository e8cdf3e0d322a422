------------------------------ MODULE CacheFill ------------------------------
(***************************************************************************)
(* From a key to the cache: Argon2dCache::initialize fills the blocks, each *)
(* from the previous one and one that a 32-bit word of it selects.          *)
(***************************************************************************)
EXTENDS Integers, Sequences

CONSTANTS MemoryBlocks,   \* sizes of a cache, in blocks: multiples of four from 8 on
          Passes,         \* passes_
          WordRange       \* 2^32: j1 is a 32-bit word

ASSUME MemoryAssumption ==
  /\ WordRange \in Nat
  /\ \A b \in MemoryBlocks : b \in Nat /\ b >= 8 /\ b % 4 = 0 /\ 2 * b <= WordRange

VARIABLES
  fillPc,        \* "idle", "fill", "filled"
  memory_blocks, pass, slice, index,
  written        \* the blocks in the order they were written

fillVars == <<fillPc, memory_blocks, pass, slice, index, written>>

(* The first two blocks come from the key; with eight blocks they are the
   whole first slice.                                                       *)
FillStart(pc0) ==
  /\ fillPc = pc0 /\ memory_blocks \in MemoryBlocks
  /\ pass = 0 /\ written = <<0, 1>>
  /\ slice = IF memory_blocks = 8 THEN 1 ELSE 0
  /\ index = IF memory_blocks = 8 THEN 0 ELSE 2

segment_length == memory_blocks \div 4
CurrentBlock == slice * segment_length + index

(* Mutant: the previous block may be its own reference.                     *)
reference_area_previous ==
  IF pass = 0 THEN slice * segment_length + index
  ELSE memory_blocks - segment_length + index

reference_area ==
  IF pass = 0 THEN slice * segment_length + index - 1
  ELSE memory_blocks - segment_length + index - 1

reference(j1) ==
  LET x == (j1 * j1) \div WordRange
      y == (reference_area * x) \div WordRange
      relative == reference_area - 1 - y
      start_position == IF pass = 0 \/ slice = 3 THEN 0 ELSE (slice + 1) * segment_length
  IN (start_position + relative) % memory_blocks

(* One block is compressed, and the three loops move on.                    *)
Compress ==
  /\ fillPc = "fill"
  /\ written' = Append(written, CurrentBlock)
  /\ index' = IF index + 1 < segment_length THEN index + 1 ELSE 0
  /\ slice' = IF index' # 0 THEN slice ELSE (slice + 1) % 4
  /\ pass' = IF index' = 0 /\ slice' = 0 THEN pass + 1 ELSE pass
  /\ fillPc' = IF pass' = Passes THEN "filled" ELSE "fill"
  /\ UNCHANGED memory_blocks

FillSpec == FillStart("fill") /\ [][Compress]_fillVars

-----------------------------------------------------------------------------
(* Every block is compressed with a block of the window Argon2 defines, and
   every block of the window can be the one: in the first pass all blocks
   written but the previous one; later, what was written in the last three
   slices and in this one, without the previous block.  Never the block
   being overwritten, nor one that was not written yet
   (Argon2dCache::initialize's reference_area and start_position).          *)
ReferenceWindow ==
  fillPc = "fill" =>
    LET size == IF pass = 0 THEN Len(written) ELSE 3 * segment_length + index
        window == {written[n] : n \in (Len(written) - size + 1)..(Len(written) - 1)}
    IN {reference(j1) : j1 \in 0..(WordRange - 1)} = window
=============================================================================
