---------------------------- MODULE HashPipeline ----------------------------
(***************************************************************************)
(* One worker's hashing: the VM with its two scratchpads, the plain hash,   *)
(* the pipelined hash that fills the next nonce's scratchpad while it       *)
(* finishes the current one, and the worker's bookkeeping around them.      *)
(*                                                                          *)
(* Hashing is symbolic: a value is the record of how it was computed, so    *)
(* two results are equal exactly when the same steps were applied to the    *)
(* same inputs.  A block is its template's job id and the nonce written     *)
(* into it.  The eight chained programs of one hash are one Ran term.       *)
(***************************************************************************)
EXTENDS Integers

CONSTANTS NumThreads,   \* num_threads_: the stride between a worker's nonces
          NonceSpace    \* 256^nonce_size: values the nonce field can hold

ASSUME ThreadsAssumption == NumThreads \in Nat \ {0}
ASSUME SpaceAssumption == NonceSpace \in Nat \ {0}

Workers == 0..(NumThreads - 1)

blake2b(block) == [seed |-> block]
Fill(key) == [fill |-> key]                    \* the scratchpad fill_aes_1r_x4 leaves
FillState(key) == [filled |-> key]             \* and the state it writes back
Ran(state, pad, cache, modes) ==
  [state |-> state, pad |-> pad, cache |-> cache, modes |-> modes]
Used(regs) == [used |-> regs]                  \* the scratchpad after the programs
Digest(regs, pad) == [regs |-> regs, pad |-> pad]

(* The rounding mode a block's programs end in (their last CFROUND).        *)
Cfround(block) == block.nonce % 4

(* The hash of a block under a seed: what a RandomX implementation owes.    *)
RandomX(block, seed) ==
  LET key == blake2b(block)
      regs == Ran(FillState(key), Fill(key), seed, <<0, Cfround(block)>>)
  IN Digest(regs, Used(regs))

-----------------------------------------------------------------------------
(* The VM: active scratchpad and the two buffers, the cache it reads, the
   processor's rounding mode and the VM's cached copy of it.                *)

init_scratchpad(vm, key) == [vm EXCEPT !.pads[vm.active] = Fill(key)]

(* Mutant: the cached mode is not invalidated.                              *)
reset_rounding_mode_cached(vm) == [vm EXCEPT !.fpu = 0]

reset_rounding_mode(vm) == [vm EXCEPT !.fpu = 0, !.last_rounding_mode = 0]

rx_set_rounding_mode(vm, mode) ==
  IF mode = vm.last_rounding_mode THEN vm
  ELSE [vm EXCEPT !.fpu = mode, !.last_rounding_mode = mode]

(* The eight runs from a first state: they consume the active scratchpad.   *)
run(vm, state, block) ==
  LET set == rx_set_rounding_mode(vm, Cfround(block))
      regs == Ran(state, vm.pads[vm.active], vm.cache, <<vm.fpu, set.fpu>>)
  IN [vm |-> [set EXCEPT !.pads[vm.active] = Used(regs)], regs |-> regs]

(* randomx_calculate_hash(): fesetenv restores the caller's mode at the end. *)
randomx_calculate_hash(vm, block) ==
  LET key == blake2b(block)
      ran == run(reset_rounding_mode(init_scratchpad(vm, key)), FillState(key), block)
  IN [hash |-> Digest(ran.regs, ran.vm.pads[vm.active]),
      vm |-> [ran.vm EXCEPT !.fpu = vm.fpu]]

(* Part A of the pipelined hash: with a run_seed the fill is skipped, since
   the previous call's part D has done it.                                  *)
NoSeed == [none |-> TRUE]

PartA(vm, block, run_seed) ==
  LET key == blake2b(block)
      skip == run_seed # NoSeed
      ready == IF skip THEN vm ELSE init_scratchpad(vm, key)
  IN run(reset_rounding_mode(ready), IF skip THEN run_seed ELSE FillState(key), block)

(* Mutant: the next scratchpad is filled before the current one is hashed.  *)
PartD_fillFirst(ran, fill, next) ==
  LET pads == [ran.vm.pads EXCEPT ![fill] = Fill(blake2b(next))]
  IN [hash |-> Digest(ran.regs, pads[ran.vm.active]), pads |-> pads]

(* Parts B to E: the active scratchpad is hashed, then buffer fill (which
   may be the same one) is filled for the next block.                       *)
PartD(ran, fill, next) ==
  [hash |-> Digest(ran.regs, ran.vm.pads[ran.vm.active]),
   pads |-> [ran.vm.pads EXCEPT ![fill] = Fill(blake2b(next))]]

(* randomx_calculate_hash_pipelined(), with part F: the filled buffer becomes
   the active one.                                                          *)
randomx_calculate_hash_pipelined(vm, block, next, fill, run_seed) ==
  LET ran == PartA(vm, block, run_seed)
      d == PartD(ran, fill, next)
  IN [hash |-> d.hash,
      next_seed |-> FillState(blake2b(next)),
      vm |-> [ran.vm EXCEPT !.pads = d.pads, !.active = fill, !.fpu = vm.fpu]]

-----------------------------------------------------------------------------
(* The worker: what worker_loop keeps between its turns.                    *)

NewWorker(id) ==
  [thread_id |-> id, gen |-> 0, job |-> [id |-> 0, seed |-> "absent", target |-> <<>>, fits |-> TRUE],
   active |-> FALSE, block_input |-> [id |-> 0, nonce |-> 0],
   pipelined_active |-> FALSE, calls |-> FALSE, local_nonce |-> id, current_nonce |-> 0,
   sp_fill |-> 0, pipeline_seed |-> NoSeed,
   vm |-> [active |-> 0, pads |-> [i \in {0, 1} |-> NoSeed], cache |-> "absent",
           fpu |-> 0, last_rounding_mode |-> 0]]

(* update_nonce_in_template(): the field holds the nonce's low bytes; a job
   whose field does not fit its template is refused.                        *)
update_nonce_in_template(job, nonce) == [id |-> job.id, nonce |-> nonce % NonceSpace]

(* Mutant: every worker steps to the next nonce.                            *)
Stride_one == 1

Stride == NumThreads

(* A new job: the template is copied, the pipeline starts over, the VM gets
   the job's cache and keeps the scratchpad it is on.                       *)
adopt(s, gen, job) ==
  [s EXCEPT !.gen = gen, !.job = job, !.active = TRUE,
            !.block_input = [id |-> job.id, nonce |-> 0],
            !.pipelined_active = FALSE, !.calls = FALSE,
            !.local_nonce = s.thread_id, !.current_nonce = 0, !.vm.cache = job.seed]

deactivate(s) == [s EXCEPT !.active = FALSE, !.local_nonce = @ + Stride]

(* The first hash of a job: plain, then the next nonce is written.          *)
primed(s) ==
  LET block == update_nonce_in_template(s.job, s.local_nonce)
      r == randomx_calculate_hash(s.vm, block)
      next == s.local_nonce + Stride
  IN [nonce |-> s.local_nonce, block |-> block, hash |-> r.hash,
      worker |-> [s EXCEPT !.local_nonce = next + Stride, !.vm = r.vm,
                           !.block_input = update_nonce_in_template(s.job, next),
                           !.current_nonce = next, !.pipelined_active = TRUE,
                           !.sp_fill = 1]]

(* A later hash: block_input already holds the current nonce.               *)
pipelined(s) ==
  LET next == update_nonce_in_template(s.job, s.local_nonce)
      r == randomx_calculate_hash_pipelined(s.vm, s.block_input, next, s.sp_fill,
             IF s.calls THEN s.pipeline_seed ELSE NoSeed)
  IN [nonce |-> s.current_nonce, block |-> s.block_input, hash |-> r.hash,
      worker |-> [s EXCEPT !.local_nonce = @ + Stride, !.vm = r.vm, !.calls = TRUE,
                           !.pipeline_seed = r.next_seed, !.sp_fill = 1 - @,
                           !.block_input = next, !.current_nonce = s.local_nonce]]

hashed(s) == IF s.pipelined_active THEN pipelined(s) ELSE primed(s)

(* The partial dataset was rotated between the worker's checks and its read
   guard: the turn is abandoned, with the nonce counter already advanced.   *)
abandoned(s) ==
  IF s.pipelined_active THEN [s EXCEPT !.local_nonce = @ + Stride]
  ELSE [s EXCEPT !.local_nonce = @ + Stride, !.current_nonce = s.local_nonce,
                 !.block_input = update_nonce_in_template(s.job, s.local_nonce)]
=============================================================================
