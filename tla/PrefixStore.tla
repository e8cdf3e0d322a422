----------------------------- MODULE PrefixStore -----------------------------
(* What the light-mode prefix promises its readers, without fill threads,    *)
(* chunks or cursors: a published prefix that only grows, every item of it   *)
(* from the current generation, and no rotation while someone is reading.    *)
EXTENDS Integers, Sequences

CONSTANTS Size,      \* items in a full prefix
          Holders    \* threads that take ReadGuards

ASSUME StoreAssumption == Size \in Nat \ {0}

VARIABLES gen,       \* the generation published last
          prefix,    \* the generation of each published item
          inside     \* the guard holders

store == <<gen, prefix, inside>>

StoreInit == gen = 0 /\ prefix = << >> /\ inside = {}

\* A rotation empties the prefix, then names the new generation.
Clear ==
  /\ inside = {}
  /\ prefix' = << >>
  /\ UNCHANGED <<gen, inside>>

Bump ==
  /\ inside = {} /\ prefix = << >>
  /\ gen' = gen + 1
  /\ UNCHANGED <<prefix, inside>>

\* Publication of any number of further items.
Extend ==
  /\ \E n \in Len(prefix) + 1 .. Size : prefix' = [i \in 1 .. n |-> gen]
  /\ UNCHANGED <<gen, inside>>

Enter(h) == inside' = inside \cup {h} /\ UNCHANGED <<gen, prefix>>
Leave(h) == inside' = inside \ {h} /\ UNCHANGED <<gen, prefix>>

StoreNext ==
  \/ Clear \/ Bump \/ Extend
  \/ \E h \in Holders : Enter(h) \/ Leave(h)

StoreSpec == StoreInit /\ [][StoreNext]_store
=============================================================================
