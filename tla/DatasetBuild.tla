----------------------------- MODULE DatasetBuild -----------------------------
(***************************************************************************)
(* From a filled cache to dataset items: Argon2dCache::initialize draws the *)
(* programs and replaces each reciprocal's divisor by an index into         *)
(* reciprocal_cache_; initialize_dataset derives the items in pairs on      *)
(* vector lanes, and JitDataset2Way emits code for two items at once.       *)
(* Register values are terms, as in SuperscalarProgram.                     *)
(***************************************************************************)
EXTENDS SuperscalarProgram

CONSTANTS ProgramLists,   \* what generate_superscalar may draw, one program per access
          ItemCount,      \* randomx_dataset_item_count()
          Ranges          \* the <<start_item, item_count>> asked for

ASSUME ProgramsAssumption ==
  \A m \in Machines, list \in ProgramLists : list \in Seq(Seq(Instructions(m.regs)))
ASSUME RangesAssumption == ItemCount \in Nat /\ \A r \in Ranges : r \in Nat \X Nat

VARIABLES
  dsPc,          \* "idle", "programs", "items", "built", "invalid"
  drawn,         \* the programs as drawn (for DatasetItemsAgree)
  programs, reciprocal_cache,
  request, output

dsVars == <<dsPc, drawn, programs, reciprocal_cache, request, output>>

DsStart(pc0) ==
  /\ dsPc = pc0 /\ drawn = <<>> /\ programs = <<>> /\ reciprocal_cache = <<>>
  /\ request = <<0, 0>> /\ output = <<>>

-----------------------------------------------------------------------------
(* The programs.                                                            *)
(* Mutant: every program counts its reciprocals from zero.                  *)
setImm32_perProgram(p, cache) ==
  [n \in DOMAIN p |->
     IF IsRcp(p[n]) THEN [p[n] EXCEPT !.imm = Len(Reciprocals(p, <<>>)[n - 1])] ELSE p[n]]

(* A reciprocal's divisor gives way to the size the table has when its
   reciprocal is pushed.                                                    *)
setImm32(p, cache) ==
  [n \in DOMAIN p |->
     IF IsRcp(p[n]) THEN [p[n] EXCEPT !.imm = Len(Reciprocals(p, cache)[n - 1])] ELSE p[n]]

DrawPrograms(list) ==
  LET cache[k \in 0..Len(list)] ==
        IF k = 0 THEN <<>> ELSE Reciprocals(list[k], cache[k - 1])[Len(list[k])]
  IN /\ dsPc = "programs"
     /\ drawn' = list
     /\ programs' = [k \in DOMAIN list |-> setImm32(list[k], cache[k - 1])]
     /\ reciprocal_cache' = cache[Len(list)]
     /\ dsPc' = "items"
     /\ UNCHANGED <<request, output>>

-----------------------------------------------------------------------------
(* The items.  A line of the cache is known by the value that selects it.   *)
Seeded(item) == [q \in SsRegs |-> <<"seed", item, q>>]
Mixed(rl, value) == [q \in SsRegs |-> <<"xor", rl[q], <<"line", value, q>>>>]

(* What an instruction multiplies with or adds, from the table if it must.  *)
Cached(i) == IF IsRcp(i) THEN reciprocal_cache[i.imm + 1] ELSE i.imm
Resolved(p) == [n \in DOMAIN p |-> [p[n] EXCEPT !.imm = Cached(p[n])]]

(* One item through a list of programs.                                     *)
ItemOf(list, item) ==
  LET s[k \in 0..Len(list)] ==
        IF k = 0 THEN [rl |-> Seeded(item), value |-> <<"item", item>>]
        ELSE LET t == s[k - 1]
                 rl == Mixed(execute_superscalar(t.rl, list[k]), t.value)
             IN [rl |-> rl, value |-> rl[AddressRegister(list[k])]]
  IN s[Len(list)].rl

generate_dataset_item(item) ==
  ItemOf([k \in DOMAIN programs |-> Resolved(programs[k])], item)

(* Mutant: both lanes go on with the line of the first.                     *)
RegisterValues_lane0(vr, r) == <<vr[1][r], vr[1][r]>>

RegisterValues(vr, r) == <<vr[1][r], vr[2][r]>>

(* Two items on the two lanes of the vector registers.                      *)
NeonPair(item0) ==
  LET s[k \in 0..Len(programs)] ==
        IF k = 0 THEN [vr |-> <<Seeded(item0), Seeded(item0 + 1)>>,
                       values |-> <<<<"item", item0>>, <<"item", item0 + 1>>>>]
        ELSE LET t == s[k - 1]
                 vr == [lane \in 1..2 |->
                          Mixed(execute_superscalar(t.vr[lane], Resolved(programs[k])), t.values[lane])]
             IN [vr |-> vr, values |-> RegisterValues(vr, AddressRegister(programs[k]))]
  IN s[Len(programs)].vr

dataset_range_is_valid(start, count) == start <= ItemCount /\ count <= ItemCount - start

(* Pairs while there are two items left, the odd one by itself.             *)
initialize_dataset(start, count) ==
  /\ dsPc = "items"
  /\ request' = <<start, count>>
  /\ IF dataset_range_is_valid(start, count)
     THEN /\ dsPc' = "built"
          /\ output' = [offset \in 1..count |->
               LET at == offset - 1
                   even == 2 * (at \div 2)
               IN IF even + 1 < count THEN NeonPair(start + even)[at - even + 1]
                  ELSE generate_dataset_item(start + at)]
     ELSE dsPc' = "invalid" /\ UNCHANGED output
  /\ UNCHANGED <<drawn, programs, reciprocal_cache>>

Streams == {"A", "B"}
(* StreamBRegMap: stream A's registers are x0..x7, stream B's x19..x26.      *)
Physical(stream, q) == IF stream = "A" THEN q ELSE 19 + q

StreamTmp(stream) == IF stream = "A" THEN 12 ELSE 16
UsesTmp(i) == IsRcp(i) \/ i.type \in {"IADD_C", "IXOR_C"}

(* One instruction of one stream: its literal, if it needs one, goes through
   the stream's temporary.                                                  *)
emitSuperscalarInstr(s, i, stream, pool) ==
  LET tmp == StreamTmp(stream)
      file == IF UsesTmp(i)
              THEN [s.file EXCEPT ![tmp] = IF IsRcp(i) THEN pool[s.used[stream] + 1] ELSE i.imm]
              ELSE s.file
      src == file[Physical(stream, i.src)]
  IN [file |-> [file EXCEPT ![Physical(stream, i.dst)] =
                  <<i.type, @, IF i.src = i.dst THEN @ ELSE src,
                    IF UsesTmp(i) THEN file[tmp] ELSE i.imm>>],
      used |-> IF IsRcp(i) THEN [s.used EXCEPT ![stream] = @ + 1] ELSE s.used]

(* The code for one program: every instruction of the schedule for stream A,
   then for stream B, each with its own walk through the one pool.          *)
TwoWayRound(file, p) ==
  LET pool == Reciprocals(Resolved(p), <<>>)[Len(p)]
      order == scheduleSuperscalarProgram(p)
      s[n \in 0..Len(order)] ==
        IF n = 0 THEN [file |-> file, used |-> [stream \in Streams |-> 0]]
        ELSE LET i == p[order[n]]
             IN emitSuperscalarInstr(emitSuperscalarInstr(s[n - 1], i, "A", pool), i, "B", pool)
  IN s[Len(order)].file

Loaded(rl) ==
  [x \in 0..28 |-> IF \E c \in Streams, q \in SsRegs : x = Physical(c, q)
                   THEN LET c == IF x < 19 THEN "A" ELSE "B" IN rl[c][x % 19] ELSE 0]

(* JitDataset2Way::generate's function: rl of both streams, after each round
   mixed with the line of the stream's own registerValue.                   *)
TwoWay(itemA, itemB) ==
  LET s[k \in 0..Len(programs)] ==
        IF k = 0 THEN [rl |-> [A |-> Seeded(itemA), B |-> Seeded(itemB)],
                       value |-> [A |-> <<"item", itemA>>, B |-> <<"item", itemB>>]]
        ELSE LET t == s[k - 1]
                 file == TwoWayRound(Loaded(t.rl), programs[k])
                 rl == [c \in Streams |->
                          Mixed([q \in SsRegs |-> file[Physical(c, q)]], t.value[c])]
             IN [rl |-> rl, value |-> [c \in Streams |-> rl[c][AddressRegister(programs[k])]]]
  IN s[Len(programs)].rl

DsNext ==
  \/ \E list \in ProgramLists : DrawPrograms(list)
  \/ \E r \in Ranges : initialize_dataset(r[1], r[2])

DsSpec ==
  /\ machine \in Machines /\ DsStart("programs")
  /\ [][DsNext /\ UNCHANGED machine]_<<machine, dsVars>>

-----------------------------------------------------------------------------
(* The items written by initialize_dataset, and those the two-way code gives
   for any two item numbers, are those of the programs as drawn, with the
   reciprocals of their own divisors: across lanes, the odd item at the end,
   the global index of the reciprocals and the shared pool of literals
   (test_jit_dataset_2way compares them for a few items).                   *)
DatasetItemsAgree ==
  dsPc = "built" =>
    LET Reference(item) == ItemOf(drawn, item)
        two == TwoWay(request[1], request[1] + 1)
    IN /\ \A n \in DOMAIN output : output[n] = Reference(request[1] + n - 1)
       /\ two = [A |-> Reference(request[1]), B |-> Reference(request[1] + 1)]
       /\ request[1] + Len(output) <= ItemCount
=============================================================================
