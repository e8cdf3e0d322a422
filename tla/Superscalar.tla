----------------------------- MODULE Superscalar -----------------------------
(***************************************************************************)
(* generate_superscalar(): a program is drawn by simulating the decoder and *)
(* the three execution ports of a small machine, every random byte a        *)
(* nondeterministic choice.                                                 *)
(***************************************************************************)
EXTENDS SuperscalarProgram, FiniteSets

CONSTANT Divisors         \* immediates of IMUL_RCP: no zero, no power of two

ASSUME DivisorsAssumption == Divisors \subseteq Nat

Displaced == machine.displaced      \* RegisterNeedsDisplacement (5)
Latency == machine.latency          \* kSuperscalarLatency
MaxSize == machine.size             \* kSuperscalarMaxSize
LookForward == machine.look         \* LOOK_FORWARD_CYCLES
MaxThrowAway == machine.throws      \* MAX_THROWAWAY_COUNT
LastCycle == Latency + 3            \* CYCLE_MAP_SIZE - 1

(* Macro-operations: the ports each micro-op may use, latency, whether it
   depends on the previous one.  No ports: eliminated at rename.            *)
Mop(uops, latency, dependent) == [uops |-> uops, latency |-> latency, dependent |-> dependent]
P015 == {"P0", "P1", "P5"}
Mov_rr == Mop(<<>>, 0, FALSE)
Mul_r == Mop(<<{"P1"}, {"P5"}>>, 4, FALSE)
Imul_rr == Mop(<<{"P1"}>>, 3, FALSE)
Simple(ports) == Mop(<<ports>>, 1, FALSE)

(* The macro-operations of an instruction, and which of them yields the
   result and selects destination and source (0: none).                     *)
Info(type) ==
  CASE type \in {"ISUB_R", "IXOR_R"} ->
         [ops |-> <<Simple(P015)>>, result |-> 1, dst |-> 1, src |-> 1]
    [] type = "IADD_RS" -> [ops |-> <<Simple({"P0", "P1"})>>, result |-> 1, dst |-> 1, src |-> 1]
    [] type = "IMUL_R" -> [ops |-> <<Imul_rr>>, result |-> 1, dst |-> 1, src |-> 1]
    [] type = "IROR_C" -> [ops |-> <<Simple({"P0", "P5"})>>, result |-> 1, dst |-> 1, src |-> 0]
    [] type \in {"IADD_C", "IXOR_C"} ->
         [ops |-> <<Simple(P015)>>, result |-> 1, dst |-> 1, src |-> 0]
    [] type \in {"IMULH_R", "ISMULH_R"} ->
         [ops |-> <<Mov_rr, Mul_r, Mov_rr>>, result |-> 2, dst |-> 1, src |-> 2]
    [] type = "IMUL_RCP" ->
         [ops |-> <<Simple(P015), [Imul_rr EXCEPT !.dependent = TRUE]>>,
          result |-> 2, dst |-> 2, src |-> 0]
    [] type = "NOP" -> [ops |-> <<>>, result |-> 0, dst |-> 0, src |-> 0]

-----------------------------------------------------------------------------
(* The decoder.  A buffer is the sizes of its slots.                        *)
fetchNext(type, cycle, mulCount) ==
  IF type \in {"IMULH_R", "ISMULH_R"} THEN {<<3, 3, 10>>}
  ELSE IF mulCount < cycle + 1 THEN {<<4, 4, 4, 4>>}
  ELSE IF type = "IMUL_RCP" THEN {<<4, 8, 4>>, <<4, 9, 3>>}
  ELSE {<<4, 8, 4>>, <<7, 3, 3, 3>>, <<3, 7, 3, 3>>, <<4, 9, 3>>}

Slot(buffer, k) ==
  LET last == k = Len(buffer) IN
  CASE buffer[k] = 3 -> {"ISUB_R", "IXOR_R"} \union IF last THEN {"IMULH_R", "ISMULH_R"} ELSE {}
    [] buffer[k] = 4 -> IF buffer = <<4, 4, 4, 4>> /\ ~last THEN {"IMUL_R"}
                        ELSE {"IROR_C", "IADD_RS"}
    [] buffer[k] \in {7, 8, 9} -> {"IXOR_C", "IADD_C"}
    [] buffer[k] = 10 -> {"IMUL_RCP"}

(* create(): the group (operations that could undo one another share one),
   its parameter when it is not the source, and the immediate.              *)
Group(type) == IF type = "ISUB_R" THEN "IADD_RS" ELSE type
ParIsSource(type) == type \in {"ISUB_R", "IXOR_R", "IADD_RS", "IMUL_R"}
CanReuse(type) == type \in {"IMULH_R", "ISMULH_R"}

create(type) ==
  [type : {type}, src : {-1}, dst : {-1},
   par : IF CanReuse(type) THEN {0, 1} ELSE {-1},
   imm : IF type = "IMUL_RCP" THEN Divisors ELSE {0}]

NoInstruction == [type |-> "NOP", src |-> -1, dst |-> -1, par |-> -1, imm |-> 0]

-----------------------------------------------------------------------------
(* Port scheduling.  busy is the set of <<cycle, port>> in use.             *)
FreePort(busy, c, uop) ==
  LET free == {p \in uop : <<c, p>> \notin busy}
  IN CASE "P5" \in free -> "P5" [] "P5" \notin free /\ "P0" \in free -> "P0"
       [] free = {"P1"} -> "P1" [] OTHER -> "none"

Fits(busy, c, mop) == \A u \in DOMAIN mop.uops : FreePort(busy, c, mop.uops[u]) # "none"

(* scheduleMop(): the first cycle all its micro-ops fit, or -1.             *)
scheduleMop(mop, busy, cycle, depCycle) ==
  LET from == IF mop.dependent /\ depCycle > cycle THEN depCycle ELSE cycle
      left == from..LastCycle
  IN IF mop.uops = <<>> THEN from
     ELSE IF \A c \in left : ~Fits(busy, c, mop) THEN -1
     ELSE CHOOSE c \in left : /\ Fits(busy, c, mop)
                             /\ \A d \in left : d < c => ~Fits(busy, d, mop)

Commit(busy, c, mop) ==
  busy \union {<<c, FreePort(busy, c, mop.uops[u])>> : u \in DOMAIN mop.uops}

VARIABLES
  ssPc,          \* "idle", "fetch", "slot", "done"; "given": not generated here
  busy,          \* portBusy
  registers,     \* RegisterInfo: latency, lastOpGroup, lastOpPar
  buffer, bufferIndex, current, macroOp,
  cycle, depCycle, decodeCycle, saturated, mulCount, throwAway,
  program, address,
  reads          \* (for OperandsReady) when an operand was ready, when it was used

ssVars == <<machine, ssPc, busy, registers, buffer, bufferIndex, current, macroOp, cycle, depCycle,
            decodeCycle, saturated, mulCount, throwAway, program, address, reads>>

SsStart(pc0, p) ==
  /\ machine \in Machines /\ ssPc = pc0 /\ busy = {}
  /\ registers = [r \in SsRegs |-> [latency |-> 0, group |-> "INVALID", par |-> -1]]
  /\ buffer = <<>> /\ bufferIndex = 1 /\ current = NoInstruction /\ macroOp = 1
  /\ cycle = 0 /\ depCycle = 0 /\ decodeCycle = 0 /\ saturated = FALSE
  /\ mulCount = 0 /\ throwAway = 0
  /\ program = p /\ address = 0 /\ reads = {}

(* The generator starts empty; or the compiler is given a program of any
   origin (generateSuperscalarHash does not look at how it was drawn).      *)
SsInit == SsStart("fetch", <<>>)
SsGiven(p) == SsStart("given", p)

NotExhausted == ~saturated /\ Len(program) < MaxSize

(* The head of the decode loop, and its end.                                *)
Fetch ==
  /\ ssPc = "fetch"
  /\ IF decodeCycle < Latency /\ NotExhausted
       THEN /\ buffer' \in fetchNext(current.type, decodeCycle, mulCount)
            /\ bufferIndex' = 1 /\ ssPc' = "slot" /\ UNCHANGED address
       ELSE /\ ssPc' = "done" /\ address' = AddressRegister(program)
            /\ UNCHANGED <<buffer, bufferIndex>>
  /\ UNCHANGED <<busy, registers, current, macroOp, cycle, depCycle, decodeCycle, saturated,
                 mulCount, throwAway, program, reads>>

(* Leaving the buffer: ++cycle and the next decode cycle.                   *)
NextCycle(c) == ssPc' = "fetch" /\ cycle' = c + 1 /\ decodeCycle' = decodeCycle + 1

Finished == macroOp > Len(Info(current.type).ops)

BufferEnds ==
  /\ ssPc = "slot"
  /\ bufferIndex > Len(buffer) \/ (Finished /\ ~NotExhausted)
  /\ NextCycle(cycle)
  /\ UNCHANGED <<busy, registers, buffer, bufferIndex, current, macroOp, depCycle, saturated,
                 mulCount, throwAway, program, address, reads>>

createForSlot ==
  /\ ssPc = "slot" /\ bufferIndex <= Len(buffer) /\ Finished /\ NotExhausted
  /\ \E type \in Slot(buffer, bufferIndex) : current' \in create(type)
  /\ macroOp' = 1
  /\ UNCHANGED <<ssPc, busy, registers, buffer, bufferIndex, cycle, depCycle, decodeCycle,
                 saturated, mulCount, throwAway, program, address, reads>>

(* Mutant: a source need not have been computed yet.                        *)
Sources_early(c) == SsRegs

(* selectSource() and selectDestination(): the registers they may pick at a
   cycle.  With two registers left, IADD_RS reads the displaced one.        *)
Sources(c) ==
  LET ready == {r \in SsRegs : registers[r].latency <= c}
  IN IF current.type = "IADD_RS" /\ Cardinality(ready) = 2 /\ Displaced \in ready
     THEN {Displaced} ELSE ready

Destinations(c, src, par) ==
  {r \in SsRegs :
     /\ registers[r].latency <= c
     /\ CanReuse(current.type) \/ r # src
     /\ throwAway > 0 \/ current.type # "IMUL_R" \/ registers[r].group # "IMUL_R"
     /\ registers[r].group # Group(current.type) \/ registers[r].par # par
     /\ current.type # "IADD_RS" \/ r # Displaced}

(* The first cycle from c on, within the look-ahead, at which there is a
   register to pick; c + LookForward when there is none.                    *)
Ahead == 0..(LookForward - 1)
Forward(c, picks) ==
  LET ok == {f \in Ahead : picks[f] # {}}
  IN c + IF ok = {} THEN LookForward ELSE CHOOSE f \in ok : \A g \in ok : f <= g

Mops == Info(current.type).ops
Scheduled == scheduleMop(Mops[macroOp], busy, cycle, depCycle)
SourceCycle ==
  IF macroOp = Info(current.type).src
  THEN Forward(Scheduled, [f \in Ahead |-> Sources(Scheduled + f)]) ELSE Scheduled

InTurn == ssPc = "slot" /\ bufferIndex <= Len(buffer) /\ ~Finished

PortsFull ==
  /\ InTurn /\ Scheduled = -1
  /\ saturated' = TRUE /\ NextCycle(cycle)
  /\ UNCHANGED <<busy, registers, buffer, bufferIndex, current, macroOp, depCycle, mulCount,
                 throwAway, program, address, reads>>

(* No register can be had: the instruction is thrown away, a limited number
   of times in a row, and the cycle stays advanced.                         *)
ThrowAway(lost) ==
  /\ IF throwAway < MaxThrowAway
       THEN /\ throwAway' = throwAway + 1 /\ macroOp' = Len(Mops) + 1
            /\ cycle' = cycle + lost
            /\ UNCHANGED <<ssPc, decodeCycle, current>>
       ELSE /\ current' = NoInstruction /\ NextCycle(cycle + lost)
            /\ UNCHANGED <<throwAway, macroOp>>
  /\ UNCHANGED <<busy, registers, buffer, bufferIndex, depCycle, saturated, mulCount, program,
                 address, reads>>

NoSource ==
  /\ InTurn /\ Scheduled >= 0 /\ macroOp = Info(current.type).src
  /\ SourceCycle = Scheduled + LookForward
  /\ ThrowAway(LookForward)

(* The operands a turn settles on: source first, then destination.          *)
Chosen(src) == [current EXCEPT !.src = src, !.par = IF ParIsSource(current.type) THEN src ELSE @]
MaySource(src) ==
  IF macroOp = Info(current.type).src
  THEN SourceCycle < Scheduled + LookForward /\ src \in Sources(SourceCycle)
  ELSE src = current.src
WantsDst == macroOp = Info(current.type).dst
DstCycle(i) ==
  IF WantsDst
  THEN Forward(SourceCycle, [f \in Ahead |-> Destinations(SourceCycle + f, i.src, i.par)])
  ELSE SourceCycle

NoDestination ==
  /\ InTurn /\ Scheduled >= 0
  /\ \E src \in SsRegs \union {-1} :
       /\ MaySource(src) /\ WantsDst
       /\ DstCycle(Chosen(src)) = SourceCycle + LookForward
  /\ ThrowAway(SourceCycle - Scheduled + LookForward)

toInstr(i) == [i EXCEPT !.src = IF @ = -1 THEN i.dst ELSE @]

(* The macro-op is placed; the last one adds the instruction to the program. *)
Issue(src, dst) ==
  LET i == [Chosen(src) EXCEPT !.dst = dst]
      mop == Mops[macroOp]
      at == scheduleMop(mop, busy, DstCycle(Chosen(src)), DstCycle(Chosen(src)))
  IN /\ InTurn /\ Scheduled >= 0 /\ MaySource(src)
     /\ IF WantsDst
        THEN /\ DstCycle(Chosen(src)) < SourceCycle + LookForward
             /\ dst \in Destinations(DstCycle(Chosen(src)), src, Chosen(src).par)
        ELSE dst = current.dst
     /\ throwAway' = 0
     /\ IF at = -1
        THEN /\ saturated' = TRUE /\ current' = i
             /\ NextCycle(cycle + DstCycle(Chosen(src)) - Scheduled)
             /\ UNCHANGED <<busy, registers, bufferIndex, macroOp, depCycle, mulCount, program,
                            reads>>
        ELSE /\ busy' = Commit(busy, at, mop)
             /\ depCycle' = at + mop.latency
             /\ registers' = IF macroOp # Info(i.type).result THEN registers
                             ELSE [registers EXCEPT ![i.dst] =
                                     [latency |-> at + mop.latency, group |-> Group(i.type),
                                      par |-> i.par]]
             /\ reads' = reads \union
                  {<<registers[r].latency, at>> :
                     r \in (IF macroOp = Info(i.type).src THEN {src} ELSE {})
                          \union (IF WantsDst THEN {dst} ELSE {})}
             /\ bufferIndex' = bufferIndex + 1 /\ macroOp' = macroOp + 1 /\ current' = i
             /\ saturated' = (saturated \/ at >= Latency)
             /\ LET last == macroOp = Len(Mops)
                IN /\ program' = IF last THEN Append(program, toInstr(i)) ELSE program
                   /\ mulCount' = mulCount + IF last /\ isMultiplication(i.type) THEN 1 ELSE 0
             /\ UNCHANGED <<ssPc, cycle, decodeCycle>>
     /\ UNCHANGED <<buffer, address>>

SsNext ==
  /\ UNCHANGED machine
  /\ \/ Fetch \/ BufferEnds \/ createForSlot \/ PortsFull \/ NoSource \/ NoDestination
     \/ \E src, dst \in SsRegs \union {-1} : Issue(src, dst)

SsSpec ==
  /\ SsInit \/ \E p \in Seq(Instructions(machine.regs)) : SsGiven(p)
  /\ [][SsNext]_ssVars

-----------------------------------------------------------------------------
(* The code emitted for a program computes what the interpreter
   computes: the swaps respect every register hazard, and each reciprocal
   multiply finds its own literal in the pool (generateSuperscalarHash's
   literal_pos against its pre-pass).                                       *)
SuperscalarJitMatches ==
  ssPc \in {"done", "given"} =>
    LET rl == [q \in SsRegs |-> <<q>>]
    IN generateSuperscalarHash(rl, program) = execute_superscalar(rl, program)

(* A macro-op issues only after the registers it selects have retired: the
   look-ahead moves the cycle of both, never of the selection alone
   (selectSource, selectDestination and the second scheduleMop).            *)
OperandsReady == \A x \in reads : x[1] <= x[2]
=============================================================================
