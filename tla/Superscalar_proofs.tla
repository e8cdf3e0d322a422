-------------------------- MODULE Superscalar_proofs --------------------------
(***************************************************************************)
(* What generate_superscalar keeps while it draws a program, on every       *)
(* machine: operands are chosen from registers that have retired, and the   *)
(* program is one whose code DatasetBuild_proofs shows to be right.         *)
(***************************************************************************)
EXTENDS Superscalar, DatasetBuild_proofs

Types == OneRegister \union TwoRegisters

(* What generate_superscalar keeps: cycles and latencies are numbers, and the
   operands of the current instruction are chosen by the macro-operations
   that select them.                                                         *)
Chooses ==
  /\ current.type \in OneRegister => current.src = -1
  /\ current.type \in Types /\ macroOp <= Len(Mops) =>
       /\ macroOp > Info(current.type).dst => current.dst \in SsRegs
       /\ current.type \in TwoRegisters /\ macroOp > Info(current.type).src => current.src \in SsRegs

(* The sizes of the slots of the decode buffers.                             *)
SlotSizes == {3, 4, 7, 8, 9, 10}

(* OperandsReady with what keeps it: the types, and the choices above.       *)
DrawInv ==
  /\ machine \in Machines
  /\ buffer \in Seq(SlotSizes) /\ bufferIndex \in Nat \ {0}
  /\ cycle \in Nat /\ depCycle \in Nat /\ macroOp \in Nat \ {0}
  /\ DOMAIN registers = SsRegs /\ \A r \in SsRegs : registers[r].latency \in Nat
  /\ current \in [type : Types \union {"NOP"}, src : SsRegs \union {-1}, dst : SsRegs \union {-1},
                  par : Int, imm : Int]
  /\ Chooses
  /\ program \in Seq(Instructions(machine.regs))
  /\ OperandsReady

(* The tables of the instructions.                                           *)
LEMMA InfoFacts ==
  ASSUME NEW t \in Types
  PROVE  /\ Len(Info(t).ops) \in Nat \ {0}
         /\ Info(t).dst \in 1..Len(Info(t).ops) /\ Info(t).src \in 0..Len(Info(t).ops)
         /\ t \in TwoRegisters <=> Info(t).src > 0
         /\ \A n \in 1..Len(Info(t).ops) : Info(t).ops[n].latency \in Nat
<1> USE DEF Types, OneRegister, TwoRegisters
<1>1. CASE t \in {"ISUB_R", "IXOR_R"}
  <2>1. Info(t) = [ops |-> <<Simple(P015)>>, result |-> 1, dst |-> 1, src |-> 1]
    BY Zenon, <1>1 DEF Info
  <2> QED BY <1>1, <2>1 DEF Simple, Mop
<1>2. CASE t = "IADD_RS"
  BY <1>2 DEF Info, Simple, Mop
<1>3. CASE t = "IMUL_R"
  BY <1>3 DEF Info, Imul_rr, Mop
<1>4. CASE t = "IROR_C"
  BY <1>4 DEF Info, Simple, Mop
<1>5. CASE t \in {"IADD_C", "IXOR_C"}
  BY <1>5 DEF Info, Simple, Mop
<1>6. CASE t \in {"IMULH_R", "ISMULH_R"}
  <2>1. Info(t) = [ops |-> <<Mov_rr, Mul_r, Mov_rr>>, result |-> 2, dst |-> 1, src |-> 2]
    BY Zenon, <1>6 DEF Info
  <2>2. Mov_rr.latency \in Nat /\ Mul_r.latency \in Nat
    BY Zenon DEF Mov_rr, Mul_r, Mop
  <2>3. /\ Info(t).ops = <<Mov_rr, Mul_r, Mov_rr>> /\ Info(t).dst = 1 /\ Info(t).src = 2
    BY <2>1
  <2>4. Len(Info(t).ops) = 3
    BY <2>3
  <2>5. ASSUME NEW n \in 1..3 PROVE Info(t).ops[n].latency \in Nat
    BY <2>2, <2>3
  <2> QED BY <1>6, <2>3, <2>4, <2>5
<1>7. CASE t = "IMUL_RCP"
  <2> DEFINE mul == [Imul_rr EXCEPT !.dependent = TRUE]
  <2>1. Info(t) = [ops |-> <<Simple(P015), mul>>, result |-> 2, dst |-> 2, src |-> 0]
    BY Zenon, <1>7 DEF Info
  <2>2. Simple(P015).latency \in Nat /\ mul.latency \in Nat
    BY Zenon DEF Simple, Imul_rr, Mop
  <2> HIDE DEF mul
  <2>3. Info(t).ops = <<Simple(P015), mul>> /\ Info(t).dst = 2 /\ Info(t).src = 0
    BY <2>1
  <2>4. Len(Info(t).ops) = 2
    BY Zenon, <2>3
  <2>5. ASSUME NEW n \in 1..2 PROVE Info(t).ops[n].latency \in Nat
    BY <2>2, <2>3
  <2> QED BY <1>7, <2>3, <2>4, <2>5
<1> QED
  BY Zenon, <1>1, <1>2, <1>3, <1>4, <1>5, <1>6, <1>7

(* The NOP has no macro-operation.                                           *)
LEMMA InfoNop == Info("NOP").ops = <<>>
  BY Zenon DEF Info

(* scheduleMop() never places a macro-operation before the cycle asked for.  *)
LEMMA Placed ==
  ASSUME machine \in Machines, NEW m, NEW b, NEW c \in Nat, NEW d \in Nat
  PROVE  \/ scheduleMop(m, b, c, d) = -1
         \/ scheduleMop(m, b, c, d) \in Nat /\ scheduleMop(m, b, c, d) >= c
<1> DEFINE from == IF m.dependent /\ d > c THEN d ELSE c
           left == from..LastCycle
           T == {x \in left : Fits(b, x, m)}
<1>1. from \in Nat /\ from >= c
  OBVIOUS
<1>2. LastCycle \in Nat
  BY MachinesAssumption DEF LastCycle, Latency
<1> HIDE DEF from
<1>3. ASSUME T # {}
      PROVE  LET x == CHOOSE x \in left : Fits(b, x, m) /\ \A y \in left : y < x => ~Fits(b, y, m)
             IN  x \in Nat /\ x >= c
  <2>1. T \subseteq Nat
    BY <1>1, <1>2
  <2>2. PICK x \in T : \A y \in T : x <= y
    <3> HIDE DEF T
    <3> QED BY Zenon, <1>3, <2>1, Least
  <2>3. x \in left /\ Fits(b, x, m) /\ \A y \in left : y < x => ~Fits(b, y, m)
    BY <2>2, <1>1, <1>2
  <2>4. (CHOOSE z \in left : Fits(b, z, m) /\ \A y \in left : y < z => ~Fits(b, y, m)) \in left
    <3> HIDE DEF left
    <3> QED BY Zenon, <2>3
  <2> QED BY <2>4, <1>1, <1>2
<1>4. CASE m.uops = <<>>
  BY Zenon, <1>1, <1>4 DEF scheduleMop, from
<1>5. CASE m.uops # <<>> /\ \A x \in left : ~Fits(b, x, m)
  BY Zenon, <1>5 DEF scheduleMop, from
<1>6. CASE m.uops # <<>> /\ ~\A x \in left : ~Fits(b, x, m)
  <2>1. T # {}
    BY Zenon, <1>6
  <2>2. scheduleMop(m, b, c, d) =
          CHOOSE x \in left : Fits(b, x, m) /\ \A y \in left : y < x => ~Fits(b, y, m)
    BY Zenon, <1>6 DEF scheduleMop, from
  <2> QED BY Zenon, <2>1, <2>2, <1>3
<1> QED BY Zenon, <1>4, <1>5, <1>6

(* The look-ahead never goes back.                                           *)
LEMMA LooksAhead ==
  ASSUME machine \in Machines, NEW c \in Nat, NEW picks
  PROVE  Forward(c, picks) \in Nat /\ Forward(c, picks) >= c
<1> DEFINE ok == {f \in Ahead : picks[f] # {}}
<1>1. LookForward \in Nat
  BY Zenon, MachinesAssumption DEF LookForward
<1>2. ok \subseteq Nat
  BY <1>1 DEF Ahead
<1> HIDE DEF ok
<1>3. CASE ok = {}
  BY <1>1, <1>3 DEF Forward, ok
<1>4. CASE ok # {}
  <2>1. PICK f \in ok : \A g \in ok : f <= g
    BY Zenon, <1>2, <1>4, Least
  <2>2. (CHOOSE z \in ok : \A g \in ok : z <= g) \in ok
    BY Zenon, <2>1
  <2>3. Forward(c, picks) = c + (CHOOSE z \in ok : \A g \in ok : z <= g)
    BY Zenon, <1>4 DEF Forward, ok
  <2>4. PICK z \in Nat : Forward(c, picks) = c + z
    BY Zenon, <1>2, <2>2, <2>3
  <2> QED BY <2>4
<1> QED BY Zenon, <1>3, <1>4

(* The cycles of a turn: scheduled, moved on to the source's, then to the
   destination's.                                                            *)
LEMMA Turn ==
  ASSUME DrawInv, Scheduled >= 0, NEW i
  PROVE  /\ Scheduled \in Nat /\ SourceCycle \in Nat /\ DstCycle(i) \in Nat
         /\ Scheduled <= SourceCycle /\ SourceCycle <= DstCycle(i)
<1>0. machine \in Machines /\ cycle \in Nat /\ depCycle \in Nat
  BY Zenon DEF DrawInv
<1>1. Scheduled \in Nat
  <2>1. Scheduled = -1 \/ Scheduled \in Nat
    BY Zenon, <1>0, Placed DEF Scheduled
  <2> QED BY <2>1
<1>2. SourceCycle \in Nat /\ Scheduled <= SourceCycle
  BY <1>0, <1>1, LooksAhead DEF SourceCycle
<1>3. DstCycle(i) \in Nat /\ SourceCycle <= DstCycle(i)
  BY <1>0, <1>2, LooksAhead DEF DstCycle
<1> QED BY Zenon, <1>1, <1>2, <1>3

(* The decoder's buffers.                                                    *)
LEMMA Fetched ==
  ASSUME NEW t, NEW c, NEW m, NEW b \in fetchNext(t, c, m)
  PROVE  b \in Seq(SlotSizes)
<1>1. b \in {<<3, 3, 10>>, <<4, 4, 4, 4>>, <<4, 8, 4>>, <<4, 9, 3>>, <<7, 3, 3, 3>>, <<3, 7, 3, 3>>}
  BY Zenon DEF fetchNext
<1>2. /\ <<3, 3, 10>> \in Seq(SlotSizes) /\ <<4, 4, 4, 4>> \in Seq(SlotSizes)
      /\ <<4, 8, 4>> \in Seq(SlotSizes) /\ <<4, 9, 3>> \in Seq(SlotSizes)
      /\ <<7, 3, 3, 3>> \in Seq(SlotSizes) /\ <<3, 7, 3, 3>> \in Seq(SlotSizes)
  BY DEF SlotSizes
<1> QED
  BY Zenon, <1>1, <1>2

(* An instruction is created without operands.                               *)
LEMMA Created ==
  ASSUME NEW b \in Seq(SlotSizes), NEW k \in 1..Len(b), NEW t \in Slot(b, k), NEW i \in create(t)
  PROVE  i \in [type : Types, src : {-1}, dst : {-1}, par : Int, imm : Int]
<1>0. b[k] \in SlotSizes
  OBVIOUS
<1>1. t \in Types
  BY Zenon, <1>0 DEF Slot, Types, OneRegister, TwoRegisters, SlotSizes
<1> DEFINE pars == IF CanReuse(t) THEN {0, 1} ELSE {-1}
           imms == IF t = "IMUL_RCP" THEN Divisors ELSE {0}
<1>2. pars \subseteq Int /\ imms \subseteq Int
  BY DivisorsAssumption
<1>3. i \in [type : {t}, src : {-1}, dst : {-1}, par : pars, imm : imms]
  BY Zenon DEF create
<1> HIDE DEF pars, imms
<1> QED
  BY Zenon, <1>1, <1>2, <1>3

(* Steps that leave the instruction, the registers and the program alone.    *)
LEMMA IdleTurn ==
  ASSUME DrawInv, machine' = machine, Fetch \/ BufferEnds \/ PortsFull
  PROVE  DrawInv'
<1>1. /\ UNCHANGED <<machine, registers, current, macroOp, depCycle, program, reads>>
  BY Zenon DEF Fetch, BufferEnds, PortsFull
<1>2. cycle' \in Nat
  BY DEF Fetch, BufferEnds, PortsFull, NextCycle, DrawInv
<1>3. buffer' \in Seq(SlotSizes) /\ bufferIndex' \in Nat \ {0}
  <2>1. CASE Fetch
    <3>1. \/ buffer' \in fetchNext(current.type, decodeCycle, mulCount) /\ bufferIndex' = 1
          \/ UNCHANGED <<buffer, bufferIndex>>
      BY Zenon, <2>1 DEF Fetch
    <3> QED BY <3>1, Fetched DEF DrawInv
  <2>2. CASE BufferEnds \/ PortsFull
    BY Zenon, <2>2 DEF BufferEnds, PortsFull, DrawInv
  <2> QED BY Zenon, <2>1, <2>2
<1>4. SsRegs' = SsRegs
  BY Zenon, <1>1 DEF SsRegs
<1>5. Chooses' /\ OperandsReady'
  BY Zenon, <1>1, <1>4 DEF DrawInv, Chooses, OperandsReady, Mops
<1>6. /\ cycle' \in Nat /\ depCycle' \in Nat /\ macroOp' \in Nat \ {0}
      /\ DOMAIN registers' = SsRegs' /\ \A r \in SsRegs' : registers'[r].latency \in Nat
      /\ current' \in [type : Types \union {"NOP"}, src : SsRegs' \union {-1},
                       dst : SsRegs' \union {-1}, par : Int, imm : Int]
      /\ program' \in Seq(Instructions(machine'.regs)) /\ machine' \in Machines
  BY Zenon, <1>1, <1>2, <1>4 DEF DrawInv
<1> QED
  BY Zenon, <1>3, <1>5, <1>6 DEF DrawInv

(* Choosing the next instruction of a decode slot keeps the invariant.       *)
LEMMA CreateTurn ==
  ASSUME DrawInv, machine' = machine, createForSlot
  PROVE  DrawInv'
<1>1. /\ UNCHANGED <<machine, registers, buffer, bufferIndex, cycle, depCycle, program, reads>>
      /\ macroOp' = 1 /\ bufferIndex <= Len(buffer)
  BY Zenon DEF createForSlot
<1>2. current' \in [type : Types, src : {-1}, dst : {-1}, par : Int, imm : Int]
  <2>1. bufferIndex \in 1..Len(buffer) /\ buffer \in Seq(SlotSizes)
    BY <1>1 DEF DrawInv
  <2>2. PICK t \in Slot(buffer, bufferIndex) : current' \in create(t)
    BY Zenon DEF createForSlot
  <2> QED BY Zenon, <2>1, <2>2, Created
<1>3. SsRegs' = SsRegs
  BY Zenon, <1>1 DEF SsRegs
<1>4. Chooses'
  <2>1. current'.type \in Types /\ current'.src = -1
    BY Zenon, <1>2
  <2>2. /\ Info(current'.type).dst \in Nat \ {0}
        /\ current'.type \in TwoRegisters => Info(current'.type).src \in Nat \ {0}
    BY <2>1, InfoFacts
  <2> QED BY <1>1, <2>1, <2>2 DEF Chooses
<1>5. /\ current' \in [type : Types \union {"NOP"}, src : SsRegs' \union {-1},
                       dst : SsRegs' \union {-1}, par : Int, imm : Int]
  BY Zenon, <1>2
<1>6. /\ cycle' \in Nat /\ depCycle' \in Nat /\ macroOp' \in Nat \ {0}
      /\ DOMAIN registers' = SsRegs' /\ \A r \in SsRegs' : registers'[r].latency \in Nat
      /\ program' \in Seq(Instructions(machine'.regs)) /\ machine' \in Machines
      /\ buffer' \in Seq(SlotSizes) /\ bufferIndex' \in Nat \ {0} /\ OperandsReady'
  BY <1>1, <1>3 DEF DrawInv, OperandsReady
<1> QED
  BY Zenon, <1>4, <1>5, <1>6 DEF DrawInv

(* The instruction a turn works on has a macro-operation left.               *)
LEMMA InTurnType ==
  ASSUME DrawInv, InTurn
  PROVE  current.type \in Types /\ macroOp \in 1..Len(Mops)
<1>1. ~(macroOp > Len(Info(current.type).ops)) /\ macroOp \in Nat \ {0}
  BY Zenon DEF DrawInv, InTurn, Finished
<1>2. current.type \in Types \union {"NOP"}
  BY Zenon DEF DrawInv
<1>3. current.type # "NOP"
  BY <1>1, InfoNop
<1>4. current.type \in Types
  BY Zenon, <1>2, <1>3
<1> QED
  BY <1>1, <1>4, InfoFacts DEF Mops

(* Throwing an instruction away keeps the invariant.                         *)
LEMMA ThrowTurn ==
  ASSUME DrawInv, machine' = machine, InTurn, NEW lost \in Nat, ThrowAway(lost)
  PROVE  DrawInv'
<1>1. /\ UNCHANGED <<machine, registers, buffer, bufferIndex, depCycle, program, reads>>
      /\ cycle' = cycle + lost \/ cycle' = (cycle + lost) + 1
      /\ \/ macroOp' = Len(Mops) + 1 /\ current' = current
         \/ macroOp' = macroOp /\ current' = NoInstruction
  BY Zenon DEF ThrowAway, NextCycle
<1>2. SsRegs' = SsRegs
  BY Zenon, <1>1 DEF SsRegs
<1>3. Len(Mops) \in Nat
  BY Zenon, InTurnType, InfoFacts DEF Mops
<1>4. Chooses'
  <2>1. CASE macroOp' = Len(Mops) + 1 /\ current' = current
    BY <1>3, <2>1 DEF Chooses, DrawInv, Mops
  <2>2. CASE current' = NoInstruction
    BY Zenon, <2>2 DEF Chooses, NoInstruction, Types, OneRegister, TwoRegisters
  <2> QED BY Zenon, <1>1, <2>1, <2>2
<1>5. /\ current' \in [type : Types \union {"NOP"}, src : SsRegs' \union {-1},
                       dst : SsRegs' \union {-1}, par : Int, imm : Int]
  BY <1>1, <1>2 DEF DrawInv, NoInstruction
<1>6. /\ cycle' \in Nat /\ depCycle' \in Nat /\ macroOp' \in Nat \ {0}
      /\ DOMAIN registers' = SsRegs' /\ \A r \in SsRegs' : registers'[r].latency \in Nat
      /\ program' \in Seq(Instructions(machine'.regs)) /\ machine' \in Machines
      /\ buffer' \in Seq(SlotSizes) /\ bufferIndex' \in Nat \ {0} /\ OperandsReady'
  BY SMTT(30), <1>1, <1>2, <1>3 DEF DrawInv, OperandsReady
<1> QED
  BY Zenon, <1>4, <1>5, <1>6 DEF DrawInv

(* Sources and destinations have retired when they are picked.               *)
LEMMA Retired ==
  ASSUME NEW c, NEW src, NEW par
  PROVE  /\ \A r \in Sources(c) : r \in SsRegs /\ registers[r].latency <= c
         /\ \A r \in Destinations(c, src, par) : r \in SsRegs /\ registers[r].latency <= c
  BY Zenon DEF Sources, Destinations

(* The operands a turn settles on: picked in it or before it.                *)
LEMMA Operands ==
  ASSUME DrawInv, NEW src \in SsRegs \union {-1}, NEW dst \in SsRegs \union {-1}, Issue(src, dst)
  PROVE  LET t == current.type
             ch == Chosen(src)
         IN /\ InTurn /\ Scheduled >= 0
            /\ macroOp = Info(t).src => src \in SsRegs /\ registers[src].latency <= SourceCycle
            /\ macroOp # Info(t).src => src = current.src
            /\ macroOp = Info(t).dst => dst \in SsRegs /\ registers[dst].latency <= DstCycle(ch)
            /\ macroOp # Info(t).dst => dst = current.dst
<1>1. InTurn /\ Scheduled >= 0 /\ MaySource(src)
  BY Zenon DEF Issue
<1>2. /\ WantsDst => dst \in Destinations(DstCycle(Chosen(src)), src, Chosen(src).par)
      /\ ~WantsDst => dst = current.dst
  BY Zenon DEF Issue
<1>3. /\ macroOp = Info(current.type).src => src \in Sources(SourceCycle)
      /\ macroOp # Info(current.type).src => src = current.src
  BY Zenon, <1>1 DEF MaySource
<1> QED
  BY Zenon, <1>1, <1>2, <1>3, Retired DEF WantsDst

(* What is known of the instruction after its turn, and what a finished one
   adds to the program.                                                      *)
LEMMA Settled ==
  ASSUME DrawInv, NEW src \in SsRegs \union {-1}, NEW dst \in SsRegs \union {-1}, Issue(src, dst)
  PROVE  LET i == [Chosen(src) EXCEPT !.dst = dst]
             t == current.type
         IN /\ i \in [type : Types, src : SsRegs \union {-1}, dst : SsRegs \union {-1},
                      par : Int, imm : Int]
            /\ i.type = t /\ i.src = src /\ i.dst = dst
            /\ t \in OneRegister => src = -1
            /\ macroOp >= Info(t).dst => dst \in SsRegs
            /\ t \in TwoRegisters /\ macroOp >= Info(t).src => src \in SsRegs
            /\ macroOp = Len(Mops) => toInstr(i) \in Instructions(machine.regs)
<1> DEFINE i == [Chosen(src) EXCEPT !.dst = dst]
           t == current.type
<1>1. /\ InTurn /\ Scheduled >= 0
      /\ macroOp = Info(t).src => src \in SsRegs
      /\ macroOp # Info(t).src => src = current.src
      /\ macroOp = Info(t).dst => dst \in SsRegs
      /\ macroOp # Info(t).dst => dst = current.dst
  BY Zenon, Operands
<1>2. t \in Types /\ macroOp \in 1..Len(Mops)
  BY Zenon, <1>1, InTurnType
<1>3. /\ Len(Mops) \in Nat \ {0} /\ Info(t).dst \in 1..Len(Mops) /\ Info(t).src \in 0..Len(Mops)
      /\ t \in TwoRegisters <=> Info(t).src > 0
  BY Zenon, <1>2, InfoFacts DEF Mops
<1>4. machine.regs \in 1..8 /\ SsRegs \subseteq Nat
  BY MachinesAssumption DEF DrawInv, SsRegs
<1>5. current \in [type : Types \union {"NOP"}, src : SsRegs \union {-1},
                  dst : SsRegs \union {-1}, par : Int, imm : Int]
  BY Zenon DEF DrawInv
<1>6. /\ t \in OneRegister => current.src = -1
      /\ macroOp > Info(t).dst => current.dst \in SsRegs
      /\ t \in TwoRegisters /\ macroOp > Info(t).src => current.src \in SsRegs
  BY <1>2 DEF DrawInv, Chooses
<1>7. i = [type |-> t, src |-> src, dst |-> dst,
           par |-> IF ParIsSource(t) THEN src ELSE current.par, imm |-> current.imm]
  <2> DEFINE newPar == IF ParIsSource(t) THEN src ELSE current.par
  <2>1. Chosen(src) = [current EXCEPT !.src = src, !.par = newPar]
    BY Zenon DEF Chosen
  <2> HIDE DEF newPar
  <2>2. Chosen(src) = [type |-> t, src |-> src, dst |-> current.dst, par |-> newPar,
                       imm |-> current.imm]
    BY Zenon, <1>5, <2>1
  <2>3. i = [type |-> t, src |-> src, dst |-> dst, par |-> newPar, imm |-> current.imm]
    BY <2>2
  <2> QED BY Zenon, <2>3 DEF newPar
<1>8. i \in [type : Types, src : SsRegs \union {-1}, dst : SsRegs \union {-1}, par : Int, imm : Int]
  BY <1>2, <1>4, <1>5, <1>7
<1>9. i.type = t /\ i.src = src /\ i.dst = dst
  BY Zenon, <1>7
<1> HIDE DEF i
<1>10. t \in OneRegister => src = -1
  BY SMTT(30), <1>1, <1>2, <1>3, <1>6 DEF OneRegister, TwoRegisters
<1>11. macroOp >= Info(t).dst => dst \in SsRegs
  BY SMTT(30), <1>1, <1>2, <1>3, <1>6
<1>12. t \in TwoRegisters /\ macroOp >= Info(t).src => src \in SsRegs
  BY SMTT(30), <1>1, <1>2, <1>3, <1>6
<1>13. ASSUME macroOp = Len(Mops) PROVE toInstr(i) \in Instructions(machine.regs)
  <2>1. dst \in SsRegs /\ (t \in TwoRegisters => src \in SsRegs)
    BY <1>3, <1>11, <1>12, <1>13
  <2>2. toInstr(i) = [i EXCEPT !.src = IF src = -1 THEN dst ELSE src]
    BY Zenon, <1>8, <1>9 DEF toInstr
  <2>3. /\ toInstr(i) \in [type : Types, src : SsRegs, dst : SsRegs, par : Int, imm : Int]
        /\ toInstr(i).type = t
        /\ t \in OneRegister => toInstr(i).src = toInstr(i).dst
    BY Zenon, <1>2, <1>4, <1>8, <1>9, <1>10, <2>1, <2>2 DEF Types
  <2> QED
    BY Zenon, <2>3 DEF Instructions, SsRegs, Types
<1> QED
  BY Zenon, <1>8, <1>9, <1>10, <1>11, <1>12, <1>13 DEF i

(* Issuing a macro-operation keeps the invariant: its ports are taken and
   its destination's latency is set, the sources being ready.                *)
LEMMA IssueTurn ==
  ASSUME DrawInv, machine' = machine,
         NEW src \in SsRegs \union {-1}, NEW dst \in SsRegs \union {-1}, Issue(src, dst)
  PROVE  DrawInv'
<1> DEFINE i == [Chosen(src) EXCEPT !.dst = dst]
           t == current.type
           D == DstCycle(Chosen(src))
           mop == Mops[macroOp]
           at == scheduleMop(mop, busy, D, D)
<1>1. /\ i \in [type : Types, src : SsRegs \union {-1}, dst : SsRegs \union {-1}, par : Int, imm : Int]
      /\ i.type = t /\ i.src = src /\ i.dst = dst
      /\ t \in OneRegister => src = -1
      /\ macroOp >= Info(t).dst => dst \in SsRegs
      /\ t \in TwoRegisters /\ macroOp >= Info(t).src => src \in SsRegs
      /\ macroOp = Len(Mops) => toInstr(i) \in Instructions(machine.regs)
  BY Zenon, Settled
<1>2. /\ InTurn /\ Scheduled >= 0
      /\ macroOp = Info(t).src => src \in SsRegs /\ registers[src].latency <= SourceCycle
      /\ macroOp = Info(t).dst => dst \in SsRegs /\ registers[dst].latency <= D
  BY Zenon, Operands
<1>3. t \in Types /\ macroOp \in 1..Len(Mops)
  BY Zenon, <1>2, InTurnType
<1>4. /\ Len(Mops) \in Nat \ {0} /\ Info(t).dst \in 1..Len(Mops) /\ Info(t).src \in 0..Len(Mops)
      /\ mop.latency \in Nat
  BY Zenon, <1>3, InfoFacts DEF Mops
<1>5. /\ Scheduled \in Nat /\ SourceCycle \in Nat /\ D \in Nat
      /\ Scheduled <= SourceCycle /\ SourceCycle <= D
  BY Zenon, <1>2, Turn
<1>6. machine \in Machines /\ cycle \in Nat /\ depCycle \in Nat /\ macroOp \in Nat \ {0}
  BY Zenon DEF DrawInv
<1>7. at = -1 \/ (at \in Nat /\ at >= D)
  BY Zenon, <1>5, <1>6, Placed
<1>8. UNCHANGED <<buffer, address>> /\ current' = i
  BY Zenon DEF Issue
<1>10. SsRegs' = SsRegs
  BY Zenon DEF SsRegs
<1>9. CASE at = -1
  <2>1. /\ cycle' = (cycle + D - Scheduled) + 1
        /\ UNCHANGED <<registers, bufferIndex, macroOp, depCycle, program, reads>>
    BY Zenon, <1>9 DEF Issue, NextCycle
  <2>2. cycle' \in Nat
    BY <1>5, <1>6, <2>1
  <2>3. Chooses'
    BY SMTT(30), <1>1, <1>3, <1>4, <1>8, <1>10, <2>1 DEF Chooses
  <2> QED
    BY Zenon, <1>1, <1>6, <1>8, <1>10, <2>1, <2>2, <2>3 DEF DrawInv, OperandsReady
<1>11. CASE at \in Nat /\ at >= D
  <2>1. /\ cycle' = cycle /\ depCycle' = at + mop.latency /\ bufferIndex' = bufferIndex + 1
        /\ macroOp' = macroOp + 1
        /\ program' = IF macroOp = Len(Mops) THEN Append(program, toInstr(i)) ELSE program
    BY <1>11 DEF Issue
  <2>2. /\ registers' = IF macroOp # Info(i.type).result THEN registers
                        ELSE [registers EXCEPT ![i.dst] =
                                [latency |-> at + mop.latency, group |-> Group(i.type),
                                 par |-> i.par]]
        /\ reads' = reads \union
             {<<registers[r].latency, at>> :
                r \in (IF macroOp = Info(i.type).src THEN {src} ELSE {})
                     \union (IF WantsDst THEN {dst} ELSE {})}
    BY <1>11 DEF Issue
  <2> HIDE DEF i, at, D, mop
  <2>3. DOMAIN registers' = SsRegs' /\ \A r \in SsRegs' : registers'[r].latency \in Nat
    <3>1. DOMAIN registers = SsRegs /\ \A r \in SsRegs : registers[r].latency \in Nat
      BY Zenon DEF DrawInv
    <3>2. at + mop.latency \in Nat
      BY <1>4, <1>11
    <3> QED BY Zenon, <1>10, <2>2, <3>1, <3>2
  <2>4. Chooses'
    BY SMTT(30), <1>1, <1>3, <1>4, <1>8, <1>10, <2>1 DEF Chooses
  <2>5. program' \in Seq(Instructions(machine'.regs))
    <3>1. program \in Seq(Instructions(machine.regs))
      BY Zenon DEF DrawInv
    <3>2. CASE macroOp = Len(Mops)
      <4>1. program' = Append(program, toInstr(i)) /\ toInstr(i) \in Instructions(machine.regs)
        BY Zenon, <1>1, <2>1, <3>2
      <4>2. program' \in Seq(Instructions(machine.regs))
        BY <3>1, <4>1
      <4> QED BY Zenon, <4>2
    <3>3. CASE macroOp # Len(Mops)
      BY Zenon, <2>1, <3>1, <3>3
    <3> QED BY Zenon, <3>2, <3>3
  <2>6. OperandsReady'
    <3>1. ASSUME macroOp = Info(t).src PROVE registers[src].latency <= at
      <4>1. src \in SsRegs /\ registers[src].latency <= SourceCycle
        BY Zenon, <1>2, <3>1
      <4>2. registers[src].latency \in Nat
        BY Zenon, <4>1 DEF DrawInv
      <4> QED BY SMTT(30), <1>5, <1>11, <4>1, <4>2
    <3>2. ASSUME WantsDst PROVE registers[dst].latency <= at
      <4>1. dst \in SsRegs /\ registers[dst].latency <= D
        BY Zenon, <1>2, <3>2 DEF WantsDst
      <4>2. registers[dst].latency \in Nat
        BY Zenon, <4>1 DEF DrawInv
      <4> QED BY <1>5, <1>11, <4>1, <4>2
    <3>3. \A x \in reads : x[1] <= x[2]
      BY Zenon DEF DrawInv, OperandsReady
    <3> QED BY SMTT(30), <1>1, <2>2, <3>1, <3>2, <3>3 DEF OperandsReady
  <2>7. cycle' \in Nat /\ depCycle' \in Nat /\ macroOp' \in Nat \ {0} /\ bufferIndex' \in Nat \ {0}
    <3>1. bufferIndex \in Nat \ {0}
      BY Zenon DEF DrawInv
    <3> QED BY SMTT(30), <1>4, <1>6, <1>11, <2>1, <3>1
  <2>8. current' \in [type : Types \union {"NOP"}, src : SsRegs' \union {-1},
                     dst : SsRegs' \union {-1}, par : Int, imm : Int]
    BY Zenon, <1>1, <1>8, <1>10
  <2> QED
    BY ZenonT(60), <1>6, <1>8, <2>3, <2>4, <2>5, <2>6, <2>7, <2>8 DEF DrawInv
<1> QED
  BY Zenon, <1>7, <1>9, <1>11

(* The first state, empty or with a program of any origin.                   *)
LEMMA DrawInit ==
  ASSUME SsInit \/ \E p \in Seq(Instructions(machine.regs)) : SsGiven(p)
  PROVE  DrawInv
<1>1. PICK pc \in {"fetch", "given"}, p \in Seq(Instructions(machine.regs)) : SsStart(pc, p)
  <2>1. <<>> \in Seq(Instructions(machine.regs))
    OBVIOUS
  <2> QED BY Zenon, <2>1 DEF SsInit, SsGiven
<1>2. Chooses
  BY Zenon, <1>1 DEF SsStart, Chooses, NoInstruction, Types, OneRegister, TwoRegisters
<1>3. current \in [type : Types \union {"NOP"}, src : SsRegs \union {-1}, dst : SsRegs \union {-1},
                  par : Int, imm : Int]
  BY <1>1 DEF SsStart, NoInstruction
<1> QED
  BY <1>1, <1>2, <1>3 DEF SsStart, DrawInv, OperandsReady

(* Every step of the generator keeps the invariant.                          *)
LEMMA DrawStep ==
  ASSUME DrawInv, [SsNext]_ssVars
  PROVE  DrawInv'
<1>1. CASE UNCHANGED ssVars
  BY Zenon, <1>1 DEF ssVars, DrawInv, Chooses, OperandsReady, SsRegs, Mops
<1>2. CASE SsNext
  <2>1. machine' = machine
    BY Zenon, <1>2 DEF SsNext
  <2>2. LookForward \in Nat
    BY Zenon, MachinesAssumption DEF DrawInv, LookForward
  <2>3. CASE Fetch \/ BufferEnds \/ PortsFull
    BY Zenon, <2>1, <2>3, IdleTurn
  <2>4. CASE createForSlot
    BY Zenon, <2>1, <2>4, CreateTurn
  <2>5. CASE NoSource
    BY Zenon, <2>1, <2>2, <2>5, ThrowTurn DEF NoSource
  <2>6. CASE NoDestination
    <3>1. InTurn /\ Scheduled >= 0 /\ ThrowAway(SourceCycle - Scheduled + LookForward)
      BY Zenon, <2>6 DEF NoDestination
    <3>2. SourceCycle - Scheduled + LookForward \in Nat
      BY <2>2, <3>1, Turn
    <3> QED BY Zenon, <2>1, <3>1, <3>2, ThrowTurn
  <2>7. CASE \E src, dst \in SsRegs \union {-1} : Issue(src, dst)
    BY Zenon, <2>1, <2>7, IssueTurn
  <2> QED BY Zenon, <1>2, <2>3, <2>4, <2>5, <2>6, <2>7 DEF SsNext
<1> QED BY Zenon, <1>1, <1>2

(* selectSource(), selectDestination() and the second scheduleMop(): however
   the generator's random bytes fall, a macro-operation issues only after the
   registers it selects have retired.                                        *)
THEOREM OperandsAlwaysReady == SsSpec => []OperandsReady
<1>1. DrawInv => OperandsReady
  BY Zenon DEF DrawInv
<1> QED
  BY <1>1, DrawInit, DrawStep, PTL DEF SsSpec

(* In every state of the drawing the program has operands the machine has, so
   the code emitted for it computes what its interpretation does.            *)
LEMMA DrawnIsCompiled == DrawInv => SuperscalarJitMatches
<1> SUFFICES ASSUME DrawInv PROVE SuperscalarJitMatches
  BY Zenon
<1> DEFINE count == machine.regs
           rl == [q \in SsRegs |-> <<q>>]
<1>1. machine \in Machines /\ program \in Seq(Instructions(count))
  BY Zenon DEF DrawInv
<1>2. count \in Nat
  BY <1>1, MachinesAssumption
<1>3. IsFile(rl, 0..(count - 1))
  BY Zenon DEF IsFile, SsRegs
<1> HIDE DEF count, rl
<1>4. generateSuperscalarHash(rl, program) = execute_superscalar(rl, program)
  BY Zenon, <1>1, <1>2, <1>3, EmittedIsExecuted
<1> QED
  BY Zenon, <1>4 DEF SuperscalarJitMatches, rl

(* generateSuperscalarHash() against execute_superscalar(): whatever program
   is drawn, of any length and on any machine, its compiled code gives the
   registers the interpretation gives, reordered instructions and pooled
   reciprocals included.                                                     *)
THEOREM CompiledHashMatches == SsSpec => []SuperscalarJitMatches
  BY DrawInit, DrawStep, DrawnIsCompiled, PTL DEF SsSpec
=============================================================================
