----------------------------- MODULE MCCodeGen -----------------------------
(* The code generators side by side: a run compiles and executes a VM program,
   or draws and compiles a superscalar program, or fills a cache and derives
   dataset items.                                                            *)
EXTENDS MCJit, Superscalar, CacheFill, DatasetBuild

(* A machine on which every stall happens, one on which reciprocals are drawn,
   one with the real look-ahead.                                             *)
Sizes(regs, latency, size, look, throws) ==
  [regs |-> regs, displaced |-> regs - 1, latency |-> latency, size |-> size, look |-> look,
   throws |-> throws]
Stalling == Sizes(3, 4, 8, 1, 1)
TwoRegs == Sizes(2, 20, 6, 2, 2)
MCMachines == {Stalling, TwoRegs, Sizes(3, 10, 5, 4, 1)}

(* Three instructions suffice for every swap of scheduleSuperscalarProgram.
   The generator cannot draw two adjacent reciprocal multiplies.             *)
Instr(type, d, s, m) == [type |-> type, src |-> s, dst |-> d, par |-> -1, imm |-> m]
AnyInstr ==
  {Instr(t, d, s, 0) : t \in {"IMUL_R", "IXOR_R"}, d \in 0..2, s \in 0..2}
  \union {Instr("IROR_C", d, d, 0) : d \in 0..2}
  \union {Instr("IMUL_RCP", d, d, m) : d \in 0..2, m \in Divisors}

(* Two programs: a first one of three instructions of TwoRegInstr, and a second
   one with two reciprocals and a swap.                             *)
TwoRegInstr ==
  {Instr("IMUL_R", 0, 1, 0), Instr("IMUL_R", 1, 1, 0), Instr("IXOR_C", 0, 0, 3),
   Instr("IROR_C", 1, 1, 0), Instr("IMUL_RCP", 0, 0, 3), Instr("IMUL_RCP", 1, 1, 5)}
MCProgramLists ==
  {<<p, <<Instr("IMUL_RCP", 1, 1, 5), Instr("IMUL_R", 0, 0, 0), Instr("IXOR_C", 0, 0, 3),
          Instr("IROR_C", 1, 1, 0), Instr("IMUL_RCP", 0, 0, 3)>>>>
     : p \in TwoRegInstr \X TwoRegInstr \X TwoRegInstr}
MCRanges == {<<0, 1>>, <<1, 3>>, <<4, 1>>, <<5, 0>>}

VmSide == Init /\ SsStart("idle", <<>>) /\ machine = Stalling
NotVm == Init /\ family = Reorder /\ vm = InitVm(37)
NoDataset == FillStart("idle") /\ memory_blocks = 8 /\ DsStart("idle")
SuperscalarSide ==
  /\ NotVm
  /\ \/ SsInit
     \/ machine = Stalling /\ \E p \in AnyInstr \X AnyInstr \X AnyInstr : SsGiven(p)
DatasetSide ==
  /\ NotVm /\ SsStart("idle", <<>>) /\ machine = TwoRegs
  /\ FillStart("fill") /\ DsStart("programs")

Vm(A) ==
  ssPc = "idle" /\ dsPc = "idle" /\ A /\ UNCHANGED <<ssVars, fillVars, dsVars>>
Ss(A) == A /\ UNCHANGED <<machine, vars, fillVars, dsVars>>
Fill(A) == A /\ UNCHANGED <<vars, ssVars, dsVars>>
Ds(A) == fillPc = "filled" /\ A /\ UNCHANGED <<vars, ssVars, fillVars>>

CodeGenNext ==
  \/ Vm(Draw) \/ Vm(Compile) \/ Vm(Interpret) \/ Vm(Interpreted) \/ Vm(ExecuteNative)
  \/ Vm(Executed)
  \/ Ss(Fetch) \/ Ss(BufferEnds) \/ Ss(createForSlot) \/ Ss(PortsFull) \/ Ss(NoSource)
  \/ Ss(NoDestination)
  \/ \E src, dst \in SsRegs \union {-1} : Ss(Issue(src, dst))
  \/ Fill(Compress)
  \/ dsPc = "programs" /\ \E list \in ProgramLists : Ds(DrawPrograms(list))
  \/ \E r \in Ranges : Ds(initialize_dataset(r[1], r[2]))

CodeGenInit == ((VmSide \/ SuperscalarSide) /\ NoDataset) \/ DatasetSide
CodeGenSpec == CodeGenInit /\ [][CodeGenNext]_<<vars, ssVars, fillVars, dsVars>>
=============================================================================
