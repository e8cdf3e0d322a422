--------------------------- MODULE VmInstructions ---------------------------
(* The VM's instructions by kind (src/vm.cpp and computeFootprint() of      *)
(* src/jit_compiler_a64.cpp sort them alike).                               *)

MemOps == {"IADD_M", "ISUB_M", "IMUL_M", "IMULH_M", "ISMULH_M", "IXOR_M"}
MulOps == {"IMUL_R", "IMULH_R", "ISMULH_R"}
FpMemFn == [FADD_M |-> "fadd", FSUB_M |-> "fsub", FDIV_M |-> "fdiv"]
FpOps == {"FSWAP_R", "FADD_R", "FSUB_R", "FSCAL_R", "FMUL_R", "FSQRT_R"}
ArithOps == MemOps \cup MulOps \cup {"IADD_RS", "ISUB_R", "IMUL_RCP"}
LogicOps == {"INEG_R", "IXOR_R", "IROR_R", "IROL_R", "ISWAP_R"}
=============================================================================
