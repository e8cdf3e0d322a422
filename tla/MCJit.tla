------------------------------- MODULE MCJit -------------------------------
(* Instances of JitEquivalence: 8-bit registers, 6-bit immediates.           *)
EXTENDS JitEquivalence

I(op, d, s, imm) == [op |-> op, dst |-> d, src |-> s, mem |-> TRUE, shift |-> 1,
                     cond |-> 0, imm |-> imm]
Imms == 0 .. Imm - 1
Edges == {0, 5, 31, 32, 47}
WithImm(op) == {I(op, p[1], p[2], m) : p \in {<<0, 1>>, <<3, 3>>, <<5, 2>>}, m \in Imms}
Variants(S) == S \cup {[i EXCEPT !.mem = FALSE] : i \in S}

\* Every operation alone, over every immediate.
Singles == UNION {WithImm(op) : op \in ArithOps \cup LogicOps}
           \cup Variants(UNION {WithImm(op) : op \in {"IADD_M"} \cup DOMAIN FpMemFn})
           \cup {[i EXCEPT !.cond = c] : i \in WithImm("ISTORE") \cup WithImm("CBRANCH"), c \in {0, 1, 14}}
           \cup WithImm("CFROUND")
           \cup {I(op, d, 6, 0) : op \in FpOps, d \in {1, 6}}
Legal(i) == i.op = "CBRANCH" => i.cond < 2
AllOps == << {i \in Singles : Legal(i)} >>

\* Literal pools run out after one 32-bit literal and one reciprocal.
Pools == << {I("IXOR_R", 0, 0, m) : m \in Edges} \cup {I("IMUL_RCP", 1, 0, 5)},
            {I("ISUB_R", 1, 1, m) : m \in Edges} \cup {I("IMUL_RCP", 1, 0, 6)},
            {I("IMUL_R", 0, 0, m) : m \in Edges} \cup {I("CFROUND", 0, 0, 3)},
            {I("FMUL_R", 1, 2, 0), I("FADD_M", 1, 0, 37)} >>

\* A multiply, work that waits for it, work to move, and a branch over it.
Reorder == << {I("IMUL_R", 0, 1, 0), I("IMUL_RCP", 0, 1, 5)},
              {I("IADD_RS", 2, 0, 0), I("IXOR_R", 3, 0, 0), I("ISTORE", 2, 0, 9)},
              {I("IADD_RS", 3, 4, 0), I("ISWAP_R", 3, 6, 0), I("IADD_M", 3, 4, 3),
               I("FADD_M", 0, 4, 1), I("FSUB_R", 0, 4, 1), I("ISWAP_R", 3, 3, 0)},
              {I("IROR_R", 3, 7, 0), I("ISTORE", 6, 4, 2), I("ISWAP_R", 3, 3, 0),
               I("IMUL_RCP", 3, 1, 4), I("CBRANCH", 6, 3, 2)},
              {I("CBRANCH", r, 0, m) : r \in {3, 2, 0}, m \in {11, 24, 63}} >>

MCFamilies == {AllOps, Pools, Reorder}
FpFamilies == {<< {I("FADD_M", 0, 1, m) : m \in {0, 1}} >>}
AnchorFamilies == {Reorder}
=============================================================================
