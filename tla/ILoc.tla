-------------------------------- MODULE ILoc --------------------------------
(***************************************************************************)
(* The instructions the ARM32 back end emits, and the sequences that move  *)
(* a value between a register and where it lives (ILocArm32).              *)
(*                                                                         *)
(* A value [kind, func, id] is an instruction, a local or global variable, *)
(* a constant or a register variable.  addr says where the values of the   *)
(* frame live (Value::getMemoryAddr).                                      *)
(***************************************************************************)
EXTENDS Sequences, SequencesExt, ArmImm

TMP == 10
FP  == 11
SP  == 13
LX  == 14

NoReg == -1

RegId(v) == IF v.kind = "reg" THEN v.id ELSE NoReg

NoAddr == [base |-> NoReg, off |-> -1]

-----------------------------------------------------------------------------
(* Operands and instructions *)

Operand(kind, n, m, sym) == [kind |-> kind, n |-> n, m |-> m, sym |-> sym]

Blank     == Operand("", 0, 0, "")
R(n)      == Operand("reg", n, 0, "")
Imm(n)    == Operand("imm", n, 0, "")
Lower(n)  == Operand("lower", n, 0, "")      \* #:lower16:n
Upper(n)  == Operand("upper", n, 0, "")
AddrLower(id) == Operand("addr lower", id, 0, "")
AddrUpper(id) == Operand("addr upper", id, 0, "")
Disp(base, off)  == Operand("disp", base, off, "")     \* [base,#off]
Index(base, reg) == Operand("index", base, reg, "")    \* [base,reg]
Label(n)  == Operand("label", n, 0, "")
Symbol(f) == Operand("symbol", 0, 0, f)
List(regs) == Operand("regs", 0, 0, regs)

ArmInst(op, result, arg1, arg2) == [op |-> op, result |-> result, arg1 |-> arg1, arg2 |-> arg2]

Mov(rd, rs)  == ArmInst("mov", R(rd), R(rs), Blank)
Ldr(rd, mem) == ArmInst("ldr", R(rd), mem, Blank)
Str(rs, mem) == ArmInst("str", R(rs), mem, Blank)

-----------------------------------------------------------------------------
load_imm(rs, n) ==
  << ArmInst("movw", R(rs), Lower(n), Blank) >>
    \o (IF NeedsMovt(Bits(n)) THEN << ArmInst("movt", R(rs), Upper(n), Blank) >> ELSE << >>)

load_symbol(rs, id) ==
  << ArmInst("movw", R(rs), AddrLower(id), Blank), ArmInst("movt", R(rs), AddrUpper(id), Blank) >>

(* Wrong: every offset is taken for an immediate. *)
load_base_near(rs, base, off) == << Ldr(rs, Disp(base, off)) >>

load_base(rs, base, off) ==
  IF isDisp(off) THEN << Ldr(rs, Disp(base, off)) >>
  ELSE load_imm(rs, off) \o << Ldr(rs, Index(base, rs)) >>

store_base(src, base, disp, tmp) ==
  IF isDisp(disp) THEN << Str(src, Disp(base, disp)) >>
  ELSE load_imm(tmp, disp) \o << Str(src, Index(base, tmp)) >>

mov_reg(rd, rs) == IF rd = rs THEN << >> ELSE << Mov(rd, rs) >>

load_var(addr, rs, v) ==
  CASE v.kind = "const"  -> load_imm(rs, v.id)
    [] RegId(v) # NoReg  -> mov_reg(rs, RegId(v))
    [] v.kind = "global" -> load_symbol(rs, v.id) \o << Ldr(rs, Disp(rs, 0)) >>
    [] OTHER             -> load_base(rs, addr[v].base, addr[v].off)

store_var(addr, src, v, tmp) ==
  CASE RegId(v) # NoReg  -> mov_reg(RegId(v), src)
    [] v.kind = "global" -> load_symbol(tmp, v.id) \o << Str(src, Disp(tmp, 0)) >>
    [] OTHER             -> store_base(src, addr[v].base, addr[v].off, tmp)

(* Room on the stack for the arguments of calls from the fifth on.         *)
Outgoing(maxFuncCallArgCnt) == 4 * Max({maxFuncCallArgCnt - 4, 0})

allocStack(maxDep, maxFuncCallArgCnt, tmp) ==
  LET outgoing == Outgoing(maxFuncCallArgCnt)
      off      == maxDep + outgoing
      base     == ArmInst("add", R(FP), R(SP), Imm(outgoing))
  IN  IF off = 0 THEN << >>
      ELSE IF constExpr(Bits(off))
      THEN << ArmInst("sub", R(SP), R(SP), Imm(off)), base >>
      ELSE load_imm(tmp, off) \o << ArmInst("sub", R(SP), R(SP), R(tmp)), base >>

-----------------------------------------------------------------------------
IsLabel(inst) == inst.op = ":"

(* Wrong: a label is kept if any instruction follows it. *)
deleteUsedLabelAll(code) == SelectSeq(code, LAMBDA inst : ~IsLabel(inst))

(* A label stays if some branch names it. *)
Stays(inst, code) ==
  IsLabel(inst) => inst.result \in {code[i].result : i \in {j \in DOMAIN code : code[j].op \in {"b", "bl", "bx"}}}

deleteUsedLabel(code) ==
  FoldLeft(LAMBDA kept, inst : IF Stays(inst, code) THEN Append(kept, inst) ELSE kept, << >>, code)
=============================================================================
