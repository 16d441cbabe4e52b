-------------------------- MODULE MCCodeGenerator --------------------------
(* Modules of IR as the front ends and the IR generator build them: frames *)
(* on both sides of the limits of immediates (256 slots) and of offsets    *)
(* (1024 slots), calls of built-in and of defined functions, and labels in *)
(* several functions.                                                      *)
EXTENDS CodeGenerator

CONSTANTS f, main, putint

MCMaxInsts    == 26
MCMaxOperands == 6
MaxLocals     == 1024

V(kind, fn, id) == [kind |-> kind, func |-> fn, id |-> id]

MCIRVals ==
  {V("inst", fn, i) : fn \in {f, main}, i \in 1 .. 30}
    \cup {V("local", main, i) : i \in 1 .. MaxLocals} \cup {V("local", f, i) : i \in 1 .. 2}
    \cup {V("global", NoFunc, 1)} \cup {V("const", NoFunc, i) : i \in {1, 70000}}
    \cup {V("reg", NoFunc, i) : i \in 0 .. 15} \cup {V("mem", fn, k) : fn \in {f, main}, k \in 5 .. MCMaxOperands}

MCUses == 1 .. 90

I(op, id, args, target) == [op |-> op, id |-> id, args |-> args, target |-> target, void |-> op \notin {"add", "sub", "call"}]
C(id, callee, args) == [I("call", id, args, V("func", callee, 0)) EXCEPT !.void = (callee = putint)]

Lib == [name |-> putint, builtin |-> TRUE, vars |-> 0, voids |-> {}, code |-> << >>,
        existFuncCall |-> FALSE, maxFuncCallArgCnt |-> 0]

(* The body between the entry and the exit; instruction 2 is the label of  *)
(* the exit, local variable 1 the value returned.                          *)
Fn(name, locals, body, calls, argCnt) ==
  [name |-> name, builtin |-> FALSE, vars |-> locals, voids |-> {}, existFuncCall |-> calls, maxFuncCallArgCnt |-> argCnt,
   code |-> << I("entry", 1, << >>, NullVal) >> \o body
              \o << I("label", 2, << >>, NullVal), I("exit", Len(body) + 3, << V("local", name, 1) >>, NullVal) >>]

one   == V("const", NoFunc, 1)
many  == V("const", NoFunc, 70000)
g     == V("global", NoFunc, 1)
temp(fn, i) == V("inst", fn, i)

(* x = x + x; g = x - 70000; return g, with x the last of n variables.     *)
Frame(n) ==
  LET x == V("local", main, n)
  IN  << Lib, Fn(main, n,
           << I("add", 3, << x, x >>, NullVal), I("move", 4, << x, temp(main, 3) >>, NullVal),
              I("sub", 5, << x, many >>, NullVal), I("move", 6, << g, temp(main, 5) >>, NullVal),
              I("move", 7, << V("local", main, 1), g >>, NullVal), I("goto", 8, << >>, temp(main, 2)) >>, FALSE, 0) >>

Leaf == Fn(f, 2, << I("move", 3, << V("local", f, 1), one >>, NullVal), I("goto", 4, << >>, temp(f, 2)) >>, FALSE, 0)

(* putint(1); putint(x + 1); f(); putint(g) in this order or parts of it.  *)
PutConst == << C(3, putint, << one >>) >>
PutSum   == << I("add", 3, << V("local", main, 2), one >>, NullVal), C(4, putint, << temp(main, 3) >>) >>
Ignored  == << C(3, f, << >>) >>
Twice    == << C(3, f, << >>), C(4, putint, << g >>), C(5, f, << >>),
               I("goto", 6, << >>, temp(main, 2)) >>
Caller(body, n) == << Lib, Leaf, Fn(main, 2, body, TRUE, n) >>

MCInputs == {Frame(n) : n \in {1, 63, 254, 256, 1022, 1024}}
              \cup {Caller(PutConst, 1), Caller(PutSum, 1), Caller(Ignored, 0), Caller(Twice, 1),
                    << Leaf, Lib >>, << Lib, Leaf >>}

-----------------------------------------------------------------------------
(* The sequences of ILocArm32 for words of 16 bits, so that all of them    *)
(* can be tried: on a machine whose movw and movt have halves of 8 bits.   *)

Arm16 == INSTANCE ILoc WITH WordBits <- 16

Words   == 0 .. 2^16 - 1
Numbers == -(2^15) .. 2^15 - 1     \* the int32_t of a constant or an offset
Offsets == {n \in Numbers : n % 4 = 0}
Byte    == 2^8

(* The number the bits of a word stand for.                                *)
Number(w) == MapThenSumSet(LAMBDA b : 2^b, w)

(* The A32 immediates: a byte rotated right by an even number of places.   *)
RotatedBytes == {{(b - 2 * r) % 16 : b \in v} : v \in SUBSET (0..7), r \in 0..7}
Immediates   == {Number(w) : w \in RotatedBytes}

Encodable(word) == {Number(word), (2^16 - Number(word)) % 2^16} \cap Immediates # {}

Misjudged == {word \in SUBSET (0..15) : Arm16!constExpr(word) # Encodable(word)}

(* The compiler takes a number for an immediate exactly if an add or a sub *)
(* has an encoding for it, which the code of a frame relies on.            *)
ConstExprMatchesISA == Selecting("entry") => Misjudged = {}

(* The machine: its registers, the last address that was accessed and what *)
(* was stored there; memory holds at each address a number of its own.  It *)
(* traps at an instruction that has no encoding.                           *)
Cell(address) == (3 * address + 1) % (2^16)

Idle16 == [regs |-> [r \in 0..15 |-> 1000 * r + 7], address |-> -1, stored |-> -1, trap |-> FALSE]

Operand16(m, o) == IF o.kind = "reg" THEN m.regs[o.n] ELSE o.n

Address16(m, o) == (m.regs[o.n] + (IF o.kind = "index" THEN m.regs[o.m] ELSE o.m)) % 2^16

Illegal(i) ==
  \/ i.arg1.kind = "disp" /\ i.arg1.m \notin -4095 .. 4095
  \/ i.op \in {"add", "sub"} /\ i.arg2.kind = "imm" /\ {i.arg2.n % 2^16, (-i.arg2.n) % 2^16} \cap Immediates = {}

Executed16(m, i) ==
  LET Sets(n) == [m EXCEPT !.regs[i.result.n] = n % 2^16]
      left    == Operand16(m, i.arg1)
      right   == Operand16(m, i.arg2)
      address == Address16(m, i.arg1)
  IN  CASE Illegal(i)      -> [m EXCEPT !.trap = TRUE]
        [] i.op = "movw"   -> Sets(i.arg1.n % Byte)
        [] i.op = "movt"   -> Sets(((i.arg1.n \div Byte) % Byte) * Byte + (m.regs[i.result.n] % Byte))
        [] i.op = "add"    -> Sets(left + right)
        [] i.op = "sub"    -> Sets(left - right)
        [] i.op = "ldr"    -> [Sets(Cell(address)) EXCEPT !.address = address]
        [] i.op = "str"    -> [m EXCEPT !.address = address, !.stored = m.regs[i.result.n]]

After(code) == FoldLeft(Executed16, Idle16, code)

(* What a register holds after code; the other registers keep theirs.      *)
Leaves(m, change) ==
  /\ ~m.trap
  /\ \A r \in 0..15 : m.regs[r] = IF r \in DOMAIN change THEN change[r] % 2^16 ELSE Idle16.regs[r]

(* One or two instructions put any constant into any register, whatever    *)
(* was in it, and change no other.                                         *)
Misloaded == {n \in Numbers : \E rs \in {0, TMP} : ~Leaves(After(Arm16!load_imm(rs, n)), rs :> n)}

ConstantLoaded == Selecting("entry") => Misloaded = {}

(* A slot at any offset from the frame pointer, within the reach of a load *)
(* or not, is loaded into the register asked for and stored from it, with  *)
(* no other register than r10 lost on the way.                             *)
LoadsSlot(off) ==
  LET at == (Idle16.regs[FP] + off) % 2^16
  IN  \A rs \in {0, TMP} :
        LET m == After(Arm16!load_base(rs, FP, off)) IN m.address = at /\ Leaves(m, rs :> Cell(at))

StoresSlot(off) ==
  LET m == After(Arm16!store_base(0, FP, off, TMP))
  IN  /\ m.address = (Idle16.regs[FP] + off) % 2^16 /\ m.stored = Idle16.regs[0]
      /\ Leaves(m, TMP :> m.regs[TMP])

(* A frame of any size is taken from the stack, below it the room for the  *)
(* arguments of calls, and fp is left between the two.                     *)
Allocates(size, args) ==
  LET m  == After(Arm16!allocStack(size, args, TMP))
      sp == Idle16.regs[SP] - (size + Arm16!Outgoing(args))
  IN  Leaves(m, (SP :> sp) @@ (FP :> sp + Arm16!Outgoing(args)) @@ (TMP :> m.regs[TMP]))

Misreached ==
  {off \in Offsets : \/ ~LoadsSlot(off)
                     \/ ~StoresSlot(off)
                     \/ off > 0 /\ \E args \in {0, 6} : ~Allocates(off, args)}

SlotsReached == Selecting("entry") => Misreached = {}

-----------------------------------------------------------------------------
(* A frame of 1028 bytes, of 255 variables and two temporaries. *)
LongFrame == {Frame(255)}

(* return f() *)
UsedResult ==
  {Caller(<< C(3, f, << >>), I("move", 4, << V("local", main, 1), temp(main, 3) >>, NullVal),
             I("goto", 5, << >>, temp(main, 2)) >>, 0)}
=============================================================================
