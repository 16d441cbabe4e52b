----------------------------- MODULE ArmMachine -----------------------------
(***************************************************************************)
(* A machine that runs the assembly the compiler emits, and the comparison *)
(* with what the IR means (MiniC).                                         *)
(*                                                                         *)
(* Memory that was never written, or lies below a stack pointer that moved *)
(* up since, holds Junk, as an uninitialised variable does for the IR; a   *)
(* function of the library destroys the registers a callee may.            *)
(***************************************************************************)
EXTENDS Compiler

CONSTANT MaxSteps    \* bound: instructions executed

StackTop  == 4000
GlobalsAt == 5000    \* addresses
Exit      == 0       \* return address of the function that is run
Clobber   == -99

Asm == output

At(kind, sym) == CHOOSE i \in DOMAIN Asm : Asm[i].op = kind /\ Asm[i].result = sym

Defined(f) == \E i \in DOMAIN Asm : Asm[i].op = "func" /\ Asm[i].result.sym = f

Load(m, a) == IF a \in DOMAIN m.mem THEN m.mem[a] ELSE Junk

Operand2(m, o) == IF o.kind = "reg" THEN m.regs[o.n] ELSE o.n

Address(m, o) ==
  CASE o.kind = "disp"  -> m.regs[o.n] + o.m
    [] o.kind = "index" -> m.regs[o.n] + m.regs[o.m]

HalfWord == 65536

(* The half of a constant or of the address of a global variable.          *)
HalfOf(o) ==
  CASE o.kind = "lower"      -> o.n % HalfWord
    [] o.kind = "upper"      -> (o.n \div HalfWord) % HalfWord
    [] o.kind = "addr lower" -> GlobalsAt + 4 * o.n
    [] o.kind = "addr upper" -> 0

Goes(m, pc)     == [m EXCEPT !.pc = pc]
Sets(m, r, val) == [m EXCEPT !.regs[r] = val]

(* What was on the stack below the new stack pointer is lost. *)
MoveSP(m, sp) ==
  [m EXCEPT !.regs[13] = sp,
            !.mem = [a \in {b \in DOMAIN m.mem : b >= sp \/ b < m.regs[13]} |-> m.mem[a]]]

Library(m, f) ==
  LET r0   == m.regs[0]
      dead == [m EXCEPT !.regs = [r \in 0..14 |-> IF r \in {0, 1, 2, 3, 12, 14} THEN Clobber ELSE m.regs[r]]]
  IN  IF f = "getint" THEN [dead EXCEPT !.regs[0] = Input(m.in + 1), !.in = @ + 1]
      ELSE [dead EXCEPT !.out = Append(@, r0)]

Executed(m, i) ==
  LET next == Goes(m, m.pc + 1)
      left == Operand2(m, i.arg1)
      right == Operand2(m, i.arg2)
      n    == Len(i.result.sym)
      sp   == m.regs[13]
  IN  CASE i.op \in {":", "func"} -> next
        [] i.op = "mov"  -> Sets(next, i.result.n, left)
        [] i.op = "movw" -> Sets(next, i.result.n, HalfOf(i.arg1))
        [] i.op = "movt" -> Sets(next, i.result.n, HalfOf(i.arg1) * HalfWord + (m.regs[i.result.n] % HalfWord))
        [] i.op = "add"  -> Sets(next, i.result.n, left + right)
        [] i.op = "sub"  -> IF i.result.n = 13 THEN MoveSP(next, left - right) ELSE Sets(next, i.result.n, left - right)
        [] i.op = "ldr"  -> Sets(next, i.result.n, Load(m, Address(m, i.arg1)))
        [] i.op = "str"  -> [next EXCEPT !.mem = (Address(m, i.arg1) :> m.regs[i.result.n]) @@ @]
        [] i.op = "push" -> [MoveSP(next, sp - 4 * n) EXCEPT
                               !.mem = [a \in {sp - 4 * n + 4 * (k - 1) : k \in 1..n} |->
                                          m.regs[i.result.sym[(a - sp + 4 * n) \div 4 + 1]]] @@ @]
        [] i.op = "pop"  -> [next EXCEPT !.regs = [r \in 0..14 |->
                               IF r = 13 THEN sp + 4 * n
                               ELSE IF \E k \in 1..n : i.result.sym[k] = r
                               THEN Load(m, sp + 4 * ((CHOOSE k \in 1..n : i.result.sym[k] = r) - 1))
                               ELSE m.regs[r]]]
        [] i.op = "b"    -> Goes(m, At(":", i.result))
        [] i.op = "bl"   -> IF ~Defined(i.result.sym) THEN Library(next, i.result.sym)
                            ELSE IF m.depth = MaxDepth THEN [m EXCEPT !.diverged = TRUE]
                            ELSE [Goes(Sets(m, 14, m.pc + 1), At("func", i.result)) EXCEPT !.depth = @ + 1]
        [] i.op = "bx"   -> [Goes(m, m.regs[14]) EXCEPT !.depth = @ - 1]

(* The machine stops where there is no code: at Exit, if all is well.      *)
RECURSIVE RunMachine(_, _)
RunMachine(m, fuel) ==
  IF m.pc \notin DOMAIN Asm \/ m.diverged \/ fuel = 0 THEN m
  ELSE RunMachine(Executed(m, Asm[m.pc]), fuel - 1)

(* The registers a caller of Main relies on hold these before the call.    *)
Before == [r \in 0..14 |-> IF r = 13 THEN StackTop ELSE IF r = 14 THEN Exit ELSE -r]

Boot == [pc |-> At("func", Back!Symbol(Main)), regs |-> Before, depth |-> 1, diverged |-> FALSE,
         mem |-> [a \in {GlobalsAt + 4 * i : i \in DOMAIN module.globals} |-> 0], out |-> << >>, in |-> 0]

MachineOutcome(m) ==
  Outcome(m.diverged, m.regs[0], m.out, m.in,
          [n \in Range(module.globals) |->
             m.mem[GlobalsAt + (4 * (CHOOSE i \in DOMAIN module.globals : module.globals[i] = n))]])

-----------------------------------------------------------------------------
(* Properties *)

Assembled == stage = "back" /\ phase = "finished" /\ Runnable

(* The void variables have no bytes in the frame.                          *)
UsesVoid ==
  \E fn \in DOMAIN ircode : \E i \in DOMAIN ircode[fn] : \E v \in Range(ircode[fn][i].args) :
    v.kind = "local" /\ v.id \in Voids(module.varsVector[fn])

(* The assembly of a program does what its IR does: it returns the same    *)
(* value, prints and reads the same, and leaves the same global variables. *)
(* A variable of type void may be declared, but not used.                  *)
AssemblyMeansIR ==
  Assembled /\ ~UsesVoid => MachineOutcome(RunMachine(Boot, MaxSteps)) = Execution

(* A function that returns gives its caller back the stack and the         *)
(* registers r4 to r11, whatever it calls.  (A store to a variable of type *)
(* void at the end of the frame would overwrite the saved registers.)      *)
CalleeSavedRestored ==
  Assembled /\ ~UsesVoid => LET m == RunMachine(Boot, MaxSteps)
                            IN  ~m.diverged => m.pc = Exit /\ \A r \in 4..13 \ {12} : m.regs[r] = Before[r]
=============================================================================
