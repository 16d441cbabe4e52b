# A verification project for the MiniC compiler

The repository is a compiler for MiniC, a small subset of C: three
interchangeable front ends build a syntax tree, a generator translates it to
linear IR, and a back end turns the IR into ARM32 assembly. This directory holds
TLA+ models of its core, the TLC configurations that check them, and
machine-checked proofs about them.

## 1. The system

```
main.cpp: options -> front end -> AST -> IRGenerator -> Module (functions, IR) -> CodeGeneratorArm32 -> assembly
                     (Flex/Bison, ANTLR4,     |  uses                     |  uses
                      recursive descent)      v                           v
                                      Module + ScopeStack      InstSelectorArm32 -> SimpleRegisterAllocator
                                      (symbol table)                            -> ILocArm32 (instruction list)
```

The language has `int` globals and locals (no initialisers), `int` functions
without parameters, blocks, assignment, `return`, `+`, `-`, calls, and the
built-in `putint` (one argument, void) and `getint`. It has no control flow but
`return`. The compiler is one thread and compiles one file; nothing is persisted.
So what is hard in it is not concurrency: it is state that several handlers share
and update in turn, code fragments that must end up in one order, error paths
that stop half way, and resources with a limit.

| Component | State | Operations | Interacts with | What makes it correct |
|---|---|---|---|---|
| Symbol table (`symboltable/`) | scope stack, current function, function map and list, globals, constants | enter/leave scope, declare, look up, define function, constants | called by the IR generator; its lists drive the back end | a name denotes the variable of the innermost open scope that declares it; variables are distinct; map and list of functions agree |
| IR generator (`ir/Generator`, `ir/IRCode.cpp`) | recursion over the tree, value and code left in each node, code and attributes of functions | a handler per node kind | symbol table; creates IR objects | the IR means what the program means; no instruction lost; operands available; one exit; illegal programs refused |
| IR objects and use-def graph (`ir/`) | operands and uses that mirror each other, names | add, set, remove, clear operands; delete | IR generator, instruction selector | both directions agree; nothing dangles |
| Register allocator (`SimpleRegisterAllocator`) | bitmap, queue, register number in each value | allocate, claim, free by value, free by number | instruction selector, `ILocArm32` | one holder per register; the three records agree |
| Instruction selector (`InstSelectorArm32`) | position in the IR, allocator, instruction list | a translation per IR instruction | allocator, instruction list | the instructions compute what the IR instruction does; registers free after it |
| Code generator (`CodeGeneratorArm32`) | protected registers, argument moves, frame layout | register allocation, argument adjustment, stack allocation | everything above | slots do not overlap, arguments are not overwritten before they are read |
| Instruction list (`ILocArm32`, `PlatformArm32`) | instructions, labels | loads, stores, frame allocation, removal of unused labels | selector | every immediate and offset can be encoded; a used label stays |
| Flex/Bison front end | state and value stacks of `yyparse`, look-ahead, `ast_root` | shift, reduce, recover | tables, AST constructors | the trees of the grammar; the stack never overflows; every text is answered |
| Recursive descent parser | look-ahead, attribute of the last token, error count | one procedure per nonterminal | AST constructors | the same trees for the same programs; every text ends in a tree or an error |
| ANTLR4 front end | parse tree | the generated parser, then a visitor | ANTLR runtime (not in the repository), AST constructors | the same |
| Driver (`main.cpp`, `utils/getopt-port.cpp`) | option variables, position of getopt in `argv` | analysis of the command line, `compile` | all | any order of options and file is understood; the stages run in order and the IR is released |

`PROJECT.json` lists every component with its status, the hazards at the lines
where they bite, and the lines of source each definition stands for.

## 2. The modules

| Module | What it is |
|---|---|
| `SymbolTable` | `Module` and `ScopeStack`: the table is a record, each method an operator from table to table, each action one of the handlers that call them |
| `Bindings` | abstract specification: block-structured bindings as an environment that is saved and restored whole |
| `IRGenerator` | the recursive translation: one action for what a handler does before its sons and one for what it does after; instances `SymbolTable` for its calls |
| `MiniC` | reference interpreters of trees and of IR, and the properties that compare them |
| `UseGraph`, `UseDef` | the edges between values and instructions (`Value`, `User`, `Use`) as operators, and their methods as a state machine, clearing one edge a step |
| `RegisterAllocator` | `SimpleRegisterAllocator`: methods as operators on the allocator, one action per method |
| `RegisterPool` | abstract specification: every register has one holder |
| `ArmImm`, `ILoc` | which numbers are immediates and offsets (`PlatformArm32`); the instruction sequences of `ILocArm32` |
| `IRModule` | what passes from the generator to the back end: a module of linear IR, its functions and instructions |
| `CodeGenerator` | `CodeGeneratorArm32` and `InstSelectorArm32`: rewriting of calls, frame layout, labels, and the translation of each IR instruction; uses the allocator, `UseGraph` and `ILoc` |
| `Compiler` | composition of `IRGenerator` and `CodeGenerator` with `Module::Delete`, as `compile()` runs them |
| `ArmMachine` | a machine that runs the assembly `Compiler` emits, and the comparison with the IR |
| `AST` | the node constructors of `AST.cpp` that the parsers call |
| `Grammar` | the language of `MiniC.y` as the set of its sentences up to a length, each with its tree |
| `BisonTables`, `BisonParser` | the tables of the generated parser, and `yyparse`: one action each for reading a token, shifting, reducing, accepting, a syntax error, and a turn of its recovery |
| `RDParser`, `AntlrParser` | the recursive descent parser, and the ANTLR parser with the visitor, as functions from a text to a result: nothing interrupts them |
| `FrontEnds` | the three executors on one text |
| `Options`, `Driver` | getopt and `ArgsAnalysis`, one action per turn of their loops; then `compile` makes and runs the executor that was asked for |
| `SymbolTableProofs`, `RegisterAllocatorProofs`, `UseDefProofs`, `IRGeneratorProofs`, `CodeGeneratorProofs`, `BisonProofs` | the theorems about the module each is named for |
| `SequenceLemmas` | facts about sequences that the other proofs need: concatenation, flattening, removal, what occurs in a sequence |
| `FoldLemmas` | what holds of the start of a fold and is kept by each turn holds of its result; instanced once for each loop |
| `MC*` | instances for TLC |

**Composition.** `IRGenerator` instances `SymbolTable`; `CodeGenerator` uses
`RegisterAllocator`, `UseGraph`, `ILoc`; `IRModule` says what the one delivers (`FunctionList`, `DeliversModules`) and the other takes; `Compiler` composes the two, `ArmMachine`
interprets the result. `Driver` composes `Options` and `FrontEnds`. The two halves
meet at the tree: `Grammar` and the parsers give the shapes of the trees with which
`IRGenerator` starts, and it also takes those that only one parser builds.

**Correspondence.** In `SymbolTable` the record `module` has the fields of class
`Module`: `valueStack` of its scope stack, `currentFunc`, `funcMap`, `funcVector`,
`globals`, `constInts`, and `varsVector`, the list of locals of each `Function`.
Objects are identities (`LocalVar(f, i)` is the i-th variable of f), since the
code compares pointers. In `IRGenerator` a frame is one activation of a handler,
`sons` holds for each son visited so far `ast_node::val` and
`ast_node::blockInsts`; `ircode`, `info` are `Function::code` and the function's
exit label, return slot and call statistics. Returning false makes every caller
return false and undoes nothing, so it is one step to `status = "failed"`;
dereferencing a null pointer is a step to `"crashed"`. In `RegisterAllocator`
the record holds the two bitmaps, the queue, and `loadRegId`, the register number
kept in each value; taking the front of the empty queue, which is undefined,
sets `crashed`. In `UseGraph` there is one list per value, because `User` inherits
the list of `Value` and declares none. In `CodeGenerator`, `phase`, `pos` and `turn`
are the position of the loops over functions, instructions and operands. In
`BisonParser` `yyss` and `yyvs` are one sequence of pairs; the table look-ups are
those of `yybackup`, `yydefault` and the end of `yyreduce`. In `RDParser` every
procedure returns the unread tokens, the attribute of the last token with a value
(`rd_lval`), the node, the number of errors, and how it ended: normally, past the
end of the file without ever stopping (`"endless"`), or after the use of a dead
attribute (`"undefined"`). In `Options` an argument is the sequence of its characters.

**Abstractions.** Names, text and logging are left out. In `IRGenerator` type nodes, the name
node of a call and the empty formal parameter list carry no state and are folded into their
parent. Integer arithmetic is exact in `MiniC`, on the same literals for both
interpreters: the generator does no arithmetic, so both sides would wrap alike. A text is
a sequence of token kinds: the scanners are not modelled, and the trees of the front
ends have no names and line numbers. The predictions of the ANTLR parser are those of its
grammar (`PredictUnit`, `PredictStatement`, `PredictUnary`); its runtime is not in the
repository, so what it does after a syntax error ends as `"reported"`.
The three parsers run on equal footing in `FrontEnds`; a file may also fail to open.

The definitions marked `Wrong` are the mistakes that the properties were tried
against: each replaces the definition that follows it, and the property named
for it in `PROJECT.json` then fails.

## 3. What is checked

| Run | Bounds | Shows |
|---|---|---|
| `symbol_table` | 2 variable names, 2 function names (one shared), 3 nested scopes in the global one, 3 variables per list | 188,170 states. Types; scopes hold variables of their own function, name and level; no two names share a variable; scopes and current function go together; function map and list agree; the table implements `Bindings` |
| `register_allocator` | 3 registers, 4 values, anonymous allocations | 496 states, all of them. Bitmap, queue and values agree; no shared register; implements `RegisterPool` |
| `ir_generator` | 6492 programs (below) | 123,199 states. Instructions are neither lost nor taken twice, operands are available, one exit, frame attributes match, IR means what the tree means, illegal calls and redefinitions are refused and nothing else is, the symbol table is used by its rules, and the translation ends |
| `use_def` | 3 instructions, 2 variables, 3 edges | 589,516 states. The two ends of an edge agree on it after any calls; deleting code, in any order of its instructions, frees its edges; clearing ends |
| `code_generator` | 12 modules of IR; every word of 16 bits as an immediate, as a constant and (multiples of four) as an offset | 310 states. The scratch register is never handed out, no register is lost, arguments are in place, slots are disjoint, labels are resolved; what is taken for an immediate is one; the code of `ILoc`, run on a machine of 16 bits, loads every constant, reaches every slot and allocates every frame |
| `compiler` | 433 programs | 40,494 states. From the tree to executed assembly: the assembly does what the IR means, callee-saved registers and the stack are restored, all instructions are released |
| `front_ends` | 22,621 command lines; 4732 files, 2654 of them sentences of the grammar; initial stack of 3, at most 11 | 924,925 states. The command line is understood; the stack of `yyparse` grows in time and it always answers; each parser delivers the tree wherever its property claims one |
| `used_result` | one program | violation: a call whose result is used gets ARG instructions without end |
| `delete_crash` | one program | violation: releasing a module with `f();` accesses a deleted instruction |
| `as_said` | programs of up to 15 tokens | violation: on `int id(){;int id,id;} int id;` four statements of the sources about the three front ends are untrue at once |
| `late_read` | one program | violation: a redeclaration is not refused, and the left operand of an addition is read after the call on its right |
| `epilogue` | one module, with a frame of 1028 bytes | violation: the epilogue adds an immediate that has no encoding |

**Why the bounds are enough.** *Symbol table*: with three inner scopes a name can be
declared in a scope, hidden in the next and declared again in a third; two
functions let one see what the other left. A variable has the size of its type: `Sizes` is {4} in this run, as no method asks
for it, and 4 or -1 (void) where `IRGenerator` instances the table. *Allocator*: one value more than
registers, so the pool runs out, in every mix of values and anonymous holders, the
empty queue included. *Programs of `ir_generator`*: `ExprPrograms` has every expression with one
operator over variables, a literal and calls, and with a second one whose left
operand is a sum with a call in it, next to a function that changes a global;
`ScopePrograms` every sequence of a statement, a block (of two statements, or of one
and an inner block) and a statement, out of seven that declare, redeclare, assign
and use two names; `UnitPrograms` functions defined in either order or twice, called before or after,
recursive, with wrong argument counts, without a return, and trees that only the
hand-written parser builds (a `return` without expression, an assignment without
right side, a bare argument list). Of the 6492, 3116 are translated; the others are refused, or crash on an
undeclared name or a missing son (for 108 the code leaves open which of the two: they read behind the end of a vector).
`Nodes` is the set of the trees that occur in the programs, which the proofs need a name for; TLC checks that
it has the shape the parsers build (`NodesAssumption`).
`MaxVars` (8) and `MaxScopes` (4) are bounds of `SymbolTable` no program reaches;
`MaxDepth` (3) cuts recursion, for both interpreters at the same depth.
*Use-def*: an instruction with edges on both sides, the same value used twice, and
clearing in the middle of a shared list. *Code generator*: frames of 1 to 1024 variables,
on both sides of the last immediate and the last offset; all constants and offsets are tried on words of 16 bits instead of 32,
with halves of 8, where the limits of an immediate (a byte, rotated) and of an offset (4095) are the real ones; calls with no and with one operand, which are all there
are, as functions have no parameters and `putint` has one; `MaxInsts`, `MaxOperands`, `Uses` and `IRVals`
are the room the models have, which no program fills. *Compiler*: sums that need
several temporaries, constants of more than 16 bits, every three of six kinds of
statement, recursion, and the same with variables that the Bison front end makes void (finding 4); `MaxSteps` (400) cuts recursion that does not end, on both sides.
*Front ends*: bodies of up to `BodyTokens` (7) tokens, units of up to `MaxTokens` (13), which
is two functions or a function among declarations; and every text that the removal, replacement or insertion
of one token makes of a program of up to `EditTokens` (8). Every rule of the grammar is in one of them:
lists of two items, arguments and variables, blocks in blocks, sums in parentheses, calls with two arguments. `YYINITDEPTH` and `YYMAXDEPTH` are 3 and 11 where the code has 200 and
10000, so that the stack doubles twice and is exhausted. Command lines have up to
`MaxArgs` (4) of 12 arguments: flags, groups, values adjacent and apart, `--`,
groups that end in a dash, unknown options, and operands, before and behind one another.

`CHECK_DEADLOCK FALSE` is used where the system stops: the compiler ends with an
outcome, the allocator after an undefined operation.

**Fairness.** `IRGenerator` has weak fairness of `Next`, `UseDef` of one turn of its clearing
loop, `Driver` of the loop of `yyparse` and the return of its executor. All are loops or recursive calls on one thread that nothing
else can hold up, so they go on as long as they can take a step. It is what
`Terminates`, `ClearingEnds` and `BisonAnswers` need and all they need.

**SemanticsPreserved** compares observable behaviour: the value of `main`, what is
printed, how many numbers are read, and the final globals; a program that recurses
too deep must do so on both sides. The tree interpreter evaluates operands from left to right, as the
comments of the handlers say. It notes in `raced` when an operand changes a variable that was read to its
left: there the IR reads the new value, and nothing is claimed, as nothing is of a program
that declares a name twice in one scope (`Redeclares`), which should have been refused. `late_read` shows both.
An uninitialised variable, and a function that ends without a
return, have the same arbitrary value on both sides. **AssemblyMeansIR** goes on from there:
with it, assembly and tree agree for the programs of `compiler`. There, results of calls are not used,
because of `used_result`. Programs with a void variable are compiled and released in this run, but nothing is claimed of what
their assembly does (`UsesVoid`): a void variable has no room, so that what is stored in it overwrites its neighbour, or,
where it is the last of the frame, a register that was saved there. Without this precondition TLC finds
`AssemblyMeansIR` and `CalleeSavedRestored` violated.

**BisonDelivers, RDDelivers, AntlrDelivers** compare each parser with the one grammar. `BisonDelivers` says of every text
what becomes of it; the other two claim the tree for the programs whose statements the parser handles, and nothing
of the rest. **SomeFrontEndAsSaid** puts four claims of the sources against what the parsers do (`as_said`). What each parser makes of a text:

| Text | Bison | recursive descent | ANTLR |
|---|---|---|---|
| functions only | tree of the grammar | tree of the grammar | tree of the grammar, if statements are returns, assignments and declarations |
| declarations outside of functions | refused | tree | tree, declarations first |
| `int a, b;` | `b` is void | tree | tree |
| call without arguments | tree | the bare argument list in place of the call | tree, within a statement it visits |
| `;` in a block | tree | refused, unless it is the last of the block (`as_said`) | ends by an exception (`as_said`) |
| blocks and expressions as statements | tree | tree | ends by an exception (`as_said`) |
| no sentence | refused | refused; or accepted, endless, undefined | error reported, and ignored by the executor |

## 4. What is proved

TLAPS proves the following for every value of the constants. Each item names the theorem, what it states, and the inductive invariant behind it.

**Symbol table** (`SymbolTableProofs`), for any names, functions and bounds.

- `ScopesAreSound`: `Spec => [](TypeOK /\ FunctionHasScope /\ ScopesHoldOwnVariables)`, and of
  these `TableIsWellTyped` and `FunctionsHaveScopes` by themselves.
  The inductive invariant is `TypeInv` with the two others. `TypeInv` is the type
  invariant with the domains of the function map and of the variable lists tied
  together. `ScopesHoldOwnVariables` is not inductive
  alone: `LeaveBlock` and `FinishFunction` are told apart only by the scope level,
  and that level 0 means no current function is `FunctionHasScope`.
- `DeclarationsDoNotAlias`: `Spec => []NoAliasing`, a consequence: a variable
  determines, by its record, the scope and the name it stands under.
- `FunctionsCompiledOnce`: `Spec => []FunctionListMatchesMap`.
- `TableImplementsBindings`: `Spec => ImplementsBindings`, a refinement. The mapping reads the stack
  only, so the lemmas say what pushing, popping and inserting in one scope do to what each name is bound to;
  the look-up, which searches from the innermost scope outwards, finds the greatest position that has the name.

**IR generator** (`IRGeneratorProofs`), for every set of programs whose trees have the shape
the parsers build, of any size and depth: `ProgramsAssumption`, `NodesAssumption`, `NullAssumption`.

- `Nesting`: the open handlers are a path in the tree from the root; the open scopes are those of the handlers
  on the path that open one, the current function is the one whose handler is open, and it is registered,
  with its exit label and return slot. All other invariants stand on this one, `Inv`.
  Seventeen actions are too many to go through for each of them, so `EveryKind` shows once that
  a step stops, or starts or ends a function, or enters a node, or leaves one and gives its result
  to its parent, possibly with one or two new instructions at the end; the other
  proofs have one case per kind.
- `TypeCorrect`: `Spec => []TypeOK`, from `Nesting`.
- `EveryInstructionOnce`: `Spec => []NoInstructionLost`. The code in flight is what the open handlers hold,
  from the outermost in; a handler that returns replaces its part of it by the same code or the
  operands swapped, with new numbers behind. `LostInv`.
- `AttributesMatch`: `Spec => []FrameAttributesMatchCode`. `AttrsInv` counts a call that has
  been entered but not emitted, since the code records it on entry.
- `FunctionsExitOnce`: `Spec => []OneExit`. `ExitInv` says of every fragment, wherever it is held, that each jump
  goes to the exit label of the current function and comes directly after a move to its return slot.
- `OperandsThere`: `Spec => []OperandsAvailable`. `AvailInv` says of every fragment that it is closed: it computes its
  temporaries before it uses them, and the rest is registered in the table. This is what lets
  `FinishAssign` put the code of the right side first: the two sides share nothing.
- `DeliversModules`: `Spec => []ModuleDelivered`: when the translation has succeeded, `FunctionList` is a module of IR that
  `IsModule` describes. This is the assumption about its input that the back end's theorems make, so that the
  two halves fit for every program and not for those of the run `compiler` only. It stands on
  `EveryInstructionOnce` and `FunctionsExitOnce`, and on `OrderInv`: what code refers to, wherever the code is
  held, was created before it in the same function; an addition has two operands, as the parsers give it two sons;
  and the list has functions of the map, each once.

**Use-def graph** (`UseDefProofs`), for any number of instructions, variables and edges and any calls.

- `UseListsAgree`: `Spec => []EdgesMirrored`. Inductive once it is known that the two ends of an edge are different
  values (the one list of an instruction holds both directions, so an edge from it to itself
  would stand in it twice), that only instructions are deleted, and that those
  still to be cleared exist.
- `DeletingFreesEdges`: `Spec => []NothingLeaked`, from what is true in the middle of the walk: an edge that must still be freed
  is in the list of an instruction that is still to be cleared. The order in which instructions are deleted does not matter.

**Register allocator** (`RegisterAllocatorProofs`), for any number of registers and values.

- `AllocatorIsConsistent`: `Spec => [](TypeOK /\ QueueMatchesRegisters /\ NoSharedRegister)`,
  by the invariant `Good`: the queue lists the loaded values, once each, in distinct
  registers whose bits are set. The bits are needed for distinctness (a free
  register is held by no value), the queue for the bits (a spill and a free take
  a register off exactly the one value that has it). `AllocatorIsWellTyped` and `QueueIsExact` state parts of it.
- `AllocatorImplementsPool`: `Spec => ImplementsPool`, a refinement: each call changes the
  holder of at most one register, and only as the pool allows.

**ARM32 back end** (`CodeGeneratorProofs`), for any module of IR that `IsModule` describes, of any number of functions,
variables and instructions, and any numbering of edges: `InputsAssumption`. `IsModule` describes instructions that are
numbered in the order of their creation and use only earlier results, and one label, before the exit,
to which all jumps lead. `DeliversModules` proves of `IRGenerator` that this is what it delivers.
`ValuesAssumption` and `PlacesAssumption` say that the null pointer is no value, and that the registers and stack places arguments
are moved to are values; the code makes a value for each of them.

The three invariants below share a base, `CodeInv`. The selector goes through a loop over the arguments
for a call, and through several methods of `ILocArm32` for each instruction; so the lemmas say of every part of it that it
appends plain code, in which are no labels and no branches to labels (`Continues`), touches the addresses of register moves only (`SameSlots`), and leaves the edge lists lists of edges
(`ListsOK`), and `FoldLemmas` carries this through the loops. `CodeInv` adds to it what the instructions of the current function
look like while calls are rewritten (`Rewriting`) and while they are translated (`Translating`).

- `BranchesAreResolved`: `Spec => []BranchesResolved`, by `LabelInv`. The name of a label is the number of labels named so far, so
  that names of different functions differ (`Taken`, `Named`); in the code of one function there is one label, which is there
  as soon as its instruction was translated (`Branching`), and the removal keeps it exactly if a branch stays that leads to it.
- `SlotsAreDisjoint`: `NoVoids /\ Spec => []FrameSlotsDisjoint`, by `FrameInv`: the offset of a variable
  is four times its place in the list, that of a result four times the number of variables and of results before it, counted from
  the end. `NoVoids` says that no variable is of type void: such a variable, which finding 4 makes, has no room of its own, and shares the
  slot of the next one.
- `RegistersGivenBack`: `EnoughUses => (Spec => []AllocatorIdle)` and `ScratchRegisterIsReserved`: `EnoughUses => (Spec => []ScratchRegisterReserved)`,
  by `RegistersInv`. The translations give registers back by value: an addition frees what its
  two operands were loaded to, and it finds its operands as the first two entries of its edge list, the list that also gets
  an edge for each use of its result. So the invariant says that these two entries lead to
  operands (`TwoOperands`, `AddsOK`). In the module as it is delivered (`ConnectedBegins`) they were added first, as results are used only after
  they are computed; the rewriting of calls adds at the end, and deletes only moves. Of the allocator the invariant
  is `Claimed`: outside of a translation nothing is held, and no more than r0 to r4 ever were in use,
  which leaves r10 alone; within a translation, `Held` says which registers which values have.
  `EnoughUses` says that a `Use` can always be allocated, as with `new` in the code: `Uses` is a bound of the runs.

**Flex/Bison front end** (`BisonProofs`), for any text and any depths.

- `StackNeverOverflows`: `Spec => []RoomToPush`: before a state is pushed there is room for it. The invariant adds that the stack
  is a sequence of states that are pushed (`StackOK`): only then is the rule of a
  reduction one of the rules 2 to 37, whose lengths are numbers, so that what is left after popping is
  a stack. The facts about the tables (`DefaultRules` to `Owner`) are proved from
  the tables entry by entry. An entry of `yytable` leads to the final state only where the check table says
  that it belongs to the end of the file; so no reduction does.

The assumptions are those the modules name: the bounds are naturals, there is
at least one register and one instruction, the null values are not values, programs have
the shape that the constructors of `AST.cpp` give them, `1 < YYINITDEPTH <= YYMAXDEPTH`
(200 and 10000 in the code). Facts about what one method
does to each field come first, as lemmas; then one lemma per action or kind of step; the
temporal step is last.

## 5. What is only model-checked

- `UsesSymbolTable`: `SymbolTable` has bounds (`MaxScopes`, `MaxVars`) that a large enough program passes, so that it holds for
  the programs of the run and not for all. What it stands for, that scopes and current function follow the tree, is `Nesting`.
- `SemanticsPreserved`, `RefusesIllegalCalls`, `AssemblyMeansIR`, the parsers but for the stack of
  `yyparse`, and the command line. `MiniC`, `ArmMachine`, `RDParser`, `AntlrParser`, `Options` and `Driver` are recursive, and a module with
  recursive operators cannot be proved about; what an interpreter computes would need induction over the tree.
- `ConstExprMatchesISA`, `ConstantLoaded` and `SlotsReached` say something about every word of 16 bits, which TLC goes through.
- `ArgumentsInPlace` of `CodeGenerator`: it relates the emitted code to the operands that a call had before its rewriting,
  so that an invariant would have to carry both through three loops.
- `CalleeSavedRestored` and `AllReleased`, which need the whole way through the compiler.
- All liveness (`Terminates`, `ClearingEnds`, `BisonAnswers`), which the prover does not handle.

## 6. Findings

1. `used_result`: the loop over the arguments of a call (`CodeGeneratorArm32.cpp:311`) asks `getOperandsNum`
   at every turn, which counts users as well as operands; a use of the result makes it endless.
2. `delete_crash`: the move for the result of a call is deleted (`InstSelectorArm32.cpp:391`) while the use
   list of the call still has an edge to it, which `Module::Delete` follows.
3. `as_said`: the conflict of `MiniC.y` after `T_INT` is resolved for functions, so that no global variable is read.
4. `as_said`: rule `VarDeclExpr` reads a type that was never set (`MiniCBison.cpp:1545`); second and later variables are void, of
   size -1, and get no room in the frame.
5. `as_said`: an empty statement of the recursive descent parser returns no node, which the list of statements takes
   for its end (`RecursiveDescentParser.cpp:399`).
6. `as_said`: `visitStatement` of the ANTLR visitor (`Antlr4CSTVisitor.cpp:170`) has nothing for blocks and expressions as
   statements, and its caller throws.
7. `late_read`: in `g + f()` the variable is read when the addition executes, after the call; the comment at
   `IRGenerator.cpp:381` promises left first. C leaves the order open.
8. `late_read`: `ir_variable_declare` (`IRGenerator.cpp:610`) ignores that `newVarValue` refused a redeclaration, which
   the comment there calls a semantic error.
9. `epilogue`: the epilogue (`InstSelectorArm32.cpp:178`) adds the frame size as an immediate; 1028, for one, has no encoding.

`as_said` and `late_read` each refute several claims with one program: their property is the disjunction of
the claims, which is violated only where every one of them is.

Observed on the way, without a run of their own:

- `SimpleRegisterAllocator.cpp:70` spills the oldest value of the queue; its comments say the latest.
  `ScratchRegisterReserved` and `AllocatorIdle` show that the selector never needs a spill.
- `ir_leaf_node_var_id` (`IRGenerator.cpp:560`) succeeds for an undeclared name, with a null value that
  `User::addOperand` dereferences. `ir_return` (`IRGenerator.cpp:525`) likewise for a return without an expression,
  and `ir_assign` (`IRGenerator.cpp:465`) reads the second son of `x = ;`, which the recursive descent parser
  builds with one.
- `compileUnit` of the recursive descent parser (`RecursiveDescentParser.cpp:672`) leaves its loop at an unexpected token without
  an error: `int main(){} }` is accepted, where the comment at line 630 has the end of the file.
- In the recursive descent parser a name or type that is followed by another token with a value is
  read after `rd_lval` was overwritten (`a b;`), and `int a` at the end of the file is not left (`RDFaults` says where this can happen).
- `getopt-port.cpp:253` permutes arguments when POSIXLY_CORRECT is set, which should switch permutation off;
  `ArgumentsUnderstood` shows that `ArgsAnalysis` copes with both.
- The local `module` of `compile` hides an outer one (`main.cpp:294`), so that `delete module` at the end deletes a null pointer, and
  `module->Delete()` is only called when assembly is made.

## 7. What is not modelled, and what could follow

- The scanners (`MiniC.l` and its generated code, `MiniCLexer`, `RecursiveDescentFlex`) work on characters; texts
  here begin as tokens. With them line numbers, literals of 2^32 and more, and invalid characters are left out.
- The ANTLR runtime is not part of the repository; where its error recovery begins, the model ends.
- `Graph.cpp` (drawing), the text of IR and assembly, names (`renameIR`) and logging: output without
  state that the compiler reads again. `free_ast`: called once, on a tree nothing else uses.
- `utils/Set.cpp` and `leaStack`: nothing calls them. Types: constant objects.
- Build files, scripts and sample inputs.

What could follow: a proof of `ArgumentsInPlace`, and a scanner in front of `RDParser`.
