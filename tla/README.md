# A verification project for tinyC

tinyC compiles a subset of C to x86-64 assembly: `src/main.c` lexes and parses one
file, runs four semantic passes over the syntax tree, lowers it to a three-address
IR, generates assembly over pseudo-registers, gives every pseudo-register a stack
slot, rewrites what the hardware cannot encode, prints the result and hands it to
`cc`. One run is sequential: no threads, no retries.
What is hard about it is that a mistake is silent: every pass hands a data structure
to the next, and a wrong operand order, a stale scope flag, a misplaced label or an
off-by-one in the frame yields a program that assembles, runs, and computes something
else on one path in a thousand. What outlives a run are its files, next to the source,
and those are shared with other runs, with editors, and with whoever interrupts it.
The specifications here state what the passes promise to each other and to the
programmer, check it on families of small programs, and prove, for every text, that it is cut into the right
tokens, for every nest of scopes that names are resolved as C says, for every IR function that the code generated for it does what
it says, and what the driver leaves behind.

File paths below are relative to the repository's `src/` directory unless they start
with `tests/` or `README`.

## 1. Inventory

| Component | Files | State it keeps | Operations |
|---|---|---|---|
| lexer | `lexer/token.c` | position in the text, token list | `tokenize_file`, `tokenize`, the table of punctuators |
| parser | `parser/parser.c:1-666` | position in the token list | `parse_program`, precedence climbing, one function per construct |
| variable resolution | `parser/parser.c:667-1015` | `VarMap` copied per scope, `RESOLVE_COUNTER` | `resolve_variables` and what it calls |
| typechecking | `parser/parser.c:1297-1450` | one flat `SymbolTable` | `typecheck` |
| labels | `parser/parser.c:1053-1295` | enclosing break and continue labels, `LABEL_COUNTER`; label map of a function, `GOTO_LABEL_COUNTER` | `resolve_labels`, `resolve_goto_labels` |
| IR lowering | `ir/ir.c` | instruction list, temporary and label counters | `emit_ir`, `ir_program_destroy` |
| code generation | `codegen/codegen.c`, `codegen/x86/` | instruction list, `OperandMap` (slots, `stack_offset`) | `codegen`, `rename_registers`, `allocate_stack` |
| assembly output | `codegen/emit.c` | none | `emit_asm` |
| driver | `main.c` | arguments, stage, what is open or allocated; files on disk | the order of the above, `fopen`, `system("cc ...")`, `remove`, the frees before each return |
| AST | `parser/ast.c`, `parser/ast.h` | none | constructors, recursive frees |
| `common/`, `strlib/` | lists, optionals, internal errors, strings | none of their own | macros around `realloc` |

How they interact: each pass is called once by `main`, reads the structure the last
one left and either rewrites it in place or builds the next. The conventions
that cross components, and are written down nowhere, are where the risk sits:

* *names*: the resolver makes `x.N`, the label passes `loop.N`, `l.LN`, and lowering
  `var.N`, `label.N`; all of them end up as strings in one file;
* *labels*: the label pass names a loop, lowering derives the targets of `break`,
  `continue`, `case` and `default` from that name;
* *the stack*: code generation emits pushes and paddings assuming that `%rsp` is
  aligned, `allocate_stack` makes that true by rounding the frame, and the slots given
  out by `rename_registers` are safe only as long as that frame covers them;
* *ownership*: a string of the IR may be shared by two instructions and by the assembly,
  so `main` frees the IR only where it stops after it;
* *files*: the `.s` file and the executable carry the name of the source; the next run on
  that source finds what this one left.

What makes each part correct:

* lexer: a token is never shorter than it could be, and every text is decided;
* parser: reads a program as C's grammar groups it, accepts nothing else, and answers
  malformed text with a message;
* resolution: accept exactly what C's scope rules accept; one name per variable;
* typechecking: reject a wrong arity, a function used as a variable and the reverse;
* labels: every jump reaches exactly one label, of its own function, and it is the one
  C prescribes;
* lowering: the IR makes the same calls in the same order with the same values, ends
  as the source ends, and does not run for ever where the source does not;
* code generation: the assembly does what the IR says, is accepted by the assembler,
  aligns `%rsp` at calls, gives back what it takes, and never lets two variables meet;
* driver: exit code 0 means that the output of the text that was read is there; a failure
  leaves nothing half-done; a run ends; what it opens and allocates is released.

The hazards, each at its line, are in `PROJECT.json`, with the properties that watch
over them.

## 2. Plan

Order of work; the most important behaviour (what the back end does to a value) first.

1. `Words`, `Ir`, `IrMachine`: machine words, the IR and its meaning. *Done.*
2. `X86`, `Backend`: the assembly and the three passes. *Done, with proofs.*
3. `X86Machine`: the processor running what `Backend` produced, implementing
   `IrMachine`. *Done; the stack properties and the implementation proved.*
4. `Ast`, `Resolver`, `Typechecker`, `Labelling`, `Lowering`: the passes over the tree. *Done.*
5. `CSemantics`, `CConstraints`, `Translation`: what C says, and the front half of `main`
   compared with it; what `ir_program_destroy` frees. *Done.*
6. `Tokens`, `Lexer`, `Parser`, `CSyntax`, `Frontend`: from a text to a tree. *Done; the lexer
   with proofs.*
7. `Driver`: runs of `main`, their files, kills and edits. *Done, with proofs.*
8. `VarMap`, `Scopes`, `LexicalScopes`: the scope maps with their flags, copies, capacities and counter as a
   state machine without recursion, implementing C's rules. *Done, with proofs.*
9. Still to write:
   * the same for the label passes, so that `JumpsLandOnce` can be proved for every program;
   * destruction of trees, with the owner of every string;
   * storage for file-scope variables, once the code gives them any.

Abstract specifications: `IrMachine` is the one the generated code implements;
`LexicalScopes` is the one the scope maps implement; `CSemantics` and `CConstraints` play that part for the passes over the
tree, `CSyntax` for the parser.

Which module composes which: `Frontend` extends `Lexer`, `Parser` and `CSyntax`;
`Translation` extends the passes, `CConstraints` and `CSemantics`, and executes the IR with
`IrMachine`; `X86Machine` extends `Backend` and instantiates `IrMachine` as
what it implements; `Resolver` and `Scopes` both extend `VarMap`, and `Scopes` instantiates `LexicalScopes` as
what it implements; `IrRules` is extended by both halves; `Driver` stands by itself and knows of a text only which stage refuses it.

## 3. The back end

**`Backend`** (with `Ir` and `X86` for the two instruction sets) models `codegen.c` on
one function. Each of the three passes is a loop over a list, and an action is one
iteration: `SaveParams`, `GenInstr`, then `CallBegin`, `CallPush` (one argument) and
`CallFinish` for the expansion of `IR_FUNCALL`, `EndCodegen`; `RenameInstr`,
`EndRename`; `FixInstr`, `InsertFrame`. `code` is the list `codegen_function` builds
and `rename_registers` edits in place, `opmap` the operand map with its array's
capacity, `fixed` the list `allocate_stack` builds. `depth`, `from` and `fixedFrom` are
history: bytes taken by the call expansion under way, and the IR instruction every
element stems from. Linked lists are sequences; the assembler's rules are `Encodable`.

**`X86Machine`** runs `fixed`: registers, `%rsp`, 4-byte words of memory addressed from
`%rbp`, and the flags as the pair of values last compared. `setcc` writes the low bits
of a word only, `idivl` divides `%edx:%eax` and traps, a call clobbers every register
but the ones the ABI preserves and everything below `%rsp`, and reads its arguments
where the ABI puts them. Calls are external and return any word.

**`IrMachine`** is what the IR means, one instruction per step. `ImplementsIr`
(`Abstract!IrSpec`) is the refinement: between two IR instructions every variable that
has a slot holds in the slot what the IR says it holds, calls have the same name and
the same arguments, branches go the same way and the result is the same. In the middle
of the instructions of one IR instruction the mapping shows the state before it, kept
in `saved`, so that intermediate moves are stutters.

### Runs

| Run | Input | Shows |
|---|---|---|
| `backend_passes` | all functions of two instructions that between them cover every kind and every combination of operand kinds the fix-ups tell apart; two calls of 0 to 9 arguments, with 0 or 7 parameters | `TypeOK`, `SlotsDisjoint`, `SlotsNeverMove`, `CallsBalanced`, `AllEncodable` |
| `x86_implements_ir` | every operator on distinct, equal and constant operands into a fresh variable or its own left operand, a loop, a branch, a function without return; two calls in a row of 0, 5..8 and 1, 7, 8 arguments; constants on the stack; 9 parameters passed on in another order | `ImplementsIr`, `AlignedAtCalls`, `StackBalanced`, `SlotsStayReserved` |
| `illegal_operands` | a constant divisor, a shift by a variable, and additions beside them | `AllEncodable` fails: see section 8 |

Bounds. `InitialCapacity` is 1 instead of 128, so that the operand map is doubled
several times in each run. `WordBits = 3` makes words of -4 .. 3: every operator wraps
around, `-4 / -1` traps, and the values of two parameters can be enumerated; nothing in
`codegen.c` depends on the width (the constants it computes are offsets and counts, which are
not wrapped here). `LowBits = 1` makes the byte `setcc` writes a proper part of a word.
Nine arguments reach no, one, two and three stack arguments: both parities and the
order of more than two. Two instructions suffice because a pass treats each instruction
by itself, but for the operand map, which the theorems cover for every length.
`Environments` gives a function all values of both its parameters if it calls nothing; in
a function with calls one parameter differs from all others (`OneHot`), so that a value that
arrives in the wrong place is seen. `Garbage`, what is in a word nobody has written or a call has
clobbered, is -3 or 2. `Addresses` is the part of the stack that is modelled, more than any of the
functions touches. Shift amounts lie within the word, as C demands. What `>>` gives for a negative
number C leaves to the implementation; here it is what `shrl` does (`ShiftRight`), for the IR as well.

No fairness is assumed of the back end and no liveness is claimed of it: its loops walk
lists that do not grow under them, and an endless loop of the compiled program is one of
its legal behaviours. Code generation emits no jump that is not a jump of the IR.

## 4. The passes over the tree

**`Ast`** gives the nodes of `ast.h` as records; an `Optional` is a sequence of length 0
or 1; a name is a sequence of strings, so that `x.3` is `<<"x", ".", 3>>` and
collisions of generated names are collisions in the model too.
**`Resolver`**, **`Typechecker`**, **`Labelling`** and **`Lowering`** are the passes as operators,
one per C function: a pass takes the tree and the state it threads through (the scope
map, the counter, the table) and returns the tree it leaves and whether it went on or called `exit(1)`.
They are recursive because the tree is. `Lowering` also says what `ir_program_destroy`
frees, and at which instruction (`Destroyed`).

**`Translation`** is the front half of `main` as a state machine: `RunResolveVariables`,
`RunTypecheck`, `RunResolveLabels`, `RunResolveGotoLabels`, `RunEmitIr`, in the order
of `main.c:94-107`, each going to "rejected" where the code exits. `Begin` then picks one of
the IR functions and arguments for it, and `RunIr` and `RunCall` execute it with
`IrMachine`'s actions, the results of calls being chosen step by step.

**`CSemantics`** says what the source means: an evaluator with lexical environments in
which a variable lives at the place of its declaration, `break` and `continue` are
caught by the statement around them and `goto` searches for its label. It shares no
definition with the passes. **`CConstraints`** says which programs are valid in terms of scopes and
positions in the text, not of maps and counters.

**`VarMap`** holds the operations on scope maps that `Resolver` is built from: `varmap_copy`, `varmap_get`, the entries
`resolve_declaration` makes, the conflict test and `make_unique_name`. **`Scopes`** builds a second model of `resolve_variables` from
them, a state machine that needs no tree: `maps` are the `VarMap`s on the C stack, the file's first, `rooms` the capacities of
their arrays, `counter` is `RESOLVE_COUNTER`, `seen` the map a prototype's parameters are put in. An action is what the
pass does at one place of a tree: `BindGlobal`, `BeginFunction`, `DeclareParam`, `EnterScope` and `LeaveScope` (a compound
statement, a loop, the clauses of a switch), `DeclareLocal`, `DeclareExtern`, `Use` of a name. Which comes next is left open, so that every
tree is a walk of the model (and walks that are no tree besides, which only makes the claim stronger). Errors that are not about names, a function
in a function and an assignment to something that is no variable, stay with `Resolver`, as do prototypes in a block, which the pass skips.
`at` and `written` are history: the identifier met last, and the one put into the tree for it.

**`LexicalScopes`** is C's rules with no map, flag, copy or counter in sight: a stack of functions from names to objects, a use stands for what the
innermost scope that declares it says. `ImplementsLexicalScopes` is the refinement: a scope is what the entries marked
`is_cur_scope` of its map say, the last entry for a name counting (`ScopeOf`), and an object is read off the name in the
resolved tree (`ObjectOf`), so that the step `Use` holds only if the name written is that of the object C means. In one thing the
rules are those of the code and not C's: a name of the file is known above its declaration too, as the comment at `parser.c:987` has it.

### Runs

| Run | Programs | Shows |
|---|---|---|
| `translation_meaning` | all binary, unary, assignment, conditional and call expressions over 7 atoms, 4 of them with effects; nested `&&`/`\|\|`/`?:`; compound assignments as statements; shadowed names; variables a clause of a switch shares with those after it, reached by falling through and by a jump past the initialiser; four kinds of loops around branches and switches that hold every kind of jump, loops in loops, loops that call nothing, five shapes of `goto` | `MeaningPreserved`, `LoweringKeepsTheRules`, `ExecutionEnds`, `TypeOK` |
| `translation_scoping` | three items out of nine (declarations, `extern`, uses, blocks, labels, jumps) in four kinds of blocks; wrong calls, redefinitions, redeclarations; two functions with the same names | `AcceptsExactlyTheValid`, `DistinctIdentities`, `JumpsLandOnce` |
| `scopes` | two names; any order of declarations, uses and scopes | `ImplementsLexicalScopes`, `EntriesFit` |
| `compound_assignment_value`, `variable_named_var`, `ir_destroyed_twice` | a few programs each | a documented claim that fails: section 8 |

`IrRules` is the seam between the two halves: what code generation relies on beyond the shape of the
instructions (constants are ints, an operator never writes over its right operand, a label is placed once).
`LoweringKeepsTheRules` checks that `emit_ir` keeps it, `X86Machine` assumes it.

`MeaningPreserved` compares at every call and at the end: whatever the called functions
answer, the calls made so far are those of the source with the same argument values, and
the execution ends in the same way with the same value. Executions that are undefined in
C (a variable read before it has a value) are exempt, and expressions whose value C leaves
to the order of evaluation are not among the inputs (`Sequenced`).

Bounds. `MaxCalls` bounds the calls of one execution (5): the loops of the
programs are driven by what calls return (0 or 1), so each path of two rounds and an exit
is reached. `MaxRounds = 12` bounds the rounds of the reference evaluator, more than any of the executions
takes within `MaxCalls`. Arguments are 0 and 2. Programs have one or two functions,
because apart from the counters and the file-scope table, the passes treat each function
by itself. An execution that reaches `MaxCalls` stops there, which is why `Finished` may stutter.

In `scopes` the maps have room for one entry at first instead of 16 or 8, so that each of them grows, and copies of a map that has
just grown grow again. Two names, four maps inside one another (file, function, two blocks), maps of up to five entries and three renamed
variables are enough for a name to be shadowed twice, to be
found beyond entries for the other, to be taken up by `extern` in a block between two variables of the same name, and to come back when a scope is
left. An action that would exceed a bound is not taken. The theorems of section 7 need none of the bounds. No fairness is assumed: the pass ends with the tree.

Fairness: `WF(RunIr \/ RunCall)`, a program that runs is not suspended for ever. Under
it `ExecutionEnds` says that the IR ends or asks for one more call than the run allows; the sources of
the run are chosen so that none loops for ever without a call.

## 5. From a text to a tree

**`Lexer`** is `tokenize` as a state machine over a text, a sequence of characters: an action is
one iteration of its loop, one per branch: a word, a literal, white space, a punctuator,
and the character that is none of these. `PunctLookup` takes the first entry of `PUNCT_TABLE` that
fits, as `punct_lookup` does, and the table (`Tokens`) keeps the order of the code. A literal is
accumulated in an `int` of `WordBits` bits. `spans` is history: where each token was read from.
`IsLexeme` says what C takes for a token without looking at the table's order or at the loop. `LexSpec` is
the lexer by itself.

**`Parser`** is the recursive descent, one operator per C function over the token list and
a position. What a function returns is the tree and the next position, or how it stopped:
"rejected" (a message and `exit(1)`), "ice" (`abort` through the macros of `common/ice.h`) or
"undefined": `current()` does not look whether there is a current token, so where a
decision is taken behind the end of the list anything may follow. Comparisons that reject at the
end of the list as well (`expect_separator`, `expect_keyword`) are kept apart (`Expect`, `Followed`).

**`CSyntax`** writes a tree the way C's grammar does: one tier per expression production of the
standard, with the parentheses and the spaces that are needed and no others. It knows nothing of
precedence numbers or climbing; it shares the tree and the spellings with the parser and nothing else.

**`Frontend`** composes them: a text is tokenized step by step (`Tokenize`, `TokenizeFails`),
then parsed in one action, as nothing else runs meanwhile. A text is either written from
a tree (`meant`) or arbitrary.

### Runs

| Run | Texts | Shows |
|---|---|---|
| `frontend` | written from trees: every operator inside every other, in every place, one operator of each tier between two others; statements two deep, all shapes of `for`, dangling `else`; declarations. Arbitrary: all strings of up to 3 characters of 10 and 4 of 6, literals around the limits, and up to 3 tokens of soups of expressions, statements and clauses | `LongestMatch`, `RoundTrip`, `NothingElseAccepted`, `EveryTextIsDecided` |
| `malformed_input` | an operator that is no unary one where an operand should be; a text that ends early | `MalformedIsDiagnosed` fails: see section 8 |

Bounds. `WordBits = 8` makes 127, 128, 255 and 256 the literals at the limits. Three operators in a
row are enough for associativity and precedence, since the climbing compares
the next operator with one minimum; two statements, one in the other, are enough for `else`, which is the only construct
that could belong to either of two. Soups of three tokens miss one, double one or swap two around a valid text.
`NothingElseAccepted` compares what was accepted with what `CSyntax` writes. The soups hold no parameter lists, where the parser takes
`while` for a type (section 8), and no specifiers in another order than `static int`: `int static x` is C as well
(`parser.c:483`), but not what `CSyntax` writes.

Fairness: `WF(Tokenize \/ TokenizeFails \/ Parse)`, the compiler is not suspended for ever.
`EveryTextIsDecided` then says that no branch of the loop of `tokenize` stays where it is.

## 6. The driver

**`Driver`** is `main` as a process among others. The actions follow the text of `main`: `ReadStage`,
`ReadHelp`, `ReadSource`, `ReadOther` (one argument), `OpenSource`, `LexFails`, `Lex`, `Parse`
(parser and semantic passes, which `exit` or abort by themselves), `EmitIr`, `Leave` (the returns after
`--lex`, `--parse`, `--ir`), `Codegen` (with the passes and the name of the `.s` file), `OpenAsm`, `OpenAsmFails`, `EmitAsm`, `Assemble`
(`system("cc ...")`), `Cleanup` (`remove` and the last return). `files` maps a path to what is there: nothing, a source,
an empty file, the assembly or the executable of a text. `held` is what a run has open or allocated, `misused` whether it
freed something it did not hold (each of them enters `held` where the code gets it, so on every failure path each free counts), `found` (history) its files as they were when it started.

What the stages do with a text is its `Fate`: the stage that refuses it ("lex", "parse", "ice",
"assembler"), "destroy" if `ir_program_destroy` aborts on it, or "fine"; the other sections are about which texts those are. The
environment may start a run (`Invoke`), save another text into a source (`Edit`) and kill a run between any two
steps (`Kill`); `cc` may fail for reasons of its own, and may or may not have removed the old executable; `fopen` of the `.s` file may fail.

| Run | Bounds | Shows |
|---|---|---|
| `driver` | 2 processes, 2 runs, 1 edit; `p.c` with a text of each of the six fates, `q.c` with one that compiles, `r.c` missing; 12 command lines with every stage, two stages, two files, no file, `--help` | `EverythingReleased`, `ExitZeroDelivers`, `FailureLeavesNoTrace`, `EveryRunEnds` |

Two runs are enough for one to find what another has left (a killed one, one that failed, one of an older text), or
for two on different sources to interleave; the theorems hold for any number of processes, runs and edits.

Assumed of the surroundings: a write is complete (`main` looks at none, and a full
disk would show in `emit_asm`); two runs over the same source do not overlap, since they would share
the `.s` file; only sources are edited, and no source has the name of an output of another
(`OutputsAssumption`; compiling `a.c.c` writes the executable to `a.c`); a killed run leaves the files as they are.

`ExitZeroDelivers` says nothing about the `.s` file after a full run: `README.md:153` says one is emitted and `main` removes it
(section 8). That a failed run leaves none is `FailureLeavesNoTrace`'s.

Fairness: `WF_vars(Step(p))` for every process: a run that was started goes on. Nobody has to
start, edit or kill anything. `EveryRunEnds` rests on it, and on the loop over the arguments going forward.

## 7. What is proved

Proofs about the back end hold for every set of variables, every set of IR functions over them (any number
of instructions, parameters and arguments), every initial capacity and, for the processor, every word
width. They use only the assumptions named in the modules, which TLC evaluates in the runs:

* `FunctionsAssumption`: the functions are sequences of IR instructions; `CapacityAssumption`: the map is created
  with room for one entry or more (with capacity 0, doubling would never make room); `WordBitsAssumption`: a byte is a proper part of a word;
* `ContractAssumption`: the functions keep `IrContract` of `IrRules`. `emit_ir_expression` gives every operator's result a temporary
  (`ir.c:194`, 206, 369) or the left operand (lines 183, 190, 221), and `generate_label_name` and the label passes never give a label twice.
  `LoweringKeepsTheRules` checks this of what `Lowering` produces. A program that breaks it is one with a variable called `var` (section 8): `1 + var`
  may be lowered to `var.0 = 1 + var.0`, whose code adds 1 and 1;
* `EnvironmentsAssumption`: callers pass words, and what nobody wrote is a word;
* `ArgumentsAssumption`, `PathsAssumption` and `OutputsAssumption` for the driver;
* `NamesAssumption` and `RoomAssumption` for the scopes: an identifier has no dot in it, and a map is created with room for an entry.

`CodeImplementsIr` has one hypothesis more, `Wide`: every multiple of 4 is an address. The runs model a finite part of
the stack; the theorem is about programs whose stack does not overflow.

**The passes** (`BackendProofs`)

* `SlotsAreDisjoint` (`SlotsDisjoint`). That two slots do not overlap is not inductive:
  nothing in it says that the next slot is free. `MapInv` adds that all slots lie in the
  bytes from `stack_offset` to `%rbp`, that `stack_offset` is a non-positive multiple of 4, and that the
  size is within the capacity. `PutPreserves` shows it of one operand, `PutOperandsPreserves` of an
  instruction; `FrameRounds` shows that the rounding covers `stack_offset`.
* `SlotsAreStable` (`SlotsNeverMove`), an action property, from the same invariant: `Put`
  extends the map (`Extends`).
* `CallsAreBalanced` (`CallsBalanced`). `CallInv` says how deep the stack is when the push loop is
  at argument `arg`: the padding plus 8 bytes for each argument pushed. `CallBytes` turns
  this, at the end of the loop, into a multiple of 16 and the bytes that are given back.
* `TypeCorrect` (`TypeOK`). `TypeInv` is `MapInv`, `CallInv` and the types of the lists;
  one lemma for each function of `codegen.c` says that it yields well-formed
  instructions. It needs `CallInv` because an argument is one only for an index within the call's arguments, and
  `MapInv` because a renamed operand is a stack operand only if its offset is an integer.

**What the assembler accepts** (`BackendProofs`)

* `OutputEncodable` (`AllEncodable`), under the hypothesis `AllSupported`: no division by a
  constant and no shift by a variable. Without it the theorem is false, and `illegal_operands` shows how.
  What codegen leaves is `Fixable` (only sources are immediate, shift amounts always are); renaming keeps that and leaves
  `NoPseudo`; the fix-up of an instruction that is both yields `Encodable` ones.

**The stack of the running program** (`BackendLayout`, `X86Steps`)

That `%rsp` is aligned at a call, when control reaches it along any path, is a statement about an execution; what the
passes do is static. The bridge is a *depth map* `d` from positions of the instruction list to bytes:
`d[k]` is what has been taken off `%rsp` before instruction `k`. It goes up and down by what each instruction takes; it is a
multiple of 16 at every `call`; it is 0 at every jump and label, and wherever the code of one IR instruction meets that of another. `BackendLayout` follows it through the
passes: `codegen_instr` extends it (`Leads`), the call expansion leads from 0 through the padding and the pushes back to 0, renaming keeps
the kinds of instructions, the moves `allocate_stack` inserts take nothing, and the frame shifts the map by its size, a multiple of 16
(`FrameDepths`). `X86Steps` then has `MachineInv`: `%rsp` is minus the depth at `pc`. A jump goes from depth 0 to depth 0, so every path keeps it.

* `CallsAreAligned` (`AlignedAtCalls`), `StackIsBalanced` (`StackBalanced`) and `SlotsAreReserved` (`SlotsStayReserved`),
  the last from `MapInv` and the frame's size.

**Machine words** (`WordProofs`)

Words are defined by recursion on their width, and the provers have no induction over a formula. They have well-founded
induction over a *set*: `Induction` derives from it that a set with 0 and every successor is all of `Nat`, `Recursion` that the recursive function
the module defines exists and obeys its equation (`Pow2Law`). The rest is arithmetic: that each operator returns a word (`UnopWord`,
`BinopWord`), that `cdq` and `idivl` compute the quotient and the remainder of words and trap exactly where C's division has no value
(`SignExtended`, `TrapsWithoutQuotient`), and that `setcc` into a cleared word gives 0 or 1 (`SetLowBitsOfZero`).

**The generated code, instruction by instruction** (`BackendLayout`)

A *place* says which block of code an instruction belongs to and where it stands in it: the n-th of the parameter moves, of IR instruction `at`,
of the beginning, an argument or the end of a call. `Successor` walks the places in the order of the code, `Source` is the
instruction at a place. A *spot* is one of the instructions `allocate_stack` leaves of it. `LayoutInv` follows the walk through code generation
and renaming, `ListingInv` through the rewriting.

* `OutputIsTheCode`: when the passes are done, the list that `emit_asm` is handed is `Printed(h)`: a walk `h` over spots, from the frame to the end of
  the function, with exactly the rewritten instruction at each of them and `fixedFrom` naming the IR instruction. The three passes lose, repeat and reorder
  nothing. No run checks this one: `h` is a function TLC would have to guess.

**The generated code does what the IR says** (`X86Steps`, `X86Refinement`)

* `CodeImplementsIr` (`ImplementsIr`): every behaviour of `MachineSpec` is one of `IrMachine` under the mapping of section 3.

`ImplementsIr` is not about states, so the work is in the invariant that makes each step a step of the IR or a stutter. `RefinementInv` consists of
the invariants above (`PassesInv`), of `Waiting` (until the passes are done the caller's values are where it put them) and, once they are,
of a walk `h` with the processor `At(h[pc])`:

* `Holding(p)` says what is where at place `p`: every slot holds what the IR says of its variable, except the one the current
  block has already written (`InFlux`); the parameters still to be saved are where the caller put them (`Given`); inside the code of an
  operator the register, the flags or the destination hold what has been computed so far (`Underway`); inside a call the
  registers and the pushed words hold the arguments loaded so far (`InRegisters`, `Pushed`);
* `Scratch(c, o)` says what `%r10d` and `%r11d` hold between the instructions that stand for one.

Three kinds of steps then remain. One that prepares an instruction changes only a scratch register (`Prepares`), and no block names
one, so `Holding` is kept. One that performs an instruction within a block leads from `Holding(p)` to `Holding` of the next
place, unseen by the IR. The last one of a block makes slots, `lastCall`, status and result what one step of `IrMachine` makes of them. Where a
write to a slot is to leave the others alone the proof uses `SlotsDisjoint`; where a push or a callee is to leave slots and
pushed words alone, `SlotsStayReserved` and the depth map; where a jump is to land on the code of the IR's label, that
no block but a label's holds one (`NoLabels`) and that labels are placed once.

The theorem needs nothing of what the assembler accepts: `idivl $2` divides by 2 in the model; that no assembler
takes it is `OutputEncodable`'s concern.

**The lexer** (`LexerProofs`)

* `TextsAreReadAsC` (`LongestMatch`): of every text, of any length. The runs reach texts of a few characters; the theorem also says it of
  every token read so far, not only of the last (`EveryTokenWellRead`).

The steps rest on what the helpers return. A run stops at its first character outside the class, which is the least element of a set of
numbers (`Smallest`, `RunEnds`). `PunctLookup` returns the first entry that fits, and no longer one fits because the table goes from long to
short (`PunctsShrink`, `LookupFinds`); a word or a number is not cut short by a punctuator because none starts like one (`PunctHeads`).
That the value of a literal may be wrapped around after every digit (`LiteralsAreDecimal`) is an induction with `Recursion`, resting on
`WrapEarly`. The theorem is about `LexSpec`: `Frontend` reaches the recursive operators of the parser, which the provers cannot
read. Its steps are those of `LexSpec` until the text is tokenized, and afterwards leave text, tokens and spans alone.

**Scopes** (`ScopeProofs`)

* `NamesAreResolvedAsC` (`ImplementsLexicalScopes`): on every walk, with any set of names and any number of declarations and scopes inside
  one another. The initial states map to initial states, and every step to a step of `LexicalScopes` or a stutter.
* `MapsFit` (`EntriesFit`): no entry is written or copied outside its array.

What the code knows of the scopes around it is one flag per entry, and nothing in a single map says what the scopes further out declare.
`ScopesInv` relates the maps of the stack to one another. `Layered`: every map begins with the entries of each map below it,
same name, same value, none marked as of the current scope (`Above`), and what it holds beyond the map right below it is marked (`OwnBeyond`).
`Above` is stated of all pairs, not of neighbours, since a chain of copies is what an induction over the stack would have to walk, which the
provers cannot do. From it follows what the backward search is for (`LastIsInnermost`): the last entry for a name at index `i` of the top map
is, in the lowest map that is longer than `i`, one of its own, so that scope declares the name; an inner scope that declared it would have a
later entry. `LastIsOwn` says of the top map alone that the flag of the last entry decides whether its scope declares the name, which is what
`resolve_declaration` asks. `SoundStack` says that an entry with linkage keeps its name and any other has a number the counter
has given out, so the next number is new to all of them; `FileInv` that the file's map holds only names with linkage, which makes binding a name of the file twice
the same as binding it once.

**The driver** (`DriverProofs`)

The invariant has three parts: `Local`, what a run holds, was asked for and reads at each point of `main`;
`Exclusive`, that two runs that are under way touch different files; `Undisturbed`, that the outputs of a run are as it found them until it
writes them, and then as it wrote them. A step of one run keeps `Undisturbed` of another because of `Exclusive`, an edit because of `OutputsAssumption`.

* `MainReleasesEverything` (`EverythingReleased`) from `Local`;
* `ZeroDelivers` (`ExitZeroDelivers`) and `FailuresLeaveNoTrace` (`FailureLeavesNoTrace`), action properties, from all three.

**Model-checked only**: everything about the passes over the tree (`MeaningPreserved`, `LoweringKeepsTheRules`,
`AcceptsExactlyTheValid`, `DistinctIdentities`, `JumpsLandOnce` and `TypeOK` of `Translation`) and about the parser
(`RoundTrip`, `NothingElseAccepted`), whose definitions are recursive and out of the prover's reach as they
stand (of resolution, the part that is about scopes is proved of `Scopes`, the same operations on maps without the tree); liveness (`ExecutionEnds`, `EveryTextIsDecided`, `EveryRunEnds`), since the prover handles neither fairness nor ENABLED.

## 8. Where documentation and code part

Five violation runs each show one:

* `illegal_operands`: `x / 2` is emitted as `idivl $2` (`codegen.c:91`; `allocate_stack` passes
  `IDIV` through at line 351) and `x << y` as `shll %r10d, ...` (line 330), which no assembler accepts. `README.md:98` promises
  "full expression support".
* `compound_assignment_value`: the value of `x += e` is `e` (`ir.c:224`). `README.md:98` promises "full expression support" and line 101
  compound assignment; `tests/test_parser.c:520` reads `x += y += 5` as `x += (y += 5)`.
* `variable_named_var`: a variable called `var` becomes `var.0`, as does the first
  temporary (`ir.c:20`), and the two share a slot. `parser.h:18` promises "a distinct identity in the IR".
* `malformed_input`: `1 + *y` and `++(y)` stop in an internal compiler error (`parser.c:142`, 230), and a text that ends in an
  expression is read past its last token (line 146). `common/ice.h:9`: an ICE "is NOT for malformed user input".
* `ir_destroyed_twice`: `--ir` on `return -x;` frees one temporary twice (`ir.c:439`). `README.md:156` documents `--ir` as "stop after IR".

Seen while reading, not covered by a run:

* lexer: the line and column of tokens are never set, so messages say `0:0`; an integer beyond `INT_MAX` overflows a signed `int`
  (`LongestMatch` describes the wrapped value); a leading zero does not make a literal octal; a table of names spells "defaut" (`token.c:86`);
* parser: `void` as a return type (`README.md:92`) is rejected; `int f(while x)` is accepted, since a parameter's type is not looked at (`parser.c:606-622`);
  `(x)++` and `(f)(a)` are rejected; `a + b = c` parses and is rejected only by the resolver; a label does not own the statement after it;
* passes: a call above the definition of its callee is not checked (`parser.c:1302`), and the variable of a `for`, which is never entered in the
  table, may be called (line 1380), while `parser.h:69-71` says that calling a variable and a wrong number of arguments are rejected (the programs of
  `translation_scoping` leave both out); file-scope variables get no storage; a prototype inside a block is typechecked through the wrong union member;
* back end: `>>` on a negative number is a logical shift; a function without `return` has no `ret` (`codegen.c:193`; the IR ends there too, so `ImplementsIr` has nothing to compare); the frame in `README.md`'s sample
  is not rounded while the code rounds it; `emit.c:158` prints calls without the platform's symbol prefix;
* driver: `main` removes the `.s` file that `README.md:153` says a full run emits; `emit_asm` and `fclose` go unchecked; compiling `a.c.c` overwrites
  `a.c`; the command for `cc` is built in 1024 bytes and without quotes (`main.c:158-160`); a kill during `system` leaves `cc` running; two runs on one source share the `.s` file.

## 9. Not modelled

* Destruction of trees (`ast_program_destroy` and what it calls): recursive frees of strings with one owner each; `Driver` counts
  the tree as one resource. Construction is the records of `Ast`.
* The spelling of the printed assembly: what its instructions do and which of them are legal is modelled (`X86Machine`, `Encodable`).
* Line and column numbers, and the wording of messages; the vertical tab, a white space that TLA+ has no way to write.
* A full disk, overlapping runs on one source, failing `malloc`, the length of the command line: see section 6.
* Storage for file-scope variables, which does not exist in the code (`ir.c:429`); the modelled functions do not use them
  where it would matter. The union member read for a block-scope prototype, which depends on layout.
* Overflow of the counters and of 32-bit stack offsets: both would take more text than a source file can hold in practice.
* `strlib/`, which the compiler does not use; the macros of `common/`; the build and the tests, whose claims the findings quote.
