---------------------------- MODULE Translation ----------------------------
(***************************************************************************)
(* The front half of main (src/main.c): the passes over a parsed program,   *)
(* one action each, in the order main and parse_program call them; then one *)
(* of the resulting IR functions is run by IrMachine, its calls answered    *)
(* with arbitrary results.  CSemantics and CConstraints say what the source *)
(* program means and whether it is one.                                     *)
(***************************************************************************)
EXTENDS Resolver, Typechecker, Labelling, Lowering, IrRules, IrMachine, CSemantics, CConstraints

CONSTANTS Programs,      \* the programs that may be compiled
          Arguments,     \* what a parameter may be given: a set of words
          CallResults,   \* what a call may return: a set of words
          MaxCalls       \* bound on the calls made by one execution

VARIABLES
  source,   \* history: the program as it was parsed
  stage,    \* the pass that ran last
  ast,      \* the program as the passes have left it
  ir,       \* the IR program: a sequence of functions
  args,     \* the arguments of the execution
  calls     \* history: <<f, argument values, result>> of every call made

vars == <<source, stage, ast, ir, args, calls, irVars>>

NoFunction == [id |-> <<>>, params |-> <<>>, instrs |-> <<>>]

Init ==
  /\ source \in Programs
  /\ stage = "parsed"
  /\ ast = source
  /\ ir = <<>>
  /\ args = <<>>
  /\ calls = <<>>
  /\ fn = NoFunction
  /\ env = [x \in {} |-> 0]
  /\ ip = 0
  /\ lastCall = <<>>
  /\ status = "not started"
  /\ result = 0

\* A pass either finishes or prints an error and exits.
RunPass(before, after, r) ==
  /\ stage = before
  /\ stage' = IF r.ok THEN after ELSE "rejected"
  /\ ast' = IF r.ok THEN r.out ELSE ast
  /\ UNCHANGED <<source, ir, args, calls, irVars>>

RunResolveVariables == RunPass("parsed", "resolved", ResolveVariables(ast))

RunTypecheck == RunPass("resolved", "typed", [out |-> ast, ok |-> Typecheck(ast)])

RunResolveLabels == RunPass("typed", "labelled", ResolveLabels(ast))

RunResolveGotoLabels == RunPass("labelled", "checked", ResolveGotoLabels(ast))

RunEmitIr ==
  /\ stage = "checked"
  /\ stage' = "lowered"
  /\ ir' = EmitProgram(ast, 0)
  /\ UNCHANGED <<source, ast, args, calls, irVars>>

\* The variables an instruction sequence names.
Named(instrs) ==
  LET Assigned(i) == IF i.kind \in {"UNOP", "BINOP", "COPY", "FUNCALL"} THEN {i.dst} ELSE {}
      operands == UNION {Values(i) \cup Assigned(i) : i \in ToSet(instrs)}
  IN {v.id : v \in {w \in operands : w.kind = "VARIABLE"}}

\* One function is called; a variable that is not a parameter holds anything.
Begin ==
  /\ stage = "lowered"
  /\ stage' = "running"
  /\ \E k \in DOMAIN ir : fn' = ir[k]
  /\ args' \in [DOMAIN fn'.params -> Arguments]
  /\ \E junk \in Arguments :
       env' = [x \in Named(fn'.instrs) \cup ToSet(fn'.params) |->
                 IF x \in ToSet(fn'.params)
                   THEN args'[CHOOSE i \in DOMAIN fn'.params : fn'.params[i] = x] ELSE junk]
  /\ ip' = 1
  /\ status' = "running"
  /\ UNCHANGED <<source, ast, ir, calls, lastCall, result>>

RunIr ==
  /\ stage = "running"
  /\ \/ DoReturn \/ DoUnop \/ DoBinop \/ DoTrap \/ DoCopy \/ DoLabel \/ DoJump \/ DoBranch \/ FallOff
  /\ UNCHANGED <<source, stage, ast, ir, args, calls>>

\* The result is the value the call leaves in its destination.
RunCall ==
  /\ stage = "running"
  /\ Len(calls) < MaxCalls
  /\ DoFuncall
  /\ LET w == env'[fn.instrs[ip].dst.id]
     IN /\ w \in CallResults
        /\ calls' = Append(calls, Append(lastCall', w))
  /\ UNCHANGED <<source, stage, ast, ir, args>>

Finished ==
  \/ stage = "rejected"
  \/ stage = "running" /\ status # "running"
  \/ stage = "running" /\ At("FUNCALL") /\ Len(calls) = MaxCalls

Stay == Finished /\ UNCHANGED vars

Next ==
  \/ RunResolveVariables \/ RunTypecheck \/ RunResolveLabels \/ RunResolveGotoLabels
  \/ RunEmitIr \/ Begin \/ RunIr \/ RunCall \/ Stay

\* A program that runs is not suspended for ever.
Spec == Init /\ [][Next]_vars /\ WF_vars(RunIr \/ RunCall)

-----------------------------------------------------------------------------
(* Properties *)

\* Every pass leaves a program of the same declarations, and the machine runs
\* a function of the IR program on words (main, emit_ir).
TypeOK ==
  /\ stage \in {"parsed", "resolved", "typed", "labelled", "checked", "lowered", "running", "rejected"}
  /\ Len(ast) = Len(source) /\ \A i \in DOMAIN ast : ast[i].id = source[i].id
  /\ stage = "running" => fn \in ToSet(ir) /\ ip \in 1 .. Len(fn.instrs) + 1
  /\ env \in [DOMAIN env -> Word]

\* The semantic passes reject a program exactly when it violates a constraint
\* of C they are there to check: scopes, redeclarations, arities, the targets
\* of break, continue and goto (resolve_variables, typecheck, resolve_labels,
\* resolve_goto_labels).
AcceptsExactlyTheValid ==
  /\ stage = "rejected" => ~Valid(source)
  /\ stage = "lowered" => Valid(source)

\* The declarations that get a name of their own, each with its place.
Declared(program) ==
  UNION {LET f == program[i]
             within == IF f.kind = "FUNC" /\ f.body # <<>> THEN Nodes(f.body[1], <<i>>) ELSE {}
             inFor == {[at |-> Append(n.at, 0), item |-> n.item.init] :
                         n \in {m \in within : m.item.kind = "FOR"}}
         IN {[at |-> n.at, id |-> n.item.id] : n \in {m \in within \cup inFor :
                m.item.kind = "DECL" /\ m.item.storage # "EXTERN"}}
            \cup (IF within = {} THEN {} ELSE
                  {[at |-> <<i, 0, k>>, id |-> f.params[k]] : k \in DOMAIN f.params})
         : i \in DOMAIN program}

\* After renaming no two variables of the program have the same name, none has
\* the name of a file-scope declaration, and none was lost (resolve_variables).
DistinctIdentities ==
  stage \notin {"parsed", "rejected"} =>
    LET now == Declared(ast)
    IN /\ {d.at : d \in now} = {d.at : d \in Declared(source)}
       /\ \A d, e \in now : d.id = e.id => d = e
       /\ \A d \in now, i \in DOMAIN source : d.id # source[i].id

\* In the assembly file every jump has exactly one label to go to, and it is
\* in the function of the jump (generate_label, generate_goto_label,
\* generate_label_name, loop_label, switch_clause_label).
JumpsLandOnce ==
  stage = "lowered" =>
    LET labels == {l \in UNION {{<<f, k>> : k \in DOMAIN ir[f].instrs} : f \in DOMAIN ir} :
                     ir[l[1]].instrs[l[2]].kind = "LABEL"}
        Name(l) == ir[l[1]].instrs[l[2]].id
    IN /\ \A l, m \in labels : Name(l) = Name(m) => l = m
       /\ \A f \in DOMAIN ir : \A k \in DOMAIN ir[f].instrs :
            ir[f].instrs[k].kind \in {"JUMP", "JUMP_ZERO", "JUMP_NOT_ZERO"} =>
              \E l \in labels : l[1] = f /\ Name(l) = ir[f].instrs[k].target

\* What code generation relies on holds of every function that is lowered: its
\* constants are ints, an operator writes its result to a temporary or to its
\* left operand, never over its right one, and no label is placed twice
\* (emit_ir_expression, emit_ir_statement).
LoweringKeepsTheRules ==
  stage = "lowered" => \A f \in ToSet(ir) : IrContract(f)

\* Where --ir stops, the program is taken apart again: no temporary may be
\* freed at two places (ir_program_destroy).
FreedOnce ==
  stage = "lowered" =>
    \A f \in DOMAIN ir : \A a, b \in Destroyed(ir[f].instrs) :
      a.id = b.id /\ a.id[1] = "var" => a = b

SourceFunction == source[CHOOSE i \in DOMAIN source : source[i].id = fn.id /\ source[i].body # <<>>]

\* How the execution of the source ends, in the words of IrMachine.
Outcome(st) == IF st.ctl = "go" THEN "fell off" ELSE st.ctl

\* The execution so far is the beginning, or all, of the one that is meant.
Agrees(meant) ==
  \/ meant.ctl = "undefined"
  \/ /\ Len(meant.calls) = Len(calls) + (IF status = "running" THEN 1 ELSE 0)
     /\ \A k \in DOMAIN calls : SubSeq(calls[k], 1, 2) = meant.calls[k]
     /\ status # "running" => status = Outcome(meant)
     /\ status = "returned" => result = meant.val

\* The translated function makes the calls the source makes, with the same
\* argument values, in the same order, and ends as the source ends with the
\* same value: on every path a caller and the called functions can drive it
\* along (all passes up to emit_ir).
MeaningPreserved ==
  (stage = "running" /\ (status # "running" \/ At("FUNCALL"))) =>
    Agrees(Execution(SourceFunction, args, [k \in DOMAIN calls |-> calls[k][3]]))

\* The translated function does not run for ever between two calls, as the
\* sources of the runs never do: it ends, or asks for one more call than the
\* run allows (the targets emit_ir gives to its jumps).
ExecutionEnds == (stage = "running") ~> Finished
=============================================================================
