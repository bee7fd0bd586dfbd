----------------------------- MODULE IrMachine -----------------------------
(***************************************************************************)
(* What one function in IR form means: the promise code generation has to   *)
(* keep.  A step executes one IR instruction.  env holds the value of every *)
(* variable; a variable the function never assigned holds an arbitrary      *)
(* word.  A call is external: it records which function was called with     *)
(* which argument values and returns an arbitrary word.                     *)
(***************************************************************************)
EXTENDS Ir, Words

CONSTANTS Ids,          \* variable names
          Functions     \* the IR functions considered

VARIABLES
  fn,         \* the function: its parameter names and its instructions
  env,        \* variable |-> value
  ip,         \* index of the next instruction
  lastCall,   \* <<f, argument values>> of the latest call, <<>> before one
  status,     \* "running", "returned", "trapped" or "fell off" the end
  result      \* the value returned

irVars == <<fn, env, ip, lastCall, status, result>>

IrInit ==
  /\ fn \in Functions
  /\ env \in [Ids -> Word]
  /\ ip = 1
  /\ lastCall = <<>>
  /\ status = "running"
  /\ result = 0

ValueIn(e, v) == IF v.kind = "CONSTANT" THEN v.int_val ELSE e[v.id]

At(kind) ==
  /\ status = "running"
  /\ ip <= Len(fn.instrs)
  /\ fn.instrs[ip].kind = kind

Assign(dst, w) ==
  /\ env' = [env EXCEPT ![dst.id] = w]
  /\ ip' = ip + 1

DoReturn ==
  /\ At("RETURN")
  /\ status' = "returned"
  /\ result' = ValueIn(env, fn.instrs[ip].val)
  /\ UNCHANGED <<fn, env, ip, lastCall>>

DoUnop ==
  /\ At("UNOP")
  /\ LET i == fn.instrs[ip] IN Assign(i.dst, UnopValue(i.op, ValueIn(env, i.src)))
  /\ UNCHANGED <<fn, lastCall, status, result>>

Traps(i) ==
  /\ i.op \in {"DIV", "MOD"}
  /\ DivTraps(ValueIn(env, i.lhs), ValueIn(env, i.rhs))

DoBinop ==
  /\ At("BINOP")
  /\ LET i == fn.instrs[ip]
     IN /\ ~Traps(i)
        /\ Assign(i.dst, BinopValue(i.op, ValueIn(env, i.lhs), ValueIn(env, i.rhs)))
  /\ UNCHANGED <<fn, lastCall, status, result>>

\* Division by zero is undefined in C; the program is stopped by the CPU.
DoTrap ==
  /\ At("BINOP")
  /\ Traps(fn.instrs[ip])
  /\ status' = "trapped"
  /\ UNCHANGED <<fn, env, ip, lastCall, result>>

DoCopy ==
  /\ At("COPY")
  /\ LET i == fn.instrs[ip] IN Assign(i.dst, ValueIn(env, i.src))
  /\ UNCHANGED <<fn, lastCall, status, result>>

DoLabel ==
  /\ At("LABEL")
  /\ ip' = ip + 1
  /\ UNCHANGED <<fn, env, lastCall, status, result>>

DoJump ==
  /\ At("JUMP")
  /\ ip' = LabelIndex(fn.instrs, fn.instrs[ip].target)
  /\ UNCHANGED <<fn, env, lastCall, status, result>>

DoBranch ==
  /\ At("JUMP_ZERO") \/ At("JUMP_NOT_ZERO")
  /\ LET i == fn.instrs[ip]
         zero == ValueIn(env, i.cond) = 0
     IN ip' = IF zero = (i.kind = "JUMP_ZERO")
                THEN LabelIndex(fn.instrs, i.target) ELSE ip + 1
  /\ UNCHANGED <<fn, env, lastCall, status, result>>

DoFuncall ==
  /\ At("FUNCALL")
  /\ LET i == fn.instrs[ip]
     IN /\ lastCall' = <<i.f, [k \in DOMAIN i.args |-> ValueIn(env, i.args[k])]>>
        /\ \E w \in Word : Assign(i.dst, w)
  /\ UNCHANGED <<fn, status, result>>

\* Nothing in ir.c appends a return to a body that does not end in one.
FallOff ==
  /\ status = "running"
  /\ ip = Len(fn.instrs) + 1
  /\ status' = "fell off"
  /\ UNCHANGED <<fn, env, ip, lastCall, result>>

IrNext ==
  \/ DoReturn \/ DoUnop \/ DoBinop \/ DoTrap \/ DoCopy \/ DoLabel
  \/ DoJump \/ DoBranch \/ DoFuncall \/ FallOff

IrSpec == IrInit /\ [][IrNext]_irVars
=============================================================================
