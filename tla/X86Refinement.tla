---------------------------- MODULE X86Refinement ----------------------------
(***************************************************************************)
(* The emitted code does what the IR says: X86Machine implements IrMachine,  *)
(* for every function emit_ir may hand over, every word width and every set  *)
(* of values of the parameters.                                             *)
(***************************************************************************)
EXTENDS X86Steps

-----------------------------------------------------------------------------
(* Calls *)

\* The processor is at the last of the instructions that stand for one of the
\* code of a call, IR instruction i.
Calling(h, x, c, i) ==
  /\ Meaning(h, x, c)
  /\ x.p.part \in {"begin", "push", "finish"}
  /\ i = fn.instrs[x.p.at]

LEMMA CallStep ==
  ASSUME NEW h, NEW x, NEW c, NEW i, Calling(h, x, c, i)
  PROVE  /\ fn \in IrFunctions /\ MapInv(opmap) /\ Running /\ Stored /\ rsp \in Int /\ UNCHANGED <<fn, opmap>>
         /\ x.p \in Places /\ InBlock(fn, x.p) /\ x.p.n \in 1 .. Len(Block(fn, x.p)) /\ x.p.n \in Nat
         /\ x.p.at \in 1 .. Len(fn.instrs) /\ IrIp = x.p.at /\ IrIp <= Len(fn.instrs)
         /\ i \in IrInstructions(Ids) /\ i.kind = "FUNCALL"
         /\ i.args \in Seq(IrValues(Ids)) /\ Len(i.args) \in Nat
         /\ c = RenameOperands(opmap, Source(fn, x.p)) /\ Named(opmap, Source(fn, x.p))
         /\ Performs(c) /\ (c.kind \in {"MOV", "BINOP", "CMP"} => Advance)
         /\ fixedFrom[pc] = x.p.at
         /\ Holding(x.p) /\ Slots({})
<1> Meaning(h, x, c)
  BY DEF Calling
<1>1. /\ fn \in IrFunctions /\ MapInv(opmap) /\ Running /\ Stored /\ rsp \in Int
      /\ x.p \in Places /\ InBlock(fn, x.p) /\ x.p.n \in 1 .. Len(Block(fn, x.p))
      /\ Holding(x.p)
      /\ c = RenameOperands(opmap, Source(fn, x.p)) /\ Named(opmap, Source(fn, x.p))
      /\ Performs(c) /\ (c.kind \in {"MOV", "BINOP", "CMP"} => Advance)
      /\ fixedFrom[pc] = x.p.at
      /\ UNCHANGED passVars
      /\ IrIp = (IF x.p.at > 0 THEN x.p.at ELSE 1)
  BY MeantStep
<1>2. x.p.at \in 1 .. Len(fn.instrs) /\ i.kind = "FUNCALL"
  BY <1>1 DEF Calling, InBlock
<1>3. i \in IrInstructions(Ids) /\ Len(fn.instrs) \in Nat
  BY <1>1, <1>2, FunctionTypes DEF Calling
<1>4. i.args \in Seq(IrValues(Ids)) /\ Len(i.args) \in Nat
  BY <1>2, <1>3, ArgumentsAreSequences
<1>5. InFlux(x.p) = {}
  BY DEF Calling, InFlux
<1>6. Slots({})
  BY <1>1, <1>5 DEF Holding
<1>7. IrIp = x.p.at /\ IrIp <= Len(fn.instrs)
  BY <1>1, <1>2, <1>3
<1>8. UNCHANGED <<fn, opmap>>
  BY <1>1 DEF passVars
<1>9. x.p.n \in Nat
  BY <1>1
<1> QED
  BY <1>1, <1>2, <1>3, <1>4, <1>6, <1>7, <1>8, <1>9

\* The arguments are words the IR knows, and the register or slot they are
\* read from has them.
LEMMA ArgumentValue ==
  ASSUME NEW h, NEW x, NEW c, NEW i, Calling(h, x, c, i), NEW k \in 1 .. Len(i.args)
  PROVE  /\ i.args[k] \in IrValues(Ids) /\ Val(i.args[k]) \in Word
         /\ InMap(opmap, CodegenVal(i.args[k])) => Value(Renamed(opmap, CodegenVal(i.args[k]))) = Val(i.args[k])
<1>1. /\ fn \in IrFunctions /\ Stored /\ x.p.at \in 1 .. Len(fn.instrs) /\ i.kind = "FUNCALL"
      /\ i.args \in Seq(IrValues(Ids)) /\ Slots({})
  BY CallStep
<1> PICK v : v = i.args[k]
  OBVIOUS
<1>2. v \in IrValues(Ids)
  BY <1>1
<1>3. v \in Values(i)
  BY <1>1 DEF Values, Range
<1>4. Val(v) \in Word
  BY <1>1, <1>2, <1>3, ValueIsWord DEF Calling
<1>5. InMap(opmap, CodegenVal(v)) => Value(Renamed(opmap, CodegenVal(v))) = Val(v)
  BY <1>1, <1>2, NamedValue
<1> QED
  BY <1>2, <1>4, <1>5

\* A step on the way to the call.
LEMMA CallGoesOn ==
  ASSUME NEW h, NEW x, NEW c, NEW i, Calling(h, x, c, i), Advance, x.p.part # "finish",
         NEW q, q = Successor(fn, x.p), q.at = x.p.at, q.part \in {"begin", "push", "finish"},
         q.part = "finish" => q.n = 1,
         DOMAIN regs' = Registers, DOMAIN mem' = Addresses, rsp' % 8 = 0, lastCall' = lastCall,
         \A y \in Variables : Slot(y)' = Slot(y),
         q.part = "begin" => InRegisters(i.args, q.n - 1 - Pads(i.args))',
         q.part # "begin" => InRegisters(i.args, 6)',
         q.part = "push" => Pushed(i.args, q.arg)' /\ (q.n = 2 => regs'["AX"] = Val(i.args[q.arg])),
         q.part = "finish" => Pushed(i.args, 6)'
  PROVE  Simulated(h)
<1> Meaning(h, x, c) /\ i = fn.instrs[x.p.at]
  BY DEF Calling
<1>1. Stored /\ Holding(x.p) /\ Slots({})
  BY CallStep
<1>2. /\ IrEnv' = IrEnv /\ IrLastCall' = IrLastCall /\ UNCHANGED <<fn, opmap>>
      /\ \A v : Val(v)' = Val(v)
      /\ Stored' /\ Holding(q)' => Simulated(h)
  BY Inside
<1>3. Stored'
  BY <1>1, <1>2 DEF Stored
<1>4. lastCall = IrLastCall
  BY <1>1 DEF Holding
<1>5. InFlux(q)' = {}
  BY DEF InFlux
<1>6. Slots(InFlux(q))'
  BY <1>1, <1>2, <1>5 DEF Slots, Variables
<1>7. fn'.instrs[q.at] = i
  BY <1>2
<1>8. Pads(i.args)' = Pads(i.args)
  BY DEF Pads, AllocIfAny, Padding, StackArgs
<1>9. q.part = "push" /\ q.n = 2 => regs'["AX"] = Val(i.args[q.arg])'
  BY <1>2
<1>10. Holding(q)'
  <2>1. CASE q.part = "begin"
    BY <1>2, <1>4, <1>6, <1>7, <1>8, <2>1 DEF Holding
  <2>2. CASE q.part = "push"
    BY <1>2, <1>4, <1>6, <1>7, <1>9, <2>2 DEF Holding
  <2>3. CASE q.part = "finish"
    BY <1>2, <1>4, <1>6, <1>7, <2>3 DEF Holding
  <2> QED
    BY <2>1, <2>2, <2>3
<1> QED
  BY <1>2, <1>3, <1>10

LEMMA ArgRegistersDiffer ==
  /\ \A k, l \in 1 .. 6 : ArgRegisters[k] = ArgRegisters[l] => k = l
  /\ \A k \in 1 .. 6 : ArgRegisters[k] \in Registers /\ ArgRegisters[k] # "AX"
<1>1. /\ ArgRegisters[1] = "DI" /\ ArgRegisters[2] = "SI" /\ ArgRegisters[3] = "DX"
      /\ ArgRegisters[4] = "CX" /\ ArgRegisters[5] = "R8" /\ ArgRegisters[6] = "R9"
  BY DEF ArgRegisters
<1>2. \A k \in 1 .. 6 : k = 1 \/ k = 2 \/ k = 3 \/ k = 4 \/ k = 5 \/ k = 6
  OBVIOUS
<1>3. \A k \in 1 .. 6 : ArgRegisters[k] # "AX"
  BY <1>1, <1>2
<1>4. \A k, l \in 1 .. 6 : ArgRegisters[k] = ArgRegisters[l] => k = l
  <2> SUFFICES ASSUME NEW k \in 1 .. 6, NEW l \in 1 .. 6, ArgRegisters[k] = ArgRegisters[l]
               PROVE  k = l
    OBVIOUS
  <2> QED
    BY <1>1, <1>2
<1> QED
  BY <1>3, <1>4, RegisterNames

\* Padding, and the arguments that travel in registers.
LEMMA CallBegins ==
  ASSUME Wide, NEW h, NEW x, NEW c, NEW i, Calling(h, x, c, i), x.p.part = "begin"
  PROVE  Simulated(h)
<1> PICK p : p = x.p
  OBVIOUS
<1> PICK n : n = p.n
  OBVIOUS
<1> PICK args : args = i.args
  OBVIOUS
<1> PICK pads : pads = Pads(args)
  OBVIOUS
<1> Meaning(h, x, c) /\ i = fn.instrs[p.at]
  BY DEF Calling
<1>1. /\ fn \in IrFunctions /\ Running /\ Stored /\ rsp \in Int /\ UNCHANGED <<fn, opmap>>
      /\ p \in Places /\ InBlock(fn, p) /\ n \in 1 .. Len(Block(fn, p)) /\ n \in Nat
      /\ p.at \in 1 .. Len(fn.instrs)
      /\ i \in IrInstructions(Ids) /\ i.kind = "FUNCALL" /\ Len(args) \in Nat
      /\ c = RenameOperands(opmap, Source(fn, p))
      /\ Performs(c)
      /\ Holding(p) /\ Slots({})
  BY CallStep
<1>2. Block(fn, p) = AllocIfAny(Padding(args)) \o RegisterMoves(args)
  BY DEF Block
<1> PICK block : block = Block(fn, p)
  OBVIOUS
<1>3. /\ pads \in {0, 1}
      /\ Len(block) = pads + (Len(args) - StackArgs(args))
      /\ n <= pads => block[n] = Alloc(Padding(args))
      /\ n > pads => /\ n - pads \in 1 .. Len(args) /\ n - pads <= 6
                     /\ block[n] = Mov(Reg(ArgRegisters[n - pads]), CodegenVal(args[n - pads]))
  <2>1. block = AllocIfAny(Padding(i.args)) \o RegisterMoves(i.args)
    BY <1>2
  <2>2. n \in 1 .. Len(AllocIfAny(Padding(i.args)) \o RegisterMoves(i.args))
    BY <1>1, <2>1
  <2>3. LET b == AllocIfAny(Padding(i.args)) \o RegisterMoves(i.args)
        IN /\ Pads(i.args) \in {0, 1}
           /\ Len(b) = Pads(i.args) + (Len(i.args) - StackArgs(i.args))
           /\ n <= Pads(i.args) => b[n] = Alloc(Padding(i.args))
           /\ n > Pads(i.args) =>
                /\ n - Pads(i.args) \in 1 .. Len(i.args) /\ n - Pads(i.args) <= 6
                /\ b[n] = Mov(Reg(ArgRegisters[n - Pads(i.args)]), CodegenVal(i.args[n - Pads(i.args)]))
    BY <1>1, <2>2, BeginShape
  <2> QED
    BY <2>1, <2>3
<1>4. InRegisters(args, n - 1 - pads)
  BY <1>1 DEF Holding
<1>5. /\ StackArgs(args) \in Nat /\ Padding(args) \in {0, 8}
      /\ Len(args) > 6 => StackArgs(args) = Len(args) - 6
      /\ Len(args) <= 6 => StackArgs(args) = 0
      /\ Len(args) > 0 /\ Len(args) - StackArgs(args) > 0
  <2>1. Len(args) > 0
    BY <1>1 DEF InBlock
  <2>2. Padding(args) \in {0, 8}
    BY DEF Padding
  <2>3. StackArgs(args) = IF Len(args) > 6 THEN Len(args) - 6 ELSE 0
    BY SixArgRegisters DEF StackArgs
  <2>4. Len(args) - StackArgs(args) > 0
    BY <1>1, <2>1, SomeInRegisters
  <2> QED
    BY <1>1, <2>1, <2>2, <2>3, <2>4
<1> PICK q : q = Successor(fn, p)
  OBVIOUS
<1>6. /\ n < Len(block) => q.part = "begin" /\ q.n = n + 1 /\ q.at = p.at
      /\ ~(n < Len(block)) =>
           /\ q.at = p.at /\ q.part \in {"push", "finish"} /\ q.n = 1
           /\ q.part = "push" => q.arg = Len(args) /\ Len(args) > 6
           /\ q.part = "finish" => Len(args) <= 6
  <2>1. CASE n < Len(block)
    <3>1. q = [p EXCEPT !.n = n + 1]
      BY <2>1 DEF Successor
    <3> QED
      BY <1>1, <2>1, <3>1 DEF Places
  <2>2. CASE ~(n < Len(block))
    <3>1. q = AtArg(p.at, Len(args))
      BY <2>2 DEF Successor, After
    <3> PICK a : a = Len(args)
      OBVIOUS
    <3>2. /\ q.at = p.at /\ q.part \in {"push", "finish"} /\ q.n = 1
          /\ q.part = "push" => a > 6 /\ q.arg = a
      <4>1. a \in Nat /\ a <= Len(fn.instrs[p.at].args) /\ q = AtArg(p.at, a)
            /\ fn \in IrFunctions /\ p.at \in 1 .. Len(fn.instrs) /\ fn.instrs[p.at].kind = "FUNCALL"
        BY <1>1, <3>1
      <4>2. /\ AtArg(p.at, a).at = p.at /\ AtArg(p.at, a).part \in {"push", "finish"} /\ AtArg(p.at, a).n = 1
            /\ AtArg(p.at, a).part = "push" => a > 6 /\ AtArg(p.at, a).arg = a
        BY ONLY <4>1, AtArgIsPlace
      <4> QED
        BY <4>1, <4>2
    <3>3. q.part = "finish" => a <= 6
      <4>1. a > 6 => q.part = "push"
        BY <3>1 DEF AtArg, Place
      <4> QED
        BY <1>1, <4>1
    <3> QED
      BY <2>2, <3>2, <3>3
  <2> QED
    BY <2>1, <2>2
<1>7. Exec /\ pc \in 1 .. Len(fixed) /\ Running /\ Len(fixed) \in Nat
  BY ReadyFacts DEF Meaning, Ready
<1>8. CASE n <= pads
  <2>1. n = 1 /\ pads = 1 /\ n < Len(block)
    <3>1. n = 1 /\ pads = 1
      BY <1>1, <1>3, <1>8
    <3>2. Len(block) = pads + (Len(args) - StackArgs(args))
      BY <1>3
    <3>3. StackArgs(args) \in Nat /\ Len(args) \in Nat /\ Len(args) - StackArgs(args) > 0
      BY <1>1, <1>5
    <3> QED
      BY ONLY <3>1, <3>2, <3>3
  <2>2. c = RenameOperands(opmap, Alloc(Padding(args)))
    BY <1>1, <1>3, <1>8 DEF Source
  <2>3. c.kind = "ALLOC" /\ c.size = Padding(args)
    BY <2>2, OtherShapes
  <2>4. fixed[pc] = c
    BY <1>1, <2>3 DEF Performs
  <2>5. ExecAlloc
    BY <1>7, <2>3, <2>4, ExecKinds
  <2>6. rsp' = rsp - Padding(args) /\ Advance /\ UNCHANGED <<regs, flags, mem, lastCall>>
    BY <2>3, <2>4, <2>5 DEF ExecAlloc
  <2>7. rsp' % 8 = 0
    <3>1. rsp % 8 = 0
      BY <1>1 DEF Stored
    <3>2. (rsp - 0) % 8 = 0 /\ (rsp - 8) % 8 = 0
      BY <1>1, <3>1
    <3> QED
      BY <1>5, <2>6, <3>2
  <2>8. InRegisters(args, q.n - 1 - pads)'
    <3>1. q.n - 1 - pads = 0
      BY <1>6, <2>1
    <3>2. \A k \in 1 .. Len(args) : ~(k <= 0)
      OBVIOUS
    <3> QED
      BY <3>1, <3>2 DEF InRegisters
  <2>9. \A y \in Variables : Slot(y)' = Slot(y)
    BY <1>1, <2>6 DEF Slot
  <2>10. DOMAIN regs' = Registers /\ DOMAIN mem' = Addresses
    BY <1>1, <2>6 DEF Stored
  <2>11. q.part = "begin" /\ q.at = x.p.at
    BY <1>6, <2>1
  <2>12. Advance /\ lastCall' = lastCall
    BY <2>6
  <2> QED
    BY <2>7, <2>8, <2>9, <2>10, <2>11, <2>12, CallGoesOn
<1>10. n \in Nat /\ pads \in Nat /\ Len(args) \in Nat
  BY <1>1, <1>3
<1>9. CASE n > pads
  <2> PICK k : k = n - pads
    OBVIOUS
  <2> PICK r : r = ArgRegisters[k]
    OBVIOUS
  <2> PICK src : src = CodegenVal(args[k])
    OBVIOUS
  <2>1. k \in 1 .. Len(args) /\ k \in 1 .. 6 /\ Source(fn, p) = Mov(Reg(r), src) /\ r \in Registers
    <3>1. k \in 1 .. Len(args) /\ k <= 6 /\ Source(fn, p) = Mov(Reg(r), src)
      BY <1>3, <1>9 DEF Source
    <3>2. k \in 1 .. 6
      BY <3>1
    <3> QED
      BY <3>1, <3>2, ArgRegistersDiffer
  <2>2. /\ Advance /\ UNCHANGED <<mem, flags, rsp, lastCall>>
        /\ DOMAIN regs' = Registers /\ DOMAIN mem' = Addresses
        /\ regs' = [regs EXCEPT ![r] = Value(Renamed(opmap, src))]
        /\ \A y : Slot(y)' = Slot(y)
        /\ InMap(opmap, src)
    BY <2>1, MovesToRegister
  <2>3. regs'[r] = Val(args[k])
    <3>1. Value(Renamed(opmap, src)) = Val(args[k])
      <4>1. k \in 1 .. Len(i.args) /\ InMap(opmap, CodegenVal(i.args[k]))
        BY <2>1, <2>2
      <4>2. Value(Renamed(opmap, CodegenVal(i.args[k]))) = Val(i.args[k])
        BY ONLY <4>1, Calling(h, x, c, i), ArgumentValue
      <4> QED
        BY <4>2
    <3> QED
      BY <1>1, <2>1, <2>2, <3>1 DEF Stored
  <2>4. \A v : Val(v)' = Val(v)
    <3>1. q.at = x.p.at
      BY <1>6
    <3> QED
      BY <2>2, <3>1, Inside
  <2>5. InRegisters(args, k)'
    <3> SUFFICES ASSUME NEW l \in 1 .. Len(args), l <= k, l <= 6
                 PROVE  regs'[ArgRegisters[l]] = Val(args[l])
      BY <2>4 DEF InRegisters
    <3>1. CASE l = k
      BY <2>3, <3>1
    <3>2. CASE l # k
      <4>1. l <= n - 1 - pads /\ l \in 1 .. 6
        BY <1>10, <3>2
      <4>2. regs[ArgRegisters[l]] = Val(args[l])
        BY <1>4, <4>1 DEF InRegisters
      <4>3. ArgRegisters[l] # r
        BY <2>1, <3>2, <4>1, ArgRegistersDiffer
      <4>4. ArgRegisters[l] \in Registers
        BY <4>1, ArgRegistersDiffer
      <4>5. regs'[ArgRegisters[l]] = regs[ArgRegisters[l]]
        BY <1>1, <2>2, <4>3, <4>4 DEF Stored
      <4> QED
        BY <4>2, <4>5
    <3> QED
      BY <3>1, <3>2
  <2>6. q.part = "begin" => InRegisters(args, q.n - 1 - pads)'
    <3> SUFFICES ASSUME q.part = "begin"
                 PROVE  InRegisters(args, q.n - 1 - pads)'
      OBVIOUS
    <3>1. q.n = n + 1
      BY <1>6
    <3>2. q.n - 1 - pads = k
      BY <1>10, <3>1
    <3> QED
      BY <2>5, <3>2
  <2>7. q.part # "begin" => InRegisters(args, 6)'
    <3> SUFFICES ASSUME q.part # "begin"
                 PROVE  InRegisters(args, 6)'
      OBVIOUS
    <3>1. ~(n < Len(block)) /\ n <= Len(block)
      <4>1. ~(n < Len(block))
        BY ONLY <1>6, q.part # "begin"
      <4>2. n \in 1 .. Len(block)
        BY <1>1
      <4> QED
        BY ONLY <4>1, <4>2
    <3>2. k = Len(args) - StackArgs(args)
      <4> PICK s : s = StackArgs(args)
        OBVIOUS
      <4> PICK len : len = Len(block)
        OBVIOUS
      <4>1. len = pads + (Len(args) - s) /\ s \in Nat
        BY <1>3, <1>5
      <4>2. n = len
        BY ONLY <1>10, <3>1, <4>1, len = Len(block)
      <4> QED
        BY ONLY <1>10, <4>1, <4>2, k = n - pads, s = StackArgs(args)
    <3>3. \A l \in 1 .. Len(args) : l <= 6 => l <= k
      <4>1. (Len(args) > 6 => k = 6) /\ (Len(args) <= 6 => k = Len(args))
        BY ONLY <1>10, <1>5, <3>2
      <4> QED
        BY <1>10, <4>1
    <3> QED
      BY <2>5, <3>3 DEF InRegisters
  <2>8. q.part = "push" => Pushed(args, q.arg)' /\ q.n # 2
    <3> SUFFICES ASSUME q.part = "push"
                 PROVE  Pushed(args, q.arg)' /\ q.n # 2
      OBVIOUS
    <3>1. q.arg = Len(args) /\ q.n = 1
      BY <1>6
    <3>2. \A l \in 1 .. Len(args) : ~(l > Len(args))
      BY <1>10
    <3>3. Pushed(args, Len(args))'
      BY <3>2 DEF Pushed
    <3>4. Pushed(args, q.arg)'
      BY ONLY <3>1, <3>3
    <3>5. q.n # 2
      BY ONLY <3>1
    <3> QED
      BY <3>4, <3>5
  <2>9. q.part = "finish" => Pushed(args, 6)' /\ q.n = 1
    <3> SUFFICES ASSUME q.part = "finish"
                 PROVE  Pushed(args, 6)' /\ q.n = 1
      OBVIOUS
    <3>1. Len(args) <= 6 /\ q.n = 1
      BY <1>6
    <3>2. \A l \in 1 .. Len(args) : ~(l > 6)
      BY <1>1, <3>1
    <3> QED
      BY <3>1, <3>2 DEF Pushed
  <2>10. q.part \in {"begin", "push", "finish"} /\ q.at = x.p.at
    BY <1>6
  <2>11. rsp' % 8 = 0 /\ lastCall' = lastCall /\ \A y \in Variables : Slot(y)' = Slot(y)
    BY <1>1, <2>2 DEF Stored
  <2> QED
    BY <2>2, <2>6, <2>7, <2>8, <2>9, <2>10, <2>11, CallGoesOn
<1> QED
  BY <1>1, <1>3, <1>8, <1>9

\* Below the stack pointer there is room, and nothing of the frame.
LEMMA PushedWord ==
  ASSUME Wide, DOMAIN mem = Addresses, rsp \in Int, rsp % 8 = 0, NEW w, NEW u,
         mem' = [mem EXCEPT ![rsp - 8] = w, ![rsp - 4] = u]
  PROVE  /\ DOMAIN mem' = Addresses
         /\ mem'[rsp - 8] = w
         /\ \A a \in Addresses : a >= rsp => mem'[a] = mem[a]
<1>1. rsp - 8 \in Addresses /\ rsp - 4 \in Addresses
  <2>1. \E k \in Int : rsp = 8 * k
    OBVIOUS
  <2>2. PICK k \in Int : rsp = 8 * k
    BY <2>1
  <2>3. 4 * (2 * k - 2) = rsp - 8 /\ 4 * (2 * k - 1) = rsp - 4 /\ 2 * k - 2 \in Int /\ 2 * k - 1 \in Int
    BY <2>2
  <2> QED
    BY <2>3 DEF Wide
<1>2. rsp - 8 # rsp - 4
  OBVIOUS
<1>3. ~(rsp - 8 >= rsp) /\ ~(rsp - 4 >= rsp)
  OBVIOUS
<1>4. DOMAIN mem' = Addresses /\ mem'[rsp - 8] = w
  BY <1>1, <1>2
<1>5. ASSUME NEW a \in Addresses, a >= rsp
      PROVE  mem'[a] = mem[a]
  <2>1. a # rsp - 8 /\ a # rsp - 4
    BY <1>3, <1>5
  <2> QED
    BY <2>1
<1> QED
  BY <1>4, <1>5

\* An argument is pushed; the ones pushed before it stay above.
LEMMA PushKeeps ==
  ASSUME Wide, NEW args, Len(args) \in Nat, NEW a \in Nat, a > 6, a <= Len(args), rsp \in Int, rsp % 8 = 0,
         rsp' = rsp - 8, Pushed(args, a), \A v : Val(v)' = Val(v), mem'[rsp - 8] = Val(args[a]),
         \A b \in Addresses : b >= rsp => mem'[b] = mem[b]
  PROVE  Pushed(args, a - 1)'
<1> SUFFICES ASSUME NEW k \in 1 .. Len(args), k > a - 1
             PROVE  mem'[rsp' + 8 * (k - (a - 1) - 1)] = Val(args[k])
  BY DEF Pushed
<1>1. CASE k = a
  <2>1. rsp' + 8 * (k - (a - 1) - 1) = rsp - 8
    BY <1>1
  <2> QED
    BY <1>1, <2>1
<1>2. CASE k > a
  <2>1. rsp' + 8 * (k - (a - 1) - 1) = rsp + 8 * (k - a - 1)
    OBVIOUS
  <2>2. rsp + 8 * (k - a - 1) \in Addresses /\ rsp + 8 * (k - a - 1) >= rsp
    <3>1. PICK m \in Int : rsp = 8 * m
      OBVIOUS
    <3>2. rsp + 8 * (k - a - 1) = 4 * (2 * m + 2 * (k - a - 1)) /\ 2 * m + 2 * (k - a - 1) \in Int
      BY <3>1
    <3>3. rsp + 8 * (k - a - 1) >= rsp
      BY <1>2
    <3> QED
      BY <3>2, <3>3 DEF Wide
  <2>3. mem[rsp + 8 * (k - a - 1)] = Val(args[k])
    BY <1>2 DEF Pushed
  <2> QED
    BY <2>1, <2>2, <2>3
<1>3. k = a \/ k > a
  OBVIOUS
<1> QED
  BY <1>1, <1>2, <1>3

LEMMA PushShape ==
  ASSUME NEW f, NEW p, p.part = "push"
  PROVE  LET v == f.instrs[p.at].args[p.arg]
         IN /\ v.kind = "CONSTANT" => Block(f, p) = <<Push(CodegenVal(v))>>
            /\ v.kind # "CONSTANT" => Block(f, p) = <<Mov(Reg("AX"), CodegenVal(v)), Push(Reg("AX"))>>
<1>1. Block(f, p) = PushArg(f.instrs[p.at].args[p.arg])
  BY DEF Block
<1> QED
  BY <1>1 DEF PushArg

\* The argument that does not fit in a register goes to the stack.
LEMMA ArgumentPushed ==
  ASSUME Wide, NEW h, NEW x, NEW c, NEW i, Calling(h, x, c, i), x.p.part = "push",
         NEW n, n = x.p.n, n = Len(Block(fn, x.p)), NEW src, Source(fn, x.p) = Push(src),
         InMap(opmap, src) => Value(Renamed(opmap, src)) = Val(i.args[x.p.arg])
  PROVE  Simulated(h)
<1> PICK p : p = x.p
  OBVIOUS
<1> PICK args : args = i.args
  OBVIOUS
<1> PICK a : a = p.arg
  OBVIOUS
<1> Meaning(h, x, c) /\ i = fn.instrs[p.at]
  BY DEF Calling
<1>1. /\ fn \in IrFunctions /\ MapInv(opmap) /\ Running /\ Stored /\ rsp \in Int /\ UNCHANGED <<fn, opmap>>
      /\ p \in Places /\ InBlock(fn, p)
      /\ p.at \in 1 .. Len(fn.instrs)
      /\ i \in IrInstructions(Ids) /\ i.kind = "FUNCALL" /\ Len(args) \in Nat
      /\ c = RenameOperands(opmap, Source(fn, p)) /\ Named(opmap, Source(fn, p))
      /\ Performs(c)
      /\ Holding(p) /\ Slots({})
  BY CallStep
<1>2. a \in 7 .. Len(args)
  BY <1>1 DEF InBlock
<1>3. InRegisters(args, 6) /\ Pushed(args, a)
  BY <1>1 DEF Holding
<1>4. c.kind = "PUSH" /\ c.operand = Renamed(opmap, src) /\ InMap(opmap, src)
  <2>1. c = RenameOperands(opmap, Push(src)) /\ Named(opmap, Push(src))
    BY <1>1
  <2> QED
    BY <2>1, RenamedShapes, NamedOperands
<1>5. ExecPush /\ fixed[pc] = c
  <2>1. fixed[pc] = c
    BY <1>1, <1>4 DEF Performs
  <2>2. Exec /\ pc \in 1 .. Len(fixed) /\ Running /\ Len(fixed) \in Nat
    BY ReadyFacts DEF Meaning, Ready
  <2> QED
    BY <1>4, <2>1, <2>2, ExecKinds
<1> PICK w : w = Val(args[a])
  OBVIOUS
<1>6. /\ \E u : mem' = [mem EXCEPT ![rsp - 8] = w, ![rsp - 4] = u]
      /\ rsp' = rsp - 8 /\ Advance /\ UNCHANGED <<regs, flags, lastCall>>
  <2>1. Value(fixed[pc].operand) = w
    BY <1>4, <1>5
  <2> QED
    BY <1>5, <2>1 DEF ExecPush
<1>7. DOMAIN regs = Registers /\ DOMAIN mem = Addresses /\ rsp % 8 = 0
  BY <1>1 DEF Stored
<1>8. /\ DOMAIN mem' = Addresses
      /\ mem'[rsp - 8] = w
      /\ \A b \in Addresses : b >= rsp => mem'[b] = mem[b]
  <2>1. PICK u : mem' = [mem EXCEPT ![rsp - 8] = w, ![rsp - 4] = u]
    BY <1>6
  <2> QED
    BY <1>1, <1>7, <2>1, PushedWord
<1>9. \A y \in Variables : Slot(y)' = Slot(y)
  <2>1. p # FramePlace /\ h[pc].p = p /\ MachineInv /\ Printed(h) /\ Running
    <3>1. FramePlace.part = "frame"
      BY DEF FramePlace, Place
    <3> QED
      BY <3>1 DEF Meaning, Ready
  <2>2. \A y \in Variables : opmap.slot[y] \in Int /\ opmap.slot[y] % 4 = 0 /\ opmap.slot[y] >= rsp
    BY <2>1, SlotsAbove
  <2> PICK low : low = rsp
    OBVIOUS
  <2>3. \A b \in Addresses : b >= low => mem'[b] = mem[b]
    BY <1>8
  <2> QED
    BY <1>1, <2>2, <2>3, StackKept
<1>10. rsp' % 8 = 0
  BY <1>1, <1>6, <1>7
<1> PICK q : q = Successor(fn, p)
  OBVIOUS
<1>11. /\ q.at = p.at /\ q.part \in {"push", "finish"} /\ q.n = 1
       /\ q.part = "push" => q.arg = a - 1
       /\ q.part = "finish" => a - 1 <= 6
  <2>1. q = AtArg(p.at, a - 1)
    <3>1. ~(p.n < Len(Block(fn, p)))
      <4>1. Len(Block(fn, p)) \in Nat
        BY <1>1, BlockTypes
      <4>2. p.n = Len(Block(fn, p))
        OBVIOUS
      <4> QED
        BY ONLY <4>1, <4>2
    <3>2. q = After(fn, p)
      BY <3>1 DEF Successor
    <3> QED
      BY <3>2 DEF After
  <2> PICK b : b = a - 1
    OBVIOUS
  <2>2. b \in Nat /\ b <= Len(fn.instrs[p.at].args) /\ q = AtArg(p.at, b)
        /\ fn \in IrFunctions /\ p.at \in 1 .. Len(fn.instrs) /\ fn.instrs[p.at].kind = "FUNCALL"
    <3>1. a \in Int /\ a >= 7 /\ a <= Len(args)
      BY <1>1, <1>2
    <3>2. b \in Nat /\ b <= Len(args)
      BY ONLY <1>1, <3>1, b = a - 1
    <3> QED
      BY <1>1, <2>1, <3>2
  <2>3. /\ AtArg(p.at, b).at = p.at /\ AtArg(p.at, b).part \in {"push", "finish"} /\ AtArg(p.at, b).n = 1
        /\ AtArg(p.at, b).part = "push" => b > 6 /\ AtArg(p.at, b).arg = b
    BY ONLY <2>2, AtArgIsPlace
  <2>4. b > 6 => AtArg(p.at, b).part = "push"
    BY DEF AtArg, Place
  <2>5. b > 6 \/ b <= 6
    BY <2>2
  <2> QED
    BY <2>2, <2>3, <2>4, <2>5
<1>12. \A v : Val(v)' = Val(v)
  BY <1>6, <1>11, Inside
<1>13. Pushed(args, a - 1)'
  <2>1. a \in Nat /\ a > 6 /\ a <= Len(args)
    BY ONLY <1>1, <1>2
  <2>2. mem'[rsp - 8] = Val(args[a])
    BY <1>8
  <2> QED
    BY <1>1, <1>3, <1>6, <1>7, <1>8, <1>12, <2>1, <2>2, PushKeeps
<1>14. InRegisters(args, 6)'
  BY <1>3, <1>6, <1>12 DEF InRegisters
<1>15. q.part = "push" => Pushed(args, q.arg)' /\ q.n # 2
  <2> SUFFICES ASSUME q.part = "push"
               PROVE  Pushed(args, q.arg)' /\ q.n # 2
    OBVIOUS
  <2>1. q.arg = a - 1 /\ q.n = 1
    BY <1>11
  <2> QED
    BY <1>13, <2>1
<1>16. q.part = "finish" => Pushed(args, 6)'
  <2> SUFFICES ASSUME q.part = "finish"
               PROVE  Pushed(args, 6)'
    OBVIOUS
  <2>1. a - 1 = 6
    BY <1>2, <1>11
  <2> QED
    BY <1>13, <2>1
<1>17. DOMAIN regs' = Registers /\ lastCall' = lastCall /\ q.at = x.p.at /\ x.p.part # "finish"
       /\ (q.part = "finish" => q.n = 1) /\ q.part # "begin" /\ q.part \in {"begin", "push", "finish"}
  BY <1>6, <1>7, <1>11
<1> QED
  BY <1>6, <1>8, <1>9, <1>10, <1>14, <1>15, <1>16, <1>17, CallGoesOn

\* A variable goes through %eax.
LEMMA ArgumentLoaded ==
  ASSUME NEW h, NEW x, NEW c, NEW i, Calling(h, x, c, i), x.p.part = "push",
         NEW n, n = x.p.n, n = 1, n < Len(Block(fn, x.p)),
         NEW src, src = CodegenVal(i.args[x.p.arg]), Source(fn, x.p) = Mov(Reg("AX"), src)
  PROVE  Simulated(h)
<1> PICK p : p = x.p
  OBVIOUS
<1> PICK args : args = i.args
  OBVIOUS
<1> PICK a : a = p.arg
  OBVIOUS
<1> Meaning(h, x, c) /\ i = fn.instrs[p.at]
  BY DEF Calling
<1>1. /\ fn \in IrFunctions /\ Stored /\ p \in Places /\ InBlock(fn, p) /\ Len(args) \in Nat
      /\ Holding(p) /\ i.kind = "FUNCALL"
  BY CallStep
<1>2. a \in 7 .. Len(args) /\ a \in 1 .. Len(args)
  <2>1. a \in 7 .. Len(args)
    BY <1>1 DEF InBlock
  <2> QED
    BY <1>1, <2>1
<1>3. InRegisters(args, 6) /\ Pushed(args, a)
  BY <1>1 DEF Holding
<1> PICK r : r = "AX"
  OBVIOUS
<1>4. /\ Advance /\ UNCHANGED <<mem, flags, rsp, lastCall>>
      /\ DOMAIN regs' = Registers /\ DOMAIN mem' = Addresses
      /\ regs' = [regs EXCEPT ![r] = Value(Renamed(opmap, src))]
      /\ \A y : Slot(y)' = Slot(y)
      /\ InMap(opmap, src)
  <2>1. Meaning(h, x, c) /\ r \in Registers /\ Source(fn, x.p) = Mov(Reg(r), src)
    BY DEF Registers
  <2> QED
    BY ONLY <2>1, MovesToRegister
<1>5. Value(Renamed(opmap, src)) = Val(args[a])
  <2>1. a \in 1 .. Len(i.args) /\ InMap(opmap, CodegenVal(i.args[a]))
    BY <1>2, <1>4
  <2>2. Value(Renamed(opmap, CodegenVal(i.args[a]))) = Val(i.args[a])
    BY ONLY <2>1, Calling(h, x, c, i), ArgumentValue
  <2> QED
    BY <2>2
<1> PICK q : q = Successor(fn, p)
  OBVIOUS
<1>6. q.at = p.at /\ q.part = "push" /\ q.n = 2 /\ q.arg = a
  <2>1. q = [p EXCEPT !.n = n + 1]
    BY DEF Successor
  <2> QED
    BY <1>1, <2>1 DEF Places
<1>7. \A v : Val(v)' = Val(v)
  BY <1>4, <1>6, Inside
<1>8. regs'["AX"] = Val(args[a])
  BY <1>1, <1>4, <1>5 DEF Stored, Registers
<1>9. InRegisters(args, 6)'
  <2> SUFFICES ASSUME NEW k \in 1 .. Len(args), k <= 6
               PROVE  regs'[ArgRegisters[k]] = Val(args[k])
    BY <1>7 DEF InRegisters
  <2>1. k \in 1 .. 6
    OBVIOUS
  <2>2. ArgRegisters[k] # r /\ ArgRegisters[k] \in Registers
    BY <2>1, ArgRegistersDiffer
  <2>3. regs[ArgRegisters[k]] = Val(args[k])
    BY <1>3 DEF InRegisters
  <2>4. regs'[ArgRegisters[k]] = regs[ArgRegisters[k]]
    BY <1>1, <1>4, <2>2 DEF Stored
  <2> QED
    BY <2>3, <2>4
<1>10. Pushed(args, q.arg)'
  BY <1>3, <1>4, <1>6, <1>7 DEF Pushed
<1>11. /\ q.at = x.p.at /\ x.p.part # "finish" /\ q.part \in {"begin", "push", "finish"} /\ q.part # "begin"
       /\ q.part # "finish" /\ rsp' % 8 = 0 /\ lastCall' = lastCall /\ regs'["AX"] = Val(i.args[q.arg])
  BY <1>1, <1>4, <1>6, <1>8 DEF Stored
<1> QED
  BY <1>4, <1>9, <1>10, <1>11, CallGoesOn

LEMMA CallPushes ==
  ASSUME Wide, NEW h, NEW x, NEW c, NEW i, Calling(h, x, c, i), x.p.part = "push"
  PROVE  Simulated(h)
<1> PICK n : n = x.p.n
  OBVIOUS
<1> PICK a : a = x.p.arg
  OBVIOUS
<1> PICK v : v = i.args[a]
  OBVIOUS
<1>1. fn \in IrFunctions /\ InBlock(fn, x.p) /\ n \in 1 .. Len(Block(fn, x.p)) /\ Holding(x.p)
      /\ Len(i.args) \in Nat /\ i = fn.instrs[x.p.at]
  BY CallStep DEF Calling
<1>2. a \in 1 .. Len(i.args)
  <2>1. a \in 7 .. Len(i.args)
    BY <1>1 DEF InBlock
  <2> QED
    BY <1>1, <2>1
<1>3. v \in IrValues(Ids) /\ (InMap(opmap, CodegenVal(v)) => Value(Renamed(opmap, CodegenVal(v))) = Val(v))
  BY <1>2, ArgumentValue
<1>4. CASE v.kind = "CONSTANT"
  <2>1. Block(fn, x.p) = <<Push(CodegenVal(v))>>
    BY <1>1, <1>4, PushShape
  <2>2. n = 1 /\ n = Len(Block(fn, x.p)) /\ Source(fn, x.p) = Push(CodegenVal(v))
    BY <1>1, <2>1 DEF Source
  <2> PICK src : src = CodegenVal(v)
    OBVIOUS
  <2>3. Source(fn, x.p) = Push(src) /\ (InMap(opmap, src) => Value(Renamed(opmap, src)) = Val(i.args[x.p.arg]))
    BY <1>3, <2>2
  <2> QED
    BY <2>2, <2>3, ArgumentPushed
<1>5. CASE v.kind # "CONSTANT"
  <2> PICK src : src = CodegenVal(v)
    OBVIOUS
  <2>1. Block(fn, x.p) = <<Mov(Reg("AX"), src), Push(Reg("AX"))>>
    BY <1>1, <1>5, PushShape
  <2>2. CASE n = 1
    <3>1. n < Len(Block(fn, x.p)) /\ Source(fn, x.p) = Mov(Reg("AX"), src) /\ src = CodegenVal(i.args[x.p.arg])
      BY <2>1, <2>2 DEF Source
    <3> QED
      BY <2>2, <3>1, ArgumentLoaded
  <2>3. CASE n = 2
    <3> PICK op : op = Reg("AX")
      OBVIOUS
    <3>1. n = Len(Block(fn, x.p)) /\ Source(fn, x.p) = Push(op)
      BY <2>1, <2>3 DEF Source
    <3>2. Renamed(opmap, op) = Reg("AX")
      BY RenamedPlain
    <3>3. regs["AX"] = Val(i.args[x.p.arg])
      BY <1>1, <2>3 DEF Holding
    <3>4. Value(Renamed(opmap, op)) = Val(i.args[x.p.arg])
      BY <3>2, <3>3 DEF Value, Reg
    <3> QED
      BY <3>1, <3>4, ArgumentPushed
  <2> QED
    BY <1>1, <2>1, <2>2, <2>3
<1> QED
  BY <1>4, <1>5

\* From the call to the end of its code.
LEMMA CallEndsGoesOn ==
  ASSUME NEW h, NEW x, NEW c, NEW i, Calling(h, x, c, i), Advance, x.p.part = "finish",
         x.p.n < Len(Block(fn, x.p)),
         DOMAIN regs' = Registers, DOMAIN mem' = Addresses, rsp' % 8 = 0,
         lastCall' = Passed(i), regs'["AX"] \in Word,
         \A y \in Variables : Slot(y)' = Slot(y)
  PROVE  Simulated(h)
<1> PICK p : p = x.p
  OBVIOUS
<1> PICK n : n = p.n
  OBVIOUS
<1> Meaning(h, x, c) /\ i = fn.instrs[p.at]
  BY DEF Calling
<1>1. Stored /\ p \in Places /\ n \in Nat /\ Slots({})
  BY CallStep
<1> PICK q : q = Successor(fn, p)
  OBVIOUS
<1>2. q.at = p.at /\ q.part = "finish" /\ q.n = n + 1 /\ q.n > 1
  <2>1. q = [p EXCEPT !.n = n + 1]
    BY DEF Successor
  <2> QED
    BY <1>1, <2>1 DEF Places
<1>3. /\ IrEnv' = IrEnv /\ IrLastCall' = IrLastCall /\ UNCHANGED <<fn, opmap>>
      /\ \A v : Val(v)' = Val(v)
      /\ Stored' /\ Holding(q)' => Simulated(h)
  BY <1>2, Inside
<1>4. Stored'
  BY <1>1, <1>3 DEF Stored
<1>5. InFlux(q)' = {}
  BY <1>2 DEF InFlux
<1>6. Slots(InFlux(q))'
  BY <1>1, <1>3, <1>5 DEF Slots, Variables
<1>7. Passed(i)' = Passed(i) /\ fn'.instrs[q.at] = i
  BY <1>2, <1>3 DEF Passed
<1>8. Holding(q)'
  BY <1>2, <1>6, <1>7 DEF Holding
<1> QED
  BY <1>3, <1>4, <1>8

\* The callee finds the arguments; what it leaves alone includes the slots.
LEMMA CallMade ==
  ASSUME Wide, NEW h, NEW x, NEW c, NEW i, Calling(h, x, c, i), x.p.part = "finish",
         x.p.n = 1, 1 < Len(Block(fn, x.p)), Source(fn, x.p) = Call(i.f)
  PROVE  Simulated(h)
<1> PICK p : p = x.p
  OBVIOUS
<1> PICK args : args = i.args
  OBVIOUS
<1> Meaning(h, x, c) /\ i = fn.instrs[p.at]
  BY DEF Calling
<1>1. /\ fn \in IrFunctions /\ Stored /\ rsp \in Int /\ UNCHANGED <<fn, opmap>>
      /\ i.args \in Seq(IrValues(Ids)) /\ Len(args) \in Nat
      /\ c = RenameOperands(opmap, Source(fn, p))
      /\ Performs(c) /\ fixedFrom[pc] = p.at /\ Holding(p)
  BY CallStep
<1>2. InRegisters(args, 6) /\ Pushed(args, 6)
  BY <1>1 DEF Holding
<1>3. c.kind = "CALL" /\ c.f = i.f
  BY <1>1, OtherShapes
<1>4. ExecCall /\ fixed[pc] = c
  <2>1. fixed[pc] = c
    BY <1>1, <1>3 DEF Performs
  <2>2. Exec /\ pc \in 1 .. Len(fixed) /\ Running /\ Len(fixed) \in Nat
    BY ReadyFacts DEF Meaning, Ready
  <2> QED
    BY <1>3, <2>1, <2>2, ExecKinds
<1>5. fn.instrs[fixedFrom[pc]].args = args
  BY <1>1
<1>6. /\ lastCall' = <<i.f, [k \in DOMAIN args |-> Argument(k)]>>
      /\ Advance /\ UNCHANGED <<flags, rsp>>
  BY <1>3, <1>4, <1>5 DEF ExecCall
<1>7. PICK w \in Word : /\ regs' = [r \in Registers |-> IF r = "AX" THEN w ELSE NotWord(w)]
                        /\ mem' = [a \in Addresses |-> IF a < rsp THEN NotWord(w) ELSE mem[a]]
  BY <1>4 DEF ExecCall
<1>8. DOMAIN regs' = Registers /\ regs'["AX"] \in Word /\ DOMAIN mem' = Addresses
  BY <1>7 DEF Registers
<1>9. \A k \in DOMAIN args : Argument(k) = Val(args[k])
  <2>0. DOMAIN args = 1 .. Len(args)
    <3>1. args \in Seq(IrValues(Ids))
      BY <1>1
    <3> QED
      BY ONLY <3>1
  <2> SUFFICES ASSUME NEW k \in 1 .. Len(args)
               PROVE  Argument(k) = Val(args[k])
    BY <2>0
  <2>1. CASE k <= 6
    <3>1. regs[ArgRegisters[k]] = Val(args[k])
      BY <1>2, <2>1 DEF InRegisters
    <3> QED
      BY <2>1, <3>1, SixArgRegisters DEF Argument
  <2>2. CASE ~(k <= 6)
    <3>1. mem[rsp + 8 * (k - 6 - 1)] = Val(args[k])
      BY <1>2, <2>2 DEF Pushed
    <3> QED
      BY <2>2, <3>1, SixArgRegisters DEF Argument
  <2> QED
    BY <2>1, <2>2
<1>10. lastCall' = Passed(i)
  <2>1. [k \in DOMAIN args |-> Argument(k)] = [k \in DOMAIN args |-> Val(args[k])]
    BY <1>9
  <2> QED
    BY <1>6, <2>1 DEF Passed
<1>11. \A y \in Variables : Slot(y)' = Slot(y)
  <2>1. p # FramePlace /\ h[pc].p = p /\ MachineInv /\ Printed(h) /\ Running
    <3>1. FramePlace.part = "frame"
      BY DEF FramePlace, Place
    <3> QED
      BY <3>1 DEF Meaning, Ready
  <2>2. \A y \in Variables : opmap.slot[y] \in Int /\ opmap.slot[y] % 4 = 0 /\ opmap.slot[y] >= rsp
    BY <2>1, SlotsAbove
  <2> SUFFICES ASSUME NEW y \in Variables
               PROVE  Slot(y)' = Slot(y)
    OBVIOUS
  <2>3. opmap.slot[y] \in Addresses
    <3>1. PICK k \in Int : opmap.slot[y] = 4 * k
      BY <2>2
    <3> QED
      BY <3>1 DEF Wide
  <2>4. ~(opmap.slot[y] < rsp)
    BY <1>1, <2>2
  <2>5. mem'[opmap.slot[y]] = mem[opmap.slot[y]]
    BY <1>7, <2>3, <2>4
  <2> QED
    BY <1>1, <2>5 DEF Slot
<1>12. rsp' % 8 = 0
  BY <1>1, <1>6 DEF Stored
<1> QED
  BY <1>6, <1>8, <1>10, <1>11, <1>12, CallEndsGoesOn

\* The pushed arguments and the padding are dropped.
LEMMA CallDrops ==
  ASSUME NEW h, NEW x, NEW c, NEW i, Calling(h, x, c, i), x.p.part = "finish",
         x.p.n = 2, 2 < Len(Block(fn, x.p)), Source(fn, x.p) = Deallocate(BytesToRemove(i.args))
  PROVE  Simulated(h)
<1> PICK p : p = x.p
  OBVIOUS
<1> PICK bytes : bytes = BytesToRemove(i.args)
  OBVIOUS
<1> Meaning(h, x, c) /\ i = fn.instrs[p.at]
  BY DEF Calling
<1>1. /\ Stored /\ rsp \in Int /\ UNCHANGED <<fn, opmap>> /\ Len(i.args) \in Nat
      /\ c = RenameOperands(opmap, Source(fn, p))
      /\ Performs(c) /\ Holding(p)
  BY CallStep
<1>2. lastCall = Passed(i) /\ regs["AX"] \in Word
  BY <1>1 DEF Holding
<1>3. c.kind = "DEALLOCATE" /\ c.val = bytes
  BY <1>1, OtherShapes
<1>4. ExecDeallocate /\ fixed[pc] = c
  <2>1. fixed[pc] = c
    BY <1>1, <1>3 DEF Performs
  <2>2. Exec /\ pc \in 1 .. Len(fixed) /\ Running /\ Len(fixed) \in Nat
    BY ReadyFacts DEF Meaning, Ready
  <2> QED
    BY <1>3, <2>1, <2>2, ExecKinds
<1>5. rsp' = rsp + bytes /\ Advance /\ UNCHANGED <<regs, flags, mem, lastCall>>
  BY <1>3, <1>4 DEF ExecDeallocate
<1>6. bytes \in Nat /\ bytes % 8 = 0
  <2>1. StackArgs(i.args) \in Nat
    BY <1>1, ArgumentCounts
  <2>2. Padding(i.args) = 0 \/ Padding(i.args) = 8
    BY DEF Padding
  <2>3. bytes = 8 * StackArgs(i.args) + Padding(i.args)
    BY DEF BytesToRemove
  <2> PICK s : s = StackArgs(i.args)
    OBVIOUS
  <2>4. bytes = 8 * s \/ bytes = 8 * (s + 1)
    BY <2>1, <2>2, <2>3
  <2> QED
    BY <2>1, <2>4
<1>7. rsp' % 8 = 0
  <2>1. rsp % 8 = 0
    BY <1>1 DEF Stored
  <2> PICK low : low = rsp
    OBVIOUS
  <2>2. low \in Int /\ low % 8 = 0
    BY <1>1, <2>1
  <2>3. (low + bytes) % 8 = 0
    BY ONLY <2>2, <1>6
  <2> QED
    BY <1>5, <2>3
<1>8. \A y \in Variables : Slot(y)' = Slot(y)
  BY <1>1, <1>5 DEF Slot
<1>9. DOMAIN regs' = Registers /\ DOMAIN mem' = Addresses /\ lastCall' = Passed(i) /\ regs'["AX"] \in Word
  BY <1>1, <1>2, <1>5 DEF Stored
<1> QED
  BY <1>5, <1>7, <1>8, <1>9, CallEndsGoesOn

\* The result is stored: the IR sees the call.
LEMMA CallResult ==
  ASSUME Wide, NEW h, NEW x, NEW c, NEW i, Calling(h, x, c, i), x.p.part = "finish",
         x.p.n > 1, x.p.n = Len(Block(fn, x.p)),
         NEW src, src = Reg("AX"), Source(fn, x.p) = Mov(CodegenVal(i.dst), src)
  PROVE  Simulated(h)
<1> PICK p : p = x.p
  OBVIOUS
<1> PICK d : d = i.dst.id
  OBVIOUS
<1> PICK w : w = regs["AX"]
  OBVIOUS
<1> Meaning(h, x, c) /\ i = fn.instrs[p.at]
  BY DEF Calling
<1>1. /\ fn \in IrFunctions /\ Running /\ Stored /\ rsp \in Int /\ UNCHANGED <<fn, opmap>> /\ Len(i.args) \in Nat
      /\ p.at \in 1 .. Len(fn.instrs) /\ IrIp = p.at /\ IrIp <= Len(fn.instrs)
      /\ i \in IrInstructions(Ids) /\ i.kind = "FUNCALL"
      /\ c = RenameOperands(opmap, Source(fn, p)) /\ Named(opmap, Source(fn, p))
      /\ Performs(c) /\ (c.kind \in {"MOV", "BINOP", "CMP"} => Advance)
      /\ Holding(p) /\ Slots({})
  BY CallStep
<1>2. lastCall = Passed(i) /\ w \in Word
  BY <1>1 DEF Holding
<1>3. i.dst \in IrValues(Ids) /\ i.dst.kind = "VARIABLE"
  BY <1>1, ArgumentsAreSequences DEF IrValues, IrVariables
<1>4. d \in Variables /\ Placed(i.dst) = Stack(opmap.slot[d])
  <2>1. Named(opmap, Mov(CodegenVal(i.dst), src))
    BY <1>1
  <2>2. InMap(opmap, CodegenVal(i.dst))
    BY <2>1, NamedOperands
  <2> QED
    BY <1>3, <2>2, BoundValue, PlacedKinds
<1>5. c.kind = "MOV" /\ c.dst = Stack(opmap.slot[d]) /\ c.src = Reg("AX")
  <2>1. c = RenameOperands(opmap, Mov(CodegenVal(i.dst), src))
    BY <1>1
  <2>2. Renamed(opmap, CodegenVal(i.dst)) = Stack(opmap.slot[d])
    BY <1>4 DEF Placed
  <2>3. Renamed(opmap, src) = Reg("AX")
    BY RenamedPlain
  <2> PICK dst : dst = CodegenVal(i.dst)
    OBVIOUS
  <2>4. c = RenameOperands(opmap, Mov(dst, src))
    BY <2>1
  <2>5. c.kind = "MOV" /\ c.dst = Renamed(opmap, dst) /\ c.src = Renamed(opmap, src)
    BY ONLY <2>4, RenamedShapes
  <2> QED
    BY <2>2, <2>3, <2>5
<1>6. Advance /\ Write(Stack(opmap.slot[d]), w) /\ UNCHANGED <<flags, rsp, lastCall>>
  <2>1. Value(Reg("AX")) = w
    BY DEF Value, Reg
  <2> QED
    BY <1>1, <1>5, <2>1 DEF Performs
<1>7. /\ DOMAIN regs' = Registers /\ DOMAIN mem' = Addresses
      /\ Slot(d)' = w
      /\ \A y \in Variables \ {d} : Slot(y)' = Slot(y)
  BY <1>4, <1>6, Stores
<1>8. \A y \in Variables \ {d} : Slot(y)' = IrEnv[y]
  BY <1>1, <1>7 DEF Slots
<1>9. rsp' % 8 = 0
  BY <1>1, <1>6 DEF Stored
<1>10. Successor(fn, x.p) = FirstOf(fn, x.p.at + 1)
  <2>1. ~(p.n < Len(Block(fn, p)))
    <3>1. p.n \in Nat /\ p.n = Len(Block(fn, p))
      BY CallStep
    <3> QED
      BY ONLY <3>1
  <2>2. Successor(fn, p) = After(fn, p)
    BY <2>1 DEF Successor
  <2> QED
    BY <2>2 DEF After
<1>11. /\ IrEnv' = [IrEnv EXCEPT ![d] = w] /\ IrIp' = IrIp + 1 /\ IrLastCall' = lastCall'
       /\ UNCHANGED <<fn, status, result>> /\ Continues(h)
  BY <1>1, <1>2, <1>4, <1>6, <1>7, <1>8, <1>9, <1>10, EndsAssigning
<1>12. IrLastCall' = Passed(i)
  BY <1>2, <1>6, <1>11
<1>13. Abstract!At("FUNCALL") /\ fn.instrs[IrIp] = i
  BY <1>1 DEF Abstract!At, Running
<1>14. Passed(i) = <<i.f, [k \in DOMAIN i.args |-> Abstract!ValueIn(IrEnv, i.args[k])]>>
  BY DEF Passed, Val, Abstract!ValueIn
<1>15. Abstract!Word = Word
  BY SameWords
<1>16. Abstract!DoFuncall
  BY <1>2, <1>11, <1>12, <1>13, <1>14, <1>15 DEF Abstract!DoFuncall, Abstract!Assign
<1> QED
  BY <1>11, <1>16 DEF Simulated, Abstract!IrNext

LEMMA CallFinishes ==
  ASSUME Wide, NEW h, NEW x, NEW c, NEW i, Calling(h, x, c, i), x.p.part = "finish"
  PROVE  Simulated(h)
<1> PICK p : p = x.p
  OBVIOUS
<1> PICK block : block = Block(fn, p)
  OBVIOUS
<1> PICK n : n = p.n
  OBVIOUS
<1> PICK src : src = Reg("AX")
  OBVIOUS
<1>1. i \in IrInstructions(Ids) /\ i.kind = "FUNCALL" /\ n \in 1 .. Len(block) /\ i = fn.instrs[p.at]
  BY CallStep DEF Calling
<1>2. block = <<Call(i.f)>> \o DeallocateIfAny(BytesToRemove(i.args)) \o <<Mov(CodegenVal(i.dst), Reg("AX"))>>
  BY <1>1 DEF Block
<1>3. /\ Len(block) \in {2, 3}
      /\ block[1] = Call(i.f)
      /\ block[Len(block)] = Mov(CodegenVal(i.dst), src)
      /\ Len(block) = 3 => block[2] = Deallocate(BytesToRemove(i.args))
  BY <1>1, <1>2, FinishShape
<1>4. Source(fn, p) = block[n]
  BY DEF Source
<1> PICK len : len = Len(block)
  OBVIOUS
<1>5. (len = 2 \/ len = 3) /\ n \in 1 .. len
  BY <1>1, <1>3
<1>5a. (n = 1 \/ n = len \/ (len = 3 /\ n = 2)) /\ 1 < len
  BY ONLY <1>5
<1>6. CASE n = 1
  <2>1. p.n = 1 /\ 1 < Len(Block(fn, p))
    BY <1>5a, <1>6
  <2>2. Source(fn, p) = Call(i.f)
    BY <1>3, <1>4, <1>6
  <2> QED
    BY <2>1, <2>2, CallMade
<1>7. CASE n = len
  <2>0. n > 1
    BY ONLY <1>5, <1>7
  <2>1. p.n > 1 /\ p.n = Len(Block(fn, p))
    BY <1>7, <2>0
  <2>2. Source(fn, p) = Mov(CodegenVal(i.dst), src)
    BY <1>3, <1>4, <1>7
  <2> QED
    BY <2>1, <2>2, CallResult
<1>8. CASE len = 3 /\ n = 2
  <2>1. p.n = 2 /\ 2 < Len(Block(fn, p)) /\ Source(fn, p) = Deallocate(BytesToRemove(i.args))
    BY <1>3, <1>4, <1>8
  <2> QED
    BY <2>1, CallDrops
<1> QED
  BY <1>5a, <1>6, <1>7, <1>8

-----------------------------------------------------------------------------
(* Every step of the running function *)

LEMMA CallingStep ==
  ASSUME Wide, NEW h, NEW x, NEW c, Meaning(h, x, c), x.p.part \in {"begin", "push", "finish"}
  PROVE  Simulated(h)
<1> PICK i : i = fn.instrs[x.p.at]
  OBVIOUS
<1>1. Calling(h, x, c, i)
  BY DEF Calling
<1> QED
  BY <1>1, CallBegins, CallPushes, CallFinishes

\* Behind the last instruction: so does the IR function end.
LEMMA EndStep ==
  ASSUME NEW h, Ready(h), Exec, pc \notin 1 .. Len(fixed)
  PROVE  Simulated(h)
<1>1. /\ Printed(h) /\ status = "running" /\ fn \in IrFunctions /\ Len(fixed) \in Nat /\ Len(fn.instrs) \in Nat
      /\ pc = Len(fixed) + 1
      /\ IrIp = (IF h[pc].p.at > 0 THEN h[pc].p.at ELSE 1)
  BY ReadyFacts, FunctionTypes DEF Ready, Running
<1>2. h[pc].p.at = Len(fn.instrs) + 1
  <2>1. h[pc].p = Place(Len(fn.instrs) + 1, "end", 0)
    BY <1>1 DEF Printed
  <2> QED
    BY <2>1 DEF Place
<1>3. IrIp = Len(fn.instrs) + 1
  BY <1>1, <1>2
<1>4. ~(pc <= Len(fixed))
  BY <1>1
<1>5. ExecPastEnd
  <2>1. \A kind : ~Executing(kind)
    BY <1>4 DEF Executing
  <2> QED
    BY <2>1 DEF Exec, ExecMov, ExecUnop, ExecBinop, ExecCdq, ExecIdiv, ExecCmp, ExecSetCC, ExecJump, ExecBranch,
       ExecLabel, ExecAlloc, ExecDeallocate, ExecPush, ExecCall, ExecRet
<1>6. status' = "fell off" /\ UNCHANGED <<pc, result>>
  BY <1>5 DEF ExecPastEnd
<1>7. UNCHANGED <<fn, IrEnv, IrIp, IrLastCall>> /\ Continues(h)
  BY <1>6, StopsHere
<1>8. Abstract!FallOff
  BY <1>1, <1>3, <1>6, <1>7 DEF Abstract!FallOff
<1> QED
  BY <1>7, <1>8 DEF Simulated, Abstract!IrNext

\* Whatever the processor does next, the IR does it too or does not see it,
\* and the course of the code is kept.
LEMMA RunningStep ==
  ASSUME Wide, NEW h, Ready(h), Exec
  PROVE  Simulated(h)
<1> PICK x : x = h[pc]
  OBVIOUS
<1>1. MachineInv /\ Printed(h) /\ Len(fixed) \in Nat /\ pc \in 1 .. Len(fixed) + 1
  BY ReadyFacts DEF Ready
<1>2. CASE pc \notin 1 .. Len(fixed)
  BY <1>2, EndStep
<1>3. CASE pc \in 1 .. Len(fixed) /\ x.p = FramePlace
  BY <1>3, FrameStep
<1>4. CASE pc \in 1 .. Len(fixed) /\ x.p # FramePlace
  <2>1. AtSpot(x, fixed[pc], fixedFrom[pc])
    <3>1. pc <= Len(fixed)
      BY <1>4
    <3> QED
      BY <1>1, <3>1, SpotTypes
  <2>2. IsPlace(fn, x.p) /\ x.p.part # "end"
    BY <1>4, <2>1 DEF AtSpot
  <2> PICK c : c = Meant(x.p)
    OBVIOUS
  <2>3. CASE x.o < Len(Fix(c))
    <3>1. Unseen /\ Continues(h)
      BY <1>4, <2>2, <2>3, PreparationStep
    <3> QED
      BY <3>1 DEF Simulated
  <2>4. CASE ~(x.o < Len(Fix(c)))
    <3>1. Meaning(h, x, c)
      BY <1>4, <2>2, <2>4 DEF Meaning
    <3>2. x.p.part \in {"params", "instr", "begin", "push", "finish"}
      BY <2>2 DEF IsPlace, InBlock, Place
    <3> QED
      BY <3>1, <3>2, ParamStep, InstructionStep, CallingStep
  <2> QED
    BY <2>3, <2>4
<1> QED
  BY <1>2, <1>3, <1>4

-----------------------------------------------------------------------------
(* The compiled function implements its IR *)

\* While the passes run, the arguments are where the caller has put them.
Waiting ==
  /\ status = "running" /\ pc = 1 /\ rsp = 0
  /\ lastCall = <<>> /\ saved.call = <<>>
  /\ DOMAIN regs = Registers /\ DOMAIN mem = Addresses
  /\ saved.env \in [Ids -> Word]
  /\ \A m \in 1 .. Len(fn.params) : Value(ParamSource(m)) = saved.env[fn.params[m]]
  /\ \A a \in Addresses : a < 0 => \A y \in Ids \ Range(fn.params) : mem[a] = saved.env[y]

PassesInv == MachineInv /\ LayoutInv /\ ListingInv

RefinementInv ==
  /\ PassesInv
  /\ ~Loaded => Waiting
  /\ Running => \E h : Printed(h) /\ Stored /\ At(h[pc])

\* Where the code of an IR instruction begins, nothing is asked but that the
\* slots hold the variables.
LEMMA StartHolds ==
  ASSUME fn \in IrFunctions, NEW p, p = FirstOf(fn, 1), Slots({}), lastCall = IrLastCall
  PROVE  Holding(p)
<1>1. p.at = 1 /\ p.n = 1 /\ p.part \in {"instr", "begin", "finish", "end"}
  BY FirstIsPlace, FunctionTypes
<1> PICK args : args = fn.instrs[1].args
  OBVIOUS
<1>2. InFlux(p) = {}
  BY <1>1 DEF InFlux
<1>3. p.part = "begin" => InRegisters(args, 1 - 1 - Pads(args))
  <2>1. Pads(args) \in {0, 1}
    BY DEF Pads, AllocIfAny
  <2>2. \A k \in 1 .. Len(args) : ~(k <= 1 - 1 - Pads(args))
    BY <2>1
  <2> QED
    BY <2>2 DEF InRegisters
<1>4. p.part = "finish" => InRegisters(args, 6) /\ Pushed(args, 6)
  <2>1. p.part = "finish" => Len(args) = 0
    BY DEF FirstOf, Place
  <2>2. ASSUME Len(args) = 0
        PROVE  \A k \in 1 .. Len(args) : FALSE
    BY <2>2
  <2> QED
    BY <2>1, <2>2 DEF InRegisters, Pushed
<1> QED
  BY <1>1, <1>2, <1>3, <1>4 DEF Holding

\* Before anything is put on the stack: nothing has a slot.
LEMMA NoFrameNoSlots ==
  ASSUME MapInv(opmap), Frame(opmap.stack_offset) = 0
  PROVE  Variables = {}
<1>1. opmap.stack_offset \in Int /\ opmap.stack_offset <= 0
  BY DEF MapInv
<1>2. 0 <= opmap.stack_offset
  BY <1>1, FrameRounds
<1>3. ASSUME NEW y \in DOMAIN opmap.slot
      PROVE  FALSE
  <2>1. opmap.slot[y] \in Int /\ opmap.stack_offset <= opmap.slot[y] /\ opmap.slot[y] + 4 <= 0
    BY DEF MapInv
  <2> QED
    BY <1>1, <1>2, <2>1
<1> QED
  BY <1>3 DEF Variables

\* The function is compiled: the processor stands where the IR does.
LEMMA Loading ==
  ASSUME Wide, PassesInv, Loaded, Waiting, NEW h, Printed(h)
  PROVE  IrEnv = saved.env /\ IrLastCall = saved.call /\ IrIp = 1 /\ Stored /\ At(h[pc])
<1> PICK p : p = h[pc].p
  OBVIOUS
<1>1. /\ MachineInv /\ Running /\ pc = 1 /\ rsp = 0
      /\ lastCall = <<>> /\ saved.call = <<>>
      /\ DOMAIN regs = Registers /\ DOMAIN mem = Addresses
      /\ saved.env \in [Ids -> Word]
  BY DEF PassesInv, Waiting, Running
<1>2. fn \in IrFunctions /\ MapInv(opmap) /\ fn.params \in Seq(Ids) /\ Len(fn.params) \in Nat /\ Len(fn.instrs) \in Nat
  BY <1>1, MachineTypes, FunctionTypes
<1>3. Origin = p.at /\ (AtBoundary <=> Begins(h[pc]))
  BY <1>1, MappingHere
<1>4. p = (IF Frame(opmap.stack_offset) # 0 THEN FramePlace ELSE Start(fn)) /\ h[pc].o = 1
  BY <1>1 DEF Printed
<1>5. FramePlace.at = 0 /\ FramePlace.part = "frame"
  BY DEF FramePlace, Place
<1>6. Given(1) \/ IrEnv # saved.env
  BY DEF Given, Waiting
<1>7. Scratch(Meant(p), 1)
  BY DEF Scratch
<1>8. CASE p.at = 0
  <2>1. ~AtBoundary
    BY <1>3, <1>8 DEF Begins
  <2>2. IrEnv = saved.env /\ IrLastCall = saved.call /\ IrIp = 1
    BY <1>3, <1>8, <2>1 DEF IrEnv, IrLastCall, IrIp
  <2>3. \A y \in Ids \ Range(fn.params) : y \in DOMAIN opmap.slot => mem[opmap.slot[y]] = saved.env[y]
    <3> SUFFICES ASSUME NEW y \in Ids \ Range(fn.params), y \in DOMAIN opmap.slot
                 PROVE  mem[opmap.slot[y]] = saved.env[y]
      OBVIOUS
    <3> PICK a : a = opmap.slot[y]
      OBVIOUS
    <3>1. a \in Int /\ a % 4 = 0 /\ a + 4 <= 0
      BY <1>2 DEF MapInv
    <3>2. a \in Addresses
      <4>1. PICK k \in Int : a = 4 * k
        BY <3>1
      <4> QED
        BY <4>1 DEF Wide
    <3>3. a < 0
      BY <3>1
    <3> QED
      BY <3>2, <3>3 DEF Waiting
  <2>4. p.part = "frame" \/ (p.part = "params" /\ p.n = 1)
    <3>1. CASE Frame(opmap.stack_offset) # 0
      BY <1>4, <1>5, <3>1
    <3>2. CASE Frame(opmap.stack_offset) = 0 /\ Len(fn.params) = 0
      <4>1. p = FirstOf(fn, 1) /\ 1 \in 1 .. Len(fn.instrs) + 1
        BY <1>2, <1>4, <3>2 DEF Start
      <4> QED
        BY <1>2, <1>8, <4>1, FirstIsPlace
    <3>3. CASE Frame(opmap.stack_offset) = 0 /\ Len(fn.params) # 0
      BY <1>4, <3>3 DEF Start, Place
    <3> QED
      BY <3>1, <3>2, <3>3
  <2>5. InFlux(p) = Range(fn.params)
    BY <1>2, <2>4 DEF InFlux, Range
  <2>6. Slots(InFlux(p))
    BY <2>2, <2>3, <2>5 DEF Slots, Slot, Variables
  <2>7. Holding(p)
    BY <1>1, <1>6, <2>2, <2>4, <2>6 DEF Holding
  <2> QED
    BY <1>1, <1>4, <1>7, <2>2, <2>7 DEF Stored, At
<1>9. CASE p.at # 0
  <2>1. p = FirstOf(fn, 1) /\ Frame(opmap.stack_offset) = 0
    <3>1. Frame(opmap.stack_offset) = 0 /\ p = Start(fn)
      BY <1>4, <1>5, <1>9
    <3>2. Len(fn.params) = 0
      BY <1>9, <3>1 DEF Start, Place
    <3> QED
      BY <3>1, <3>2 DEF Start
  <2>2. p.at = 1
    BY <1>2, <2>1, FirstIsPlace
  <2>3. Begins(h[pc])
    BY <1>4, <2>1, <2>2 DEF Begins
  <2>4. AtBoundary /\ Origin = 1
    BY <1>3, <2>2, <2>3
  <2>5. Variables = {}
    BY <1>2, <2>1, NoFrameNoSlots
  <2>6. IrEnv = saved.env
    <3>1. IrEnv = [y \in Ids |-> IF y \in DOMAIN opmap.slot THEN mem[opmap.slot[y]] ELSE saved.env[y]]
      BY <2>4 DEF IrEnv
    <3>2. \A y \in Ids : y \notin DOMAIN opmap.slot
      BY <2>5 DEF Variables
    <3> QED
      BY <1>1, <3>1, <3>2
  <2>7. IrLastCall = lastCall /\ IrIp = 1
    BY <2>4 DEF IrLastCall, IrIp
  <2>8. Slots({})
    BY <2>5 DEF Slots
  <2>9. Holding(p)
    BY <1>2, <2>1, <2>7, <2>8, StartHolds
  <2> QED
    BY <1>1, <1>4, <1>7, <2>6, <2>7, <2>9 DEF Stored, At
<1> QED
  BY <1>8, <1>9

LEMMA Loads ==
  ASSUME Wide, PassesInv, Loaded, Waiting
  PROVE  /\ IrEnv = saved.env /\ IrLastCall = saved.call /\ IrIp = 1
         /\ \E h : Printed(h) /\ Stored /\ At(h[pc])
<1>1. PICK h : Printed(h)
  BY CodeIsPrinted DEF PassesInv, Loaded
<1> QED
  BY <1>1, Loading

\* A caller can only give words.
LEMMA EntryWaits ==
  ASSUME Wide, MachineInit
  PROVE  Waiting
<1>1. /\ fn \in IrFunctions
      /\ rsp = 0 /\ pc = 1 /\ status = "running" /\ lastCall = <<>>
  BY DEF MachineInit, Init
<1>2. PICK given \in Environments(fn), garbage \in Garbage :
        LET env == [x \in Ids |-> IF x \in Range(fn.params) THEN given[x] ELSE garbage]
        IN Entry(env, garbage) /\ saved = [env |-> env, call |-> <<>>]
  BY DEF MachineInit
<1> PICK env : env = [x \in Ids |-> IF x \in Range(fn.params) THEN given[x] ELSE garbage]
  OBVIOUS
<1>3. Entry(env, garbage) /\ saved.env = env /\ saved.call = <<>>
  BY <1>2
<1>4. fn.params \in Seq(Ids) /\ Len(fn.params) \in Nat
  BY <1>1, FunctionTypes
<1>5. env \in [Ids -> Word]
  <2>1. garbage \in Word /\ \A y \in Range(fn.params) : given[y] \in Word
    BY <1>1, EnvironmentsAssumption
  <2> QED
    BY <2>1
<1> DEFINE registerArg(r) == {i \in 1 .. Len(fn.params) : i <= 6 /\ ArgRegisters[i] = r}
           stackArg(a) == {i \in 7 .. Len(fn.params) : a = 16 + 8 * (i - 7)}
           valueOf(params) == IF params = {} THEN garbage ELSE env[fn.params[CHOOSE i \in params : TRUE]]
<1>6. /\ regs = [r \in Registers |-> valueOf(registerArg(r))]
      /\ mem = [a \in Addresses |-> valueOf(stackArg(a))]
  BY <1>3 DEF Entry
<1>7. \A m : valueOf({m}) = env[fn.params[m]]
  OBVIOUS
<1> HIDE DEF valueOf
<1>8. ASSUME NEW m \in 1 .. Len(fn.params)
      PROVE  Value(ParamSource(m)) = env[fn.params[m]]
  <2>1. CASE m <= 6
    <3>1. m \in 1 .. 6
      BY <1>4, <2>1
    <3>2. ParamSource(m) = Reg(ArgRegisters[m])
      BY <2>1, SixArgRegisters DEF ParamSource
    <3>3. ArgRegisters[m] \in Registers
      BY <3>1, ArgRegistersDiffer
    <3>4. registerArg(ArgRegisters[m]) = {m}
      <4>1. ASSUME NEW i \in 1 .. Len(fn.params), i <= 6, ArgRegisters[i] = ArgRegisters[m]
            PROVE  i = m
        <5>1. i \in 1 .. 6
          BY <1>4, <4>1
        <5> QED
          BY <3>1, <4>1, <5>1, ArgRegistersDiffer
      <4> QED
        BY <2>1, <4>1
    <3>5. regs[ArgRegisters[m]] = valueOf({m})
      BY <1>6, <3>3, <3>4
    <3> QED
      BY <1>7, <3>2, <3>5 DEF Value, Reg
  <2>2. CASE ~(m <= 6)
    <3> PICK a : a = 16 + 8 * (m - 7)
      OBVIOUS
    <3>1. ParamSource(m) = Stack(a)
      BY <2>2, SixArgRegisters DEF ParamSource
    <3>2. a \in Addresses
      <4>1. a = 4 * (4 + 2 * (m - 7)) /\ 4 + 2 * (m - 7) \in Int
        BY <1>4
      <4> QED
        BY <4>1 DEF Wide
    <3>3. m \in 7 .. Len(fn.params)
      BY <1>4, <2>2
    <3>4. stackArg(a) = {m}
      BY <1>4, <3>3
    <3>5. mem[a] = valueOf({m})
      BY <1>6, <3>2, <3>4
    <3>6. ParamSource(m).kind = "STACK" /\ ParamSource(m).stack = a
      BY <3>1 DEF Stack
    <3>7. Value(ParamSource(m)) = mem[a]
      BY <3>6 DEF Value
    <3> QED
      BY <1>7, <3>5, <3>7
  <2> QED
    BY <2>1, <2>2
<1>9. ASSUME NEW a \in Addresses, a < 0, NEW y \in Ids \ Range(fn.params)
      PROVE  mem[a] = env[y]
  <2>1. stackArg(a) = {}
    BY <1>4, <1>9
  <2>2. valueOf({}) = garbage
    BY DEF valueOf
  <2> QED
    BY <1>6, <2>1, <2>2
<1>10. DOMAIN regs = Registers /\ DOMAIN mem = Addresses
  BY <1>6
<1> QED
  BY <1>1, <1>3, <1>5, <1>8, <1>9, <1>10 DEF Waiting

LEMMA RefinementStarts ==
  ASSUME Wide, MachineInit
  PROVE  RefinementInv /\ Abstract!IrInit
<1>1. Waiting
  BY EntryWaits
<1>2. /\ Init /\ ~Loaded /\ rsp = 0 /\ pc = 1
      /\ status = "running" /\ result = 0 /\ lastCall = <<>> /\ fn \in IrFunctions
  BY DEF MachineInit, Init, Loaded
<1>3. MachineInv
  BY <1>2, StackInvInit DEF MachineInv, RunInv
<1>4. LayoutInv /\ ListingInv
  <2>1. LayoutInv
    BY <1>2, LayoutInvInit
  <2> QED
    BY <1>2, <2>1 DEF Init, LayoutInv, ListingInv
<1>5. RefinementInv
  BY <1>1, <1>2, <1>3, <1>4 DEF RefinementInv, PassesInv, Running
<1>6. IrEnv = saved.env /\ IrLastCall = saved.call /\ IrIp = 1
  BY <1>2 DEF IrEnv, IrLastCall, IrIp, AtBoundary
<1>7. IrEnv \in [Ids -> Abstract!Word] /\ IrLastCall = <<>>
  BY <1>1, <1>6, SameWords DEF Waiting
<1> QED
  BY <1>2, <1>5, <1>6, <1>7 DEF Abstract!IrInit

\* The passes: the IR has not started.
LEMMA CompilingStep ==
  ASSUME RefinementInv, Compile,
         (PassesInv /\ Loaded /\ Waiting =>
            /\ IrEnv = saved.env /\ IrLastCall = saved.call /\ IrIp = 1
            /\ \E h : Printed(h) /\ Stored /\ At(h[pc]))'
  PROVE  RefinementInv' /\ UNCHANGED <<fn, IrEnv, IrIp, IrLastCall, status, result>>
<1>1. PassesInv /\ ~Loaded /\ Waiting /\ Pass /\ UNCHANGED machineVars
  BY PassesCompile DEF RefinementInv, PassesInv, MachineInv, Compile
<1>2. fn' = fn
  BY <1>1 DEF Pass, SaveParams, GenInstr, CallBegin, CallPush, CallFinish, EndCodegen, RenameInstr, EndRename,
              FixInstr, InsertFrame
<1>3. PassesInv'
  <2>1. MachineInv'
    BY <1>1, CompileRun DEF PassesInv, Compile
  <2>2. [Next]_passVars
    BY <1>1 DEF Next
  <2>3. LayoutInv' /\ ListingInv'
    BY <1>1, <2>2, LayoutInvStep, ListingInvStep DEF PassesInv
  <2> QED
    BY <2>1, <2>3 DEF PassesInv
<1>4. UNCHANGED <<regs, flags, mem, rsp, pc, status, result, lastCall, saved>>
  BY <1>1 DEF machineVars
<1>5. Waiting'
  <2>1. \A op : Value(op)' = Value(op)
    BY <1>4 DEF Value
  <2>2. \A m : ParamSource(m)' = ParamSource(m)
    BY DEF ParamSource
  <2> QED
    BY <1>1, <1>2, <1>4, <2>1, <2>2 DEF Waiting
<1>6. IrEnv = saved.env /\ IrLastCall = saved.call /\ IrIp = 1
  BY <1>1 DEF IrEnv, IrLastCall, IrIp, AtBoundary
<1>7. IrEnv' = saved'.env /\ IrLastCall' = saved'.call /\ IrIp' = 1 /\ RefinementInv'
  <2>1. CASE Loaded'
    BY <1>3, <1>5, <2>1 DEF RefinementInv
  <2>2. CASE ~Loaded'
    BY <1>3, <1>5, <2>2 DEF IrEnv, IrLastCall, IrIp, AtBoundary, RefinementInv, Running
  <2> QED
    BY <2>1, <2>2
<1> QED
  BY <1>2, <1>4, <1>6, <1>7

\* The processor: the IR takes the step or does not see it.
LEMMA ProcessorStep ==
  ASSUME Wide, RefinementInv, Exec
  PROVE  RefinementInv' /\ (Abstract!IrNext \/ UNCHANGED <<fn, IrEnv, IrIp, IrLastCall, status, result>>)
<1>1. Running
  <2>1. \A kind : Executing(kind) => Running
    BY DEF Executing, Running
  <2>2. ExecPastEnd => Running
    BY DEF ExecPastEnd, Running
  <2> HIDE DEF Running
  <2> QED
    BY <2>1, <2>2 DEF Exec, ExecMov, ExecUnop, ExecBinop, ExecCdq, ExecIdiv, ExecCmp, ExecSetCC, ExecJump, ExecBranch,
       ExecLabel, ExecAlloc, ExecDeallocate, ExecPush, ExecCall, ExecRet
<1>2. PICK h : Printed(h) /\ Stored /\ At(h[pc])
  BY <1>1 DEF RefinementInv
<1>3. Ready(h)
  BY <1>1, <1>2 DEF Ready, RefinementInv, PassesInv
<1>4. Simulated(h)
  BY <1>3, RunningStep
<1>5. UNCHANGED passVars
  BY ExecFrame
<1>6. PassesInv'
  <2>1. MachineInv'
    BY ExecRun DEF RefinementInv, PassesInv
  <2>2. LayoutInv' /\ ListingInv'
    BY <1>5, LayoutInvStep, ListingInvStep DEF RefinementInv, PassesInv
  <2> QED
    BY <2>1, <2>2 DEF PassesInv
<1>7. Printed(h)'
  BY <1>2, <1>5 DEF Printed, AtSpot, NextSpot, Rewritten, passVars
<1>8. Running' => Stored' /\ At(h[pc])'
  BY <1>4 DEF Simulated, Continues, Running
<1>9. Loaded'
  BY <1>1, <1>5 DEF Running, Loaded, passVars
<1>10. RefinementInv'
  BY <1>6, <1>7, <1>8, <1>9 DEF RefinementInv
<1> QED
  BY <1>4, <1>10 DEF Simulated, Unseen

\* Nothing happens.
LEMMA StandingStill ==
  ASSUME RefinementInv, UNCHANGED allVars
  PROVE  RefinementInv' /\ UNCHANGED <<fn, IrEnv, IrIp, IrLastCall, status, result>>
<1>1. /\ UNCHANGED passVars /\ UNCHANGED <<fn, phase, opmap, fixed, fixedFrom>>
      /\ UNCHANGED <<regs, flags, mem, rsp, pc, status, result, lastCall, saved>>
  BY DEF allVars, machineVars, passVars
<1>2. IrEnv' = IrEnv /\ IrLastCall' = IrLastCall /\ IrIp' = IrIp /\ (Running' <=> Running) /\ (Loaded' <=> Loaded)
  BY <1>1 DEF IrEnv, IrLastCall, IrIp, AtBoundary, Loaded, Origin, Running
<1>3. PassesInv'
  <2>1. StackInv'
    BY <1>1, StackInvStep DEF RefinementInv, PassesInv, MachineInv
  <2>2. RunInv'
    BY <1>1 DEF RefinementInv, PassesInv, MachineInv, RunInv, Loaded
  <2>3. LayoutInv' /\ ListingInv'
    BY <1>1, LayoutInvStep, ListingInvStep DEF RefinementInv, PassesInv
  <2> QED
    BY <2>1, <2>2, <2>3 DEF PassesInv, MachineInv
<1>4. \A op : Value(op)' = Value(op)
  BY <1>1 DEF Value
<1>5. \A m : ParamSource(m)' = ParamSource(m)
  BY DEF ParamSource
<1>6. ~Loaded' => Waiting'
  BY <1>1, <1>2, <1>4, <1>5 DEF Waiting, RefinementInv
<1>7. Running' => \E h : Printed(h)' /\ Stored' /\ At(h[pc])'
  <2> SUFFICES ASSUME Running
               PROVE  \E h : Printed(h)' /\ Stored' /\ At(h[pc])'
    BY <1>2
  <2>1. PICK h : Printed(h) /\ Stored /\ At(h[pc])
    BY DEF RefinementInv
  <2> PICK x : x = h[pc]
    OBVIOUS
  <2>2. Printed(h)'
    BY <1>1, <2>1 DEF Printed, AtSpot, NextSpot, Rewritten
  <2>3. Stored'
    BY <1>1, <1>2, <2>1 DEF Stored
  <2>4. x.p \in Places
    BY <2>1, ReadyFacts DEF Ready, RefinementInv, PassesInv
  <2>5. Holding(x.p)'
    <3>1. Holding(x.p)
      BY <2>1 DEF At
    <3> QED
      BY <1>1, <1>2, <2>4, <3>1, HoldingKept
  <2>6. Scratch(Meant(x.p), x.o)'
    <3>1. Meant(x.p)' = Meant(x.p)
      BY <1>1 DEF Meant
    <3>2. Scratch(Meant(x.p), x.o)
      BY <2>1 DEF At
    <3> PICK c : c = Meant(x.p)
      OBVIOUS
    <3>3. Scratch(c, x.o)'
      BY <1>1, <1>4, <3>2 DEF Scratch
    <3> QED
      BY <3>1, <3>3
  <2>7. At(h[pc])'
    BY <1>1, <2>5, <2>6 DEF At
  <2> QED
    BY <2>2, <2>3, <2>7
<1> QED
  BY <1>1, <1>2, <1>3, <1>6, <1>7 DEF RefinementInv

\* The code tinyC emits for a function does what the IR of the function says,
\* for every function emit_ir may give, every width of a word and every caller:
\* the machine takes no step the IR cannot take, the calls get the arguments
\* the IR passes in the order it makes them, and the function returns what the
\* IR returns.  The stack is as deep as it has to be.
THEOREM CodeImplementsIr ==
  ASSUME Wide
  PROVE  MachineSpec => ImplementsIr
<1>1. MachineInit => RefinementInv /\ Abstract!IrInit
  BY RefinementStarts
<1>2. PassesInv /\ Loaded /\ Waiting =>
        /\ IrEnv = saved.env /\ IrLastCall = saved.call /\ IrIp = 1
        /\ \E h : Printed(h) /\ Stored /\ At(h[pc])
  BY Loads
<1>3. RefinementInv /\ [MachineNext]_allVars
        /\ (PassesInv /\ Loaded /\ Waiting =>
              /\ IrEnv = saved.env /\ IrLastCall = saved.call /\ IrIp = 1
              /\ \E h : Printed(h) /\ Stored /\ At(h[pc]))'
      => RefinementInv' /\ [Abstract!IrNext]_(Abstract!irVars)
  <2> SUFFICES ASSUME RefinementInv, [MachineNext]_allVars,
                      (PassesInv /\ Loaded /\ Waiting =>
                         /\ IrEnv = saved.env /\ IrLastCall = saved.call /\ IrIp = 1
                         /\ \E h : Printed(h) /\ Stored /\ At(h[pc]))'
               PROVE  RefinementInv' /\ [Abstract!IrNext]_(Abstract!irVars)
    OBVIOUS
  <2>1. CASE Compile
    BY <2>1, CompilingStep DEF Abstract!irVars
  <2>2. CASE Exec
    BY <2>2, ProcessorStep DEF Abstract!irVars
  <2>3. CASE UNCHANGED allVars
    BY <2>3, StandingStill DEF Abstract!irVars
  <2> QED
    BY <2>1, <2>2, <2>3 DEF MachineNext, Stopped
<1> QED
  BY <1>1, <1>2, <1>3, PTL DEF MachineSpec, ImplementsIr, Abstract!IrSpec
=============================================================================
