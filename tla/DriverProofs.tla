---------------------------- MODULE DriverProofs ----------------------------
(***************************************************************************)
(* What main leaves behind, for any number of processes, command lines and  *)
(* texts: everything it holds is released, exit code 0 means that the       *)
(* output is there, and a failure leaves nothing half-done.                 *)
(***************************************************************************)
EXTENDS Driver, TLAPS

-----------------------------------------------------------------------------
(* The invariant.  Local says what one run knows of itself, Undisturbed what *)
(* its output files hold, and Exclusive why no other run can change them.   *)

Fields == {"pc", "argv", "i", "stage", "source", "text", "held", "ret", "code", "misused", "found"}

Ended == {"returned", "exited", "killed"}

\* What main holds at each stage.
Holds(r) ==
  /\ r.misused = FALSE
  /\ r.pc \in {"idle", "arguments"} => r.held = {}
  /\ r.pc = "lex" => r.held = {"src", "tokens"}
  /\ r.pc = "parse" => r.held = {"tokens"}
  /\ r.pc = "ir" => r.held = {"ast", "tokens"}
  /\ r.pc = "leave" =>
       /\ r.stage \in {"--lex", "--parse", "--ir"}
       /\ r.stage = "--lex" => r.held = {"tokens"}
       /\ r.stage = "--parse" => r.held = {"ast", "tokens"}
       /\ r.stage = "--ir" => r.held = {"ir", "ast", "tokens"}
  /\ r.pc = "codegen" => r.held = {"ir", "ast", "tokens"}
  /\ r.pc = "open" => r.held = {"asm_path", "asm_prog", "ir", "ast", "tokens"}
  /\ r.pc = "emit" => r.held = {"asm_out", "asm_path", "asm_prog", "ir", "ast", "tokens"}
  /\ r.pc \in {"assemble", "cleanup"} =>
       r.held = {"asm_path", "exe_path", "asm_prog", "ir", "ast", "tokens"}
  /\ r.pc = "returned" => r.held \subseteq {"ir"}

\* The stages a run that got this far was asked for.
Asked(r) ==
  /\ r.stage \in StageOptions \cup {"full"}
  /\ r.pc \in {"parse", "ir", "codegen", "open", "emit", "assemble", "cleanup"} => r.stage # "--lex"
  /\ r.pc \in {"ir", "codegen", "open", "emit", "assemble", "cleanup"} => r.stage # "--parse"
  /\ r.pc \in {"codegen", "open", "emit", "assemble", "cleanup"} => r.stage # "--ir"
  /\ r.pc \in {"assemble", "cleanup"} => r.stage = "full"

\* The source is one of the arguments, and its name ends in .c.
Named(r) ==
  /\ r.i \in Nat \ {0}
  /\ r.pc \notin {"idle", "killed"} => r.argv \in Arguments
  /\ r.pc \notin {"idle", "arguments"} \cup Ended => r.source # ""
  /\ r.source # "" => \E k \in DOMAIN r.argv : r.argv[k] = r.source /\ IsSourceName(r.source)

Local(r) == DOMAIN r = Fields /\ Holds(r) /\ Asked(r) /\ Named(r)

\* What a run has written so far.
WrittenBy(r) ==
  CASE r.pc \in {"emit", "assemble"} -> {AsmPath(r.source)}
    [] r.pc = "cleanup" -> {AsmPath(r.source), ExePath(r.source)}
    [] OTHER -> {}

\* The files a run is about, but for the sources, are as it found them until it
\* writes them, and then as it wrote them.
Undisturbed(r) ==
  r.pc \notin {"idle"} \cup Ended =>
    /\ \A f \in Touches(r.argv) \ WrittenBy(r) : TextsAt(f) = {} => files[f] = r.found[f]
    /\ r.pc = "assemble" => files[AsmPath(r.source)] = Assembly(r.text)
    /\ r.pc = "cleanup" => IF r.ret = 0 THEN files[ExePath(r.source)] = Executable(r.text)
                           ELSE files[ExePath(r.source)] \in {Absent, r.found[ExePath(r.source)]}

Exclusive ==
  \A p, q \in Procs : p # q /\ ~Over(p) /\ ~Over(q) => Touches(run[p].argv) \cap Touches(run[q].argv) = {}

LocalInv == DOMAIN run = Procs /\ \A p \in Procs : Local(run[p])
FilesInv == DOMAIN files = Paths /\ \A p \in Procs : Undisturbed(run[p])

DriverInv == LocalInv /\ Exclusive /\ FilesInv

-----------------------------------------------------------------------------
(* One run by itself *)

LEMMA EnteredLocal ==
  ASSUME NEW argv \in Arguments
  PROVE  Local(Entered(argv))
  BY DEF Local, Entered, Fields, Holds, Asked, Named, Ended, StageOptions

LEMMA IdleLocal ==
  Local(Idle) /\ Local([Idle EXCEPT !.pc = "killed"])
  BY DEF Local, Idle, Entered, Fields, Holds, Asked, Named, Ended, StageOptions

\* Only the record of p changes, to one that is in order and about the same files.
StaysLocal(p) ==
  /\ Local(run'[p])
  /\ run' = [run EXCEPT ![p] = run'[p]]
  /\ run'[p].argv = run[p].argv
  /\ run'[p].found = run[p].found

\* Leaving main: what is freed was held, and nothing but the IR remains.
LEMMA ReturnLocal ==
  ASSUME NEW p \in DOMAIN run, Local(run[p]), run[p].pc \notin {"idle", "killed"},
         NEW code, NEW freed, freed \subseteq run[p].held, run[p].held \ freed \subseteq {"ir"},
         Return(p, code, freed)
  PROVE  StaysLocal(p)
<1> DEFINE r == run[p]
           s == run'[p]
<1>1. /\ run' = [run EXCEPT ![p] = s]
      /\ DOMAIN s = Fields /\ s.pc = "returned" /\ s.held = r.held \ freed /\ s.misused = FALSE
      /\ s.stage = r.stage /\ s.i = r.i /\ s.argv = r.argv /\ s.found = r.found /\ s.source = r.source
  BY DEF Return, Local, Fields, Holds
<1>2. Holds(s) /\ Asked(s)
  BY <1>1 DEF Local, Holds, Asked
<1>3. Named(s)
  BY <1>1 DEF Local, Named, Ended
<1> QED
  BY <1>1, <1>2, <1>3 DEF StaysLocal, Local

\* Exits inside a stage.
LEMMA ExitLocal ==
  ASSUME NEW p \in DOMAIN run, Local(run[p]), run[p].pc \notin {"idle", "killed"}, NEW code, Exit(p, code)
  PROVE  StaysLocal(p)
<1> DEFINE r == run[p]
           s == run'[p]
<1>1. /\ run' = [run EXCEPT ![p] = s]
      /\ DOMAIN s = Fields /\ s.pc = "exited" /\ s.misused = FALSE
      /\ s.stage = r.stage /\ s.i = r.i /\ s.argv = r.argv /\ s.found = r.found /\ s.source = r.source
  BY DEF Exit, Local, Fields, Holds
<1>2. Holds(s) /\ Asked(s)
  BY <1>1 DEF Local, Holds, Asked
<1>3. Named(s)
  BY <1>1 DEF Local, Named, Ended
<1> QED
  BY <1>1, <1>2, <1>3 DEF StaysLocal, Local

\* A step of main changes the record of its own run only, and keeps it in order.
LEMMA StepLocal ==
  ASSUME LocalInv, NEW p \in Procs, Step(p)
  PROVE  StaysLocal(p)
<1> DEFINE r == run[p]
           s == run'[p]
<1>1. Local(r) /\ p \in DOMAIN run
  BY DEF LocalInv
<1>2. CASE ReadStage(p)
  <2>1. /\ run' = [run EXCEPT ![p] = s]
        /\ DOMAIN s = Fields /\ s.stage \in StageOptions /\ s.i = r.i + 1 /\ s.pc = "arguments"
        /\ r.pc = "arguments" /\ s.held = r.held /\ s.misused = r.misused /\ s.argv = r.argv /\ s.found = r.found /\ s.source = r.source
    BY <1>1, <1>2 DEF ReadStage, AtArgument, Argument, Running, Local, Fields
  <2>2. Holds(s) /\ Asked(s)
    BY <1>1, <2>1 DEF Local, Holds, Asked
  <2>3. s.i \in Nat \ {0}
    <3> r.i \in Nat \ {0}
      BY <1>1 DEF Local, Named
    <3> QED
      BY <2>1
  <2>4. Named(s)
    BY <1>1, <2>1, <2>3, Zenon DEF Local, Named, Ended
  <2> QED
    BY <2>1, <2>2, <2>4 DEF StaysLocal, Local
<1>3. CASE ReadHelp(p)
  BY <1>1, <1>3, ReturnLocal DEF ReadHelp, AtArgument, Running, Local, Holds
<1>4. CASE ReadSource(p)
  <2>1. /\ run' = [run EXCEPT ![p] = s]
        /\ DOMAIN s = Fields /\ s.source = r.argv[r.i] /\ s.i = r.i + 1 /\ s.pc = "arguments"
        /\ r.pc = "arguments" /\ s.held = r.held /\ s.misused = r.misused /\ s.argv = r.argv /\ s.found = r.found /\ s.stage = r.stage
        /\ r.i <= Len(r.argv) /\ IsSourceName(r.argv[r.i])
    BY <1>1, <1>4 DEF ReadSource, AtArgument, Argument, Running, Local, Fields
  <2>2. r.i \in Nat \ {0} /\ r.argv \in Arguments
    BY <1>1, <2>1 DEF Local, Named
  <2>3. r.i \in DOMAIN r.argv
    <3> r.argv \in Seq(STRING)
      BY <2>2, ArgumentsAssumption
    <3> QED
      BY <2>1, <2>2
  <2>4. \E k \in DOMAIN s.argv : s.argv[k] = s.source /\ IsSourceName(s.source)
    BY <2>1, <2>3
  <2>5. s.i \in Nat \ {0}
    BY <2>1, <2>2
  <2>6. Named(s)
    BY <2>1, <2>2, <2>4, <2>5, Zenon DEF Named, Ended
  <2> QED
    BY <1>1, <2>1, <2>6 DEF StaysLocal, Local, Holds, Asked
<1>5. CASE ReadOther(p)
  BY <1>1, <1>5, ReturnLocal DEF ReadOther, AtArgument, Running, Local, Holds
<1>6. CASE OpenSource(p)
  <2>1. CASE r.source = "" \/ files[r.source] = Absent
    BY <1>1, <1>6, <2>1, ReturnLocal DEF OpenSource, Running, Local, Holds
  <2>2. CASE ~(r.source = "" \/ files[r.source] = Absent)
    <3>0. r.pc = "arguments" /\ run' = [run EXCEPT ![p].pc = "lex", ![p].held = {"src", "tokens"}]
      BY <1>6, <2>2 DEF OpenSource, Running
    <3>1. /\ run' = [run EXCEPT ![p] = s]
          /\ DOMAIN s = Fields /\ s.pc = "lex" /\ s.held = {"src", "tokens"} /\ r.source # ""
          /\ r.pc = "arguments" /\ s.misused = r.misused /\ s.argv = r.argv /\ s.found = r.found /\ s.stage = r.stage /\ s.source = r.source /\ s.i = r.i
      BY <1>1, <2>2, <3>0 DEF Local, Fields
    <3> QED
      BY <1>1, <3>1 DEF StaysLocal, Local, Holds, Asked, Named, Ended
  <2> QED
    BY <2>1, <2>2
<1>7. CASE LexFails(p)
  BY <1>1, <1>7, ReturnLocal DEF LexFails, Running, Local, Holds
<1>8. CASE Lex(p)
  <2>1. /\ run' = [run EXCEPT ![p] = s]
        /\ r.pc = "lex" /\ DOMAIN s = Fields
        /\ s.pc = (IF r.stage = "--lex" THEN "leave" ELSE "parse") /\ s.held = r.held \ {"src"}
        /\ s.misused = r.misused /\ s.argv = r.argv /\ s.found = r.found /\ s.stage = r.stage /\ s.source = r.source /\ s.i = r.i
    BY <1>1, <1>8 DEF Lex, Running, Local, Fields
  <2>2. Holds(s) /\ Asked(s)
    BY <1>1, <2>1 DEF Local, Holds, Asked, StageOptions
  <2>3. Named(s)
    BY <1>1, <2>1 DEF Local, Named, Ended
  <2> QED
    BY <2>1, <2>2, <2>3 DEF StaysLocal, Local
<1>9. CASE Parse(p)
  <2>1. CASE Fate(r.text) \in {"parse", "ice"}
    BY <1>1, <1>9, <2>1, ExitLocal DEF Parse, Running
  <2>2. CASE Fate(r.text) \notin {"parse", "ice"}
    <3>0. /\ r.pc = "parse"
          /\ run' = [run EXCEPT ![p].held = @ \cup {"ast"}, ![p].pc = IF r.stage = "--parse" THEN "leave" ELSE "ir"]
      BY <1>9, <2>2 DEF Parse, Running
    <3>1. /\ run' = [run EXCEPT ![p] = s]
          /\ r.pc = "parse" /\ DOMAIN s = Fields
          /\ s.pc = (IF r.stage = "--parse" THEN "leave" ELSE "ir") /\ s.held = r.held \cup {"ast"}
          /\ s.misused = r.misused /\ s.argv = r.argv /\ s.found = r.found /\ s.stage = r.stage /\ s.source = r.source /\ s.i = r.i
      BY <1>1, <3>0 DEF Local, Fields
    <3>2. Holds(s)
      BY <1>1, <3>1 DEF Local, Holds, Asked, StageOptions
    <3>3. Asked(s)
      BY <1>1, <3>1 DEF Local, Asked, StageOptions
    <3>4. Named(s)
      BY <1>1, <3>1 DEF Local, Named, Ended
    <3> QED
      BY <3>1, <3>2, <3>3, <3>4 DEF StaysLocal, Local
  <2> QED
    BY <2>1, <2>2
<1>10. CASE EmitIr(p)
  <2>1. /\ run' = [run EXCEPT ![p] = s]
        /\ r.pc = "ir" /\ DOMAIN s = Fields
        /\ s.pc = (IF r.stage = "--ir" THEN "leave" ELSE "codegen") /\ s.held = r.held \cup {"ir"}
        /\ s.misused = r.misused /\ s.argv = r.argv /\ s.found = r.found /\ s.stage = r.stage /\ s.source = r.source /\ s.i = r.i
    BY <1>1, <1>10 DEF EmitIr, Running, Local, Fields
  <2>2. Holds(s) /\ Asked(s)
    BY <1>1, <2>1 DEF Local, Holds, Asked, StageOptions
  <2>3. Named(s)
    BY <1>1, <2>1 DEF Local, Named, Ended
  <2> QED
    BY <2>1, <2>2, <2>3 DEF StaysLocal, Local
<1>11. CASE Leave(p)
  <2>1. r.pc = "leave" /\ r.stage \in {"--lex", "--parse", "--ir"}
    BY <1>1, <1>11 DEF Leave, Running, Local, Holds
  <2>2. CASE r.stage = "--lex"
    BY <1>1, <1>11, <2>1, <2>2, ReturnLocal DEF Leave, Local, Holds
  <2>3. CASE r.stage = "--parse"
    BY <1>1, <1>11, <2>1, <2>3, ReturnLocal DEF Leave, Local, Holds
  <2>4. CASE r.stage = "--ir"
    BY <1>1, <1>11, <2>1, <2>4, ReturnLocal, ExitLocal DEF Leave, Local, Holds
  <2> QED
    BY <2>1, <2>2, <2>3, <2>4
<1>12. CASE OpenAsm(p)
  <2>1. /\ run' = [run EXCEPT ![p] = s]
        /\ r.pc = "open" /\ DOMAIN s = Fields
        /\ s.pc = "emit" /\ s.held = r.held \cup {"asm_out"}
        /\ s.misused = r.misused /\ s.argv = r.argv /\ s.found = r.found /\ s.stage = r.stage /\ s.source = r.source /\ s.i = r.i
    BY <1>1, <1>12 DEF OpenAsm, Running, Local, Fields
  <2>2. Holds(s) /\ Asked(s)
    BY <1>1, <2>1 DEF Local, Holds, Asked, StageOptions
  <2>3. Named(s)
    BY <1>1, <2>1 DEF Local, Named, Ended
  <2> QED
    BY <2>1, <2>2, <2>3 DEF StaysLocal, Local
<1>13. CASE OpenAsmFails(p)
  BY <1>1, <1>13, ReturnLocal DEF OpenAsmFails, Running, Local, Holds
<1>14. CASE EmitAsm(p)
  <2>1. CASE r.stage = "--codegen"
    BY <1>1, <1>14, <2>1, ReturnLocal DEF EmitAsm, Running, Local, Holds
  <2>2. CASE r.stage # "--codegen"
    <3>0. /\ r.pc = "emit"
          /\ run' = [run EXCEPT ![p].pc = "assemble", ![p].held = (@ \ {"asm_out"}) \cup {"exe_path"}]
      BY <1>14, <2>2 DEF EmitAsm, Running
    <3>1. /\ run' = [run EXCEPT ![p] = s]
          /\ r.pc = "emit" /\ DOMAIN s = Fields
          /\ s.pc = "assemble" /\ s.held = (r.held \ {"asm_out"}) \cup {"exe_path"}
          /\ s.misused = r.misused /\ s.argv = r.argv /\ s.found = r.found /\ s.stage = r.stage /\ s.source = r.source /\ s.i = r.i
      BY <1>1, <3>0 DEF Local, Fields
    <3>2. Holds(s) /\ Asked(s)
      BY <1>1, <2>2, <3>1 DEF Local, Holds, Asked, StageOptions
    <3>4. Named(s)
      BY <1>1, <3>1 DEF Local, Named, Ended
    <3> QED
      BY <3>1, <3>2, <3>4 DEF StaysLocal, Local
  <2> QED
    BY <2>1, <2>2
<1>15. CASE Assemble(p)
  <2>1. /\ run' = [run EXCEPT ![p] = s]
        /\ r.pc = "assemble" /\ DOMAIN s = Fields
        /\ s.pc = "cleanup" /\ s.held = r.held
        /\ s.misused = r.misused /\ s.argv = r.argv /\ s.found = r.found /\ s.stage = r.stage /\ s.source = r.source /\ s.i = r.i
    BY <1>1, <1>15 DEF Assemble, Running, Local, Fields
  <2>2. Holds(s) /\ Asked(s)
    BY <1>1, <2>1 DEF Local, Holds, Asked, StageOptions
  <2>3. Named(s)
    BY <1>1, <2>1 DEF Local, Named, Ended
  <2> QED
    BY <2>1, <2>2, <2>3 DEF StaysLocal, Local
<1>16. CASE Cleanup(p)
  BY <1>1, <1>16, ReturnLocal DEF Cleanup, Running, Local, Holds
<1>17. CASE Codegen(p)
  <2>1. /\ run' = [run EXCEPT ![p] = s]
        /\ r.pc = "codegen" /\ DOMAIN s = Fields
        /\ s.pc = "open" /\ s.held = r.held \cup {"asm_prog", "asm_path"}
        /\ s.misused = r.misused /\ s.argv = r.argv /\ s.found = r.found /\ s.stage = r.stage /\ s.source = r.source /\ s.i = r.i
    BY <1>1, <1>17 DEF Codegen, Running, Local, Fields
  <2>2. Holds(s) /\ Asked(s)
    BY <1>1, <2>1 DEF Local, Holds, Asked, StageOptions
  <2>3. Named(s)
    BY <1>1, <2>1 DEF Local, Named, Ended
  <2> QED
    BY <2>1, <2>2, <2>3 DEF StaysLocal, Local
<1> QED
  BY <1>2, <1>3, <1>4, <1>5, <1>6, <1>7, <1>8, <1>9, <1>10, <1>11, <1>12, <1>13, <1>14, <1>15, <1>16, <1>17 DEF Step

-----------------------------------------------------------------------------
(* All runs *)

\* The bookkeeping of every run is in order, whatever the runs do.
LEMMA LocalPreserved ==
  ASSUME LocalInv, [Next]_vars
  PROVE  LocalInv'
<1>1. CASE UNCHANGED vars
  BY <1>1 DEF LocalInv, vars
<1>2. ASSUME NEW p \in Procs, Step(p)
      PROVE  LocalInv'
  BY <1>2, StepLocal DEF LocalInv, StaysLocal
<1>3. ASSUME NEW p \in Procs, Kill(p)
      PROVE  LocalInv'
  BY <1>3, IdleLocal DEF Kill, LocalInv
<1>4. ASSUME NEW p \in Procs, NEW argv \in Arguments, Invoke(p, argv)
      PROVE  LocalInv'
  BY <1>4, IdleLocal, EnteredLocal DEF Invoke, LocalInv
<1>5. ASSUME NEW q \in Paths, Edit(q)
      PROVE  LocalInv'
  BY <1>5 DEF Edit, LocalInv
<1> QED
  BY <1>1, <1>2, <1>3, <1>4, <1>5 DEF Next, Rest

\* A step of main is taken by a run that is not over.
LEMMA StepRuns ==
  ASSUME NEW p \in Procs, Step(p)
  PROVE  ~Over(p)
BY DEF Step, Over, Running, AtArgument, ReadStage, ReadHelp, ReadSource, ReadOther, OpenSource, LexFails, Lex, Parse,
   EmitIr, Leave, Codegen, OpenAsm, OpenAsmFails, EmitAsm, Assemble, Cleanup

\* Two runs that are not over never work on the same files.
LEMMA ExclusivePreserved ==
  ASSUME LocalInv, Exclusive, [Next]_vars
  PROVE  Exclusive'
<1>1. CASE UNCHANGED vars
  BY <1>1 DEF Exclusive, Over, vars
<1>2. ASSUME NEW p \in Procs, Step(p)
      PROVE  Exclusive'
  <2>1. \A q \in Procs : run'[q].argv = run[q].argv /\ (~Over(q)' => ~Over(q))
    BY <1>2, StepLocal, StepRuns DEF StaysLocal, LocalInv, Over
  <2> QED
    BY <2>1 DEF Exclusive
<1>3. ASSUME NEW p \in Procs, Kill(p)
      PROVE  Exclusive'
  <2>1. \A q \in Procs : ~Over(q)' => ~Over(q) /\ run'[q] = run[q]
    BY <1>3 DEF Kill, LocalInv, Over, Idle, Entered
  <2> QED
    BY <2>1 DEF Exclusive
<1>4. ASSUME NEW p \in Procs, NEW argv \in Arguments, Invoke(p, argv)
      PROVE  Exclusive'
  <2>1. \A q \in Procs : ~Over(q)' => q = p \/ (~Over(q) /\ run'[q] = run[q])
    BY <1>4 DEF Invoke, LocalInv, Over, Idle, Entered
  <2>2. run'[p].argv = argv
    BY <1>4 DEF Invoke, LocalInv, Entered
  <2>3. \A q \in Procs : Over(q) \/ Touches(run[q].argv) \cap Touches(argv) = {}
    BY <1>4 DEF Invoke
  <2> QED
    BY <2>1, <2>2, <2>3 DEF Exclusive
<1>5. ASSUME NEW q \in Paths, Edit(q)
      PROVE  Exclusive'
  BY <1>5 DEF Edit, Exclusive, Over
<1> QED
  BY <1>1, <1>2, <1>3, <1>4, <1>5 DEF Next, Rest

\* What main writes are files the run is about, two different ones, where no
\* source is saved.
LEMMA OutputNames ==
  ASSUME LocalInv, NEW p \in Procs, ~Over(p), run[p].source # ""
  PROVE  LET r == run[p]
         IN /\ {AsmPath(r.source), ExePath(r.source)} \subseteq Touches(r.argv)
            /\ Touches(r.argv) \subseteq Paths
            /\ AsmPath(r.source) # ExePath(r.source)
            /\ TextsAt(AsmPath(r.source)) = {} /\ TextsAt(ExePath(r.source)) = {}
<1> DEFINE r == run[p]
<1>1. r.argv \in Arguments
  BY DEF LocalInv, Local, Named, Over
<1>2. PICK k \in DOMAIN r.argv : r.argv[k] = r.source /\ IsSourceName(r.source)
  BY DEF LocalInv, Local, Named
<1>3. {AsmPath(r.source), ExePath(r.source)} \subseteq Touches(r.argv)
  <2> DEFINE About(a) == IF IsSourceName(a) THEN {a, AsmPath(a), ExePath(a)} ELSE {}
  <2>1. Touches(r.argv) = UNION {About(r.argv[j]) : j \in DOMAIN r.argv}
    BY DEF Touches
  <2>2. About(r.argv[k]) = {r.source, AsmPath(r.source), ExePath(r.source)}
    BY <1>2
  <2> HIDE DEF About
  <2> QED
    BY <1>2, <2>1, <2>2
<1> QED
  BY <1>1, <1>2, <1>3, PathsAssumption, OutputsAssumption

\* A step changes no file but the outputs of its own run.
LEMMA StepFiles ==
  ASSUME LocalInv, FilesInv, NEW p \in Procs, Step(p)
  PROVE  /\ DOMAIN files' = Paths
         /\ files' # files => run[p].source # ""
         /\ \A f \in Paths \ {AsmPath(run[p].source), ExePath(run[p].source)} : files'[f] = files[f]
<1>1. DOMAIN files = Paths
  BY DEF FilesInv
<1>2. CASE UNCHANGED files
  BY <1>1, <1>2
<1>3. CASE OpenAsm(p) \/ EmitAsm(p) \/ Assemble(p) \/ Cleanup(p)
  <2>1. run[p].source # ""
    BY <1>3 DEF OpenAsm, EmitAsm, Assemble, Cleanup, Running, LocalInv, Local, Named, Ended
  <2> QED
    BY <1>1, <1>3, <2>1 DEF OpenAsm, EmitAsm, Assemble, Cleanup
<1> QED
  BY <1>2, <1>3 DEF Step, ReadStage, ReadHelp, ReadSource, ReadOther, OpenSource, LexFails, Lex, Parse, EmitIr, Leave,
     Codegen, OpenAsmFails

\* The files of another run are not among them.
LEMMA OthersUndisturbed ==
  ASSUME LocalInv, Exclusive, FilesInv, NEW p \in Procs, Step(p), NEW q \in Procs, q # p
  PROVE  Undisturbed(run[q])'
<1> DEFINE r == run[q]
<1>1. run'[q] = r /\ ~Over(p)
  BY StepLocal, StepRuns DEF StaysLocal, LocalInv
<1>2. CASE Over(q)
  BY <1>1, <1>2 DEF Undisturbed, Over, Ended
<1>3. CASE ~Over(q)
  <2>1. Touches(run[p].argv) \cap Touches(r.argv) = {}
    BY <1>1, <1>3 DEF Exclusive
  <2>2. Touches(r.argv) \subseteq Paths
    BY <1>3, PathsAssumption DEF LocalInv, Local, Named, Over
  <2>3. \A f \in Touches(r.argv) : files'[f] = files[f]
    <3>1. CASE files' = files
      BY <3>1
    <3>2. CASE files' # files
      <4>1. {AsmPath(run[p].source), ExePath(run[p].source)} \subseteq Touches(run[p].argv)
        BY <1>1, <3>2, StepFiles, OutputNames
      <4> QED
        BY <2>1, <2>2, <4>1, StepFiles
    <3> QED
      BY <3>1, <3>2
  <2>4. Undisturbed(r)
    BY DEF FilesInv
  <2>5. r.source # "" => {AsmPath(r.source), ExePath(r.source)} \subseteq Touches(r.argv)
    BY <1>3, OutputNames
  <2>6. r.pc \in {"assemble", "cleanup"} => r.source # ""
    BY DEF LocalInv, Local, Named, Ended
  <2> QED
    BY <1>1, <2>3, <2>4, <2>5, <2>6 DEF Undisturbed, WrittenBy
<1> QED
  BY <1>2, <1>3

\* What a run was asked for and has read.
SameTask(r, s) == s.source = r.source /\ s.stage = r.stage /\ s.text = r.text /\ s.found = r.found

\* After Return and Exit the run is over, with the code given.
LEMMA Leaving ==
  ASSUME NEW p \in DOMAIN run, DOMAIN run[p] = Fields, NEW code
  PROVE  /\ \A freed : Return(p, code, freed) =>
              run'[p].pc = "returned" /\ run'[p].code = code /\ SameTask(run[p], run'[p])
         /\ Exit(p, code) => run'[p].pc = "exited" /\ run'[p].code = code /\ SameTask(run[p], run'[p])
<1>1. ASSUME NEW freed, Return(p, code, freed)
      PROVE  run'[p].pc = "returned" /\ run'[p].code = code /\ SameTask(run[p], run'[p])
  BY <1>1 DEF Return, Fields, SameTask
<1>2. ASSUME Exit(p, code)
      PROVE  run'[p].pc = "exited" /\ run'[p].code = code /\ SameTask(run[p], run'[p])
  BY <1>2 DEF Exit, Fields, SameTask
<1> QED
  BY <1>1, <1>2

\* A run leaves the files it has not come to writing, and what it wrote is there.
LEMMA OwnUndisturbed ==
  ASSUME LocalInv, FilesInv, NEW p \in Procs, Step(p)
  PROVE  Undisturbed(run[p])'
<1> DEFINE r == run[p]
           s == run'[p]
           asm == AsmPath(r.source)
           exe == ExePath(r.source)
<1>1. /\ p \in DOMAIN run /\ DOMAIN r = Fields
      /\ s.argv = r.argv /\ s.found = r.found
      /\ ~Over(p)
  BY StepLocal, StepRuns DEF StaysLocal, LocalInv, Local
<1>2. Undisturbed(r) /\ DOMAIN files = Paths
  BY DEF FilesInv
<1>3. CASE ReadStage(p) \/ ReadHelp(p) \/ ReadSource(p) \/ ReadOther(p) \/ OpenSource(p)
  <2>1. r.pc = "arguments" /\ files' = files
    BY <1>3 DEF ReadStage, ReadHelp, ReadSource, ReadOther, OpenSource, AtArgument, Running
  <2>2. ASSUME ReadStage(p) \/ ReadSource(p)
        PROVE  s.pc = "arguments"
    BY <1>1, <2>1, <2>2 DEF ReadStage, ReadSource, Fields
  <2>3. ASSUME ReadHelp(p) \/ ReadOther(p)
        PROVE  s.pc = "returned"
    BY <1>1, <2>3, Leaving DEF ReadHelp, ReadOther
  <2>4. ASSUME OpenSource(p)
        PROVE  s.pc \in {"returned", "lex"}
    <3>1. CASE Return(p, 2, {})
      BY <1>1, <3>1, Leaving
    <3>2. CASE run' = [run EXCEPT ![p].pc = "lex", ![p].held = {"src", "tokens"}]
      BY <1>1, <3>2 DEF Fields
    <3> QED
      BY <2>4, <3>1, <3>2 DEF OpenSource
  <2>5. s.pc \in {"arguments", "returned", "lex"}
    BY <1>3, <2>2, <2>3, <2>4
  <2> QED
    BY <1>1, <1>2, <2>1, <2>5 DEF Undisturbed, WrittenBy, Ended
<1>4. CASE LexFails(p) \/ Lex(p) \/ Parse(p) \/ EmitIr(p) \/ Codegen(p) \/ OpenAsmFails(p)
  <2>1. r.pc \in {"lex", "parse", "ir", "codegen", "open"} /\ files' = files
    BY <1>4 DEF LexFails, Lex, Parse, EmitIr, Codegen, OpenAsmFails, Running
  <2>2. ASSUME LexFails(p) \/ OpenAsmFails(p)
        PROVE  s.pc = "returned"
    BY <1>1, <2>2, Leaving DEF LexFails, OpenAsmFails
  <2>3. ASSUME Lex(p) \/ EmitIr(p) \/ Codegen(p)
        PROVE  s.pc \in {"parse", "codegen", "leave", "open"}
    <3>1. ASSUME Lex(p)
          PROVE  s.pc = IF r.stage = "--lex" THEN "leave" ELSE "parse"
      BY <1>1, <3>1 DEF Lex, Fields
    <3>2. ASSUME EmitIr(p)
          PROVE  s.pc = IF r.stage = "--ir" THEN "leave" ELSE "codegen"
      BY <1>1, <3>2 DEF EmitIr, Fields
    <3>3. ASSUME Codegen(p)
          PROVE  s.pc = "open"
      BY <1>1, <3>3 DEF Codegen, Fields
    <3> QED
      BY <2>3, <3>1, <3>2, <3>3
  <2>4. ASSUME Parse(p)
        PROVE  s.pc \in {"exited", "ir", "leave"}
    <3>1. CASE Exit(p, 1) \/ Exit(p, 134)
      BY <1>1, <3>1, Leaving
    <3>2. CASE run' = [run EXCEPT ![p].held = @ \cup {"ast"},
                         ![p].pc = IF run[p].stage = "--parse" THEN "leave" ELSE "ir"]
      BY <1>1, <3>2 DEF Fields
    <3>3. Exit(p, 1) \/ Exit(p, 134)
          \/ run' = [run EXCEPT ![p].held = @ \cup {"ast"},
                       ![p].pc = IF run[p].stage = "--parse" THEN "leave" ELSE "ir"]
      BY <2>4, Zenon DEF Parse
    <3> QED
      BY <3>1, <3>2, <3>3
  <2>5. s.pc \in {"returned", "exited", "parse", "ir", "codegen", "leave", "open"}
    BY <1>4, <2>2, <2>3, <2>4
  <2> QED
    BY <1>1, <1>2, <2>1, <2>5 DEF Undisturbed, WrittenBy, Ended
<1>5. CASE Leave(p) \/ Cleanup(p)
  <2>1. ASSUME Leave(p)
        PROVE  s.pc \in {"returned", "exited"}
    <3>1. r.stage \in {"--lex", "--parse", "--ir"}
      BY <2>1 DEF Leave, Running, LocalInv, Local, Holds
    <3> QED
      BY <1>1, <2>1, <3>1, Leaving DEF Leave
  <2>2. ASSUME Cleanup(p)
        PROVE  s.pc = "returned"
    BY <1>1, <2>2 DEF Cleanup, Return, Fields
  <2> QED
    BY <1>5, <2>1, <2>2 DEF Undisturbed, Ended
<1>6. ASSUME OpenAsm(p) \/ EmitAsm(p) \/ Assemble(p)
      PROVE  /\ asm \in Paths /\ exe \in Paths /\ asm # exe /\ {asm, exe} \subseteq Touches(r.argv)
             /\ Touches(r.argv) \subseteq Paths /\ TextsAt(exe) = {}
  <2>1. r.source # ""
    BY <1>6 DEF OpenAsm, EmitAsm, Assemble, Running, LocalInv, Local, Named, Ended
  <2> QED
    BY <1>1, <2>1, OutputNames
<1>7. CASE OpenAsm(p)
  <2>1. /\ r.pc = "open" /\ s.pc = "emit" /\ s.source = r.source
        /\ \A f \in Paths \ {asm} : files'[f] = files[f]
    BY <1>1, <1>2, <1>7 DEF OpenAsm, Running, Fields
  <2> QED
    BY <1>1, <1>2, <1>6, <1>7, <2>1 DEF Undisturbed, WrittenBy, Ended
<1>8. CASE EmitAsm(p)
  <2>1. CASE r.stage = "--codegen"
    <3>1. s.pc = "returned"
      BY <1>1, <1>8, <2>1 DEF EmitAsm, Return, Fields
    <3> QED
      BY <3>1 DEF Undisturbed, Ended
  <2>2. CASE r.stage # "--codegen"
    <3>1. /\ r.pc = "emit" /\ s.pc = "assemble" /\ s.source = r.source /\ s.text = r.text
          /\ files' = [files EXCEPT ![asm] = Assembly(r.text)]
      BY <1>1, <1>8, <2>2 DEF EmitAsm, Running, Fields
    <3> QED
      BY <1>1, <1>2, <1>6, <1>8, <3>1 DEF Undisturbed, WrittenBy, Ended
  <2> QED
    BY <2>1, <2>2
<1>9. CASE Assemble(p)
  <2>1. /\ r.pc = "assemble" /\ s.pc = "cleanup" /\ s.source = r.source /\ s.text = r.text
        /\ \A f \in Paths \ {exe} : files'[f] = files[f]
    BY <1>1, <1>2, <1>9 DEF Assemble, Running, Fields
  <2>2. files[asm] = Assembly(r.text) /\ files[exe] = r.found[exe]
    BY <1>1, <1>2, <1>6, <1>9, <2>1 DEF Undisturbed, WrittenBy, Ended
  <2>3. IF s.ret = 0 THEN files'[exe] = Executable(r.text) ELSE files'[exe] \in {Absent, r.found[exe]}
    <3>1. CASE files' = [files EXCEPT ![exe] = Executable(files[asm].text)] /\ s.ret = 0
      BY <1>2, <1>6, <1>9, <2>2, <3>1 DEF Assembly
    <3>2. CASE files' \in {files, [files EXCEPT ![exe] = Absent]} /\ s.ret = 1
      BY <1>2, <1>6, <1>9, <2>2, <3>2
    <3> QED
      BY <1>1, <1>9, <3>1, <3>2 DEF Assemble, Fields
  <2> QED
    BY <1>1, <1>2, <1>6, <1>9, <2>1, <2>3 DEF Undisturbed, WrittenBy, Ended
<1> QED
  BY <1>3, <1>4, <1>5, <1>7, <1>8, <1>9 DEF Step

\* No step, of main or of its environment, touches files a run relies on.
LEMMA FilesPreserved ==
  ASSUME LocalInv, Exclusive, FilesInv, [Next]_vars
  PROVE  FilesInv'
<1>1. CASE UNCHANGED vars
  BY <1>1 DEF FilesInv, Undisturbed, WrittenBy, vars
<1>2. ASSUME NEW p \in Procs, Step(p)
      PROVE  FilesInv'
  BY <1>2, StepFiles, OthersUndisturbed, OwnUndisturbed DEF FilesInv
<1>3. ASSUME NEW p \in Procs, Kill(p)
      PROVE  FilesInv'
  <2>1. ASSUME NEW q \in Procs
        PROVE  Undisturbed(run[q])'
    <3>1. CASE q = p
      <4>1. run'[q].pc = "killed"
        BY <1>3, <3>1 DEF Kill, LocalInv, Idle, Entered
      <4> QED
        BY <4>1 DEF Undisturbed, Ended
    <3>2. CASE q # p
      BY <1>3, <3>2 DEF Kill, LocalInv, FilesInv, Undisturbed, WrittenBy
    <3> QED
      BY <3>1, <3>2
  <2> QED
    BY <1>3, <2>1 DEF Kill, FilesInv
<1>4. ASSUME NEW p \in Procs, NEW argv \in Arguments, Invoke(p, argv)
      PROVE  FilesInv'
  <2>1. ASSUME NEW q \in Procs
        PROVE  Undisturbed(run[q])'
    <3>1. CASE q = p
      <4>1. /\ run'[q].pc = "arguments" /\ run'[q].argv = argv
            /\ run'[q].found = [f \in Touches(argv) |-> files[f]] /\ files' = files
        BY <1>4, <3>1 DEF Invoke, LocalInv, Entered
      <4> QED
        BY <4>1 DEF Undisturbed, WrittenBy
    <3>2. CASE q # p /\ Over(q)
      <4>1. run'[q].pc = "idle"
        BY <1>4, <3>2 DEF Invoke, LocalInv, Idle, Entered
      <4> QED
        BY <4>1 DEF Undisturbed
    <3>3. CASE q # p /\ ~Over(q)
      <4>1. run'[q] = run[q] /\ files' = files
        BY <1>4, <3>3 DEF Invoke, LocalInv
      <4> QED
        BY <4>1 DEF FilesInv, Undisturbed, WrittenBy
    <3> QED
      BY <3>1, <3>2, <3>3
  <2> QED
    BY <1>4, <2>1 DEF Invoke, FilesInv
<1>5. ASSUME NEW f \in Paths, Edit(f)
      PROVE  FilesInv'
  <2>1. /\ DOMAIN files' = Paths /\ TextsAt(f) # {} /\ run' = run
        /\ \A g \in Paths : TextsAt(g) = {} => files'[g] = files[g]
    BY <1>5 DEF Edit, FilesInv
  <2>2. ASSUME NEW q \in Procs
        PROVE  Undisturbed(run[q])'
    <3>1. CASE Over(q)
      BY <2>1, <3>1 DEF Undisturbed, Over, Ended
    <3>2. CASE ~Over(q)
      <4>1. Touches(run[q].argv) \subseteq Paths
        BY <3>2, PathsAssumption DEF LocalInv, Local, Named, Over
      <4>2. run[q].pc \in {"assemble", "cleanup"} =>
              \A g \in {AsmPath(run[q].source), ExePath(run[q].source)} : g \in Paths /\ TextsAt(g) = {}
        BY <3>2, OutputNames DEF LocalInv, Local, Named, Ended
      <4>3. Undisturbed(run[q])
        BY DEF FilesInv
      <4> QED
        BY <2>1, <4>1, <4>2, <4>3 DEF Undisturbed, WrittenBy
    <3> QED
      BY <3>1, <3>2
  <2> QED
    BY <2>1, <2>2 DEF FilesInv
<1> QED
  BY <1>1, <1>2, <1>3, <1>4, <1>5 DEF Next, Rest

\* The invariant holds in every state.
THEOREM DriverInvariant == Spec => []DriverInv
<1>1. Init => DriverInv
  <2> SUFFICES ASSUME Init
               PROVE  DriverInv
    OBVIOUS
  <2>1. \A p \in Procs : run[p] = Idle
    BY DEF Init
  <2>2. LocalInv
    BY <2>1, IdleLocal DEF Init, LocalInv
  <2>3. Exclusive
    BY <2>1 DEF Exclusive, Over, Idle, Entered
  <2>4. FilesInv
    BY <2>1 DEF Init, FilesInv, Undisturbed, Idle, Entered
  <2> QED
    BY <2>2, <2>3, <2>4 DEF DriverInv
<1>2. DriverInv /\ [Next]_vars => DriverInv'
  BY LocalPreserved, ExclusivePreserved, FilesPreserved DEF DriverInv
<1> QED
  BY <1>1, <1>2, PTL DEF Spec

\* Where main returns, all it opened or allocated is released, the IR excepted,
\* and nothing twice, for every command line and every text.
THEOREM MainReleasesEverything == Spec => []EverythingReleased
<1>1. DriverInv => EverythingReleased
  BY DEF DriverInv, LocalInv, Local, Holds, EverythingReleased
<1> QED
  BY <1>1, DriverInvariant, PTL

-----------------------------------------------------------------------------
(* What a run leaves *)

\* Only a step of main ends a run.
LEMMA EndsByStep ==
  ASSUME DriverInv, [Next]_vars, NEW p \in Procs, Ends(p)
  PROVE  Step(p)
<1> DOMAIN run = Procs
  BY DEF DriverInv, LocalInv
<1>1. ASSUME NEW q \in Procs, Step(q), q # p
      PROVE  FALSE
  <2>1. run'[p] = run[p]
    BY <1>1, StepLocal DEF DriverInv, StaysLocal
  <2> QED
    BY <2>1 DEF Ends
<1>2. ASSUME NEW q \in Procs, Kill(q)
      PROVE  FALSE
  BY <1>2 DEF Kill, Ends, Idle, Entered
<1>3. ASSUME NEW q \in Procs, NEW argv \in Arguments, Invoke(q, argv)
      PROVE  FALSE
  BY <1>3 DEF Invoke, Ends, Idle, Entered
<1> QED
  BY <1>1, <1>2, <1>3 DEF Next, Rest, Edit, Ends, vars

\* A run that has not come to writing finds its output files as they were.
LEMMA NotWritten ==
  ASSUME DriverInv, NEW p \in Procs, ~Over(p), run[p].pc \notin {"emit", "assemble", "cleanup"},
         files' = files, SameTask(run[p], run'[p])
  PROVE  Untouched(run'[p])
<1> SUFFICES ASSUME run[p].source # ""
             PROVE  \A f \in {AsmPath(run[p].source), ExePath(run[p].source)} : files[f] = run[p].found[f]
  BY DEF Untouched, SameTask
<1>1. Undisturbed(run[p])
  BY DEF DriverInv, FilesInv
<1>2. run[p].pc \notin {"idle"} \cup Ended
  BY DEF Over, Ended
<1> QED
  BY <1>1, <1>2, OutputNames DEF Undisturbed, WrittenBy, DriverInv

\* Ends in the arguments, or in a stage before anything is written.
EndsEarly(r, s) ==
  /\ Untouched(s)
  /\ r.pc # "cleanup"
  /\ s.code = 0 => r.pc = "arguments" \/ r.stage \in {"--lex", "--parse", "--ir"}

\* Ends after the assembly is written.
EndsAsAssembly(r, s) ==
  /\ r.pc = "emit" /\ r.stage = "--codegen" /\ s.code = 0
  /\ files'[AsmPath(r.source)] = Assembly(r.text)

\* Ends after cc has answered.
EndsAsExecutable(r, s) ==
  /\ r.pc = "cleanup" /\ r.stage = "full"
  /\ files'[AsmPath(r.source)] = Absent
  /\ s.code = 0 => files'[ExePath(r.source)] = Executable(r.text)
  /\ s.code # 0 => files'[ExePath(r.source)] \in {Absent, r.found[ExePath(r.source)]}

\* A run ends in one of these three ways.
LEMMA EndOfRun ==
  ASSUME DriverInv, NEW p \in Procs, Step(p), Ends(p)
  PROVE  LET r == run[p]
             s == run'[p]
         IN SameTask(r, s) /\ (EndsEarly(r, s) \/ EndsAsAssembly(r, s) \/ EndsAsExecutable(r, s))
<1> DEFINE r == run[p]
           s == run'[p]
           asm == AsmPath(r.source)
           exe == ExePath(r.source)
<1>1. p \in DOMAIN run /\ DOMAIN r = Fields /\ ~Over(p)
  BY StepRuns DEF DriverInv, LocalInv, Local
<1>2. LocalInv /\ FilesInv /\ Local(r) /\ Undisturbed(r) /\ DOMAIN files = Paths
  BY DEF DriverInv, LocalInv, FilesInv
<1>3. ASSUME ReadStage(p) \/ ReadSource(p) \/ Lex(p) \/ EmitIr(p) \/ Codegen(p) \/ OpenAsm(p) \/ Assemble(p)
      PROVE  FALSE
  <2>1. ASSUME ReadStage(p) \/ ReadSource(p)
        PROVE  s.pc = "arguments"
    BY <1>1, <2>1 DEF ReadStage, ReadSource, AtArgument, Running, Fields
  <2>2. ASSUME Lex(p)
        PROVE  s.pc = IF r.stage = "--lex" THEN "leave" ELSE "parse"
    BY <1>1, <2>2 DEF Lex, Fields
  <2>3. ASSUME EmitIr(p)
        PROVE  s.pc = IF r.stage = "--ir" THEN "leave" ELSE "codegen"
    BY <1>1, <2>3 DEF EmitIr, Fields
  <2>4. ASSUME OpenAsm(p)
        PROVE  s.pc = "emit"
    BY <1>1, <2>4 DEF OpenAsm, Fields
  <2>5. ASSUME Assemble(p)
        PROVE  s.pc = "cleanup"
    BY <1>1, <2>5 DEF Assemble, Fields
  <2>6. ASSUME Codegen(p)
        PROVE  s.pc = "open"
    BY <1>1, <2>6 DEF Codegen, Fields
  <2> QED
    BY <1>3, <2>1, <2>2, <2>3, <2>4, <2>5, <2>6 DEF Ends
<1>4. CASE ReadHelp(p)
  <2>1. r.pc = "arguments" /\ files' = files /\ SameTask(r, s)
    BY <1>1, <1>4, Leaving DEF ReadHelp, AtArgument, Running
  <2> QED
    BY <1>1, <2>1, NotWritten DEF EndsEarly
<1>5. CASE ReadOther(p) \/ OpenSource(p)
  <2>1. r.pc = "arguments" /\ files' = files
    BY <1>5 DEF ReadOther, OpenSource, AtArgument, Running
  <2>2. ASSUME r.source # "" /\ files[r.source] # Absent /\ OpenSource(p)
        PROVE  FALSE
    <3>1. run' = [run EXCEPT ![p].pc = "lex", ![p].held = {"src", "tokens"}]
      BY <2>2 DEF OpenSource
    <3> QED
      BY <1>1, <3>1 DEF Ends, Fields
  <2>3. Return(p, 2, {})
    BY <1>5, <2>2 DEF ReadOther, OpenSource
  <2>4. SameTask(r, s)
    BY <1>1, <2>3, Leaving
  <2> QED
    BY <1>1, <2>1, <2>4, NotWritten DEF EndsEarly
<1>6. CASE LexFails(p) \/ OpenAsmFails(p)
  <2>1. r.pc \in {"lex", "open"} /\ files' = files
    BY <1>6 DEF LexFails, OpenAsmFails, Running
  <2>2. SameTask(r, s) /\ s.code \in {1, 2}
    <3>1. ASSUME LexFails(p)
          PROVE  SameTask(r, s) /\ s.code = 1
      BY <1>1, <3>1, Leaving DEF LexFails
    <3>2. ASSUME OpenAsmFails(p)
          PROVE  SameTask(r, s) /\ s.code = 2
      BY <1>1, <3>2, Leaving DEF OpenAsmFails
    <3> QED
      BY <1>6, <3>1, <3>2
  <2> QED
    BY <1>1, <2>1, <2>2, NotWritten DEF EndsEarly
<1>7. CASE Parse(p)
  <2>1. r.pc = "parse" /\ files' = files
    BY <1>7 DEF Parse, Running
  <2>2. CASE Fate(r.text) \in {"parse", "ice"}
    <3>1. Exit(p, 1) \/ Exit(p, 134)
      BY <1>7, <2>2 DEF Parse
    <3>2. SameTask(r, s) /\ s.code \in {1, 134}
      BY <1>1, <3>1, Leaving
    <3> QED
      BY <1>1, <2>1, <3>2, NotWritten DEF EndsEarly
  <2>3. CASE Fate(r.text) \notin {"parse", "ice"}
    <3>1. s.pc = IF r.stage = "--parse" THEN "leave" ELSE "ir"
      BY <1>1, <1>7, <2>3 DEF Parse, Fields
    <3> QED
      BY <3>1 DEF Ends
  <2> QED
    BY <2>2, <2>3
<1>8. CASE Leave(p)
  <2>1. r.pc = "leave" /\ files' = files /\ r.stage \in {"--lex", "--parse", "--ir"}
    BY <1>2, <1>8 DEF Leave, Running, Local, Holds
  <2>2. SameTask(r, s)
    BY <1>1, <1>8, <2>1, Leaving DEF Leave
  <2> QED
    BY <1>1, <2>1, <2>2, NotWritten DEF EndsEarly
<1>9. CASE EmitAsm(p) \/ Cleanup(p)
  <2>1. r.source # "" /\ r.pc \in {"emit", "cleanup"}
    BY <1>2, <1>9 DEF EmitAsm, Cleanup, Running, Local, Named, Ended
  <2>2. asm \in Paths /\ exe \in Paths /\ asm # exe
    BY <1>1, <1>2, <2>1, OutputNames
  <2>3. CASE EmitAsm(p)
    <3>1. r.stage = "--codegen"
      <4>1. ASSUME r.stage # "--codegen"
            PROVE  s.pc = "assemble"
        BY <1>1, <2>3, <4>1 DEF EmitAsm, Fields
      <4> QED
        BY <4>1 DEF Ends
    <3>2. SameTask(r, s) /\ s.code = 0
      BY <1>1, <2>3, <3>1, Leaving DEF EmitAsm
    <3> QED
      BY <1>2, <2>2, <2>3, <3>1, <3>2 DEF EmitAsm, Running, EndsAsAssembly
  <2>4. CASE Cleanup(p)
    <3>1. r.pc = "cleanup" /\ r.stage = "full"
      BY <1>2, <2>4 DEF Cleanup, Running, Local, Asked
    <3>2. SameTask(r, s) /\ s.code = IF r.ret # 0 THEN 1 ELSE 0
      BY <1>1, <2>4, Leaving DEF Cleanup
    <3>3. IF r.ret = 0 THEN files[exe] = Executable(r.text) ELSE files[exe] \in {Absent, r.found[exe]}
      BY <1>2, <3>1 DEF Undisturbed, Ended
    <3> QED
      BY <1>2, <2>2, <2>4, <3>1, <3>2, <3>3 DEF Cleanup, EndsAsExecutable
  <2> QED
    BY <1>9, <2>3, <2>4
<1> QED
  BY <1>3, <1>4, <1>5, <1>6, <1>7, <1>8, <1>9 DEF Step

\* Exit code 0 delivers what was asked for, from the text that was read,
\* whatever other runs, edits and kills happen meanwhile.
THEOREM ZeroDelivers == Spec => ExitZeroDelivers
<1>1. ASSUME DriverInv, [Next]_vars, NEW p \in Procs, Ends(p), run'[p].code = 0
      PROVE  Delivers(p)
  <2>1. Step(p)
    BY <1>1, EndsByStep
  <2> QED
    BY <1>1, <2>1, EndOfRun DEF SameTask, EndsEarly, EndsAsAssembly, EndsAsExecutable, Delivers
<1>2. DriverInv /\ [Next]_vars => [\A p \in Procs : Ends(p) /\ run'[p].code = 0 => Delivers(p)]_vars
  BY <1>1
<1> QED
  BY <1>2, DriverInvariant, PTL DEF Spec, ExitZeroDelivers

\* A failed run leaves the outputs of earlier runs alone, or, once it has
\* written assembly, no .s file and no executable that is not theirs.
THEOREM FailuresLeaveNoTrace == Spec => FailureLeavesNoTrace
<1>1. ASSUME DriverInv, [Next]_vars, NEW p \in Procs, Ends(p), run'[p].code # 0
      PROVE  LeavesNoTrace(p)
  <2>1. Step(p)
    BY <1>1, EndsByStep
  <2> QED
    BY <1>1, <2>1, EndOfRun DEF SameTask, EndsEarly, EndsAsAssembly, EndsAsExecutable, LeavesNoTrace
<1>2. DriverInv /\ [Next]_vars => [\A p \in Procs : Ends(p) /\ run'[p].code # 0 => LeavesNoTrace(p)]_vars
  BY <1>1
<1> QED
  BY <1>2, DriverInvariant, PTL DEF Spec, FailureLeavesNoTrace
=============================================================================
