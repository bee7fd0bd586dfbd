------------------------------- MODULE Driver -------------------------------
(***************************************************************************)
(* main (src/main.c) as a process among others: it reads its arguments,     *)
(* runs the stages it was asked for, writes the assembly next to the source,*)
(* has it assembled and removes it.  Several runs work in one directory,    *)
(* one after the other or, on different sources, at once; sources are       *)
(* edited meanwhile; a run may be killed at any step.                       *)
(*                                                                         *)
(* The stages themselves are modelled elsewhere (Frontend, Translation,     *)
(* Backend); here a text has a Fate, such as the stage that refuses it.  What main *)
(* writes is written whole: it checks no write, and the model has no full   *)
(* disk.                                                                    *)
(***************************************************************************)
EXTENDS Naturals, Sequences, TLC

CONSTANTS
  Procs,       \* the processes
  Arguments,   \* the command lines: a set of sequences of strings
  Paths,       \* every path the command lines lead to
  TextsAt(_),  \* the texts a user may save under a path
  Fate(_),     \* what becomes of a text: the stage that refuses it, "destroy"
               \* (its IR cannot be destroyed), or "fine"
  MaxRuns, MaxEdits

VARIABLES
  files,   \* path |-> content
  run,     \* process |-> the state of main in it
  runs,    \* bound: how many runs were started
  edits    \* bound: how many times a source was saved

vars == <<files, run, runs, edits>>

Absent == [kind |-> "absent"]
Source(t) == [kind |-> "source", text |-> t]
Truncated == [kind |-> "empty"]
Assembly(t) == [kind |-> "asm", text |-> t]
Executable(t) == [kind |-> "exe", text |-> t]

\* path ends in .c and is longer than that.
IsSourceName(a) == Len(a) > 2 /\ SubSeq(a, Len(a) - 1, Len(a)) = ".c"
ExePath(source) == SubSeq(source, 1, Len(source) - 2)
AsmPath(source) == ExePath(source) \o ".s"

StageOptions == {"--lex", "--parse", "--ir", "--codegen"}

\* The files a command line is about.
Touches(argv) ==
  UNION {IF IsSourceName(argv[k]) THEN {argv[k], AsmPath(argv[k]), ExePath(argv[k])} ELSE {} : k \in DOMAIN argv}

ASSUME ArgumentsAssumption == Arguments \subseteq Seq(STRING)

ASSUME PathsAssumption == \A argv \in Arguments : Touches(argv) \subseteq Paths

\* Nobody saves a source where the compiler writes: compiling a.c.c would
\* overwrite a.c.
ASSUME OutputsAssumption ==
  \A argv \in Arguments : \A k \in DOMAIN argv : IsSourceName(argv[k]) =>
    /\ AsmPath(argv[k]) # ExePath(argv[k])
    /\ TextsAt(AsmPath(argv[k])) = {}
    /\ TextsAt(ExePath(argv[k])) = {}

\* main entered with argv.  What it has open or allocated is in held; found and
\* misused are history: the files as they were, and whether something was freed
\* that was not held.
Entered(argv) ==
  [pc |-> "arguments", argv |-> argv, i |-> 1, stage |-> "full", source |-> "", text |-> "", held |-> {},
   ret |-> 0, code |-> 0, misused |-> FALSE, found |-> [q \in Touches(argv) |-> files[q]]]

Idle == [Entered(<<>>) EXCEPT !.pc = "idle"]

\* The paths under which somebody saves texts.
Sources == {q \in Paths : TextsAt(q) # {}}

Over(p) == run[p].pc \in {"idle", "returned", "exited", "killed"}

Init ==
  /\ \E t \in [Sources -> UNION {TextsAt(q) : q \in Sources}] :
       /\ \A q \in Sources : t[q] \in TextsAt(q)
       /\ files = [q \in Paths |-> IF q \in Sources THEN Source(t[q]) ELSE Absent]
  /\ run = [p \in Procs |-> Idle]
  /\ runs = 0
  /\ edits = 0

-----------------------------------------------------------------------------
(* The environment *)

\* Two runs about the same files are not started at once; of a run that is over
\* nothing is remembered when the next one starts.
Invoke(p, argv) ==
  /\ Over(p)
  /\ runs < MaxRuns
  /\ \A q \in Procs : Over(q) \/ Touches(run[q].argv) \cap Touches(argv) = {}
  /\ run' = [q \in Procs |-> IF q = p THEN Entered(argv) ELSE IF Over(q) THEN Idle ELSE run[q]]
  /\ runs' = runs + 1
  /\ UNCHANGED <<files, edits>>

Edit(q) ==
  /\ edits < MaxEdits
  /\ \E t \in TextsAt(q) : files' = [files EXCEPT ![q] = Source(t)]
  /\ edits' = edits + 1
  /\ UNCHANGED <<run, runs>>

Kill(p) ==
  /\ ~Over(p)
  /\ run' = [run EXCEPT ![p] = [Idle EXCEPT !.pc = "killed"]]
  /\ UNCHANGED <<files, runs, edits>>

-----------------------------------------------------------------------------
(* main *)

Running(p, pc) == run[p].pc = pc /\ UNCHANGED <<runs, edits>>

\* Leaves main with a code, having freed or closed some of what it holds.
Return(p, code, freed) ==
  run' = [run EXCEPT ![p].pc = "returned", ![p].code = code, ![p].held = @ \ freed,
                     ![p].misused = @ \/ ~(freed \subseteq run[p].held)]
\* exit() or abort() inside a stage.
Exit(p, code) == run' = [run EXCEPT ![p].pc = "exited", ![p].code = code]

Argument(p) == run[p].argv[run[p].i]
AtArgument(p) == Running(p, "arguments") /\ run[p].i <= Len(run[p].argv)

\* Variant: the loop does not go on to the next argument.
ReadStage_Stays(p) ==
  /\ AtArgument(p)
  /\ Argument(p) \in StageOptions
  /\ run' = [run EXCEPT ![p].stage = Argument(p)]
  /\ UNCHANGED files
ReadStage(p) ==
  /\ AtArgument(p)
  /\ Argument(p) \in StageOptions
  /\ run' = [run EXCEPT ![p].stage = Argument(p), ![p].i = @ + 1]
  /\ UNCHANGED files

ReadHelp(p) ==
  /\ AtArgument(p)
  /\ Argument(p) = "--help"
  /\ Return(p, 0, {})
  /\ UNCHANGED files

ReadSource(p) ==
  /\ AtArgument(p)
  /\ Argument(p) \notin StageOptions \cup {"--help"}
  /\ run[p].source = ""
  /\ IsSourceName(Argument(p))
  /\ run' = [run EXCEPT ![p].source = Argument(p), ![p].i = @ + 1]
  /\ UNCHANGED files

\* Not a .c file, or an argument after the file.
ReadOther(p) ==
  /\ AtArgument(p)
  /\ Argument(p) \notin StageOptions \cup {"--help"}
  /\ run[p].source # "" \/ ~IsSourceName(Argument(p))
  /\ Return(p, 2, {})
  /\ UNCHANGED files

\* fopen, and the token list that tokenize_file fills, which has to be freed
\* however far it got.
OpenSource(p) ==
  /\ Running(p, "arguments")
  /\ run[p].i > Len(run[p].argv)
  /\ IF run[p].source = "" \/ files[run[p].source] = Absent THEN Return(p, 2, {})
     ELSE run' = [run EXCEPT ![p].pc = "lex", ![p].held = {"src", "tokens"}]
  /\ UNCHANGED files

\* tokenize_file fails, on a character or because the file cannot be read.
LexFails(p) ==
  /\ Running(p, "lex")
  /\ Return(p, 1, {"src", "tokens"})
  /\ UNCHANGED files

Lex(p) ==
  /\ Running(p, "lex")
  /\ files[run[p].source].kind = "source"
  /\ LET t == files[run[p].source].text
     IN /\ Fate(t) # "lex"
        /\ run' = [run EXCEPT ![p].text = t, ![p].held = @ \ {"src"},
             ![p].pc = IF run[p].stage = "--lex" THEN "leave" ELSE "parse"]
  /\ UNCHANGED files

\* parse_program and the passes exit(1) themselves, or abort.
Parse(p) ==
  /\ Running(p, "parse")
  /\ CASE Fate(run[p].text) = "parse" -> Exit(p, 1)
       [] Fate(run[p].text) = "ice" -> Exit(p, 134)
       [] OTHER -> run' = [run EXCEPT ![p].held = @ \cup {"ast"},
                     ![p].pc = IF run[p].stage = "--parse" THEN "leave" ELSE "ir"]
  /\ UNCHANGED files

EmitIr(p) ==
  /\ Running(p, "ir")
  /\ run' = [run EXCEPT ![p].held = @ \cup {"ir"},
       ![p].pc = IF run[p].stage = "--ir" THEN "leave" ELSE "codegen"]
  /\ UNCHANGED files

\* The frees before a return after a stage of the front half; ir_program_destroy
\* frees some programs twice (FreedOnce) and is aborted by the library.
Leave(p) ==
  /\ Running(p, "leave")
  /\ CASE run[p].stage = "--lex" -> Return(p, 0, {"tokens"})
       [] run[p].stage = "--parse" -> Return(p, 0, {"ast", "tokens"})
       [] run[p].stage = "--ir" -> IF Fate(run[p].text) = "destroy" THEN Exit(p, 134)
                                   ELSE Return(p, 0, {"ir", "ast", "tokens"})
  /\ UNCHANGED files

\* codegen and its passes, and the name of the .s file.
Codegen(p) ==
  /\ Running(p, "codegen")
  /\ run' = [run EXCEPT ![p].held = @ \cup {"asm_prog", "asm_path"}, ![p].pc = "open"]
  /\ UNCHANGED files

\* fopen, which truncates the .s file.
OpenAsm(p) ==
  /\ Running(p, "open")
  /\ run' = [run EXCEPT ![p].held = @ \cup {"asm_out"}, ![p].pc = "emit"]
  /\ files' = [files EXCEPT ![AsmPath(run[p].source)] = Truncated]

\* Variant: the name is forgotten.
OpenAsmFails_KeepsName(p) ==
  /\ Running(p, "open")
  /\ Return(p, 2, {"asm_prog", "ast", "tokens"})
  /\ UNCHANGED files
\* Variant: what cannot be written is removed.
OpenAsmFails_Removes(p) ==
  /\ Running(p, "open")
  /\ Return(p, 2, {"asm_path", "asm_prog", "ast", "tokens"})
  /\ files' = [files EXCEPT ![AsmPath(run[p].source)] = Absent]
OpenAsmFails(p) ==
  /\ Running(p, "open")
  /\ Return(p, 2, {"asm_path", "asm_prog", "ast", "tokens"})
  /\ UNCHANGED files

\* emit_asm and fclose.
EmitAsm(p) ==
  /\ Running(p, "emit")
  /\ files' = [files EXCEPT ![AsmPath(run[p].source)] = Assembly(run[p].text)]
  /\ IF run[p].stage = "--codegen"
       THEN Return(p, 0, {"asm_out", "asm_path", "asm_prog", "ast", "tokens"})
       ELSE run' = [run EXCEPT ![p].pc = "assemble", ![p].held = (@ \ {"asm_out"}) \cup {"exe_path"}]

\* system("cc ..."): cc may fail for reasons of its own, and then leaves the
\* old executable alone or has removed it.
Assemble(p) ==
  LET asm == files[AsmPath(run[p].source)]
      exe == ExePath(run[p].source)
  IN /\ Running(p, "assemble")
     /\ \/ /\ asm.kind = "asm" /\ Fate(asm.text) # "assembler"
           /\ files' = [files EXCEPT ![exe] = Executable(asm.text)]
           /\ run' = [run EXCEPT ![p].pc = "cleanup", ![p].ret = 0]
        \/ /\ files' \in {files, [files EXCEPT ![exe] = Absent]}
           /\ run' = [run EXCEPT ![p].pc = "cleanup", ![p].ret = 1]

\* Variant: the answer of cc is not looked at.
Cleanup_IgnoresRet(p) ==
  /\ Running(p, "cleanup")
  /\ files' = [files EXCEPT ![AsmPath(run[p].source)] = Absent]
  /\ Return(p, 0, {"asm_path", "exe_path", "asm_prog", "ast", "tokens"})
Cleanup(p) ==
  /\ Running(p, "cleanup")
  /\ files' = [files EXCEPT ![AsmPath(run[p].source)] = Absent]
  /\ Return(p, IF run[p].ret # 0 THEN 1 ELSE 0, {"asm_path", "exe_path", "asm_prog", "ast", "tokens"})

Step(p) ==
  \/ ReadStage(p) \/ ReadHelp(p) \/ ReadSource(p) \/ ReadOther(p) \/ OpenSource(p)
  \/ LexFails(p) \/ Lex(p) \/ Parse(p) \/ EmitIr(p) \/ Leave(p)
  \/ Codegen(p) \/ OpenAsm(p) \/ OpenAsmFails(p) \/ EmitAsm(p) \/ Assemble(p) \/ Cleanup(p)

Rest == (\A p \in Procs : Over(p)) /\ UNCHANGED vars

Next ==
  \/ \E p \in Procs : Step(p) \/ Kill(p) \/ \E argv \in Arguments : Invoke(p, argv)
  \/ \E q \in Paths : Edit(q)
  \/ Rest

\* A run that was started goes on until it ends or is killed; nobody has to
\* start, edit or kill anything.
Spec == Init /\ [][Next]_vars /\ \A p \in Procs : WF_vars(Step(p))

-----------------------------------------------------------------------------
(* Properties *)

Ends(p) == run[p].pc \notin {"returned", "exited"} /\ run'[p].pc \in {"returned", "exited"}

\* Its own output files are as the run found them.
Untouched(r) ==
  r.source # "" => \A q \in {AsmPath(r.source), ExePath(r.source)} : files'[q] = r.found[q]

\* Exit code 0 means that what was asked for is there: the executable, or the
\* assembly, of the text this run has read, whatever earlier runs left behind
\* and whatever was saved meanwhile (main).  Only --help ends with 0 while the
\* arguments are read.
Delivers(p) ==
  LET r == run'[p]
      asked == IF run[p].pc = "arguments" THEN "help" ELSE r.stage
  IN /\ asked = "full" => files'[ExePath(r.source)] = Executable(r.text)
     /\ asked = "--codegen" => files'[AsmPath(r.source)] = Assembly(r.text)
     /\ asked \notin {"full", "--codegen"} => Untouched(r)

ExitZeroDelivers == [][\A p \in Procs : Ends(p) /\ run'[p].code = 0 => Delivers(p)]_vars

\* A run that fails before it has written assembly leaves the outputs of
\* earlier runs alone; one that fails after it leaves no .s file, and never an
\* executable of another text than an earlier run's (main).
LeavesNoTrace(p) ==
  LET r == run'[p]
  IN IF run[p].pc = "cleanup"
       THEN /\ files'[AsmPath(r.source)] = Absent
            /\ files'[ExePath(r.source)] \in {Absent, r.found[ExePath(r.source)]}
       ELSE Untouched(r)

FailureLeavesNoTrace == [][\A p \in Procs : Ends(p) /\ run'[p].code # 0 => LeavesNoTrace(p)]_vars

\* Where main returns, every stream is closed, everything but the IR, whose
\* names the assembly shares, is freed, and nothing was freed that was not
\* there (the cleanup before each return of main).
EverythingReleased ==
  \A p \in Procs : run[p].pc = "returned" => run[p].held \subseteq {"ir"} /\ ~run[p].misused

\* A run that was started ends, or is killed (the loop over the arguments and
\* the stages).
EveryRunEnds == \A p \in Procs : ~Over(p) ~> Over(p)
=============================================================================
