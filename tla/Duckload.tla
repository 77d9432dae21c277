------------------------------- MODULE Duckload -------------------------------
(* The command duckload (cmd/duckload/main.go) from os.Args to the exit code of the process: main finds the subcommand, *)
(* parseArgs sorts flags and words in whatever order they were typed, and the subcommand runs. What gate does then is   *)
(* PerformanceGate; every other subcommand asks for one analysis and prints its result. Requests to the HTTP server    *)
(* come with no command line and go on as in PerformanceGate.                                                           *)
(*                                                                                                                     *)
(* An argument is a word <<w>>, a flag <<"--", name>> whose value follows, or a flag with its value <<"--", name, v>>.  *)
EXTENDS PerformanceGate, QueryCatalog, FiniteSetsExt

CONSTANTS
  Others,      \* what may be asked of the other subcommands: [command, file, flags]
  Odd,         \* command lines that ask for nothing that can be answered
  Orders,      \* orders in which flags and file may be typed
  Styles       \* sets of flags that may be typed with "="

VARIABLES
  typed,       \* os.Args[1:], NoLine when it has been read
  meant,       \* ghost: what the user means, if it is another subcommand than gate
  asked,       \* what such a subcommand has understood
  status       \* exit code of the process

lineVars == <<typed, meant, asked, status>>
processVars == <<vars, lineVars, catalogVars>>

NoLine == <<<<>>>>
Running == 99
Nothing == [command |-> "", file |-> "", flags |-> [n \in {} |-> ""]]

GateFlags == {"current", "policy", "run-id", "baseline", "baseline-run-id", "format", "warn-exit-code"}
FlagsOf(command) == CASE command \in {"summary", "endpoints"} -> {"run-id"}
                      [] command \in {"compare", "diagnose"}  -> {"baseline", "current"}
                      [] command = "gate"                     -> GateFlags
Numerals == [n \in 0..2 |-> CASE n = 0 -> "0" [] n = 1 -> "1" [] n = 2 -> "2"]
-----------------------------------------------------------------------------
(* What a user types *)

\* One flag, or the file, as it is typed if it is given.
Typed(invocation, n, style) ==
  CASE n = "file" /\ invocation.file # "" -> <<<<invocation.file>>>>
    [] n \in DOMAIN invocation.flags /\ n \in style -> <<<<"--", n, invocation.flags[n]>>>>
    [] n \in DOMAIN invocation.flags /\ n \notin style -> <<<<"--", n>>, <<invocation.flags[n]>>>>
    [] OTHER -> <<>>

Arguments(invocation, order, style) == FlattenSeq([k \in DOMAIN order |-> Typed(invocation, order[k], style)])
Line(invocation, order, style) == <<<<invocation.command>>>> \o Arguments(invocation, order, style)

\* The invocations of gate that mean request q: one if it is valid, or the ways to make it invalid.
GateInvocations(q) ==
  LET given == [n \in GateFlags |-> CASE n \in {"current", "policy"} -> TRUE
                                      [] n = "run-id"           -> q.run # NoRun
                                      [] n = "baseline"         -> q.baselineFile
                                      [] n = "baseline-run-id"  -> q.baselineRun # NoRun
                                      [] n = "warn-exit-code"   -> q.warnExitCode # ExitPass
                                      [] n = "format"           -> q.baselineFile]
      value == [n \in GateFlags |-> CASE n = "run-id"          -> q.run
                                      [] n = "baseline-run-id" -> q.baselineRun
                                      [] n = "warn-exit-code"  -> Numerals[q.warnExitCode]
                                      [] n = "format"          -> "json"
                                      [] OTHER                 -> "path"]
      flags == {n \in GateFlags : given[n]}
      With(word, names) == [command |-> "gate", file |-> word, flags |-> [n \in names |-> value[n]]]
  IN  IF q.valid THEN {With("", flags)} ELSE {With("", flags \ {"policy"}), With("", flags \ {"current"}), With("path", flags)}
-----------------------------------------------------------------------------
(* parseArgs, and fs.Parse of the flag package *)

Bare(argument) == Len(argument) = 2
IsFlag(argument) == Len(argument) > 1

NothingTaken(args) == {}                                 \* i++ and the second append forgotten
\* the arguments that the loop takes as the value of the flag before them
Taken(args) ==
  LET taken[i \in 0..Len(args)] == i > 1 /\ Bare(args[i - 1]) /\ ~taken[i - 1]
  IN  {i \in DOMAIN args : taken[i]}

FlagsBeforeWords(args) ==                                \* the flag package without parseArgs: it stops at a word
  {i \in DOMAIN args : \A j \in 1..i : IsFlag(args[j]) \/ j \in Taken(args)} \ Taken(args)
FlagPositions(args) == {i \in DOMAIN args : IsFlag(args[i])} \ Taken(args)
Positional(args) == {i \in DOMAIN args : ~IsFlag(args[i])} \ Taken(args)

\* the value that goes with a flag, if there is one
ValueAt(args, i) ==
  IF ~Bare(args[i]) THEN {args[i][3]}
  ELSE {IF IsFlag(args[j]) THEN "--" ELSE args[j][1] : j \in {i + 1} \cap DOMAIN args}
FlagValue(args, n) ==
  LET at == {i \in FlagPositions(args) : args[i][2] = n}
  IN  IF at = {} THEN "" ELSE CHOOSE v \in ValueAt(args, Max(at)) : TRUE

\* the first flag that fs.Parse does not accept, if there is one
Unacceptable(args, names) ==
  {i \in FlagPositions(args) :
     \/ args[i][2] \notin names \/ ValueAt(args, i) = {}
     \/ args[i][2] = "warn-exit-code" /\ ~\E n \in DOMAIN Numerals : Numerals[n] \in ValueAt(args, i)}

\* flag.ExitOnError: the process ends in fs.Parse, with 0 after -h and with 2 after anything else
Accepted(args, names) == Unacceptable(args, names) = {}
ParseExit(args, names) == IF args[Min(Unacceptable(args, names))][2] \in {"h", "help"} THEN 0 ELSE 2

RunOf(v) == IF v = "" THEN NoRun ELSE v
WarnExitCode(v) == IF v = "" THEN ExitPass ELSE CHOOSE n \in DOMAIN Numerals : Numerals[n] = v
GateRequest(args) ==
  [entry |-> "cli",
   valid |-> /\ Positional(args) = {}
             /\ FlagValue(args, "current") # "" /\ FlagValue(args, "policy") # ""
             /\ FlagValue(args, "format") \in {"", "human", "json"},
   run |-> RunOf(FlagValue(args, "run-id")),
   baselineFile |-> FlagValue(args, "baseline") # "",
   baselineRun |-> RunOf(FlagValue(args, "baseline-run-id")),
   warnExitCode |-> WarnExitCode(FlagValue(args, "warn-exit-code"))]
-----------------------------------------------------------------------------
\* What is typed: every order has a place for the file and every flag, names and values are not empty, odd lines for gate
\* are not accepted, and the repository ships queries that init registers.
ASSUME LineAssumption ==
  /\ RunIDs \subseteq STRING \ {""} /\ \A q \in Requests : q.warnExitCode \in 0..2
  /\ \A i \in Others : /\ i.command \in {"summary", "endpoints", "compare", "diagnose"}
                       /\ i \in [command : {i.command}, file : STRING \ {""}, flags : [FlagsOf(i.command) -> STRING \ {""}]]
  /\ \A o \in Orders : o \in Seq(STRING) /\ GateFlags \cup {"file"} \subseteq ToSet(o)
  /\ \A l \in Odd : l \in Seq(Seq(STRING)) /\ (l \notin {<<>>, NoLine} /\ l[1][1] = "gate" => ~Accepted(Tail(l), GateFlags))
  /\ ~Unregistrable(Shipped)

(* The process *)

Command == IF typed \in {<<>>, NoLine} THEN "" ELSE typed[1][1]
Exit(c) == status' = c

DuckloadInit ==
  /\ Init
  /\ asked = Nothing /\ status = Running
  /\ \/ req.entry = "http" /\ typed = NoLine /\ meant = Nothing
     \/ /\ req.entry = "cli"
        /\ \E o \in Orders, s \in Styles :
             \/ \E i \in GateInvocations(req) : typed = Line(i, o, s) /\ meant = Nothing
             \/ \E i \in Others : typed = Line(i, o, s) /\ meant = i
     \/ req.entry = "cli" /\ typed \in Odd /\ meant = Nothing
  /\ CatalogInit
  /\ Command # "check-analysis" => files = Shipped

\* Every process registers the queries before main; a panic ends it with code 2.
StartProcess ==
  /\ Register
  /\ IF checking' = "panic" THEN Exit(2) ELSE UNCHANGED status
  /\ UNCHANGED <<vars, typed, meant, asked>>

\* main calls runGate, which parses its arguments and then does what PerformanceGate says
StartGate ==
  /\ checking = "ready" /\ status = Running /\ Command = "gate"
  /\ LET args == Tail(typed) IN
       IF Accepted(args, GateFlags) THEN req' = GateRequest(args) /\ typed' = NoLine /\ UNCHANGED status
                                    ELSE Exit(ParseExit(args, GateFlags)) /\ UNCHANGED <<req, typed>>
  /\ UNCHANGED <<stage, pol, file, current, baseline, compared, todo, findings, untallied, summary, worst, verdict, code,
                 meant, asked, catalogVars>>

GateStep == checking = "ready" /\ typed = NoLine /\ Next /\ UNCHANGED <<lineVars, catalogVars>>

EndGate ==
  /\ typed = NoLine /\ status = Running
  /\ stage = "done" /\ req.entry = "cli"
  /\ Exit(code)
  /\ UNCHANGED <<vars, typed, meant, asked, catalogVars>>

\* runSummary, runEndpoints, runCompare, runDiagnose: a file and every flag are needed, and any error is exit code 1
Analyse ==
  /\ checking = "ready" /\ status = Running /\ Command \in {"summary", "endpoints", "compare", "diagnose"}
  /\ LET args == Tail(typed)
         got == [command |-> Command,
                 file |-> IF Positional(args) = {} THEN "" ELSE args[Min(Positional(args))][1],
                 flags |-> [n \in FlagsOf(Command) |-> FlagValue(args, n)]]
     IN  IF ~Accepted(args, FlagsOf(Command)) THEN Exit(ParseExit(args, FlagsOf(Command))) /\ UNCHANGED asked
         ELSE IF got.file = "" \/ \E n \in DOMAIN got.flags : got.flags[n] = "" THEN Exit(1) /\ UNCHANGED asked
         ELSE asked' = got /\ (Exit(0) \/ Exit(1))
  /\ UNCHANGED <<vars, typed, meant, catalogVars>>

\* runCheckAnalysis goes on to the next fixture when one fails, and remembers it; it does not use parseArgs
CheckAnalysis ==
  /\ status = Running /\ Command = "check-analysis"
  /\ IF checking = "ready" /\ Len(typed) > 1 /\ IsFlag(typed[2])
     THEN Exit(ParseExit(Tail(typed), {})) /\ UNCHANGED catalogVars
     ELSE \/ CheckNext /\ UNCHANGED status
          \/ checking = "checked" /\ Exit(IF failed THEN 1 ELSE 0) /\ UNCHANGED catalogVars
  /\ UNCHANGED <<vars, typed, meant, asked>>

Usage ==
  /\ checking = "ready" /\ status = Running /\ typed # NoLine
  /\ Command \notin {"gate", "summary", "endpoints", "compare", "diagnose", "check-analysis"}
  /\ Exit(IF Command = "help" \/ (Command = "--" /\ typed[1][2] \in {"h", "help"}) THEN 0 ELSE 1)
  /\ UNCHANGED <<vars, typed, meant, asked, catalogVars>>

DuckloadNext == StartProcess \/ StartGate \/ GateStep \/ EndGate \/ Analyse \/ CheckAnalysis \/ Usage

DuckloadSpec == DuckloadInit /\ [][DuckloadNext]_processVars
-----------------------------------------------------------------------------
(* Properties *)

\* In whatever order and spelling the flags are typed, the command that runs is the one that is meant (main.go 28-53:
\* parseArgs separates flags from positional arguments "regardless of their relative order"): for gate, it is the gate of
\* that request, which runs as PerformanceGate says; for the other subcommands, the analysis asked for, and a line that
\* means something is never answered with usage.
RunsAsMeant == Spec /\ [](meant # Nothing /\ status # Running => asked = meant)
=============================================================================
