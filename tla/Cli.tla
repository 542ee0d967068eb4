-------------------------------- MODULE Cli --------------------------------
(***************************************************************************)
(* The pcad program (src/src/cli/main.cpp): runs of it, one after another, *)
(* on one output directory.  A run may fail at every stage, the file       *)
(* system may refuse an open, a write or the flush that closing a file     *)
(* entails, and the process may be killed between any two steps.           *)
(* Documents are named by the run that produced them.                      *)
(***************************************************************************)
EXTENDS Integers, Sequences

CONSTANT Runs       \* bound: number of runs of the program

ASSUME CliAssumption == Runs \in Nat \ {0}

VARIABLES
    run,            \* number of the current or last run
    command,        \* what it was asked to do
    pc,             \* "idle", a stage, or a step of writing a file
    exit,           \* its exit code, -1 while there is none
    file,           \* result.json and manifest.json
    before          \* history: the files when the run started

vars == <<run, command, pc, exit, file, before>>

kExitOk == 0
kExitError == 1
kExitUsage == 2
Files == {"result", "manifest"}
Absent == [run |-> 0, whole |-> FALSE]

\* The stages of run_validate_config and of run_inspect up to its output.
ValidateStages == <<"read_config", "parse_config", "validate_config">>
InspectStages == ValidateStages \o <<"formats", "read_reference", "read_scan", "create", "run", "serialize">>
Stages(c) == IF c = "inspect" THEN InspectStages ELSE ValidateStages

Init == /\ run = 0 /\ command = "none" /\ pc = "idle" /\ exit = kExitOk
        /\ file = [f \in Files |-> Absent] /\ before = file

Exit(code) == /\ exit' = code
              /\ pc' = "idle"
              /\ UNCHANGED <<run, command, file, before>>

\* main: --help and --version, wrong arguments, or a command.
Main(c) ==
    /\ pc = "idle"
    /\ run < Runs
    /\ run' = run + 1
    /\ command' = c
    /\ before' = file
    /\ CASE c = "help" -> pc' = "idle" /\ exit' = kExitOk
         [] c = "usage" -> pc' = "idle" /\ exit' = kExitUsage
         [] OTHER -> pc' = Head(Stages(c)) /\ exit' = -1
    /\ UNCHANGED file

\* Only an extension that is neither .ply nor .pcd counts as wrong usage.
StageError(s) == IF s = "formats" THEN kExitUsage ELSE kExitError

\* A stage fails or is followed by the next; validate-config then is done,
\* inspect begins to write.
Stage(i) ==
    LET s == Stages(command) IN
    /\ i \in 1 .. Len(s)
    /\ pc = s[i]
    /\ \/ Exit(StageError(s[i]))
       \/ /\ i < Len(s)
          /\ pc' = s[i + 1]
          /\ UNCHANGED <<run, command, exit, file, before>>
       \/ /\ i = Len(s) /\ command = "validate-config"
          /\ Exit(kExitOk)
       \/ /\ i = Len(s) /\ command = "inspect"
          /\ pc' = "open_result"
          /\ UNCHANGED <<run, command, exit, file, before>>

\* Fault: a file that cannot be opened is reported as wrong usage.
OpenUsage(f, at, next) ==
    /\ pc = at
    /\ \/ Exit(kExitUsage)
       \/ /\ file' = [file EXCEPT ![f] = [run |-> run, whole |-> FALSE]]
          /\ pc' = next
          /\ UNCHANGED <<run, command, exit, before>>

\* write_text_file: the stream is opened and truncated,
Open(f, at, next) ==
    /\ pc = at
    /\ \/ Exit(kExitError)
       \/ /\ file' = [file EXCEPT ![f] = [run |-> run, whole |-> FALSE]]
          /\ pc' = next
          /\ UNCHANGED <<run, command, exit, before>>

\* Fault: a refused write is tried again.
WriteRetry(at, next) ==
    /\ pc = at
    /\ pc' \in {next, IF at = "write_result" THEN "open_result" ELSE "open_manifest"}
    /\ UNCHANGED <<run, command, exit, file, before>>

\* written, which reaches the disk or the stream's buffer or fails,
Write(at, next) ==
    /\ pc = at
    /\ \/ Exit(kExitError)
       \/ /\ pc' = next
          /\ UNCHANGED <<run, command, exit, file, before>>

\* and closed by its destructor, which reports no failure to flush.  The
\* digest of the manifest (build_manifest) is that of the text in memory.
Close(f, at, next) ==
    /\ pc = at
    /\ \E flushed \in BOOLEAN : file' = [file EXCEPT ![f].whole = flushed]
    /\ pc' = next
    /\ exit' = IF next = "idle" THEN kExitOk ELSE exit
    /\ UNCHANGED <<run, command, before>>

\* Fault: the manifest is written first.
WriteFilesSwapped ==
    \/ Open("manifest", "open_result", "write_result")
    \/ Write("write_result", "close_result")
    \/ Close("manifest", "close_result", "open_manifest")
    \/ Open("result", "open_manifest", "write_manifest")
    \/ Write("write_manifest", "close_manifest")
    \/ Close("result", "close_manifest", "idle")

\* result.json, then manifest.json
WriteFiles ==
    \/ Open("result", "open_result", "write_result")
    \/ Write("write_result", "close_result")
    \/ Close("result", "close_result", "open_manifest")
    \/ Open("manifest", "open_manifest", "write_manifest")
    \/ Write("write_manifest", "close_manifest")
    \/ Close("manifest", "close_manifest", "idle")

\* The process is killed, or an exception nobody catches ends it.
Crash == /\ pc # "idle"
         /\ Exit(-1)

Working == WriteFiles \/ \E i \in 1 .. Len(InspectStages) : Stage(i)
Next == \/ \E c \in {"help", "usage", "validate-config", "inspect"} : Main(c)
        \/ Working \/ Crash

Spec == Init /\ [][Next]_vars /\ WF_vars(Working)

-----------------------------------------------------------------------------
\* Properties

\* A complete manifest never vouches for a result that is still to come:
\* whatever run it is of, result.json is of that run or of a later one, also
\* after a crash or a refused write between the two files.
ManifestNotAhead == file["manifest"].whole => file["manifest"].run <= file["result"].run

\* Every variable has its type; a run that has ended has one of three codes.
TypeOK == /\ run \in 0 .. Runs
          /\ exit \in {-1, kExitOk, kExitError, kExitUsage}
          /\ file \in [Files -> [run : 0 .. Runs, whole : BOOLEAN]]
          /\ before \in [Files -> [run : 0 .. Runs, whole : BOOLEAN]]

\* The exit code tells what happened to the directory: success of inspect
\* means that this run replaced both files, an error that it left no complete
\* manifest of its own, a refused usage that nothing was touched.
ExitCodeTruthful ==
    /\ TypeOK
    /\ exit = kExitOk /\ command = "inspect" => \A f \in Files : file[f].run = run
    /\ exit = kExitError => ~(file["manifest"].run = run /\ file["manifest"].whole)
    /\ exit = kExitUsage => file = before

\* What "wrote: result.json" and "wrote: manifest.json" tell the user on
\* success: both files are there and complete.
OkMeansWritten ==
    exit = kExitOk /\ command = "inspect" => \A f \in Files : file[f].run = run /\ file[f].whole

\* Every run of the program ends.
RunEnds == pc # "idle" ~> pc = "idle"
=============================================================================
