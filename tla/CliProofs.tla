----------------------------- MODULE CliProofs -----------------------------
(***************************************************************************)
(* Proofs about Cli for any number of runs of the program: what its files  *)
(* and its exit code tell, whatever fails and whenever it is killed.       *)
(***************************************************************************)
EXTENDS Cli, TLAPS

StageNames == {"read_config", "parse_config", "validate_config", "formats", "read_reference",
               "read_scan", "create", "run", "serialize"}
Writing == {"open_result", "write_result", "close_result",
            "open_manifest", "write_manifest", "close_manifest"}
Commands == {"none", "help", "usage", "validate-config", "inspect"}

\* Where the program is, and which code it has while it has none.
Control == /\ pc \in {"idle"} \union StageNames \union Writing
           /\ command \in Commands
           /\ pc # "idle" => exit = -1
           /\ pc \in Writing => command = "inspect"

\* Before the first open both files are those of earlier runs; from then on
\* result.json is this run's, and once manifest.json is open it is this run's
\* and not complete.
Progress ==
    /\ pc \in StageNames \union {"open_result"} =>
         file = before /\ \A f \in Files : file[f].run < run
    /\ pc \in {"write_result", "close_result", "open_manifest"} =>
         file["result"].run = run /\ file["manifest"].run < run
    /\ pc \in {"write_manifest", "close_manifest"} =>
         file["result"].run = run /\ file["manifest"].run = run /\ ~file["manifest"].whole

\* No file is of a run to come.
NotAhead == \A f \in Files : file[f].run <= run

\* The inductive invariant.
IInv == Control /\ Progress /\ NotAhead /\ ManifestNotAhead /\ ExitCodeTruthful

-----------------------------------------------------------------------------
\* The stages of a command are stages, and the first of them is there.
LEMMA StagesAreStages ==
    ASSUME NEW c \in {"validate-config", "inspect"}
    PROVE  /\ Head(Stages(c)) \in StageNames
           /\ Len(Stages(c)) \in Nat
           /\ \A i \in 1 .. Len(Stages(c)) : Stages(c)[i] \in StageNames
  <1>1. /\ Head(ValidateStages) \in StageNames
        /\ Len(ValidateStages) \in Nat
        /\ \A i \in 1 .. Len(ValidateStages) : ValidateStages[i] \in StageNames
    BY DEF ValidateStages, StageNames
  <1>2. /\ Head(InspectStages) \in StageNames
        /\ Len(InspectStages) \in Nat
        /\ \A i \in 1 .. Len(InspectStages) : InspectStages[i] \in StageNames
    BY DEF InspectStages, ValidateStages, StageNames
  <1>3. CASE c = "inspect"
    <2>1. Stages(c) = InspectStages
      BY <1>3 DEF Stages
    <2> QED BY <1>2, <2>1
  <1>4. CASE c = "validate-config"
    <2>1. Stages(c) = ValidateStages
      BY <1>4 DEF Stages
    <2> QED BY <1>1, <2>1
  <1> QED BY <1>3, <1>4

\* A stage and a step of writing have different names.
LEMMA NamesApart == /\ "idle" \notin StageNames \union Writing
                    /\ StageNames \intersect Writing = {}
  BY DEF StageNames, Writing

\* A run that ends where it stands, with a code that is true of its files.
LEMMA ExitSafe ==
    ASSUME IInv, NEW code, Exit(code), code \in {-1, kExitError, kExitUsage},
           code = kExitError => ~(file["manifest"].run = run /\ file["manifest"].whole),
           code = kExitUsage => file = before
    PROVE  IInv'
  <1>1. Control' /\ Progress' /\ NotAhead' /\ ManifestNotAhead'
    BY NamesApart DEF IInv, Control, Progress, NotAhead, ManifestNotAhead, Exit, Writing
  <1>2. ExitCodeTruthful'
    BY DEF IInv, ExitCodeTruthful, TypeOK, Exit, kExitOk, kExitError, kExitUsage
  <1> QED BY <1>1, <1>2 DEF IInv

\* A manifest of an earlier run, or an incomplete one, does not contradict an
\* error.
LEMMA NoOwnManifest ==
    ASSUME IInv, pc # "idle"
    PROVE  ~(file["manifest"].run = run /\ file["manifest"].whole)
  BY DEF IInv, Control, Progress, ExitCodeTruthful, TypeOK, Files, Writing

LEMMA MainSafe == ASSUME IInv, NEW c \in Commands \ {"none"}, Main(c) PROVE IInv'
  <1>1. /\ run \in Nat /\ run' = run + 1
        /\ command' = c /\ before' = file /\ file' = file
        /\ \A f \in Files : file[f].run \in Nat /\ file[f].run <= run
    BY CliAssumption DEF IInv, ExitCodeTruthful, TypeOK, NotAhead, Main
  <1>2. \A f \in Files : file'[f].run < run'
    BY <1>1
  <1>3. \/ pc' = "idle" /\ exit' \in {kExitOk, kExitUsage} /\ c # "inspect"
        \/ pc' \in StageNames /\ exit' = -1
    <2>1. CASE c = "help"
      BY <2>1 DEF Main
    <2>2. CASE c = "usage"
      BY <2>2 DEF Main
    <2>3. CASE c \in {"validate-config", "inspect"}
      BY <2>3, StagesAreStages DEF Main
    <2> QED BY <2>1, <2>2, <2>3 DEF Commands
  <1>4. Control'
    BY <1>1, <1>3, NamesApart DEF Control
  <1>5. Progress'
    BY <1>1, <1>2, <1>3, NamesApart DEF Progress, Writing
  <1>6. NotAhead' /\ ManifestNotAhead'
    BY <1>1 DEF IInv, NotAhead, ManifestNotAhead
  <1>7. TypeOK'
    BY <1>1, <1>3, CliAssumption DEF IInv, ExitCodeTruthful, TypeOK, Main, kExitOk, kExitError, kExitUsage
  <1>8. ExitCodeTruthful'
    BY <1>1, <1>3, <1>7 DEF ExitCodeTruthful, kExitOk, kExitError, kExitUsage
  <1> QED BY <1>4, <1>5, <1>6, <1>8 DEF IInv

LEMMA StageSafe == ASSUME IInv, NEW i, Stage(i) PROVE IInv'
  <1> DEFINE s == Stages(command)
  <1>1. i \in 1 .. Len(s) /\ pc = s[i]
    BY DEF Stage
  <1>2. pc \in StageNames
    <2>1. s = Stages("inspect") \/ s = Stages("validate-config")
      BY DEF Stages
    <2> QED BY <1>1, <2>1, StagesAreStages
  <1>3. /\ pc # "idle" /\ pc \notin Writing
        /\ file = before /\ \A f \in Files : file[f].run < run
        /\ exit = -1
    BY <1>2, NamesApart DEF IInv, Control, Progress
  <1>4. CASE Exit(StageError(s[i]))
    BY <1>3, <1>4, NoOwnManifest, ExitSafe DEF StageError
  <1>5. CASE /\ i < Len(s)
             /\ pc' = s[i + 1]
             /\ UNCHANGED <<run, command, exit, file, before>>
    <2>1. pc' \in StageNames
      <3>1. i + 1 \in 1 .. Len(s)
        BY <1>1, <1>5
      <3>2. s = Stages("inspect") \/ s = Stages("validate-config")
        BY DEF Stages
      <3> QED BY <1>5, <3>1, <3>2, StagesAreStages
    <2> QED BY <1>3, <1>5, <2>1, NamesApart
          DEF IInv, Control, Progress, NotAhead, ManifestNotAhead, ExitCodeTruthful, TypeOK, Writing
  <1>6. CASE command = "validate-config" /\ Exit(kExitOk)
    <2>1. Control' /\ Progress' /\ NotAhead' /\ ManifestNotAhead'
      BY <1>6, NamesApart DEF IInv, Control, Progress, NotAhead, ManifestNotAhead, Exit, Writing
    <2>2. ExitCodeTruthful'
      BY <1>6 DEF IInv, ExitCodeTruthful, TypeOK, Exit, kExitOk, kExitError, kExitUsage
    <2> QED BY <2>1, <2>2 DEF IInv
  <1>7. CASE /\ command = "inspect"
             /\ pc' = "open_result"
             /\ UNCHANGED <<run, command, exit, file, before>>
    BY <1>3, <1>7, NamesApart
       DEF IInv, Control, Progress, NotAhead, ManifestNotAhead, ExitCodeTruthful, TypeOK, Writing
  <1> QED BY <1>4, <1>5, <1>6, <1>7 DEF Stage

\* The file that is opened becomes this run's and incomplete.
LEMMA OpenSafe ==
    ASSUME IInv, NEW f \in Files, NEW at, NEW next, Open(f, at, next),
           \/ f = "result" /\ at = "open_result" /\ next = "write_result"
           \/ f = "manifest" /\ at = "open_manifest" /\ next = "write_manifest"
    PROVE  IInv'
  <1>1. pc = at /\ pc \in Writing /\ pc # "idle"
    BY DEF Open, Writing
  <1>2. CASE Exit(kExitError)
    BY <1>1, <1>2, NoOwnManifest, ExitSafe DEF kExitError, kExitUsage
  <1>3. CASE /\ file' = [file EXCEPT ![f] = [run |-> run, whole |-> FALSE]]
             /\ pc' = next
             /\ UNCHANGED <<run, command, exit, before>>
    <2>1. exit = -1 /\ command = "inspect"
      BY <1>1 DEF IInv, Control
    <2>2. /\ run \in 0 .. Runs
          /\ file \in [Files -> [run : 0 .. Runs, whole : BOOLEAN]]
      BY DEF IInv, ExitCodeTruthful, TypeOK
    <2>3. /\ file' \in [Files -> [run : 0 .. Runs, whole : BOOLEAN]]
          /\ file'[f].run = run /\ ~file'[f].whole
          /\ \A g \in Files \ {f} : file'[g] = file[g]
      BY <1>3, <2>2
    <2>4. Control'
      BY <1>3, <2>1 DEF IInv, Control, Writing
    <2>5. Progress'
      <3>1. CASE f = "result"
        BY <1>1, <1>3, <2>3, <3>1, NamesApart DEF IInv, Progress, Files, Writing
      <3>2. CASE f = "manifest"
        BY <1>1, <1>3, <2>3, <3>2, NamesApart DEF IInv, Progress, Files, Writing
      <3> QED BY <3>1, <3>2 DEF Files
    <2>6. NotAhead'
      BY <1>3, <2>2, <2>3 DEF IInv, NotAhead
    <2>7. ManifestNotAhead'
      BY <1>3, <2>2, <2>3, <2>6 DEF IInv, NotAhead, ManifestNotAhead, Files
    <2>8. ExitCodeTruthful'
      BY <1>3, <2>1, <2>3 DEF IInv, ExitCodeTruthful, TypeOK, kExitOk, kExitError, kExitUsage
    <2> QED BY <2>4, <2>5, <2>6, <2>7, <2>8 DEF IInv
  <1> QED BY <1>2, <1>3 DEF Open

LEMMA WriteSafe ==
    ASSUME IInv, NEW at, NEW next, Write(at, next),
           \/ at = "write_result" /\ next = "close_result"
           \/ at = "write_manifest" /\ next = "close_manifest"
    PROVE  IInv'
  <1>1. pc = at /\ pc \in Writing /\ pc # "idle"
    BY DEF Write, Writing
  <1>2. CASE Exit(kExitError)
    BY <1>1, <1>2, NoOwnManifest, ExitSafe DEF kExitError, kExitUsage
  <1>3. CASE pc' = next /\ UNCHANGED <<run, command, exit, file, before>>
    BY <1>1, <1>3, NamesApart
       DEF IInv, Control, Progress, NotAhead, ManifestNotAhead, ExitCodeTruthful, TypeOK, Writing
  <1> QED BY <1>2, <1>3 DEF Write

\* Closing result.json can only make it complete or not; closing
\* manifest.json ends the run with both files its own.
LEMMA CloseSafe ==
    ASSUME IInv, NEW f \in Files, NEW at, NEW next, Close(f, at, next),
           \/ f = "result" /\ at = "close_result" /\ next = "open_manifest"
           \/ f = "manifest" /\ at = "close_manifest" /\ next = "idle"
    PROVE  IInv'
  <1>1. pc = at /\ pc \in Writing /\ pc # "idle"
    BY DEF Close, Writing
  <1>2. PICK flushed \in BOOLEAN : file' = [file EXCEPT ![f].whole = flushed]
    BY DEF Close
  <1>3. exit = -1 /\ command = "inspect"
    BY <1>1 DEF IInv, Control
  <1>4. file \in [Files -> [run : 0 .. Runs, whole : BOOLEAN]]
    BY DEF IInv, ExitCodeTruthful, TypeOK
  <1>5. /\ file' \in [Files -> [run : 0 .. Runs, whole : BOOLEAN]]
        /\ \A g \in Files : file'[g].run = file[g].run
        /\ \A g \in Files \ {f} : file'[g] = file[g]
    BY <1>2, <1>4
  <1>6. /\ pc' = next /\ UNCHANGED <<run, command, before>>
        /\ exit' = IF next = "idle" THEN kExitOk ELSE exit
    BY DEF Close
  <1>7. file["result"].run = run
    BY <1>1 DEF IInv, Progress, Close
  <1>8. Control'
    BY <1>3, <1>6 DEF IInv, Control, Writing
  <1>9. Progress'
    BY <1>1, <1>5, <1>6, NamesApart DEF IInv, Progress, Files, Writing
  <1>10. NotAhead'
    BY <1>5, <1>6 DEF IInv, NotAhead
  <1>11. ManifestNotAhead'
    BY <1>5, <1>6, <1>7, <1>10 DEF NotAhead, ManifestNotAhead, Files
  <1>12. TypeOK'
    BY <1>3, <1>5, <1>6 DEF IInv, ExitCodeTruthful, TypeOK, kExitOk
  <1>13. next = "idle" => \A g \in Files : file'[g].run = run'
    BY <1>1, <1>5, <1>6, <1>7 DEF IInv, Progress, Files
  <1>14. ExitCodeTruthful'
    BY <1>3, <1>6, <1>12, <1>13 DEF ExitCodeTruthful, kExitOk, kExitError, kExitUsage
  <1> QED BY <1>8, <1>9, <1>10, <1>11, <1>14 DEF IInv

-----------------------------------------------------------------------------
\* The inductive invariant holds in every reachable state, for any number of
\* runs and any failures and crashes.
THEOREM Inductive == Spec => []IInv
  <1>1. Init => IInv
    BY CliAssumption, NamesApart
       DEF Init, IInv, Control, Progress, NotAhead, ManifestNotAhead, ExitCodeTruthful, TypeOK,
           Commands, Files, Absent, Writing, kExitOk, kExitError, kExitUsage
  <1>2. IInv /\ [Next]_vars => IInv'
    <2> SUFFICES ASSUME IInv, [Next]_vars PROVE IInv'
      OBVIOUS
    <2>1. ASSUME NEW c \in {"help", "usage", "validate-config", "inspect"}, Main(c) PROVE IInv'
      BY <2>1, MainSafe DEF Commands
    <2>2. ASSUME NEW i \in 1 .. Len(InspectStages), Stage(i) PROVE IInv'
      BY <2>2, StageSafe
    <2>3. CASE WriteFiles
      <3>1. \A f \in {"result", "manifest"} : f \in Files
        BY DEF Files
      <3> QED BY <2>3, <3>1, OpenSafe, WriteSafe, CloseSafe DEF WriteFiles
    <2>4. CASE Crash
      BY <2>4, ExitSafe DEF Crash, kExitError, kExitUsage
    <2>5. CASE UNCHANGED vars
      BY <2>5 DEF vars, IInv, Control, Progress, NotAhead, ManifestNotAhead, ExitCodeTruthful, TypeOK
    <2> QED BY <2>1, <2>2, <2>3, <2>4, <2>5 DEF Next, Working
  <1> QED BY <1>1, <1>2, PTL DEF Spec

\* A complete manifest.json is never of a later run than result.json.
THEOREM ManifestCorrect == Spec => []ManifestNotAhead
  <1>1. IInv => ManifestNotAhead
    BY DEF IInv
  <1> QED BY <1>1, Inductive, PTL

\* The exit code tells what happened to the two files.
THEOREM ExitCorrect == Spec => []ExitCodeTruthful
  <1>1. IInv => ExitCodeTruthful
    BY DEF IInv
  <1> QED BY <1>1, Inductive, PTL
=============================================================================
