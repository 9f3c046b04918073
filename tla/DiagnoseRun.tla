---------------------------- MODULE DiagnoseRun ----------------------------
(***************************************************************************)
(* The diagnose command from its arguments to its exit: parse the target,  *)
(* load the configuration, collect, classify, load the configuration again *)
(* and let an external vantage refine the verdict if one is asked for,     *)
(* record the run, and only then print it.  Every step may fail in its own *)
(* way, and a failure ends the command without any further step.  Only what *)
(* goes to the error stream is taken to arrive.                            *)
(***************************************************************************)
EXTENDS Collection, Config, Targets

CONSTANTS
  NoTarget,
  CommandLines,   \* the arguments of the command but --vantage
  Flags,          \* --vantage: "absent", "" or a URL
  Files           \* the configuration file; it may change between the two loads

ASSUME DiagnoseAssumption ==
  /\ \A line \in CommandLines :
       line.history \in {"absent", "positive", "not_positive"}
  /\ Flags \subseteq {"absent", "", "https", "http", "malformed"}

VARIABLES
  line,          \* the arguments
  step,          \* where the command stands
  exit,          \* its exit status; 1 also for an exception nobody catches
  consulted,     \* whether the vantage was contacted, and where its URL came from
  diagnosis,
  stored,        \* the verdict on record
  shown          \* the verdict printed, with the run's identifier

commandVars == <<line, step, exit, consulted, diagnosis, stored, shown>>
vars == <<collectionVars, commandVars>>

Nothing == [boundary |-> "none"]

\* Not a status; the one of a process that Ctrl-C ended, and the interpreter's when
\* it cannot write out at its exit what was printed.
Running     == -1
Interrupted == 130
Unflushed   == 120

parsed == IF line.target = NoTarget THEN Invalid ELSE parse_target(line.target)

Diagnoses == line.history = "absent" /\ parsed # Invalid

\* The job of a run is what its target and flags make it.
Init ==
  /\ CollectionInit
  /\ line \in CommandLines
  /\ IF Diagnoses
     THEN job = [method |-> probe_method(parsed), is_literal |-> is_literal(parsed),
                 skip_path |-> line.skip_path, skip_captive |-> line.skip_captive]
     ELSE job = CHOOSE j \in Jobs : TRUE
  /\ step = "started" /\ exit = Running
  /\ consulted = [flag |-> "absent", config |-> "none", contacted |-> FALSE]
  /\ diagnosis = Nothing /\ stored = Nothing /\ shown = Nothing

-----------------------------------------------------------------------------
\* Before the probes

End(status) ==
  /\ step' = "ended"
  /\ exit' = status
  /\ UNCHANGED <<collectionVars, line, consulted, diagnosis, stored, shown>>

\* --history N prints the past and diagnoses nothing.
History ==
  /\ step = "started" /\ line.history # "absent"
  /\ IF line.history = "positive" THEN End(0) \/ End(1) \/ End(Unflushed) ELSE End(2)

RefuseTarget ==
  /\ step = "started" /\ line.history = "absent" /\ parsed = Invalid
  /\ End(2)

\* collect_signals loads the configuration before its first probe.
LoadConfig ==
  /\ step = "started" /\ Diagnoses
  /\ \E file \in Files :
       IF load_config(file) = Exits THEN End(1)
       ELSE /\ step' = "collecting"
            /\ UNCHANGED <<collectionVars, line, exit, consulted, diagnosis, stored, shown>>

Probe ==
  /\ step = "collecting"
  /\ CollectionNext
  /\ UNCHANGED commandVars

Diagnose ==
  /\ step = "collecting" /\ pc = "collected"
  /\ diagnosis' = verdict
  /\ step' = "diagnosed"
  /\ UNCHANGED <<collectionVars, line, exit, consulted, stored, shown>>

\* A tool that is not installed is told; any other exception is not caught.
CollectFailed ==
  /\ step = "collecting" /\ pc = "raised"
  /\ End(3) \/ End(1)

-----------------------------------------------------------------------------
\* The external vantage

Refinable == diagnosis.boundary \in VANTAGE_REFINABLE

\* _maybe_consult_vantage loads the configuration again; one that has become
\* invalid since the probes started exits.
ConfigBroken ==
  /\ step = "diagnosed"
  /\ \E file \in Files : load_config(file) = Exits
  /\ End(1)

\* Mutant: an empty flag counts as none, so the configuration is used.
url_of_or(flag, config) ==
  IF flag \notin {"absent", ""} THEN flag ELSE config

\* The flag wins over the configuration; an empty one switches the vantage off.
url_of(flag, config) ==
  IF flag = "absent" THEN config ELSE IF flag = "" THEN "none" ELSE flag

\* Mutant: asks until the vantage answers.
Consult_retries ==
  /\ step = "diagnosed"
  /\ step' = IF Refinable THEN step ELSE "consulted"
  /\ UNCHANGED <<collectionVars, line, exit, consulted, diagnosis, stored, shown>>

\* Mutant: the answer is folded in once when it comes and once before the output.
Consult_twice ==
  /\ step = "diagnosed"
  /\ IF ~Refinable THEN UNCHANGED <<consulted, diagnosis>>
     ELSE /\ consulted' = consulted
          /\ \E answer \in VantageSlice : diagnosis' = refine(refine(diagnosis, answer), answer)
  /\ step' = "consulted"
  /\ UNCHANGED <<collectionVars, line, exit, stored, shown>>

\* apply_vantage: skipped, answered, or failed open.  Only an https URL is ever
\* contacted, and the configuration is looked at only without a flag.
Consult ==
  /\ step = "diagnosed"
  /\ IF ~Refinable THEN UNCHANGED <<consulted, diagnosis>>
     ELSE \E flag \in Flags, file \in Files :
            LET config == load_config(file).vantage_url
                url    == url_of(flag, config)
            IN  /\ config # "exit" /\ url # "malformed"
                /\ consulted' = IF url = "https"
                                THEN [flag |-> flag, contacted |-> TRUE,
                                      config |-> IF flag = "absent" THEN config ELSE "none"]
                                ELSE consulted
                /\ \E answer \in IF url = "https" THEN VantageSlice ELSE {Unconsulted} :
                     diagnosis' = refine(diagnosis, answer)
  /\ step' = "consulted"
  /\ UNCHANGED <<collectionVars, line, exit, stored, shown>>

\* urlsplit stands before the try block, and so does, at its other end, the
\* conversion of a latency: a URL that cannot be split raises, and so does an
\* integer that no float can hold.
VantageRaises ==
  /\ step = "diagnosed" /\ Refinable
  /\ \E flag \in Flags, file \in Files :
       url_of(flag, load_config(file).vantage_url) \in {"malformed", "https"}
  /\ End(1)

-----------------------------------------------------------------------------
\* Recording and printing

\* Mutant: an exception of the store is swallowed.
SaveFails_swallowed ==
  /\ step = "consulted"
  /\ step' = "saved"
  /\ UNCHANGED <<collectionVars, line, exit, consulted, diagnosis, stored, shown>>

Save ==
  /\ step = "consulted"
  /\ stored' = diagnosis
  /\ step' = "saved"
  /\ UNCHANGED <<collectionVars, line, exit, consulted, diagnosis, shown>>

SaveFails == step = "consulted" /\ End(1)

Show ==
  /\ step = "saved"
  /\ shown' = diagnosis
  /\ step' = "ended" /\ exit' = 0
  /\ UNCHANGED <<collectionVars, line, consulted, diagnosis, stored>>

\* The run is on record, and the output stops short of its identifier: a print raises
\* (a character the console cannot encode, a closed pipe), or what was printed cannot
\* be written out.
ShowFails ==
  /\ step = "saved"
  /\ End(1) \/ End(Unflushed)

\* Ctrl-C, which the command does not catch.  Between two probes it leaves what
\* a tool that cannot be started leaves.
Interrupt ==
  /\ step \in {"diagnosed", "consulted", "saved"}
  /\ End(Interrupted)

Done == step = "ended" /\ UNCHANGED vars

Command ==
  \/ History \/ RefuseTarget \/ LoadConfig \/ Diagnose \/ CollectFailed
  \/ Consult \/ Save \/ Show

Next ==
  Probe \/ Command \/ VantageRaises \/ ConfigBroken \/ SaveFails \/ ShowFails \/ Interrupt \/ Done

\* One thread runs the command; every wait in it has a time limit.
Spec == Init /\ [][Next]_vars
          /\ WF_vars(step = "collecting" /\ Collect /\ UNCHANGED commandVars)
          /\ WF_vars(Command)

-----------------------------------------------------------------------------
\* Properties

\* The types, those of the collection included.
CommandTypeOK ==
  /\ TypeOK
  /\ line \in CommandLines
  /\ step \in {"started", "collecting", "diagnosed", "consulted", "saved", "ended"}
  /\ exit \in {Running, Interrupted, Unflushed} \cup 0..3
  /\ step = "ended" <=> exit # Running
  /\ {diagnosis.boundary, stored.boundary, shown.boundary} \subseteq BOUNDARIES \cup {"none"}

\* The exit status tells what became of the run.  Success means that a verdict
\* was shown, and that it is the one on record with the vantage's refinement
\* included, or else that the history was; 2 and 3 that nothing was recorded, and 2
\* that nothing was probed.  Any other status leaves open whether the run is on
\* record, for the output comes after the commit and may fail or be cut off; but
\* what is on record then is the verdict as it would have been shown
\* (cli.py:323-381, 578-583).
ExitTellsOutcome ==
  /\ CommandTypeOK
  /\ exit = 0 => shown = stored /\ (shown = Nothing => line.history = "positive")
  /\ exit \in {2, 3} => stored = Nothing
  /\ exit = 2 => result = Unmeasured
  /\ stored \in {Nothing, diagnosis} /\ shown \in {Nothing, stored}
  /\ shown # Nothing => exit = 0

\* A run is about the target the user gave: one with a port that cannot be used
\* is refused before anything is probed, and a port that can be used is, so no
\* bare ping answers for it (targets.py:41-47, target_service.py:60-81).
TargetTakenAsGiven ==
  result # Unmeasured =>
    /\ line.target.port # "illegal"
    /\ line.target.port = "legal" => job.method # "ping"

\* The verdict on record is about the measurements on record: refinement moved
\* its confidence at most, and the boundary is the one the snapshot yields
\* (cli.py:347-354, engine.py:316-326).
StoredFitsSnapshot ==
  stored # Nothing =>
    /\ stored.boundary = verdict.boundary
    /\ verdict.claims \subseteq stored.claims
    /\ stored.confidence # verdict.confidence =>
         consulted.contacted /\ Refinable

\* The target leaves the machine only where the user asked for it: to the URL of
\* the flag, or without the flag to that of the configuration, over https, and
\* only for a verdict that the answer can refine (cli.py:298-320).
TargetStaysLocal ==
  consulted.contacted =>
    /\ \/ consulted.flag = "https"
       \/ consulted.flag = "absent" /\ consulted.config = "https"
    /\ verdict.boundary \in VANTAGE_REFINABLE

\* What the engine and the vantage do in a command is what Verdict lets them do: the
\* measurements are classified once, as a snapshot the engine's analysis covers, and
\* the verdict is refined once at most, by one answer, before it is recorded
\* (cli.py:340-354).
Unprobed   == snapshot_of(Unmeasured)
Diagnosed  == diagnosis # Nothing
Classified == IF Diagnosed THEN snapshot ELSE Unprobed
Blank      == diagnose(Unprobed)
Reported   == IF Diagnosed THEN diagnosis ELSE Blank
Advised    == Diagnosed /\ step # "diagnosed"

Verdicts == INSTANCE Verdict WITH
  snapshot <- Classified, diagnosis <- Reported, refined <- Advised

ImplementsVerdict == Verdicts!Spec

\* The command ends, with the verdict shown or with an error, whatever its
\* probes, the vantage, the configuration, the store and the output do (cli.py:323-381).
CommandEnds == <>(step = "ended")

\* vantage.py:55 and cli.py:299: the vantage "never raises (fail-open)": once the
\* run is diagnosed, only the configuration or the store can keep it from being
\* recorded.  Here neither is at fault.
VantageFailsOpen ==
  [][step = "diagnosed" /\ step' # step /\ exit' # Interrupted =>
       step' = "consulted"]_vars
=============================================================================
