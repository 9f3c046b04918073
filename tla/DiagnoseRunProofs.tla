-------------------------- MODULE DiagnoseRunProofs --------------------------
(***************************************************************************)
(* The diagnose command for any configuration, any command lines, flags and *)
(* files, and any network: its exit status, its record and its verdict fit  *)
(* together.                                                                *)
(***************************************************************************)
EXTENDS DiagnoseRun, CollectionProofs

(* The inductive invariant. *)

\* The types of the command's own variables.
CommandTyped ==
  /\ line \in CommandLines
  /\ step \in {"started", "collecting", "diagnosed", "consulted", "saved", "ended"}
  /\ exit \in {Running, Interrupted, Unflushed} \cup 0..3
  /\ step = "ended" <=> exit # Running
  /\ diagnosis = Nothing \/ diagnosis.boundary \in BOUNDARIES
  /\ stored \in {Nothing, diagnosis} /\ shown \in {Nothing, stored}

\* Only a command that diagnoses measures anything, and it measures what it was
\* asked to.
MeasuresWhatIsAsked ==
  /\ Diagnoses => job.method = probe_method(parsed)
  /\ ~Diagnoses => result = Unmeasured
  /\ step = "started" => result = Unmeasured
  /\ step \in {"collecting", "diagnosed", "consulted", "saved"} => Diagnoses

\* What a verdict on its way to the record has to do with the measurements.
FitsSnapshot(d) ==
  /\ d.boundary = verdict.boundary
  /\ verdict.claims \subseteq d.claims
  /\ d.confidence # verdict.confidence => consulted.contacted /\ Refinable

\* The verdict from the engine to the output.
VerdictPasses ==
  /\ step \in {"started", "collecting"} => diagnosis = Nothing
  /\ step = "diagnosed" => diagnosis = verdict
  /\ step \in {"consulted", "saved"} => diagnosis # Nothing /\ FitsSnapshot(diagnosis)
  /\ step \in {"started", "collecting", "diagnosed", "consulted"} => stored = Nothing
  /\ step = "saved" => stored = diagnosis
  /\ step # "ended" => shown = Nothing
  /\ stored # Nothing => FitsSnapshot(stored)

\* What an exit status stands for.
ExitsTell ==
  /\ exit = 0 => shown = stored /\ (shown = Nothing => line.history = "positive")
  /\ exit \in {2, 3} => stored = Nothing
  /\ exit = 2 => result = Unmeasured
  /\ shown # Nothing => exit = 0

\* The vantage is contacted after the verdict is known, and not before.
ContactIsAsked ==
  /\ step \in {"started", "collecting", "diagnosed"} => ~consulted.contacted
  /\ TargetStaysLocal

\* The inductive invariant of the command (cli.py:323-381).
CommandInv ==
  /\ CollectionTyped /\ CommandTyped /\ MeasuresWhatIsAsked
  /\ VerdictPasses /\ ExitsTell /\ ContactIsAsked

\* Before the arguments are read nothing is measured, on record or shown.
LEMMA CommandInvInit == Init => CommandInv
<1> SUFFICES ASSUME Init PROVE CommandInv
  OBVIOUS
<1>1. CollectionTyped
  BY CollectionTypedInit DEF Init
<1>2. /\ result = Unmeasured /\ step = "started" /\ exit = Running
      /\ line \in CommandLines
      /\ diagnosis = Nothing /\ stored = Nothing /\ shown = Nothing
      /\ ~consulted.contacted
      /\ Diagnoses => job.method = probe_method(parsed)
  BY DEF Init, CollectionInit
<1>3. QED
  BY <1>1, <1>2
     DEF CommandInv, CommandTyped, MeasuresWhatIsAsked, VerdictPasses, ExitsTell,
         ContactIsAsked, TargetStaysLocal, Running

\* What has not changed is as it was.
LEMMA VerdictStays ==
  ASSUME UNCHANGED <<line, result>>
  PROVE  verdict' = verdict /\ Diagnoses' = Diagnoses /\ parsed' = parsed
BY DEF verdict, snapshot, Diagnoses, parsed

\* Ending the command keeps the invariant, if the status fits (cli.py:323-381).
LEMMA EndsWell ==
  ASSUME CommandInv, step # "ended", NEW status \in {Interrupted, Unflushed} \cup 0..3,
         End(status),
         status = 0 => line.history = "positive" /\ stored = Nothing,
         status \in {2, 3} => stored = Nothing,
         status = 2 => result = Unmeasured
  PROVE  CommandInv'
<1> USE DEF CommandInv
<1>1. /\ UNCHANGED <<job, result, line, consulted, diagnosis, stored, shown>>
      /\ UNCHANGED collectionVars
      /\ step' = "ended" /\ exit' = status
  BY DEF End, collectionVars
<1>2. verdict' = verdict /\ Diagnoses' = Diagnoses /\ parsed' = parsed
  BY <1>1, VerdictStays
<1>3. CollectionTyped'
  BY <1>1, CollectionTypedInductive
<1>4. CommandTyped'
  BY <1>1 DEF CommandTyped, Running, Interrupted, Unflushed
<1>5. MeasuresWhatIsAsked'
  BY <1>1, <1>2 DEF MeasuresWhatIsAsked
<1>6. VerdictPasses'
  BY <1>1, <1>2 DEF VerdictPasses, FitsSnapshot, Refinable
<1>7. ExitsTell'
  BY <1>1 DEF ExitsTell, VerdictPasses, Interrupted, Unflushed
<1>8. ContactIsAsked'
  BY <1>1, <1>2 DEF ContactIsAsked, TargetStaysLocal
<1>9. QED
  BY <1>3, <1>4, <1>5, <1>6, <1>7, <1>8

\* No step of the command leaves the invariant (cli.py:298-381).
LEMMA CommandInvInductive ==
  ASSUME CommandInv, [Next]_vars
  PROVE  CommandInv'
<1> USE DEF CommandInv
<1>1. CASE History
  BY <1>1, EndsWell DEF History, VerdictPasses, MeasuresWhatIsAsked, Unflushed
<1>2. CASE RefuseTarget
  BY <1>2, EndsWell DEF RefuseTarget, VerdictPasses, MeasuresWhatIsAsked
<1>3. CASE LoadConfig
  <2>1. CASE End(1)
    BY <1>3, <2>1, EndsWell DEF LoadConfig, VerdictPasses
  <2>2. CASE /\ step' = "collecting"
             /\ UNCHANGED <<collectionVars, line, exit, consulted, diagnosis, stored, shown>>
    <3>1. /\ verdict' = verdict /\ Diagnoses' = Diagnoses /\ parsed' = parsed
          /\ CollectionTyped'
      BY <2>2, VerdictStays, CollectionTypedInductive DEF collectionVars
    <3>2. QED
      BY <1>3, <2>2, <3>1
         DEF LoadConfig, CommandTyped, MeasuresWhatIsAsked, VerdictPasses, FitsSnapshot,
             Refinable, ExitsTell, ContactIsAsked, TargetStaysLocal, collectionVars, Running
  <2>3. QED
    BY <1>3, <2>1, <2>2 DEF LoadConfig
<1>4. CASE Probe
  <2>1. /\ UNCHANGED <<line, step, exit, consulted, diagnosis, stored, shown, job>>
        /\ step = "collecting" /\ CollectionTyped'
    BY <1>4, CollectionTypedInductive
       DEF Probe, commandVars, CollectionNext, Collect, GatewayRoute, GatewayPing, Ipv6Route, Dns,
           IpConnectivity, ControlHostsBegin, ControlHostPing, ControlHostsReturn,
           ControlHostsFail, Target, Captive, Path, CannotStart, Change, Measured
  <2>2. Diagnoses' = Diagnoses /\ parsed' = parsed
    BY <2>1 DEF Diagnoses, parsed
  <2>3. QED
    BY <2>1, <2>2
       DEF CommandTyped, MeasuresWhatIsAsked, VerdictPasses, ExitsTell,
           ContactIsAsked, TargetStaysLocal, Running
<1>5. CASE Diagnose
  <2>1. /\ verdict' = verdict /\ Diagnoses' = Diagnoses /\ parsed' = parsed
        /\ CollectionTyped'
    BY <1>5, VerdictStays, CollectionTypedInductive DEF Diagnose, collectionVars
  <2>2. verdict.boundary \in BOUNDARIES
    BY VerdictIsBoundary DEF verdict
  <2>3. QED
    BY <1>5, <2>1, <2>2
       DEF Diagnose, CommandTyped, MeasuresWhatIsAsked, VerdictPasses, ExitsTell,
           ContactIsAsked, TargetStaysLocal, collectionVars, Running
<1>6. CASE CollectFailed
  BY <1>6, EndsWell DEF CollectFailed, VerdictPasses
<1>7. CASE ConfigBroken \/ VantageRaises
  BY <1>7, EndsWell DEF ConfigBroken, VantageRaises, VerdictPasses
<1>8. CASE Consult
  <2>1. /\ verdict' = verdict /\ Diagnoses' = Diagnoses /\ parsed' = parsed
        /\ CollectionTyped'
    BY <1>8, VerdictStays, CollectionTypedInductive DEF Consult, collectionVars
  <2>2. /\ step = "diagnosed" /\ step' = "consulted"
        /\ diagnosis = verdict /\ ~consulted.contacted
        /\ UNCHANGED <<job, result, line, exit, stored, shown>>
        /\ stored = Nothing /\ shown = Nothing /\ exit = Running
    <3>1. /\ step = "diagnosed" /\ step' = "consulted"
          /\ UNCHANGED <<job, result, line, exit, stored, shown>>
      BY <1>8 DEF Consult, collectionVars
    <3>2. /\ diagnosis = verdict /\ ~consulted.contacted
          /\ stored = Nothing /\ shown = Nothing /\ exit = Running
      BY <3>1 DEF VerdictPasses, CommandTyped, ContactIsAsked
    <3>3. QED
      BY <3>1, <3>2
  <2>3. /\ verdict = Diagnosis(verdict.boundary, verdict.confidence, verdict.claims)
        /\ verdict.boundary \in BOUNDARIES /\ Nothing.boundary \notin BOUNDARIES
    BY VerdictIsBoundary DEF verdict, Nothing
  <2>4. /\ diagnosis'.boundary = verdict.boundary
        /\ verdict.claims \subseteq diagnosis'.claims
        /\ diagnosis'.confidence # verdict.confidence =>
             consulted'.contacted /\ verdict.boundary \in VANTAGE_REFINABLE
        /\ consulted'.contacted =>
             /\ \/ consulted'.flag = "https"
                \/ consulted'.flag = "absent" /\ consulted'.config = "https"
             /\ verdict.boundary \in VANTAGE_REFINABLE
    <3>1. CASE ~Refinable
      BY <1>8, <2>2, <3>1 DEF Consult
    <3>2. CASE Refinable
      <4>1. PICK flag \in Flags, file \in Files :
              LET config == load_config(file).vantage_url
                  url    == url_of(flag, config)
              IN  /\ consulted' = IF url = "https"
                                  THEN [flag |-> flag, contacted |-> TRUE,
                                        config |-> IF flag = "absent" THEN config ELSE "none"]
                                  ELSE consulted
                  /\ \E answer \in IF url = "https" THEN VantageSlice ELSE {Unconsulted} :
                       diagnosis' = refine(diagnosis, answer)
        BY <1>8, <3>2 DEF Consult
      <4> DEFINE config == load_config(file).vantage_url
                 url    == url_of(flag, config)
      <4>2. url = "https" => flag = "https" \/ (flag = "absent" /\ config = "https")
        BY DEF url_of
      <4>3. PICK answer \in IF url = "https" THEN VantageSlice ELSE {Unconsulted} :
              diagnosis' = refine(diagnosis, answer)
        BY <4>1
      <4>4. answer.consulted => url = "https"
        BY <4>3 DEF Unconsulted
      <4>5. consulted' = IF url = "https"
                         THEN [flag |-> flag, contacted |-> TRUE,
                               config |-> IF flag = "absent" THEN config ELSE "none"]
                         ELSE consulted
        BY <4>1
      <4> HIDE DEF config, url
      <4>6. QED
        BY <2>2, <2>3, <3>2, <4>2, <4>3, <4>4, <4>5, RefineOnlyNudges DEF Refinable
    <3>3. QED
      BY <3>1, <3>2
  <2>5. QED
    BY <2>1, <2>2, <2>3, <2>4
       DEF CommandTyped, MeasuresWhatIsAsked, VerdictPasses, FitsSnapshot, Refinable,
           ExitsTell, ContactIsAsked, TargetStaysLocal, Running
<1>9. CASE Save
  <2>1. /\ verdict' = verdict /\ Diagnoses' = Diagnoses /\ parsed' = parsed
        /\ CollectionTyped'
    BY <1>9, VerdictStays, CollectionTypedInductive DEF Save, collectionVars
  <2>2. QED
    BY <1>9, <2>1
       DEF Save, CommandTyped, MeasuresWhatIsAsked, VerdictPasses, FitsSnapshot, Refinable,
           ExitsTell, ContactIsAsked, TargetStaysLocal, collectionVars, Running
<1>10. CASE SaveFails
  BY <1>10, EndsWell DEF SaveFails, VerdictPasses
<1>11. CASE Show
  <2>1. /\ verdict' = verdict /\ Diagnoses' = Diagnoses /\ parsed' = parsed
        /\ CollectionTyped'
    BY <1>11, VerdictStays, CollectionTypedInductive DEF Show, collectionVars
  <2>2. QED
    BY <1>11, <2>1
       DEF Show, CommandTyped, MeasuresWhatIsAsked, VerdictPasses, FitsSnapshot, Refinable,
           ExitsTell, ContactIsAsked, TargetStaysLocal, collectionVars, Running
<1>12. CASE Interrupt \/ ShowFails
  BY <1>12, EndsWell DEF Interrupt, ShowFails, Interrupted, Unflushed
<1>13. CASE Done \/ UNCHANGED vars
  <2>1. UNCHANGED vars
    BY <1>13 DEF Done
  <2>2. /\ verdict' = verdict /\ Diagnoses' = Diagnoses /\ parsed' = parsed
        /\ CollectionTyped'
    BY <2>1, VerdictStays, CollectionTypedInductive DEF vars, commandVars, collectionVars
  <2>3. QED
    BY <2>1, <2>2
       DEF vars, commandVars, CommandTyped, MeasuresWhatIsAsked, VerdictPasses,
           FitsSnapshot, Refinable, ExitsTell, ContactIsAsked, TargetStaysLocal,
           collectionVars
<1>14. QED
  BY <1>1, <1>2, <1>3, <1>4, <1>5, <1>6, <1>7, <1>8, <1>9, <1>10, <1>11, <1>12, <1>13
     DEF Next, Command

\* The invariant holds for every command line, file and number of faults
\* (cli.py:323-381).
THEOREM CommandInvHolds == Spec => []CommandInv
BY CommandInvInit, CommandInvInductive, PTL DEF Spec

-----------------------------------------------------------------------------
(* What the invariant gives. *)

\* A caller can go by the exit status: 0 after a verdict that was shown and is on
\* record, or the history; 2 and 3 with nothing on record; 2 with nothing probed.
\* After any other a run may be on record, with the verdict as refined, that the
\* output did not get to show (cli.py:323-381, 578-583).
THEOREM ExitsAreTrue == Spec => []ExitTellsOutcome
<1>1. CommandInv => ExitTellsOutcome
  <2> SUFFICES ASSUME CommandInv PROVE ExitTellsOutcome
    OBVIOUS
  <2>1. CommandTypeOK
    <3>1. {diagnosis.boundary, stored.boundary, shown.boundary} \subseteq BOUNDARIES \cup {"none"}
      BY DEF CommandInv, CommandTyped, Nothing
    <3>2. QED
      BY <3>1 DEF CommandInv, CommandTyped, CommandTypeOK, CollectionTyped
  <2>2. QED
    BY <2>1 DEF CommandInv, CommandTyped, ExitsTell, ExitTellsOutcome
<1>2. QED
  BY <1>1, CommandInvHolds, PTL

\* Whatever the user names, what is probed is that target and not what is left
\* of it without its port (targets.py:41-47, target_service.py:60-81).
THEOREM TargetsArePreserved == Spec => []TargetTakenAsGiven
<1>1. CommandInv => TargetTakenAsGiven
  <2> SUFFICES ASSUME CommandInv, result # Unmeasured
               PROVE  /\ line.target.port # "illegal"
                      /\ line.target.port = "legal" => job.method # "ping"
    BY DEF TargetTakenAsGiven
  <2>1. /\ line.target # NoTarget /\ parse_target(line.target) # Invalid
        /\ job.method = probe_method(parse_target(line.target))
    BY DEF CommandInv, MeasuresWhatIsAsked, Diagnoses, parsed
  <2>2. line.target.port # "illegal"
    BY <2>1 DEF parse_target
  <2>3. line.target.port = "legal" => parse_target(line.target).port = TRUE
    BY <2>1 DEF parse_target
  <2>4. QED
    BY <2>1, <2>2, <2>3 DEF probe_method
<1>2. QED
  BY <1>1, CommandInvHolds, PTL

\* The verdict on record is the engine's verdict on the measurements, moved in
\* its confidence at most (cli.py:347-354, engine.py:316-326).
THEOREM RecordFitsMeasurements == Spec => []StoredFitsSnapshot
<1>1. CommandInv => StoredFitsSnapshot
  BY DEF CommandInv, VerdictPasses, FitsSnapshot, StoredFitsSnapshot
<1>2. QED
  BY <1>1, CommandInvHolds, PTL

\* Nobody is told the target but the vantage the user chose, over https, and only
\* where its answer matters (cli.py:298-320).
THEOREM TargetIsKept == Spec => []TargetStaysLocal
<1>1. CommandInv => TargetStaysLocal
  BY DEF CommandInv, ContactIsAsked
<1>2. QED
  BY <1>1, CommandInvHolds, PTL

\* A step of the command is a step of its collection, or of none
\* (cli.py:323-354).
LEMMA CommandCollects ==
  ASSUME [Next]_vars
  PROVE  [CollectionNext \/ Finished]_collectionVars
BY DEF Next, Command, Probe, History, RefuseTarget, LoadConfig, Diagnose,
       CollectFailed, Consult, Save, Show, VantageRaises, ConfigBroken, SaveFails,
       ShowFails, Interrupt, Done, End, vars

\* What holds of a collection holds of the one the command runs.
THEOREM CommandIsKnown == Spec => []CollectionKnown
<1>1. Init => CollectionKnown
  BY CollectionKnownInit DEF Init
<1>2. CollectionKnown /\ [Next]_vars => CollectionKnown'
  BY CommandCollects, CollectionKnownInductive
<1>3. QED
  BY <1>1, <1>2, PTL DEF Spec

\* The snapshot the command classifies is one the engine's analysis covers
\* (orchestrator.py:95-108).
THEOREM CommandIsProducible == Spec => []SnapshotIsProducible
<1>1. CollectionKnown => SnapshotIsProducible
  BY SnapshotOfAgreeing DEF CollectionKnown, SnapshotIsProducible
<1>2. QED
  BY <1>1, CommandIsKnown, PTL

\* A healthy verdict of the command hides no lasting fault that its probes can see
\* (engine.py:183-202, normalizer.py:153-170).
THEOREM HealthyCommandsHideNothing ==
  ASSUME remote_loss_pct < 30
  PROVE  Spec => []HealthyHidesNothing
<1>1. CollectionKnown => HealthyHidesNothing
  BY HealthyTells
<1>2. QED
  BY <1>1, CommandIsKnown, PTL

\* The command blames no boundary without a cause (engine.py:235-312).
THEOREM CommandBlamesWithCause ==
  ASSUME Discerning
  PROVE  Spec => []BlameHasACause
<1>1. CollectionKnown => BlameHasACause
  BY BlameTells
<1>2. QED
  BY <1>1, CommandIsKnown, PTL

\* The command names one lasting fault for what it is, but for a firewall against
\* pings (engine.py:235-312).
THEOREM CommandNamesSteadyFaults ==
  ASSUME Discerning
  PROVE  Spec => []SteadyFaultIsNamed
<1>1. CollectionKnown => SteadyFaultIsNamed
  BY SteadyFaultTells
<1>2. QED
  BY <1>1, CommandIsKnown, PTL

-----------------------------------------------------------------------------
(* The command implements Verdict. *)

\* What a run that has measured nothing would hand the engine is a snapshot too.
LEMMA UnprobedIsSnapshot == Unprobed \in Snapshots
<1>1. Unprobed \in SignalSnapshot
  BY DEF Unprobed, Unmeasured, snapshot_of, normalize_from_pings, SignalSnapshot,
         ControlHosts!NoControls
<1>2. Producible(Unprobed)
  BY DEF Unprobed, Unmeasured, snapshot_of, normalize_from_pings, Producible
<1>3. QED
  BY <1>1, <1>2 DEF Snapshots

\* The theorems of VerdictProofs, about the snapshot and the verdict of the command.
OfVerdicts == INSTANCE VerdictProofs WITH
  snapshot <- Classified, diagnosis <- Reported, refined <- Advised

\* Verdict's engine is the one the command runs.
LEMMA SameEngine ==
  /\ Verdicts!Snapshots = Snapshots /\ OfVerdicts!Snapshots = Snapshots
  /\ Verdicts!VantageSlice = VantageSlice /\ OfVerdicts!VantageSlice = VantageSlice
  /\ \A s : Verdicts!diagnose(s) = diagnose(s) /\ OfVerdicts!diagnose(s) = diagnose(s)
  /\ \A d, answer : /\ Verdicts!refine(d, answer) = refine(d, answer)
                    /\ OfVerdicts!refine(d, answer) = refine(d, answer)
<1>1. Verdicts!Snapshots = Snapshots /\ OfVerdicts!Snapshots = Snapshots
  <2>1. Verdicts!SignalSnapshot = SignalSnapshot /\ OfVerdicts!SignalSnapshot = SignalSnapshot
    BY DEF Verdicts!SignalSnapshot, OfVerdicts!SignalSnapshot, SignalSnapshot
  <2>2. \A s : Verdicts!Producible(s) = Producible(s) /\ OfVerdicts!Producible(s) = Producible(s)
    BY DEF Verdicts!Producible, OfVerdicts!Producible, Producible
  <2>3. QED
    BY <2>1, <2>2 DEF Verdicts!Snapshots, OfVerdicts!Snapshots, Snapshots
<1>2. Verdicts!VantageSlice = VantageSlice /\ OfVerdicts!VantageSlice = VantageSlice
  BY DEF Verdicts!VantageSlice, OfVerdicts!VantageSlice, VantageSlice,
         Verdicts!Unconsulted, OfVerdicts!Unconsulted, Unconsulted
<1>3. ASSUME NEW s
      PROVE  Verdicts!diagnose(s) = diagnose(s) /\ OfVerdicts!diagnose(s) = diagnose(s)
  <2>1. Verdicts!RULES = RULES /\ OfVerdicts!RULES = RULES
    BY DEF Verdicts!RULES, OfVerdicts!RULES, Verdicts!LAN_RULES, OfVerdicts!LAN_RULES,
           Verdicts!PORTAL_RULES, OfVerdicts!PORTAL_RULES, Verdicts!WAN_RULES,
           OfVerdicts!WAN_RULES, Verdicts!UPSTREAM_RULES, OfVerdicts!UPSTREAM_RULES,
           Verdicts!SERVICE_RULES, OfVerdicts!SERVICE_RULES, Verdicts!VERDICT_RULES,
           OfVerdicts!VERDICT_RULES, Verdicts!Row, OfVerdicts!Row, RULES, LAN_RULES,
           PORTAL_RULES, WAN_RULES, UPSTREAM_RULES, SERVICE_RULES, VERDICT_RULES, Row
  <2>2. \A rule : /\ Verdicts!matches(rule, s) = matches(rule, s)
                  /\ OfVerdicts!matches(rule, s) = matches(rule, s)
    BY DEF Verdicts!matches, OfVerdicts!matches, Verdicts!Attr, OfVerdicts!Attr,
           Verdicts!gateway_functional, OfVerdicts!gateway_functional, matches, Attr,
           gateway_functional
  <2>3. \A b : Verdicts!build(b, s) = build(b, s) /\ OfVerdicts!build(b, s) = build(b, s)
    BY DEF Verdicts!build, OfVerdicts!build, Verdicts!Diagnosis, OfVerdicts!Diagnosis,
           Verdicts!gateway_evidence, OfVerdicts!gateway_evidence, Verdicts!ipv6_only,
           OfVerdicts!ipv6_only, Verdicts!local_device, OfVerdicts!local_device,
           Verdicts!router_gateway, OfVerdicts!router_gateway, Verdicts!captive_portal,
           OfVerdicts!captive_portal, Verdicts!wan_gateway, OfVerdicts!wan_gateway,
           Verdicts!dns, OfVerdicts!dns, Verdicts!isp_upstream, OfVerdicts!isp_upstream,
           Verdicts!remote_service, OfVerdicts!remote_service, Verdicts!healthy,
           OfVerdicts!healthy, Verdicts!inconclusive, OfVerdicts!inconclusive, build,
           Diagnosis, gateway_evidence, ipv6_only, local_device, router_gateway,
           captive_portal, wan_gateway, dns, isp_upstream, remote_service, healthy,
           inconclusive
  <2>4. QED
    BY <2>1, <2>2, <2>3, Zenon DEF Verdicts!diagnose, OfVerdicts!diagnose, diagnose
<1>4. ASSUME NEW d, NEW answer
      PROVE  /\ Verdicts!refine(d, answer) = refine(d, answer)
             /\ OfVerdicts!refine(d, answer) = refine(d, answer)
  <2>1. \A b, r, c : /\ Verdicts!Refined(b, r, c) = Refined(b, r, c)
                     /\ OfVerdicts!Refined(b, r, c) = Refined(b, r, c)
    BY DEF Verdicts!Refined, OfVerdicts!Refined, Verdicts!AtMost, OfVerdicts!AtMost,
           Verdicts!AtLeast, OfVerdicts!AtLeast, Refined, AtMost, AtLeast
  <2>2. /\ Verdicts!VANTAGE_REFINABLE = VANTAGE_REFINABLE
        /\ OfVerdicts!VANTAGE_REFINABLE = VANTAGE_REFINABLE
    BY DEF Verdicts!VANTAGE_REFINABLE, OfVerdicts!VANTAGE_REFINABLE, VANTAGE_REFINABLE
  <2>3. QED
    BY <2>1, <2>2 DEF Verdicts!refine, OfVerdicts!refine, refine
<1>5. QED
  BY <1>1, <1>2, <1>3, <1>4

\* A verdict is never mistaken for none.
LEMMA VerdictIsSomething == Nothing # verdict /\ verdict.boundary \in BOUNDARIES
BY VerdictIsBoundary DEF verdict, Nothing

\* Before the verdict Verdict stands still, at the snapshot of nothing.
LEMMA BeforeVerdict ==
  ASSUME ~Diagnosed, ~Diagnosed'
  PROVE  UNCHANGED Verdicts!vars
BY DEF Verdicts!vars, Classified, Reported, Advised

\* Once there is a verdict, what leaves it and the measurements alone is a step of
\* Verdict's or none: the end of the command included.
LEMMA VerdictRests ==
  ASSUME Diagnosed, UNCHANGED <<result, diagnosis>>,
         step # "diagnosed" => step' # "diagnosed"
  PROVE  [Verdicts!Next]_(Verdicts!vars)
<1>1. Diagnosed' /\ snapshot' = snapshot
  BY DEF Diagnosed, Nothing, snapshot
<1>2. Classified' = Classified /\ Reported' = Reported
  BY <1>1 DEF Classified, Reported
<1>3. CASE step = "diagnosed" /\ step' # "diagnosed"
  <2>1. Unconsulted \in VantageSlice /\ refine(Reported, Unconsulted) = Reported
    BY DEF VantageSlice, Unconsulted, refine
  <2>2. ~Advised /\ Advised'
    BY <1>1, <1>3 DEF Advised
  <2>3. Verdicts!Consult
    BY <1>2, <2>1, <2>2, SameEngine DEF Verdicts!Consult
  <2>4. QED
    BY <2>3 DEF Verdicts!Next
<1>4. CASE ~(step = "diagnosed" /\ step' # "diagnosed")
  BY <1>1, <1>2, <1>4 DEF Verdicts!vars, Advised
<1>5. QED
  BY <1>3, <1>4

\* The step from the probes to the verdict is a poll: what was measured is a snapshot the
\* analysis covers, and it is classified as it is (orchestrator.py:95-108, cli.py:346).
LEMMA DiagnosePolls ==
  ASSUME CommandInv, CollectionKnown, Diagnose
  PROVE  Verdicts!Poll
<1>1. /\ step = "collecting" /\ pc = "collected" /\ step' = "diagnosed"
      /\ diagnosis' = verdict /\ result' = result
  BY DEF Diagnose, collectionVars
<1>2. Diagnosed' /\ ~Advised' /\ snapshot' = snapshot
  BY <1>1, VerdictIsSomething DEF Diagnosed, Advised, Nothing, snapshot
<1>3. Classified' = snapshot /\ Reported' = diagnose(snapshot)
  BY <1>1, <1>2 DEF Classified, Reported, verdict
<1>4. snapshot \in Snapshots
  BY <1>1, SnapshotOfAgreeing DEF CommandInv, CollectionTyped, TypeOK, CollectionKnown,
     Snapshots
<1>5. QED
  BY <1>2, <1>3, <1>4, SameEngine DEF Verdicts!Poll

\* Asking the vantage, or not, refines the verdict by one answer (cli.py:298-320).
LEMMA ConsultConsults ==
  ASSUME CommandInv, Consult
  PROVE  Verdicts!Consult
<1>1. /\ step = "diagnosed" /\ step' = "consulted" /\ result' = result
      /\ diagnosis = verdict
  BY DEF Consult, collectionVars, CommandInv, VerdictPasses
<1>2. Unconsulted \in VantageSlice /\ refine(diagnosis, Unconsulted) = diagnosis
  BY DEF VantageSlice, Unconsulted, refine
<1>3. PICK answer \in VantageSlice : diagnosis' = refine(diagnosis, answer)
  <2>1. CASE ~Refinable
    BY <1>2, <2>1 DEF Consult
  <2>2. CASE Refinable
    <3>1. \E flag \in Flags, file \in Files :
            \E answer \in IF url_of(flag, load_config(file).vantage_url) = "https"
                          THEN VantageSlice ELSE {Unconsulted} :
              diagnosis' = refine(diagnosis, answer)
      BY <2>2 DEF Consult
    <3>2. QED
      BY <1>2, <3>1
  <2>3. QED
    BY <2>1, <2>2
<1>4. diagnosis'.boundary = verdict.boundary
  BY <1>1, <1>3, RefineOnlyNudges, VerdictIsBoundary DEF verdict
<1>5. Diagnosed /\ Diagnosed' /\ ~Advised /\ Advised' /\ snapshot' = snapshot
  BY <1>1, <1>4, VerdictIsBoundary DEF Diagnosed, Advised, Nothing, snapshot, verdict
<1>6. Classified' = Classified /\ Reported = diagnosis /\ Reported' = diagnosis'
  BY <1>5 DEF Classified, Reported
<1>7. QED
  BY <1>3, <1>5, <1>6, SameEngine DEF Verdicts!Consult

\* Every step of the command is one of Verdict's, or none.
LEMMA CommandStepRefines ==
  ASSUME CommandInv, CollectionKnown, [Next]_vars
  PROVE  [Verdicts!Next]_(Verdicts!vars)
<1>1. CASE Diagnose
  BY <1>1, DiagnosePolls DEF Verdicts!Next
<1>2. CASE Consult
  BY <1>2, ConsultConsults DEF Verdicts!Next
<1>3. CASE Probe
  <2>1. ~Diagnosed /\ ~Diagnosed'
    BY <1>3 DEF Probe, commandVars, CommandInv, VerdictPasses, Diagnosed, Nothing
  <2>2. QED
    BY <2>1, BeforeVerdict
<1>4. CASE ~Diagnose /\ ~Consult /\ ~Probe
  <2>1. /\ UNCHANGED <<result, diagnosis>>
        /\ step # "diagnosed" => step' # "diagnosed"
    BY <1>4
       DEF Next, Command, History, RefuseTarget, LoadConfig, CollectFailed, Save, Show,
           VantageRaises, ConfigBroken, SaveFails, ShowFails, Interrupt, Done, End,
           vars, collectionVars, commandVars
  <2>2. CASE Diagnosed
    BY <2>1, <2>2, VerdictRests
  <2>3. CASE ~Diagnosed
    <3>1. ~Diagnosed'
      BY <2>1, <2>3 DEF Diagnosed, Nothing
    <3>2. QED
      BY <2>3, <3>1, BeforeVerdict
  <2>4. QED
    BY <2>2, <2>3
<1>5. QED
  BY <1>1, <1>2, <1>3, <1>4

\* The command implements Verdict: whatever holds of successive verdicts holds of the
\* one a command reaches, whatever was probed and however it ends (cli.py:340-354).
THEOREM CommandImplementsVerdict == Spec => ImplementsVerdict
<1>1. Init => Verdicts!Init
  <2>1. SUFFICES ASSUME Init PROVE Verdicts!Init
    OBVIOUS
  <2>2. ~Diagnosed
    BY <2>1 DEF Init, Diagnosed
  <2>3. QED
    BY <2>2, UnprobedIsSnapshot, SameEngine
       DEF Verdicts!Init, Classified, Reported, Blank, Advised
<1>2. QED
  BY <1>1, CommandInvHolds, CommandIsKnown, CommandStepRefines, PTL
     DEF Spec, ImplementsVerdict, Verdicts!Spec

\* What the command reports, with or without a vantage, is true of what it measured,
\* but for the sentence that a silent gateway which forwards is reachable; and a portal in front of a working gateway is what it reports
\* (engine.py:29-212, 262-266).
THEOREM CommandClaimsAreTrue ==
  Spec => [](Diagnosed =>
               /\ \A claim \in diagnosis.claims :
                    \/ Verdicts!ClaimFollows(claim, snapshot)
                    \/ /\ Verdicts!Overstates(claim, snapshot)
                       /\ "forwarding" \in diagnosis.claims
               /\ snapshot.captive_portal_detected /\ gateway_functional(snapshot)
                    => diagnosis.boundary = "captive-portal")
<1>1. Verdicts!Init => OfVerdicts!Init
  BY SameEngine DEF Verdicts!Init, OfVerdicts!Init
<1>2. [Verdicts!Next]_(Verdicts!vars) => [OfVerdicts!Next]_(OfVerdicts!vars)
  <2>1. Verdicts!Poll => OfVerdicts!Poll
    BY SameEngine DEF Verdicts!Poll, OfVerdicts!Poll
  <2>2. Verdicts!Consult => OfVerdicts!Consult
    BY SameEngine DEF Verdicts!Consult, OfVerdicts!Consult
  <2>3. QED
    BY <2>1, <2>2 DEF Verdicts!Next, OfVerdicts!Next, Verdicts!vars, OfVerdicts!vars
<1>3. OfVerdicts!Spec => []OfVerdicts!ClaimsFollowSignals
  BY OfVerdicts!ClaimsAreTrue
<1>4. OfVerdicts!Spec => []OfVerdicts!PortalIsDecisive
  BY OfVerdicts!PortalDecides
<1>5. ASSUME OfVerdicts!ClaimsFollowSignals, OfVerdicts!PortalIsDecisive
      PROVE  Diagnosed =>
               /\ \A claim \in diagnosis.claims :
                    \/ Verdicts!ClaimFollows(claim, snapshot)
                    \/ /\ Verdicts!Overstates(claim, snapshot)
                       /\ "forwarding" \in diagnosis.claims
               /\ snapshot.captive_portal_detected /\ gateway_functional(snapshot)
                    => diagnosis.boundary = "captive-portal"
  <2>1. SUFFICES ASSUME Diagnosed
                 PROVE  /\ \A claim \in diagnosis.claims :
                             \/ Verdicts!ClaimFollows(claim, snapshot)
                             \/ /\ Verdicts!Overstates(claim, snapshot)
                                /\ "forwarding" \in diagnosis.claims
                        /\ snapshot.captive_portal_detected /\ gateway_functional(snapshot)
                             => diagnosis.boundary = "captive-portal"
    OBVIOUS
  <2>2. Classified = snapshot /\ Reported = diagnosis
    BY <2>1 DEF Classified, Reported
  <2>3. \A claim : OfVerdicts!ClaimFollows(claim, snapshot)
                   <=> Verdicts!ClaimFollows(claim, snapshot)
    BY DEF OfVerdicts!ClaimFollows, Verdicts!ClaimFollows, OfVerdicts!gateway_functional,
           Verdicts!gateway_functional
  <2>3a. \A claim : OfVerdicts!Overstates(claim, snapshot)
                   <=> Verdicts!Overstates(claim, snapshot)
    BY DEF OfVerdicts!gateway_functional, Verdicts!gateway_functional,
           OfVerdicts!Overstates, Verdicts!Overstates
  <2>4. \A claim \in diagnosis.claims :
          \/ Verdicts!ClaimFollows(claim, snapshot)
          \/ /\ Verdicts!Overstates(claim, snapshot)
             /\ "forwarding" \in diagnosis.claims
    <3> SUFFICES ASSUME NEW claim \in diagnosis.claims
                 PROVE  \/ Verdicts!ClaimFollows(claim, snapshot)
                        \/ /\ Verdicts!Overstates(claim, snapshot)
                           /\ "forwarding" \in diagnosis.claims
      OBVIOUS
    <3>1. \/ OfVerdicts!ClaimFollows(claim, Classified)
          \/ OfVerdicts!Overstates(claim, Classified) /\ "forwarding" \in Reported.claims
      BY <1>5, <2>2 DEF OfVerdicts!ClaimsFollowSignals
    <3>2. QED
      BY <2>2, <2>3, <2>3a, <3>1
  <2>5. snapshot.captive_portal_detected /\ gateway_functional(snapshot)
          => diagnosis.boundary = "captive-portal"
    BY <1>5, <2>2
       DEF OfVerdicts!PortalIsDecisive, OfVerdicts!gateway_functional, gateway_functional
  <2>6. QED
    BY <2>4, <2>5
<1>6. QED
  BY CommandImplementsVerdict, <1>1, <1>2, <1>3, <1>4, <1>5, PTL
     DEF ImplementsVerdict, Verdicts!Spec, OfVerdicts!Spec
=============================================================================
