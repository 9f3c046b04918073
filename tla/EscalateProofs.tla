--------------------------- MODULE EscalateProofs ---------------------------
(***************************************************************************)
(* What a traceroute is found to show, and what the documents made of a     *)
(* run hide, keep and say.                                                  *)
(***************************************************************************)
EXTENDS Escalate, OperatorLemmas

-----------------------------------------------------------------------------
\* Traces

\* A trace has hops with integer losses, and they can be counted.
LEMMA TraceTyped ==
  ASSUME NEW hops \in Traces
  PROVE  /\ DOMAIN hops \subseteq 1..MaxHops
         /\ \A idx \in DOMAIN hops : hops[idx] \in Int
         /\ Cardinality(DOMAIN hops) \in Nat
         /\ collect_path_completed(hops) => DOMAIN hops # {}
<1>1. PICK indices \in SUBSET (1..MaxHops) : hops \in [indices -> Losses]
  BY DEF Traces
<1>2. IsFiniteSet(1..MaxHops) /\ Cardinality({}) = 0
  BY PathAssumption, FS_Interval, FS_EmptySet
<1>3. DOMAIN hops \subseteq 1..MaxHops /\ \A idx \in DOMAIN hops : hops[idx] \in Int
  <2>1. \A loss \in Losses : loss \in Int
    BY PathAssumption
  <2>2. DOMAIN hops = indices /\ \A idx \in indices : hops[idx] \in Losses
    BY <1>1
  <2>3. QED
    BY <1>1, <2>1, <2>2
<1>4. Cardinality(DOMAIN hops) \in Nat
  BY <1>2, <1>3, FS_Subset, FS_CardinalityType
<1>5. QED
  BY <1>2, <1>3, <1>4 DEF collect_path_completed

\* The last hop of a trace is there, it is one, and no hop comes after it.
LEMMA LastIsGreatest ==
  ASSUME NEW hops \in Traces, DOMAIN hops # {}
  PROVE  /\ last_index(hops) \in DOMAIN hops
         /\ \A other \in DOMAIN hops : other <= last_index(hops)
<1> DEFINE ahead == {MaxHops - idx : idx \in DOMAIN hops}
<1>1. DOMAIN hops \subseteq 1..MaxHops /\ MaxHops \in Nat
  BY TraceTyped, PathAssumption
<1>2. ahead \in SUBSET Nat /\ ahead # {}
  BY <1>1
<1>3. PICK least \in ahead : \A other \in ahead : least <= other
  <2> HIDE DEF ahead
  <2>1. QED
    BY <1>2, LeastNatural
<1>4. PICK last \in DOMAIN hops : least = MaxHops - last
  OBVIOUS
<1>5. ASSUME NEW other \in DOMAIN hops PROVE other <= last
  <2>1. MaxHops - last <= MaxHops - other
    BY <1>3, <1>4
  <2>2. last \in Int /\ other \in Int
    BY <1>1
  <2> HIDE DEF ahead
  <2>3. QED
    BY <1>1, <2>1, <2>2
<1>6. QED
  BY <1>5 DEF last_index

\* Traces with the same hops end at the same hop.
LEMMA SameHopsSameLast ==
  ASSUME NEW first \in Traces, NEW second \in Traces,
         DOMAIN first = DOMAIN second, DOMAIN first # {}
  PROVE  last_index(first) = last_index(second)
<1>1. /\ last_index(first) \in DOMAIN first /\ last_index(second) \in DOMAIN first
      /\ last_index(first) <= last_index(second)
      /\ last_index(second) <= last_index(first)
  BY LastIsGreatest
<1>2. last_index(first) \in Int /\ last_index(second) \in Int
  BY <1>1, TraceTyped, PathAssumption
<1>3. QED
  BY <1>1, <1>2

-----------------------------------------------------------------------------
\* The documents of a run

\* Each writer leaves a file of its own kind.
LEMMA Kinds ==
  /\ report.kind = "report" /\ Nothing.kind = "nothing"
  /\ Before.kind = "before" /\ Spoilt.kind = "spoilt"
  /\ \A row, scrub : /\ build_bundle(row, scrub).kind = "bundle"
                     /\ build_fixture(row, scrub).kind = "fixture"
  BY DEF report, Nothing, Before, Spoilt, build_bundle, build_fixture

\* The documents have the measurements, redacted if asked for, in the parts that
\* are searched.
LEMMA Searched ==
  ASSUME NEW others, NEW row, NEW scrub \in BOOLEAN, NEW part \in SCRUBBED,
         part \notin DOMAIN others
  PROVE  /\ part \in DOMAIN With(others, row, scrub)
         /\ With(others, row, scrub)[part] =
              IF scrub THEN Redact(row[part], Public) ELSE row[part]
<1> DEFINE measurements == measurements_from_row(row)
<1>1. part \in DOMAIN measurements /\ measurements[part] = row[part]
  BY DEF SCRUBBED, measurements_from_row
<1>2. /\ DOMAIN scrub_measurements(measurements, scrub) = DOMAIN measurements
      /\ scrub_measurements(measurements, scrub)[part] =
           IF scrub THEN Redact(row[part], Public) ELSE row[part]
  BY <1>1 DEF scrub_measurements
<1> HIDE DEF measurements
<1>3. QED
  BY <1>1, <1>2 DEF With, measurements

\* Redacting takes out what it is told to, and nothing if that is nothing.
LEMMA Redacts ==
  ASSUME NEW part, NEW ips, SCRUB_PLACEHOLDER \notin ips
  PROVE  /\ Redact(part, ips) \cap ips = {}
         /\ ips = {} => Redact(part, ips) = part
  BY DEF Redact

\* What is found in a run is what would tell its path, the destination besides.
LEMMA Found ==
  /\ hits(measurements_from_row(run)) = Path \cap Public
  /\ Identifying \subseteq hits(measurements_from_row(run))
  /\ SCRUB_PLACEHOLDER \notin Public
<1>1. \A part \in SCRUBBED : measurements_from_row(run)[part] = run[part]
  BY DEF SCRUBBED, measurements_from_row
<1>2. hits(measurements_from_row(run)) = UNION {run[part] \cap Public : part \in SCRUBBED}
  BY <1>1 DEF hits, public_ips_in, is_public_ip
<1>3. UNION {run[part] \cap Public : part \in SCRUBBED} = Path \cap Public
  BY DEF SCRUBBED, Path
<1>4. QED
  BY <1>2, <1>3 DEF Identifying, Public, SCRUB_PLACEHOLDER

-----------------------------------------------------------------------------
\* The machine

\* What is in the files and reported as saved, by the place where escalate stands.
EscalateInv ==
  option \in Escalations =>
    /\ at \in {"escalate", "save", "export", "copy", "ended"}
    /\ \A name \in Names : files[name].kind = "bundle" =>
         files[name] = build_bundle(run, option.scrub)
    /\ \A entry \in saved : files[entry.name] = entry.content
    /\ at \in {"escalate", "save"} => saved = {}
    /\ at = "save" => ~option.no_file
    /\ at = "export" /\ option.no_file => saved = {}
    /\ at = "export" => \A entry \in saved : entry.name = option.output
    /\ at \in {"export", "copy"} /\ ~option.no_file => files[option.output] = report
    /\ at = "copy" => option.export \in Names /\ files[option.export].kind = "bundle"
    /\ exit = 0 /\ ~option.no_file => files[option.output] = report
    /\ exit = 0 /\ option.export # "absent" =>
         option.export \in Names /\ files[option.export].kind = "bundle"
    /\ printed /\ option.scrub => option.export # "absent"

\* The same for capture, and what a fixture was allowed to show.
CaptureInv ==
  option \in Captures =>
    /\ at \in {"capture", "check", "ended"}
    /\ \A name \in Names : files[name] = Before
    /\ at = "capture" => files["fixture"] = Before
    /\ at \in {"capture", "check"} => saved = {}
    /\ \A entry \in saved : files[entry.name] = entry.content
    /\ files["fixture"].kind = "fixture" =>
         /\ files["fixture"] = build_fixture(run, ~option.no_scrub)
         /\ Leaks => option.allow_public_ips
    /\ exit \in {2, 5} => files["fixture"] = Before

\* Until the run is there nothing has been done with it; what was asked of it names
\* no address of the path between.
ReportInv ==
  /\ ReportTypeOK
  /\ files = [name \in Names \cup {"fixture"} |-> files[name]]
  /\ printed \in BOOLEAN
  /\ at = "tracing" =>
       /\ option = Nothing /\ saved = {} /\ ~printed
       /\ \A name \in Names \cup {"fixture"} : files[name] = Before
  /\ at # "tracing" =>
       /\ option \in Escalations \cup Captures
       /\ run.ip_target = {"canary"} /\ run.target_raw \subseteq {"dest"}
  /\ EscalateInv
  /\ CaptureInv

\* A command is either escalate or capture, and can be told from none.
LEMMA OptionKinds ==
  /\ \A o \in Escalations :
       /\ o \notin Captures /\ o # Nothing /\ "found" \in DOMAIN o
       /\ o.output \in Names /\ o.export \in Names \cup {"absent", "empty"}
       /\ {o.found, o.no_file, o.scrub} \subseteq BOOLEAN
  /\ \A o \in Captures :
       /\ o # Nothing /\ "found" \notin DOMAIN o
       /\ {o.valid, o.no_scrub, o.allow_public_ips} \subseteq BOOLEAN
<1>1. ASSUME NEW o \in Escalations
      PROVE  /\ DOMAIN o = {"found", "no_file", "output", "export", "scrub"}
             /\ o.output \in Names /\ o.export \in Names \cup {"absent", "empty"}
             /\ {o.found, o.no_file, o.scrub} \subseteq BOOLEAN
  BY EscalateAssumption
<1>2. ASSUME NEW o \in Captures
      PROVE  /\ DOMAIN o = {"valid", "no_scrub", "allow_public_ips"}
             /\ {o.valid, o.no_scrub, o.allow_public_ips} \subseteq BOOLEAN
  BY EscalateAssumption
<1>3. DOMAIN Nothing = {"kind"}
  BY DEF Nothing
<1>4. "found" \notin {"valid", "no_scrub", "allow_public_ips"} /\ "found" # "kind"
      /\ "valid" # "kind"
  OBVIOUS
<1>5. QED
  BY <1>1, <1>2, <1>3, <1>4

\* Before the first trace ends.
LEMMA ReportInvInit == Init => ReportInv
<1> SUFFICES ASSUME Init PROVE ReportInv
  OBVIOUS
<1>1. ReportTypeOK
  BY DEF Init, PathInit, ReportTypeOK, Interrupted
<1>2. option = Nothing /\ option \notin Escalations \cup Captures
  BY OptionKinds DEF Init
<1>3. QED
  BY <1>1, <1>2 DEF Init, ReportInv, EscalateInv, CaptureInv

\* A trace that took too long counts as one of no hop.
LEMMA EmptyTrace == <<>> \in Traces /\ ~collect_path_completed(<<>>)
<1>1. DOMAIN <<>> = {} /\ Cardinality({}) = 0
  BY FS_EmptySet
<1>2. <<>> \in [{} -> Losses]
  BY <1>1
<1>3. {} \in SUBSET (1..MaxHops)
  OBVIOUS
<1>4. <<>> \in Traces
  BY <1>2, <1>3 DEF Traces
<1>5. QED
  BY <1>1, <1>4 DEF collect_path_completed

\* So a trace that is given up is recorded as what it is.
LEMMA EmptyIsTimedOut ==
  TimeOut => primary' \in Traces /\ completed' = collect_path_completed(primary')
<1>1. ASSUME TimeOut PROVE primary' = <<>> /\ completed' = FALSE
  BY <1>1 DEF TimeOut
<1>2. collect_path_completed(<<>>) = FALSE
  BY EmptyTrace DEF collect_path_completed
<1> HIDE DEF collect_path_completed
<1>3. QED
  BY <1>1, <1>2, EmptyTrace

\* The steps of the run, up to the command.
LEMMA RunKeepsInv ==
  ReportInv /\ (Probe \/ EscalateRun \/ CaptureRun) => ReportInv'
<1> SUFFICES ASSUME ReportInv, Probe \/ EscalateRun \/ CaptureRun PROVE ReportInv'
  OBVIOUS
<1>1. CASE Probe
  <2>1. primary' \in Traces /\ completed' = collect_path_completed(primary')
    <3>1. CASE Trace
      BY <3>1 DEF Trace
    <3>2. CASE TimeOut
      BY <3>2, EmptyIsTimedOut
    <3>3. QED
      BY <1>1, <3>1, <3>2 DEF Probe, PathNext
  <2>2. ReportTypeOK'
    BY <1>1, <2>1 DEF ReportInv, ReportTypeOK, Probe, commandVars
  <2>3. option \notin Escalations \cup Captures
    BY <1>1, OptionKinds DEF ReportInv, Probe
  <2>4. QED
    BY <1>1, <2>2, <2>3 DEF ReportInv, EscalateInv, CaptureInv, Probe, commandVars
<1>2. CASE EscalateRun \/ CaptureRun
  <2>1. /\ at = "tracing" /\ primary' = <<>> /\ completed' = FALSE
        /\ UNCHANGED <<files, saved, printed, exit>>
        /\ \/ at' = "escalate" /\ option' \in Escalations
           \/ at' = "capture" /\ option' \in Captures
        /\ run'.ip_target = {"canary"} /\ run'.target_raw \subseteq {"dest"}
    BY <1>2 DEF EscalateRun, CaptureRun, Command, measured
  <2>2. ReportTypeOK'
    <3>1. primary' \in Traces /\ completed' = collect_path_completed(primary')
      BY <2>1, EmptyIsTimedOut DEF TimeOut
    <3>2. at' \in {"escalate", "capture"} /\ exit' = exit /\ exit = -1
      BY <2>1 DEF ReportInv, ReportTypeOK
    <3>3. QED
      BY <3>1, <3>2 DEF ReportTypeOK
  <2>3. \A name \in Names \cup {"fixture"} : files'[name] = Before
    BY <2>1 DEF ReportInv
  <2>4. saved' = {} /\ ~printed' /\ exit' = -1
    BY <2>1 DEF ReportInv, ReportTypeOK
  <2>5. EscalateInv' /\ CaptureInv'
    BY <2>1, <2>3, <2>4, Kinds, OptionKinds DEF EscalateInv, CaptureInv
  <2>6. QED
    BY <2>1, <2>2, <2>5 DEF ReportInv
<1>3. QED
  BY <1>1, <1>2

\* Wherever a command ends, what its files hold and what it said stay true.
LEMMA EndKeepsInv ==
  ASSUME ReportInv, at \notin {"tracing", "ended"},
         NEW status \in {Interrupted} \cup 1..5, End(status),
         UNCHANGED <<files, saved>>,
         option \in Captures /\ status \in {2, 5} => at = "capture"
  PROVE  ReportInv'
<1>1. /\ at' = "ended" /\ exit' = status
      /\ UNCHANGED <<primary, completed, run, option, printed, files, saved>>
  BY DEF End, pathVars
<1>2. exit' # -1 /\ exit' # 0 /\ exit' \in {-1, Interrupted} \cup 0..5
  BY <1>1 DEF Interrupted
<1>3. ReportTypeOK'
  BY <1>1, <1>2 DEF ReportInv, ReportTypeOK
<1>4. report' = report /\ (Leaks <=> Leaks')
  BY <1>1 DEF report, Leaks
<1>5. EscalateInv'
  BY <1>1, <1>2, <1>4 DEF ReportInv, EscalateInv
<1>6. CaptureInv'
  BY <1>1, <1>2, <1>4 DEF ReportInv, CaptureInv, Interrupted
<1>7. QED
  BY <1>1, <1>3, <1>5, <1>6 DEF ReportInv

\* The steps of escalate.
LEMMA EscalateKeepsInv ==
  ASSUME ReportInv,
         \/ Refuse \/ PrintReport \/ WriteText \/ WriteTextFails
         \/ ExportRefused \/ WriteBundle \/ WriteBundleFails \/ Finish
  PROVE  ReportInv'
<1>1. option \in Escalations /\ at \in {"escalate", "save", "export", "copy"}
      /\ option \notin Captures
  BY OptionKinds DEF ReportInv, CaptureInv, Refuse, PrintReport, WriteText, WriteTextFails,
     ExportRefused, WriteBundle, WriteBundleFails, Finish
<1>2. /\ option.output \in Names /\ option.export \in Names \cup {"absent", "empty"}
      /\ {option.found, option.no_file, option.scrub} \subseteq BOOLEAN
  BY <1>1, OptionKinds
<1>3. CASE Refuse \/ ExportRefused
  BY <1>1, <1>3, EndKeepsInv DEF Refuse, ExportRefused
<1>4. CASE PrintReport
  <2>1. /\ at' \in {"save", "export"} /\ at = "escalate" /\ printed' = TRUE
        /\ at' = "export" <=> option.no_file
        /\ option.scrub => option.export # "absent"
        /\ UNCHANGED <<primary, completed, run, option, files, saved, exit>>
    BY <1>2, <1>4 DEF PrintReport, pathVars, Refused
  <2>2. ReportTypeOK'
    BY <2>1 DEF ReportInv, ReportTypeOK
  <2>3. exit = -1 /\ saved = {}
    BY <1>1, <2>1 DEF ReportInv, ReportTypeOK, EscalateInv
  <2>4. EscalateInv'
    BY <1>1, <2>1, <2>3 DEF ReportInv, EscalateInv
  <2>5. QED
    BY <1>1, <2>1, <2>2, <2>4 DEF ReportInv, CaptureInv
<1>5. CASE WriteText
  <2>1. /\ at = "save" /\ at' = "export"
        /\ files' = [files EXCEPT ![option.output] = report]
        /\ saved' = saved \cup {[name |-> option.output, content |-> report]}
        /\ UNCHANGED <<primary, completed, run, option, printed, exit>>
    BY <1>5 DEF WriteText, Write, pathVars
  <2>2. ReportTypeOK'
    BY <2>1 DEF ReportInv, ReportTypeOK
  <2>3. exit = -1 /\ saved = {} /\ report' = report
    BY <1>1, <2>1 DEF ReportInv, ReportTypeOK, EscalateInv, report
  <2>4. files'[option.output] = report /\ files'[option.output].kind = "report"
    BY <1>2, <2>1, Kinds DEF ReportInv
  <2>5. \A name \in Names \ {option.output} : files'[name] = files[name]
    BY <2>1 DEF ReportInv
  <2>6. EscalateInv'
    <3>1. \A entry \in saved' : entry.name = option.output /\ entry.content = report
      BY <2>1, <2>3
    <3>2. \A name \in Names : files'[name].kind = "bundle" =>
            files'[name] = build_bundle(run, option.scrub)
      BY <1>1, <2>4, <2>5 DEF ReportInv, EscalateInv
    <3>3. \A entry \in saved' : files'[entry.name] = entry.content
      BY <2>4, <3>1
    <3>4. printed' /\ option'.scrub => option'.export # "absent"
      BY <1>1, <2>1 DEF ReportInv, EscalateInv
    <3>5. ~option.no_file
      BY <1>1, <2>1 DEF ReportInv, EscalateInv
    <3>6. QED
      BY <1>1, <2>1, <2>3, <2>4, <3>1, <3>2, <3>3, <3>4, <3>5 DEF EscalateInv
  <2>7. files' = [name \in Names \cup {"fixture"} |-> files'[name]]
    BY <2>1 DEF ReportInv
  <2>8. QED
    BY <1>1, <2>1, <2>2, <2>6, <2>7 DEF ReportInv, CaptureInv
<1>6. CASE WriteTextFails \/ WriteBundleFails
  <2>1. PICK name \in Names, status \in {4, Interrupted} :
          /\ \/ at = "save" /\ name = option.output
             \/ at = "export" /\ name = option.export /\ ~Unusable
          /\ \E left \in {files[name], Spoilt} : files' = [files EXCEPT ![name] = left]
          /\ End(status) /\ UNCHANGED saved
    <3>1. CASE WriteTextFails
      <4>1. /\ at = "save" /\ UNCHANGED saved
            /\ \E left \in {files[option.output], Spoilt} :
                 files' = [files EXCEPT ![option.output] = left]
            /\ End(4) \/ End(Interrupted)
        BY <3>1 DEF WriteTextFails, WriteFails
      <4>2. QED
        BY <1>2, <4>1
    <3>2. CASE WriteBundleFails
      <4>1. option.export \in Names
        BY <1>2, <3>2 DEF WriteBundleFails, Unusable
      <4>2. QED
        BY <3>2, <4>1 DEF WriteBundleFails, WriteFails
    <3>3. QED
      BY <1>6, <3>1, <3>2
  <2>2. /\ at' = "ended" /\ exit' \in {4, Interrupted} /\ exit' # 0 /\ exit' # -1
        /\ UNCHANGED <<primary, completed, run, option, printed, saved>>
    BY <2>1 DEF End, pathVars, Interrupted
  <2>3. ReportTypeOK'
    BY <2>2 DEF ReportInv, ReportTypeOK
  <2>4. /\ files' = [n \in Names \cup {"fixture"} |-> files'[n]]
        /\ \A n \in Names : files'[n] \in {files[n], Spoilt}
        /\ \A n \in Names \ {name} : files'[n] = files[n]
    BY <2>1 DEF ReportInv
  <2>5. \A entry \in saved : entry.name \in Names \ {name}
    BY <1>1, <1>2, <2>1 DEF ReportInv, EscalateInv, Unusable
  <2>6. \A n \in Names : files'[n].kind = "bundle" => files'[n] = build_bundle(run, option.scrub)
    BY <1>1, <2>4, Kinds DEF ReportInv, EscalateInv
  <2>7. EscalateInv'
    BY <1>1, <2>2, <2>4, <2>5, <2>6 DEF ReportInv, EscalateInv
  <2>8. QED
    BY <1>1, <2>2, <2>3, <2>4, <2>7 DEF ReportInv, CaptureInv
<1>7. CASE WriteBundle
  <2>1. /\ at = "export" /\ at' = "copy" /\ ~Unusable /\ option.export \in Names
        /\ files' = [files EXCEPT ![option.export] = build_bundle(run, option.scrub)]
        /\ saved' = saved \cup {[name |-> option.export,
                                 content |-> build_bundle(run, option.scrub)]}
        /\ UNCHANGED <<primary, completed, run, option, printed, exit>>
    BY <1>2, <1>7 DEF WriteBundle, Write, pathVars, Unusable
  <2>2. ReportTypeOK'
    BY <2>1 DEF ReportInv, ReportTypeOK
  <2>3. exit = -1 /\ report' = report
    BY <2>1 DEF ReportInv, ReportTypeOK, report
  <2>4. /\ files' = [n \in Names \cup {"fixture"} |-> files'[n]]
        /\ files'[option.export] = build_bundle(run, option.scrub)
        /\ files'[option.export].kind = "bundle"
        /\ \A n \in Names \ {option.export} : files'[n] = files[n]
    BY <2>1, Kinds DEF ReportInv
  <2>5. /\ \A entry \in saved : entry.name \in Names \ {option.export}
        /\ ~option.no_file => option.output \in Names \ {option.export}
    BY <1>1, <1>2, <2>1 DEF ReportInv, EscalateInv, Unusable
  <2>6. \A entry \in saved' : files'[entry.name] = entry.content
    <3>1. \A entry \in saved : files'[entry.name] = entry.content
      BY <1>1, <2>4, <2>5 DEF ReportInv, EscalateInv
    <3>2. \A entry \in saved' \ saved :
            entry.name = option.export /\ entry.content = build_bundle(run, option.scrub)
      BY <2>1
    <3>3. QED
      BY <2>4, <3>1, <3>2
  <2>7. ~option.no_file => files'[option.output] = report
    BY <1>1, <2>1, <2>4, <2>5 DEF ReportInv, EscalateInv
  <2>8. EscalateInv'
    BY <1>1, <2>1, <2>3, <2>4, <2>6, <2>7 DEF ReportInv, EscalateInv
  <2>9. QED
    BY <1>1, <2>1, <2>2, <2>4, <2>8 DEF ReportInv, CaptureInv
<1>8. CASE Finish
  <2>1. /\ at' = "ended" /\ exit' = 0
        /\ at = "copy" \/ (at = "export" /\ option.export = "absent")
        /\ UNCHANGED <<primary, completed, run, option, printed, files, saved>>
    <3>1. End(0) /\ UNCHANGED <<files, saved>>
      BY <1>8 DEF Finish
    <3>2. at = "copy" \/ (at = "export" /\ option.export = "absent")
      BY <1>8 DEF Finish
    <3>3. QED
      BY <3>1, <3>2 DEF End, pathVars
  <2>2. ReportTypeOK' /\ report' = report
    BY <2>1 DEF ReportInv, ReportTypeOK, report
  <2>3. EscalateInv'
    BY <1>1, <2>1, <2>2 DEF ReportInv, EscalateInv
  <2>4. QED
    BY <1>1, <2>1, <2>2, <2>3 DEF ReportInv, CaptureInv
<1>9. QED
  BY <1>3, <1>4, <1>5, <1>6, <1>7, <1>8

\* The steps of capture.
LEMMA CaptureKeepsInv ==
  ASSUME ReportInv, CaptureRefused \/ WriteFixture \/ WriteFixtureFails \/ RoundTrip
  PROVE  ReportInv'
<1>1. option \in Captures /\ option \notin Escalations /\ at \in {"capture", "check"}
  BY OptionKinds DEF ReportInv, EscalateInv, CaptureRefused, WriteFixture,
     WriteFixtureFails, RoundTrip
<1>2. /\ saved = {} /\ exit = -1
      /\ \A name \in Names : files[name] = Before
      /\ files = [name \in Names \cup {"fixture"} |-> files[name]]
      /\ printed \in BOOLEAN
  BY <1>1 DEF ReportInv, CaptureInv, ReportTypeOK
<1>3. CASE CaptureRefused
  <2>1. PICK status \in {2, 5} : End(status)
    BY <1>3 DEF CaptureRefused
  <2>2. at = "capture" /\ UNCHANGED <<files, saved>>
    BY <1>3 DEF CaptureRefused
  <2>3. QED
    BY <1>1, <2>1, <2>2, EndKeepsInv
<1>4. CASE WriteFixture
  <2>1. /\ at' = "check"
        /\ Leaks => option.allow_public_ips
        /\ files' = [files EXCEPT !["fixture"] = build_fixture(run, ~option.no_scrub)]
        /\ UNCHANGED <<primary, completed, run, option, saved, printed, exit>>
    BY <1>4 DEF WriteFixture, pathVars
  <2>2. ReportTypeOK'
    BY <1>2, <2>1 DEF ReportInv, ReportTypeOK
  <2>3. /\ files' = [name \in Names \cup {"fixture"} |-> files'[name]]
        /\ files'["fixture"] = build_fixture(run, ~option.no_scrub)
        /\ \A name \in Names : files'[name] = Before
    BY <1>2, <2>1 DEF Names
  <2>4. Leaks' = Leaks
    BY <2>1 DEF Leaks
  <2>5. CaptureInv'
    BY <1>2, <2>1, <2>3, <2>4 DEF CaptureInv
  <2>6. QED
    BY <1>1, <1>2, <2>1, <2>2, <2>3, <2>5 DEF ReportInv, EscalateInv
<1>5. CASE WriteFixtureFails \/ RoundTrip
  <2>1. PICK status \in {0, 1, 4, Interrupted} : End(status)
    BY <1>5 DEF WriteFixtureFails, WriteFails, RoundTrip
  <2>2. /\ at' = "ended" /\ exit' = status /\ status \notin {-1, 2, 5}
        /\ UNCHANGED <<primary, completed, run, option, printed>>
    BY <2>1 DEF End, pathVars, Interrupted
  <2>3. ReportTypeOK'
    BY <2>2 DEF ReportInv, ReportTypeOK
  <2>4. /\ files' = [files EXCEPT !["fixture"] = files'["fixture"]]
        /\ files'["fixture"] \in {files["fixture"], Spoilt, Nothing}
        /\ saved' = saved
           \/ (/\ saved' = saved \cup {[name |-> "fixture", content |-> files["fixture"]]}
               /\ files' = files)
    <3>1. CASE WriteFixtureFails
      <4>1. PICK left \in {files["fixture"], Spoilt} :
              files' = [files EXCEPT !["fixture"] = left]
        BY <3>1 DEF WriteFixtureFails, WriteFails
      <4>2. saved' = saved
        BY <3>1 DEF WriteFixtureFails, WriteFails
      <4>3. QED
        BY <1>2, <4>1, <4>2
    <3>2. CASE RoundTrip
      BY <1>2, <3>2 DEF RoundTrip
    <3>3. QED
      BY <1>5, <3>1, <3>2
  <2>5. /\ files' = [name \in Names \cup {"fixture"} |-> files'[name]]
        /\ \A name \in Names : files'[name] = Before
    BY <1>2, <2>4 DEF Names
  <2>6. \A entry \in saved' : files'[entry.name] = entry.content
    BY <1>2, <2>4
  <2>7. files'["fixture"].kind = "fixture" =>
          /\ files'["fixture"] = build_fixture(run, ~option.no_scrub)
          /\ Leaks => option.allow_public_ips
    BY <1>1, <2>4, Kinds DEF ReportInv, CaptureInv
  <2>8. Leaks' = Leaks
    BY <2>2 DEF Leaks
  <2>9. CaptureInv'
    BY <2>2, <2>5, <2>6, <2>7, <2>8 DEF CaptureInv
  <2>10. QED
    BY <1>1, <1>2, <2>2, <2>3, <2>5, <2>9 DEF ReportInv, EscalateInv
<1>6. QED
  BY <1>3, <1>4, <1>5

\* Every step keeps the invariant: a handler's, Ctrl-C at any place, or none.
LEMMA ReportInvInductive == ReportInv /\ [Next]_vars => ReportInv'
<1> SUFFICES ASSUME ReportInv, [Next]_vars PROVE ReportInv'
  OBVIOUS
<1>1. CASE Probe \/ EscalateRun \/ CaptureRun
  BY <1>1, RunKeepsInv
<1>2. CASE \/ Refuse \/ PrintReport \/ WriteText \/ WriteTextFails
           \/ ExportRefused \/ WriteBundle \/ WriteBundleFails \/ Finish
  BY <1>2, EscalateKeepsInv
<1>3. CASE CaptureRefused \/ WriteFixture \/ WriteFixtureFails \/ RoundTrip
  BY <1>3, CaptureKeepsInv
<1>4. CASE Interrupt
  <2>1. Interrupted \in {Interrupted} \cup 1..5 /\ Interrupted \notin {2, 5}
    BY DEF Interrupted
  <2>2. QED
    BY <1>4, <2>1, EndKeepsInv DEF Interrupt
<1>5. CASE UNCHANGED vars
  <2>1. UNCHANGED <<primary, completed, run, option, at, files, saved, printed, exit>>
    BY <1>5 DEF vars, pathVars, commandVars
  <2>2. ReportTypeOK' /\ report' = report /\ Leaks' = Leaks
    BY <2>1 DEF ReportInv, ReportTypeOK, report, Leaks
  <2>3. QED
    BY <2>1, <2>2 DEF ReportInv, EscalateInv, CaptureInv
<1>6. QED
  BY <1>1, <1>2, <1>3, <1>4, <1>5 DEF Next, Done

\* The invariant holds wherever escalate and capture stand (cli.py:384-452, 466-563).
THEOREM ReportInvHolds == Spec => []ReportInv
  BY ReportInvInit, ReportInvInductive, PTL DEF Spec

-----------------------------------------------------------------------------
\* What the documents promise

\* No command loses a file it has reported as saved, and one that succeeds leaves
\* what it was asked for (cli.py:394-412, 421-452).
THEOREM SavedStay == Spec => []SavedFilesStay
<1>1. ASSUME ReportInv PROVE SavedFilesStay
  <2>1. ReportTypeOK /\ (at = "tracing" => saved = {} /\ option = Nothing)
    BY <1>1 DEF ReportInv
  <2>2. CASE at = "tracing"
    BY <2>1, <2>2 DEF SavedFilesStay, Escalates
  <2>3. CASE option \in Escalations
    BY <1>1, <2>1, <2>3 DEF ReportInv, EscalateInv, SavedFilesStay
  <2>4. CASE option \in Captures
    BY <1>1, <2>1, <2>4, OptionKinds DEF ReportInv, CaptureInv, SavedFilesStay, Escalates
  <2>5. QED
    BY <1>1, <2>2, <2>3, <2>4 DEF ReportInv
<1>2. QED
  BY <1>1, ReportInvHolds, PTL

\* Whatever route the run took and wherever its parts repeat an address, a bundle
\* hides the path exactly when it was told to, and it verifies
\* (bundle.py:84-100, 186-264).
THEOREM BundlesAreTrue == Spec => []BundleIsWhatItSays
<1>1. ASSUME ReportInv PROVE BundleIsWhatItSays
  <2> SUFFICES ASSUME NEW name \in Names, files[name].kind = "bundle"
               PROVE  LET bundle == files[name] IN
                      /\ verify_bundle(bundle)
                      /\ bundle.redacted => option.scrub
                      /\ IF option.scrub
                         THEN /\ \A part \in DOMAIN bundle.document :
                                   bundle.document[part] \cap Identifying = {}
                              /\ Identifying # {} => bundle.redacted
                         ELSE UNION {bundle.document[part] : part \in SCRUBBED} = Path
    BY DEF BundleIsWhatItSays, Bundles
  <2>1. option \in Escalations /\ files[name] = build_bundle(run, option.scrub)
    BY <1>1, Kinds DEF ReportInv, EscalateInv, CaptureInv
  <2>2. option.scrub \in BOOLEAN
    BY <2>1, OptionKinds
  <2> DEFINE found == hits(measurements_from_row(run))
             ips == IF option.scrub THEN found ELSE {}
             document == redact_everywhere(assembled(run, option.scrub), ips)
             redacted == option.scrub /\ found # {}
  <2>3. /\ files[name].document = document /\ files[name].redacted = redacted
        /\ files[name].integrity = payload_sha256(document, redacted)
    BY <2>1 DEF build_bundle
  <2>4. SCRUB_PLACEHOLDER \notin ips /\ Identifying \subseteq found
    BY Found
  <2>5. \A part \in DOMAIN assembled(run, option.scrub) :
          document[part] = Redact(assembled(run, option.scrub)[part], ips)
    BY DEF redact_everywhere
  <2>6. DOMAIN document = DOMAIN assembled(run, option.scrub)
    BY DEF redact_everywhere
  <2>7. \A part \in SCRUBBED : ~option.scrub =>
          /\ part \in DOMAIN assembled(run, option.scrub)
          /\ assembled(run, option.scrub)[part] = run[part]
    <3>1. \A part \in SCRUBBED : part \notin {"target_raw", "collector_notes", "report_text"}
      BY DEF SCRUBBED
    <3>2. QED
      BY <2>2, <3>1, Searched DEF assembled
  <2> HIDE DEF document, ips, redacted, found
  <2>8. ASSUME option.scrub
        PROVE  /\ \A part \in DOMAIN document : document[part] \cap Identifying = {}
               /\ Identifying # {} => redacted
    <3>1. ips = found
      BY <2>8 DEF ips
    <3>2. \A part \in DOMAIN document : document[part] \cap ips = {}
      BY <2>4, <2>5, <2>6, Redacts
    <3>3. QED
      BY <2>4, <2>8, <3>1, <3>2 DEF redacted
  <2>9. ASSUME ~option.scrub
        PROVE  UNION {document[part] : part \in SCRUBBED} = Path
    <3>1. ips = {}
      BY <2>9 DEF ips
    <3>2. \A part \in SCRUBBED : document[part] = run[part]
      BY <2>4, <2>5, <2>7, <2>9, <3>1, Redacts
    <3>3. QED
      BY <3>2 DEF SCRUBBED, Path
  <2>10. QED
    BY <2>2, <2>3, <2>8, <2>9 DEF verify_bundle, redacted
<1>2. QED
  BY <1>1, ReportInvHolds, PTL

\* The fields of a fixture show no public address of the path that both flags did not
\* ask for, its notes none but that of a gateway that failed, and a refusal leaves
\* what was there (cli.py:541-563).
THEOREM FixturesHide == Spec => []FixtureFieldsAreClean
<1>1. ASSUME ReportInv, Captured PROVE FixtureFieldsAreClean
  <2>1. option \in Captures
    BY <1>1, OptionKinds DEF ReportInv, Captured, Escalates
  <2>2. exit \in {2, 5} => files["fixture"] = Before
    BY <1>1, <2>1 DEF ReportInv, CaptureInv
  <2>3. ASSUME files["fixture"].kind = "fixture",
               ~(option.no_scrub /\ option.allow_public_ips),
               NEW part \in SCRUBBED
        PROVE  files["fixture"].document[part] \cap Public = {}
    <3> DEFINE others == [target_raw |-> run.target_raw,
                          collector_notes |-> collector_notes(run)]
    <3>1. /\ files["fixture"] = build_fixture(run, ~option.no_scrub)
          /\ Leaks => option.allow_public_ips
      BY <1>1, <2>1, <2>3 DEF ReportInv, CaptureInv
    <3>2. part \notin DOMAIN others /\ option.no_scrub \in BOOLEAN
      BY <2>1, OptionKinds DEF SCRUBBED
    <3>3. files["fixture"].document[part] = With(others, run, ~option.no_scrub)[part]
      BY <3>1 DEF build_fixture
    <3> HIDE DEF others
    <3>4. files["fixture"].document[part] =
            IF ~option.no_scrub THEN Redact(run[part], Public) ELSE run[part]
      <4>1. ASSUME NEW scrub \in BOOLEAN
            PROVE  With(others, run, scrub)[part] =
                     IF scrub THEN Redact(run[part], Public) ELSE run[part]
        BY <3>2, Searched
      <4>2. (~option.no_scrub) \in BOOLEAN
        OBVIOUS
      <4>3. QED
        BY <3>3, <4>1, <4>2
    <3>5. CASE ~option.no_scrub
      BY <3>4, <3>5, Found, Redacts
    <3>6. CASE option.no_scrub
      <4>1. Path \cap Public = {}
        BY <2>3, <3>1, <3>6, Found DEF Leaks
      <4>2. run[part] \subseteq Path
        BY DEF SCRUBBED, Path
      <4>3. QED
        BY <3>4, <3>6, <4>1, <4>2
    <3>7. QED
      BY <3>2, <3>5, <3>6
  <2>4. ASSUME files["fixture"].kind = "fixture",
               ~(option.no_scrub /\ option.allow_public_ips)
        PROVE  files["fixture"].document.collector_notes \cap Identifying
                 \subseteq run.gateway_ip \cap run.failing
    <3>1. files["fixture"] = build_fixture(run, ~option.no_scrub)
      BY <1>1, <2>1, <2>4 DEF ReportInv, CaptureInv
    <3>2. files["fixture"].document.collector_notes = collector_notes(run)
      BY <3>1 DEF build_fixture, With
    <3>3. run.ip_target \cap Identifying = {} /\ run.target_raw \cap Identifying = {}
      BY <1>1, <2>1 DEF ReportInv, CaptureInv, Identifying
    <3>4. QED
      BY <3>2, <3>3 DEF collector_notes
  <2>5. QED
    BY <2>2, <2>3, <2>4 DEF FixtureFieldsAreClean
<1>2. ReportInv => FixtureFieldsAreClean
  BY <1>1 DEF FixtureFieldsAreClean
<1>3. QED
  BY <1>2, ReportInvHolds, PTL

-----------------------------------------------------------------------------
\* What a trace is found to show

\* One router that drops its own replies is no fault on the path
\* (normalizer.py:7-12, 99-110).
THEOREM IsolatedIsIgnored == Spec => []IsolatedHopIsIgnored
<1>1. ASSUME ReportInv,
             ~lossy(primary, last_index(primary)),
             \A i, j \in DOMAIN primary \ {1} :
               i < j /\ j <= i + 2 => ~(lossy(primary, i) /\ lossy(primary, j)),
             flagged
      PROVE  FALSE
  <2>1. primary \in Traces
    BY <1>1 DEF ReportInv, ReportTypeOK
  <2>2. PICK idx \in DOMAIN primary :
          /\ idx >= 2 /\ lossy(primary, idx)
          /\ \/ idx = last_index(primary)
             \/ lossy(primary, idx + 1)
             \/ lossy(primary, idx + 2)
    BY <1>1 DEF flagged, packet_loss_after_hop1, has_persistent_loss
  <2>3. idx \in Int
    BY <2>1, TraceTyped, PathAssumption
  <2>4. PICK next \in {idx + 1, idx + 2} : lossy(primary, next)
    BY <1>1, <2>2
  <2>5. /\ idx \in DOMAIN primary \ {1} /\ next \in DOMAIN primary \ {1}
        /\ idx < next /\ next <= idx + 2
    BY <2>2, <2>3, <2>4 DEF lossy
  <2>6. QED
    BY <1>1, <2>2, <2>4, <2>5
<1>2. ReportInv => IsolatedHopIsIgnored
  BY <1>1 DEF IsolatedHopIsIgnored
<1>3. QED
  BY <1>2, ReportInvHolds, PTL

\* What is known of two traces in a row.
LEMMA TwoTraces ==
  ASSUME ReportInv, ReportInv'
  PROVE  /\ primary \in Traces /\ primary' \in Traces
         /\ completed = collect_path_completed(primary)
         /\ completed' = collect_path_completed(primary')
         /\ completed <=> Cardinality(DOMAIN primary) >= 2
         /\ completed' <=> Cardinality(DOMAIN primary') >= 2
         /\ flagged <=> completed /\ has_persistent_loss(primary)
         /\ flagged' <=> completed' /\ has_persistent_loss(primary')
  BY DEF ReportInv, ReportTypeOK, collect_path_completed, flagged, packet_loss_after_hop1

\* If each lossy hop beyond the first of one trace is lossy in a second, and so is
\* its last, then what persists in the first persists in the second.
LEMMA LossCarries ==
  ASSUME NEW first \in Traces, NEW second \in Traces,
         collect_path_completed(first), collect_path_completed(second),
         last_index(first) = last_index(second),
         \A idx \in DOMAIN first \ {1} : lossy(first, idx) => lossy(second, idx),
         has_persistent_loss(first)
  PROVE  has_persistent_loss(second)
<1>1. PICK idx \in DOMAIN first :
        /\ idx >= 2 /\ lossy(first, idx)
        /\ \/ idx = last_index(first)
           \/ lossy(first, idx + 1)
           \/ lossy(first, idx + 2)
  BY DEF has_persistent_loss
<1>2. idx \in Int /\ idx # 1 /\ idx + 1 # 1 /\ idx + 2 # 1
  <2>1. idx \in Int
    BY TraceTyped, PathAssumption
  <2>2. QED
    BY <1>1, <2>1
<1>3. \A other : other # 1 /\ lossy(first, other) => lossy(second, other)
  BY DEF lossy
<1>4. /\ lossy(second, idx)
      /\ \/ idx = last_index(second)
         \/ lossy(second, idx + 1)
         \/ lossy(second, idx + 2)
  BY <1>1, <1>2, <1>3
<1>5. idx \in DOMAIN second
  BY <1>4 DEF lossy
<1>6. QED
  BY <1>1, <1>4, <1>5 DEF has_persistent_loss, collect_path_completed

\* The LAN is judged by its own ping, never by the trace (normalizer.py:87-88).
THEOREM FirstHopIsIgnored == Spec => HopOneIsIrrelevant
<1>1. ASSUME ReportInv, ReportInv', DOMAIN primary' = DOMAIN primary, completed' = completed,
             Same(primary, primary', DOMAIN primary \ {1})
      PROVE  flagged' = flagged
  <2>1. CASE completed
    <3>1. last_index(primary) = last_index(primary')
      BY <1>1, <2>1, TwoTraces, TraceTyped, SameHopsSameLast
    <3>2. /\ collect_path_completed(primary) /\ collect_path_completed(primary')
          /\ primary \in Traces /\ primary' \in Traces
      BY <1>1, <2>1, TwoTraces
    <3>3. \A idx \in DOMAIN primary \ {1} : lossy(primary, idx) <=> lossy(primary', idx)
      BY <1>1 DEF Same, lossy
    <3>4. has_persistent_loss(primary) => has_persistent_loss(primary')
      BY <3>1, <3>2, <3>3, LossCarries
    <3>5. has_persistent_loss(primary') => has_persistent_loss(primary)
      BY <1>1, <3>1, <3>2, <3>3, LossCarries
    <3>6. flagged <=> flagged'
      BY <1>1, <2>1, <3>4, <3>5, TwoTraces
    <3>7. QED
      BY <3>6 DEF flagged, packet_loss_after_hop1, has_persistent_loss
  <2>2. CASE ~completed
    BY <1>1, <2>2 DEF flagged, packet_loss_after_hop1, has_persistent_loss
  <2>3. QED
    BY <2>1, <2>2
<1>2. QED
  BY <1>1, ReportInvHolds, PTL DEF HopOneIsIrrelevant

\* A worse trace is never judged better (normalizer.py:85-110).
THEOREM WorseStaysFlagged == Spec => WorseNeverClears
<1>1. ASSUME ReportInv, ReportInv', DOMAIN primary' = DOMAIN primary,
             \A idx \in DOMAIN primary : primary[idx] <= primary'[idx],
             flagged
      PROVE  flagged'
  <2>1. completed /\ completed' /\ has_persistent_loss(primary)
    BY <1>1, TwoTraces
  <2>2. /\ collect_path_completed(primary) /\ collect_path_completed(primary')
        /\ primary \in Traces /\ primary' \in Traces
    BY <1>1, <2>1, TwoTraces
  <2>3. last_index(primary) = last_index(primary')
    BY <1>1, <2>2, TraceTyped, SameHopsSameLast
  <2>4. ASSUME NEW idx \in DOMAIN primary, lossy(primary, idx)
        PROVE  lossy(primary', idx)
    <3>1. primary[idx] \in Int /\ primary'[idx] \in Int /\ path_loss_pct \in Int
      BY <1>1, <2>2, TraceTyped, PathAssumption
    <3>2. QED
      BY <1>1, <2>4, <3>1 DEF lossy
  <2>5. has_persistent_loss(primary')
    BY <2>1, <2>2, <2>3, <2>4, LossCarries
  <2>6. QED
    BY <1>1, <2>1, <2>5, TwoTraces
<1>2. QED
  BY <1>1, ReportInvHolds, PTL DEF WorseNeverClears

\* A hop that is missing from the record is not taken for a lossy one
\* (normalizer.py:99-102; not so TECHNICAL.md:65).
THEOREM AbsentStaysClean == Spec => AbsentIsNotLossy
<1>1. ASSUME ReportInv, ReportInv', completed, completed',
             DOMAIN primary' \subseteq DOMAIN primary,
             \A idx \in DOMAIN primary' : primary'[idx] = primary[idx],
             last_index(primary') = last_index(primary),
             flagged'
      PROVE  flagged
  <2>1. /\ collect_path_completed(primary) /\ collect_path_completed(primary')
        /\ primary \in Traces /\ primary' \in Traces /\ has_persistent_loss(primary')
    BY <1>1, TwoTraces
  <2>2. \A idx \in DOMAIN primary' : lossy(primary', idx) => lossy(primary, idx)
    BY <1>1 DEF lossy
  <2>3. has_persistent_loss(primary)
    BY <1>1, <2>1, <2>2, LossCarries
  <2>4. QED
    BY <1>1, <2>3, TwoTraces
<1>2. QED
  BY <1>1, ReportInvHolds, PTL DEF AbsentIsNotLossy
=============================================================================
