------------------------------ MODULE Escalate ------------------------------
(***************************************************************************)
(* From the traces of a run to the documents made of it.  A run is traced  *)
(* and recorded; then it is escalated (the report is printed, saved as     *)
(* text, and exported as a bundle) or, instead, captured as a fixture.     *)
(* A write may fail before or after it has spoilt the file it writes to,   *)
(* and Ctrl-C may fall anywhere.                                           *)
(***************************************************************************)
EXTENDS PathLoss, Bundle

CONSTANTS
  Runs,          \* what a run is besides its primary trace
  Escalations,   \* the options of escalate
  Captures       \* the options of capture

Names == {"txt", "json"}     \* the default names of report and bundle

ASSUME EscalateAssumption ==
  /\ Escalations \subseteq
       [found : BOOLEAN, no_file : BOOLEAN, output : Names,
        export : Names \cup {"absent", "empty"}, scrub : BOOLEAN]
  /\ Captures \subseteq
       [valid : BOOLEAN, no_scrub : BOOLEAN, allow_public_ips : BOOLEAN]

VARIABLES
  run,       \* what was measured or recorded of the run
  option,    \* the options of the command
  at,        \* where the command stands
  files,     \* what is in the files it may write to
  saved,     \* the files it said it saved, with what it saved
  printed,   \* did it print the report?
  exit       \* its exit status

commandVars == <<run, option, at, files, saved, printed, exit>>
vars == <<pathVars, commandVars>>

Nothing == [kind |-> "nothing"]
Before  == [kind |-> "before"]       \* what an earlier command left
Spoilt  == [kind |-> "spoilt"]

Interrupted == 130                   \* the status of a process that Ctrl-C ended

report == [kind |-> "report", document |-> render_escalation(run)]

Init ==
  /\ PathInit
  /\ run = Nothing /\ option = Nothing
  /\ at = "tracing"
  /\ files = [name \in Names \cup {"fixture"} |-> Before]
  /\ saved = {} /\ printed = FALSE /\ exit = -1

-----------------------------------------------------------------------------
\* The run

Probe == at = "tracing" /\ PathNext /\ UNCHANGED commandVars

\* A secondary trace is made when the canary or a control host is in trouble.
measured(given) ==
  [gateway_ip     |-> IF given.route_known THEN {given.gateway} ELSE {},
   resolved_ips   |-> IF given.dns_ok THEN {"dest"} ELSE {},
   target_raw     |-> IF given.literal THEN {"dest"} ELSE {},
   ip_target      |-> {"canary"},
   control_hosts  |-> {"canary", "control"},
   failing        |-> given.failing,
   path_primary   |-> raw_hops(primary, given.gateway, "dest", given.reached),
   path_secondary |-> IF "canary" \in given.failing
                      THEN {given.gateway, "isp", "control"} ELSE {}]

\* The hop table lives on in the run only.
Command(options, start) ==
  /\ at = "tracing"
  /\ \E given \in Runs : run' = measured(given)
  /\ option' \in options
  /\ at' = start
  /\ primary' = <<>> /\ completed' = FALSE
  /\ UNCHANGED <<files, saved, printed, exit>>

EscalateRun == Command(Escalations, "escalate")
CaptureRun  == Command(Captures, "capture")

End(status) ==
  /\ at' = "ended" /\ exit' = status
  /\ UNCHANGED <<pathVars, run, option, printed>>

\* Says what it saved, and goes on.
Write(name, content, next) ==
  /\ files' = [files EXCEPT ![name] = content]
  /\ saved' = saved \cup {[name |-> name, content |-> content]}
  /\ at' = next
  /\ UNCHANGED <<pathVars, run, option, printed, exit>>

\* A failed or interrupted write leaves the file as it was, or truncated.
WriteFails(name, status) ==
  /\ \E left \in {files[name], Spoilt} : files' = [files EXCEPT ![name] = left]
  /\ End(status) \/ End(Interrupted)
  /\ UNCHANGED saved

-----------------------------------------------------------------------------
\* escalate

Refused == ~option.found \/ (option.scrub /\ option.export = "absent")

Refuse ==
  /\ at = "escalate" /\ Refused
  /\ End(2)
  /\ UNCHANGED <<files, saved>>

PrintReport ==
  /\ at = "escalate" /\ ~Refused
  /\ printed' = TRUE
  /\ at' = IF option.no_file THEN "export" ELSE "save"
  /\ UNCHANGED <<pathVars, run, option, files, saved, exit>>

WriteText ==
  /\ at = "save"
  /\ Write(option.output, report, "export")

WriteTextFails == at = "save" /\ WriteFails(option.output, 4)

\* Mutant: two names are not compared.
Unusable_blind == option.export = "empty"

\* By now the report is written.
Unusable ==
  \/ option.export = "empty"
  \/ option.export = option.output /\ ~option.no_file

ExportRefused ==
  /\ at = "export" /\ Unusable
  /\ End(2)
  /\ UNCHANGED <<files, saved>>

WriteBundle ==
  /\ at = "export" /\ option.export # "absent" /\ ~Unusable
  /\ Write(option.export, build_bundle(run, option.scrub), "copy")

WriteBundleFails ==
  /\ at = "export" /\ option.export # "absent" /\ ~Unusable
  /\ WriteFails(option.export, 4)

\* A clipboard that cannot be used is only warned of.
Finish ==
  /\ \/ at = "copy"
     \/ at = "export" /\ option.export = "absent"
  /\ End(0)
  /\ UNCHANGED <<files, saved>>

-----------------------------------------------------------------------------
\* capture

Leaks == option.no_scrub /\ hits(measurements_from_row(run)) # {}

CaptureRefused ==
  /\ at = "capture"
  /\ \/ ~option.valid /\ End(2)
     \/ option.valid /\ Leaks /\ ~option.allow_public_ips /\ End(5)
  /\ UNCHANGED <<files, saved>>

\* Mutant: --no-scrub needs no second flag.
WriteFixture_trusting ==
  /\ at = "capture" /\ option.valid
  /\ files' = [files EXCEPT !["fixture"] = build_fixture(run, ~option.no_scrub)]
  /\ at' = "check"
  /\ UNCHANGED <<pathVars, run, option, saved, printed, exit>>

WriteFixture ==
  /\ at = "capture" /\ option.valid /\ (Leaks => option.allow_public_ips)
  /\ files' = [files EXCEPT !["fixture"] = build_fixture(run, ~option.no_scrub)]
  /\ at' = "check"
  /\ UNCHANGED <<pathVars, run, option, saved, printed, exit>>

\* Nothing catches the error.
WriteFixtureFails ==
  /\ at = "capture" /\ option.valid /\ (Leaks => option.allow_public_ips)
  /\ WriteFails("fixture", 1)

\* The file is read back; another program may have written to it meanwhile.
RoundTrip ==
  /\ at = "check"
  /\ \/ /\ End(0)
        /\ saved' = saved \cup {[name |-> "fixture", content |-> files["fixture"]]}
        /\ UNCHANGED files
     \/ /\ End(4)
        /\ files' = [files EXCEPT !["fixture"] = Nothing]
        /\ UNCHANGED saved
     \/ /\ End(1)
        /\ files' = [files EXCEPT !["fixture"] = Spoilt]
        /\ UNCHANGED saved

-----------------------------------------------------------------------------
Interrupt ==
  /\ at \notin {"tracing", "ended"}
  /\ End(Interrupted)
  /\ UNCHANGED <<files, saved>>

Done == at = "ended" /\ UNCHANGED vars

Next ==
  \/ Probe \/ EscalateRun \/ CaptureRun
  \/ Refuse \/ PrintReport \/ WriteText \/ WriteTextFails
  \/ ExportRefused \/ WriteBundle \/ WriteBundleFails \/ Finish
  \/ CaptureRefused \/ WriteFixture \/ WriteFixtureFails \/ RoundTrip
  \/ Interrupt \/ Done

Spec == Init /\ [][Next]_vars

-----------------------------------------------------------------------------
\* Properties

Escalates == option # Nothing /\ "found" \in DOMAIN option
Captured  == option # Nothing /\ ~Escalates

Bundles == {files[name] : name \in {n \in Names : files[n].kind = "bundle"}}

\* The public addresses of the user's network path.
Path == run.gateway_ip \cup run.path_primary \cup run.path_secondary

Identifying == {"wan", "isp"} \cap Path

\* The types; only a command that has ended has a status.
ReportTypeOK ==
  /\ primary \in Traces /\ completed = collect_path_completed(primary)
  /\ at \in {"tracing", "escalate", "save", "export", "copy", "capture", "check", "ended"}
  /\ exit \in {-1, Interrupted} \cup 0..5
  /\ at = "ended" <=> exit # -1

\* A scrubbed bundle holds no public address of the gateway or of a hop in any
\* of its parts, notes and report included, and says that it was redacted exactly
\* if there was one; a bundle that was not scrubbed shows the whole path; and
\* either verifies as it was written (bundle.py:84-100, 186-264).
BundleIsWhatItSays ==
  \A bundle \in Bundles :
    /\ verify_bundle(bundle)
    /\ bundle.redacted => option.scrub
    /\ IF option.scrub
       THEN /\ \A part \in DOMAIN bundle.document :
                 bundle.document[part] \cap Identifying = {}
            /\ Identifying # {} => bundle.redacted
       ELSE UNION {bundle.document[part] : part \in SCRUBBED} = Path

\* A command that succeeds leaves every file it was asked for, whole; a file that
\* was reported as saved is not lost to a later write of the same command; and
\* one refused for its arguments has not shown anything as redacted that is not
\* (cli.py:394-412, 421-452).
SavedFilesStay ==
  /\ ReportTypeOK
  /\ \A entry \in saved : files[entry.name] = entry.content
  /\ Escalates =>
       /\ exit = 0 /\ ~option.no_file =>
            files[option.output] = report
       /\ exit = 0 /\ option.export # "absent" =>
            files[option.export].kind = "bundle"
       /\ printed /\ option.scrub => option.export # "absent"

\* Unless both flags ask for it, capture leaves no fixture with a public address in
\* the fields that hold the gateway and the hops, and a refusal touches no file,
\* whatever fails on the way.  The notes are not searched: there the address of a
\* gateway that failed stays, but that of no other hop (cli.py:541-563).
FixtureFieldsAreClean ==
  Captured =>
    /\ files["fixture"].kind = "fixture" /\ ~(option.no_scrub /\ option.allow_public_ips) =>
         LET document == files["fixture"].document
         IN  /\ \A part \in SCRUBBED : document[part] \cap Public = {}
             /\ document.collector_notes \cap Identifying
                  \subseteq run.gateway_ip \cap run.failing
    /\ exit \in {2, 5} => files["fixture"] = Before

\* bundle.py:202-204: addresses that "identify the *destination* rather than the
\* reporting user (resolved target addresses, the canary, control hosts) are
\* deliberately left alone".
ScrubKeepsDestination ==
  \A bundle \in Bundles :
    \A part \in {"resolved_ips", "ip_target", "control_hosts"} :
      bundle.document[part] = run[part]
=============================================================================
