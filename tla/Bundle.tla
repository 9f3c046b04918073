------------------------------- MODULE Bundle -------------------------------
(***************************************************************************)
(* The support bundle of a stored run, and the fixture of a captured one:  *)
(* which addresses end up in which part of the document, and what scrubbing *)
(* takes out of it.  A document maps each part that can hold addresses to  *)
(* the addresses in it, prose included; an address is named for its role.  *)
(* No address here is a prefix of another, and all are IPv4.               *)
(***************************************************************************)
EXTENDS Integers

Public == {"wan", "isp", "dest", "canary", "control"}   \* but not "lan"
Silent == "*"                         \* the host of a hop that never answered
SCRUB_PLACEHOLDER == "scrubbed"

is_public_ip(value) == value \in Public

public_ips_in(part) == {value \in part : is_public_ip(value)}

\* What a traceroute is recorded to have met, from the loss of each hop: the
\* gateway first, the destination last if the trace got there.
raw_hops(losses, gateway, destination, reached) ==
  {IF losses[idx] = 100 THEN Silent
   ELSE IF idx = 1 THEN gateway
   ELSE IF reached /\ \A other \in DOMAIN losses : other <= idx THEN destination
   ELSE "isp" : idx \in DOMAIN losses}

-----------------------------------------------------------------------------
\* What a stored row renders to

\* The collector notes name an address whose ping did not go well.
collector_notes(row) ==
  row.failing \cap (row.gateway_ip \cup row.ip_target \cup row.target_raw)

\* The target, the gateway, DNS and the canary; of the path only its length.
render_escalation(row) ==
  row.target_raw \cup row.gateway_ip \cup row.resolved_ips \cup row.ip_target

measurements_from_row(row) ==
  [part \in {"gateway_ip", "resolved_ips", "ip_target", "control_hosts",
             "path_primary", "path_secondary"} |-> row[part]]

-----------------------------------------------------------------------------
\* Scrubbing

\* The fields that are searched.
SCRUBBED == {"gateway_ip", "path_primary", "path_secondary"}

\* The public addresses of the gateway and of the hops.
hits(measurements) == UNION {public_ips_in(measurements[part]) : part \in SCRUBBED}

Redact(part, ips) ==
  (part \ ips) \cup IF part \cap ips = {} THEN {} ELSE {SCRUB_PLACEHOLDER}

scrub_measurements(measurements, scrub) ==
  [part \in DOMAIN measurements |->
     IF scrub /\ part \in SCRUBBED
     THEN Redact(measurements[part], Public) ELSE measurements[part]]

redact_everywhere(document, ips) ==
  [part \in DOMAIN document |-> Redact(document[part], ips)]

\* The canonical serialization stands for its digest: equal for equal documents.
payload_sha256(document, redacted) == <<document, redacted>>

\* A document of the measurements, scrubbed if asked for, and of what holds
\* addresses besides.
With(others, row, scrub) ==
  LET measurements == scrub_measurements(measurements_from_row(row), scrub)
  IN  [part \in DOMAIN measurements \cup DOMAIN others |->
         IF part \in DOMAIN others THEN others[part] ELSE measurements[part]]

\* The bundle's document before its second pass.
assembled(row, scrub) ==
  With([target_raw |-> row.target_raw, collector_notes |-> collector_notes(row),
        report_text |-> render_escalation(row)], row, scrub)

\* Mutant: there is no second pass.
build_bundle_once(row, scrub) ==
  LET redacted == scrub /\ hits(measurements_from_row(row)) # {}
      document == assembled(row, scrub)
  IN  [kind |-> "bundle", document |-> document, redacted |-> redacted,
       integrity |-> payload_sha256(document, redacted)]

\* The second pass removes what was found from every part, and only then is the
\* digest taken.
build_bundle(row, scrub) ==
  LET found    == hits(measurements_from_row(row))
      redacted == scrub /\ found # {}
      document == redact_everywhere(assembled(row, scrub), IF scrub THEN found ELSE {})
  IN  [kind |-> "bundle", document |-> document, redacted |-> redacted,
       integrity |-> payload_sha256(document, redacted)]

verify_bundle(bundle) ==
  bundle.integrity = payload_sha256(bundle.document, bundle.redacted)

\* A fixture holds the live measurements, the notes inside them.
build_fixture(row, scrub) ==
  [kind     |-> "fixture",
   document |-> With([target_raw |-> row.target_raw,
                      collector_notes |-> collector_notes(row)], row, scrub)]
=============================================================================
