--------------------------- MODULE MCDiagnoseRun ---------------------------
\* Three control hosts, one of them a name; a web target, an address to ping and
\* a port to connect to, which differ in what they skip; and command lines that
\* are refused.
EXTENDS DiagnoseRun

MCHosts == <<"8.8.8.8", "8.8.4.4", "cloudflare.com">>
MCNames == {"cloudflare.com"}

Line(history, target, skip_path, skip_captive) ==
  [history |-> history, target |-> target,
   skip_path |-> skip_path, skip_captive |-> skip_captive]

Host(host, port) == [url |-> FALSE, scheme |-> "other", host |-> host, port |-> port]
Url(scheme, port) == [url |-> TRUE, scheme |-> scheme, host |-> "name", port |-> port]

MCWeb  == Line("absent", Url("https", "empty"), FALSE, FALSE)
MCPing == Line("absent", Host("ipv4", "absent"), TRUE, TRUE)
MCPort == Line("absent", Url("other", "legal"), TRUE, FALSE)

MCLines ==
  {MCWeb, MCPing, MCPort,
   Line("absent", Host("ipv4", "illegal"), TRUE, TRUE),
   Line("absent", NoTarget, FALSE, FALSE),
   Line("positive", NoTarget, FALSE, FALSE),
   Line("not_positive", MCPing.target, FALSE, FALSE)}

Job(method, literal, line_) ==
  [method |-> method, is_literal |-> literal,
   skip_path |-> line_.skip_path, skip_captive |-> line_.skip_captive]

MCJobs == {Job("http", FALSE, MCWeb), Job("ping", TRUE, MCPing), Job("tcp", FALSE, MCPort)}

MCFlags == {"absent", "", "https", "http", "malformed"}

File(hosts, vantage) ==
  [control_hosts |-> hosts, control_quorum |-> Absent, numbers |-> "in_range",
   tls_verify_bool |-> TRUE, vantage_url |-> vantage, captive_url |-> "absent"]

\* Without a vantage, with one, and two that are refused: an http vantage, and
\* hosts too few for the default quorum.
MCFiles == {NoFile, Unparsable, File(Absent, "absent"), File(3, "https"),
            File(Absent, "malformed"), File(Absent, "http"), File(2, "https")}

\* A sound configuration.
MCSoundFiles == {NoFile, File(3, "https")}
=============================================================================
