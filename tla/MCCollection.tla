---------------------------- MODULE MCCollection ----------------------------
\* Three control hosts, one of them a name.  The jobs differ in the kind of
\* target and in what they skip.
EXTENDS Collection

MCHosts == <<"8.8.8.8", "8.8.4.4", "cloudflare.com">>
MCHostsWithCanary == <<"1.1.1.1", "8.8.8.8", "cloudflare.com">>
MCNames == {"cloudflare.com"}

Job(method, is_literal, skip_path, skip_captive) ==
  [method |-> method, is_literal |-> is_literal,
   skip_path |-> skip_path, skip_captive |-> skip_captive]

MCJobs == {Job("http", FALSE, FALSE, FALSE), Job("ping", TRUE, TRUE, TRUE),
           Job("tcp", FALSE, TRUE, FALSE)}
=============================================================================
