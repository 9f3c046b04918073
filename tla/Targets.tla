------------------------------ MODULE Targets ------------------------------
(***************************************************************************)
(* What the user names as a target: how it is parsed, what is refused, and *)
(* which probe a parsed target gets.  Text is abstracted to its form: with *)
(* or without "://", the scheme, the kind of host, the kind of port.       *)
(***************************************************************************)

RawTarget ==
  [url    : BOOLEAN,
   scheme : {"http", "https", "other"},            \* looked at in a URL only
   host   : {"name", "ipv4", "ipv6", "malformed"}, \* malformed: or empty
   port   : {"absent", "empty", "legal", "illegal"}]

Invalid == [kind |-> "invalid"]

\* Mutant: a port that cannot be used is dropped.
parse_target_lenient(raw) ==
  IF raw.host \in {"ipv6", "malformed"} THEN Invalid
  ELSE [kind   |-> IF raw.url THEN "url" ELSE IF raw.host = "ipv4" THEN "ip" ELSE "host",
        host   |-> raw.host,
        port   |-> raw.port = "legal",
        scheme |-> IF raw.url THEN raw.scheme ELSE "none"]

\* A URL is split by urlsplit, anything else at its first colon; a colon with
\* nothing behind it is no port.  An IPv6 address is no hostname in a URL, and
\* without one its second group is no port.
parse_target(raw) ==
  IF raw.host \in {"ipv6", "malformed"} \/ raw.port = "illegal" THEN Invalid
  ELSE [kind   |-> IF raw.url THEN "url" ELSE IF raw.host = "ipv4" THEN "ip" ELSE "host",
        host   |-> raw.host,
        port   |-> raw.port = "legal",
        scheme |-> IF raw.url THEN raw.scheme ELSE "none"]

\* A web scheme is probed by HTTP, any other port by a connect, a bare host by ping.
probe_method(parsed) ==
  CASE parsed.scheme \in {"http", "https"} -> "http"
    [] parsed.scheme \notin {"http", "https"} /\ parsed.port -> "tcp"
    [] OTHER -> "ping"

is_literal(parsed) == parsed.host = "ipv4"
=============================================================================
