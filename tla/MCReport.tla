------------------------------ MODULE MCReport ------------------------------
\* Traces of up to five hops, long enough for a gap of two between a lossy hop
\* and the last; a hop has answered all, some or none of its probes.
EXTENDS Escalate

MCLosses == {0, 33, 100}

\* Behind a router of one's own, or with a public address on the machine.
MCRuns ==
  {given \in [gateway : {"lan", "wan"}, route_known : BOOLEAN, dns_ok : BOOLEAN,
              literal : BOOLEAN, reached : BOOLEAN,
              failing : {{}, {"wan"}, {"lan", "canary"}, {"wan", "canary", "dest"}}] :
     given.literal => given.dns_ok}

MCEscalations ==
  [found : BOOLEAN, no_file : BOOLEAN, output : Names,
   export : Names \cup {"absent", "empty"}, scrub : BOOLEAN]

MCCaptures == [valid : BOOLEAN, no_scrub : BOOLEAN, allow_public_ips : BOOLEAN]
=============================================================================
