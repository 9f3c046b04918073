------------------------------- MODULE Config -------------------------------
(***************************************************************************)
(* The configuration file as load_config finds it, each time anew.  A file *)
(* that is missing or is no TOML gives the defaults; one that can be read  *)
(* but holds a value that is of the wrong type or out of range ends the    *)
(* program.  A setting that is not in the file keeps its default, and what *)
(* is validated is the mixture.                                            *)
(***************************************************************************)
EXTENDS Integers

Absent == -1
Scalar == -2      \* not an array

\* The settings whose values matter; the other numbers are in range or not.
Settings ==
  [control_hosts   : Nat \cup {Absent, Scalar},      \* how many
   control_quorum  : Nat \cup {Absent},
   numbers         : {"in_range", "out_of_range", "not_a_number"},
   tls_verify_bool : BOOLEAN,
   vantage_url     : {"absent", "", "http", "https", "malformed"},
   captive_url     : {"absent", "", "http", "https"}]

NoFile == [vantage_url |-> "none"]

Unparsable == [vantage_url |-> "unparsable"]

Defaults == [control_hosts |-> 4, control_quorum |-> 3,
             vantage_url |-> "none", captive_check |-> TRUE]

Exits == [vantage_url |-> "exit"]

OrDefault(value, default) == IF value = Absent THEN default ELSE value

\* A malformed URL begins with https:// like a good one.
validates(file, cfg) ==
  /\ cfg.control_quorum \in 1..cfg.control_hosts
  /\ file.numbers = "in_range"
  /\ file.vantage_url \in {"absent", "https", "malformed"}
  /\ file.captive_url # "https"

load_config(file) ==
  IF file \in {NoFile, Unparsable} THEN Defaults
  ELSE LET cfg == [control_hosts  |-> OrDefault(file.control_hosts, Defaults.control_hosts),
                   control_quorum |-> OrDefault(file.control_quorum, Defaults.control_quorum),
                   vantage_url    |-> IF file.vantage_url = "absent" THEN "none"
                                      ELSE file.vantage_url,
                   captive_check  |-> file.captive_url # ""]
       IN  IF /\ file.control_hosts # Scalar
              /\ file.tls_verify_bool
              /\ validates(file, cfg)
           THEN cfg ELSE Exits
=============================================================================
