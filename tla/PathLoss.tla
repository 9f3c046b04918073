------------------------------ MODULE PathLoss ------------------------------
(***************************************************************************)
(* When a traceroute shows loss that persists.  A hop table is a sequence  *)
(* of hops, each with its TTL index and its loss; a hop whose line could   *)
(* not be parsed is simply missing, so indices increase but may skip.      *)
(*                                                                         *)
(* The machine takes one trace after another, so that a step relates any   *)
(* two of them.                                                            *)
(***************************************************************************)
EXTENDS Integers, Sequences, FiniteSets

CONSTANTS
  MaxHops,          \* the traceroute's TTL limit
  Losses,           \* the loss percentages a hop may show
  path_loss_pct     \* the threshold

ASSUME PathAssumption ==
  /\ MaxHops \in Nat
  /\ Losses \subseteq 0..100
  /\ path_loss_pct \in 0..100

\* A parsed trace, as a partial function from the hop's index to its loss.
Traces == UNION {[indices -> Losses] : indices \in SUBSET (1..MaxHops)}

VARIABLES
  primary,      \* the hop table of the latest run
  completed     \* was it a usable trace?

pathVars == <<primary, completed>>

-----------------------------------------------------------------------------
\* The normalizer

lossy(hops, idx) == idx \in DOMAIN hops /\ hops[idx] > path_loss_pct

last_index(hops) ==
  CHOOSE idx \in DOMAIN hops : \A other \in DOMAIN hops : other <= idx

\* Mutant: a single lossy hop is enough.
has_persistent_loss_single(hops) ==
  \E idx \in DOMAIN hops : idx >= 2 /\ lossy(hops, idx)

\* Mutant: hop 1 is looked at too.
has_persistent_loss_from_one(hops) ==
  /\ Cardinality(DOMAIN hops) >= 2
  /\ \E idx \in DOMAIN hops :
       lossy(hops, idx) /\ (idx = last_index(hops) \/ lossy(hops, idx + 1))

\* Mutant: a lossy hop 1 is taken to explain the rest.
has_persistent_loss_excused(hops) ==
  /\ Cardinality(DOMAIN hops) >= 2 /\ ~lossy(hops, 1)
  /\ \E idx \in DOMAIN hops :
       lossy(hops, idx) /\ (idx = last_index(hops) \/ lossy(hops, idx + 1))

has_persistent_loss(hops) ==
  /\ Cardinality(DOMAIN hops) >= 2
  /\ \E idx \in DOMAIN hops :
       /\ idx >= 2
       /\ lossy(hops, idx)
       /\ \/ idx = last_index(hops)
          \/ lossy(hops, idx + 1)
          \/ lossy(hops, idx + 2)

\* An incomplete trace gives no signal.
packet_loss_after_hop1(hops, is_completed) ==
  is_completed /\ has_persistent_loss(hops)

\* collect_path: fewer than two parsed hops, or a timeout, is no trace.
collect_path_completed(hops) == Cardinality(DOMAIN hops) >= 2

flagged == packet_loss_after_hop1(primary, completed)

-----------------------------------------------------------------------------
\* The traces of successive runs

PathInit ==
  /\ primary \in Traces
  /\ completed = collect_path_completed(primary)

Trace ==
  /\ primary' \in Traces
  /\ completed' = collect_path_completed(primary')

\* The trace exceeded its time limit: what it had printed is discarded.
TimeOut ==
  /\ primary' = <<>>
  /\ completed' = FALSE

PathNext == Trace \/ TimeOut

-----------------------------------------------------------------------------
\* Properties

Same(first, second, indices) ==
  \A idx \in indices : lossy(first, idx) = lossy(second, idx)

\* A router that drops its own replies is not a fault: with a clean destination,
\* and no two lossy hops within two indices of each other beyond hop 1, no loss
\* is reported (normalizer.py:7-12, 99-110).
IsolatedHopIsIgnored ==
  /\ completed
  /\ ~lossy(primary, last_index(primary))
  /\ \A i, j \in DOMAIN primary \ {1} :
       i < j /\ j <= i + 2 => ~(lossy(primary, i) /\ lossy(primary, j))
  => ~flagged

\* What hop 1 loses never changes the verdict (normalizer.py:87-88): the LAN is
\* judged by its own ping.
HopOneIsIrrelevant ==
  [][DOMAIN primary' = DOMAIN primary /\ completed' = completed
       /\ Same(primary, primary', DOMAIN primary \ {1})
     => flagged' = flagged]_pathVars

\* More loss at a hop never withdraws a report, less never raises one: the
\* look-ahead does not mistake a worse trace for a better one.
WorseNeverClears ==
  [][DOMAIN primary' = DOMAIN primary
       /\ (\A idx \in DOMAIN primary : primary[idx] <= primary'[idx])
       /\ flagged
     => flagged']_pathVars

\* Losing the record of hops other than the destination cannot turn a clean
\* trace into a lossy one: an absent hop is not a lossy hop
\* (normalizer.py:99-102).  TECHNICAL.md:65 says the opposite: there the absent hop
\* counts as lossy.
AbsentIsNotLossy ==
  [][completed /\ completed'
       /\ DOMAIN primary' \subseteq DOMAIN primary
       /\ (\A idx \in DOMAIN primary' : primary'[idx] = primary[idx])
       /\ last_index(primary') = last_index(primary)
       /\ ~flagged
     => ~flagged']_pathVars
=============================================================================
