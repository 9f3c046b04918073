------------------------- MODULE ControlPoolProofs -------------------------
(***************************************************************************)
(* The control-host check for any list of hosts, any quorum, whatever the   *)
(* pings see and in whatever order they end: it waits for its pings, counts *)
(* each of them, and implements ControlCheck.                               *)
(***************************************************************************)
EXTENDS ControlPool, OperatorLemmas, SequenceTheorems

\* At least one host is configured (config.py: the quorum is at least one).
LEMMA HostsAreCounted == Len(control_hosts) \in Nat \ {0} /\ control_quorum \in Nat
BY ConfigAssumption DEF ValidConfig

\* The positions are as many as the hosts.
LEMMA PositionsCounted ==
  /\ Positions \subseteq Nat /\ IsFiniteSet(Positions)
  /\ 1..Cardinality(Positions) = Positions
<1> DEFINE n == Len(control_hosts)
<1>1. n \in Nat \ {0}
  BY HostsAreCounted
<1> HIDE DEF n
<1>2. IsFiniteSet(1..n) /\ Cardinality(1..n) = n
  BY <1>1, FS_Interval
<1>3. QED
  BY <1>1, <1>2 DEF Positions, n

\* A configured host occurs first somewhere.
LEMMA FirstIndexType ==
  \A i \in Positions : FirstIndex(control_hosts[i]) \in Positions
<1> SUFFICES ASSUME NEW i \in Positions PROVE FirstIndex(control_hosts[i]) \in Positions
  OBVIOUS
<1> DEFINE T == {j \in Positions : control_hosts[j] = control_hosts[i]}
<1>1. PICK m \in T : \A k \in T : m <= k
  BY HostsAreCounted, LeastNatural, T \in SUBSET Nat DEF Positions
<1>2. DOMAIN control_hosts = Positions
  BY ConfigAssumption DEF ValidConfig, Positions
<1>3. /\ m \in Positions /\ control_hosts[m] = control_hosts[i]
      /\ \A j \in 1..(m - 1) : control_hosts[j] # control_hosts[i]
  BY <1>1, HostsAreCounted DEF Positions
<1>4. QED
  BY <1>2, <1>3 DEF FirstIndex

\* The sort loses and doubles nothing, and puts hosts into configured order
\* (control_hosts.py:69).
LEMMA SortedArranges ==
  ASSUME NEW taken \in [Positions -> Positions], Len(taken) = Len(control_hosts),
         \A k, l \in Positions : taken[k] = taken[l] => k = l
  PROVE  Sorted(taken) \in Abstract!Arrangements
<1> DEFINE key == [p \in Positions |-> FirstIndex(control_hosts[taken[p]])]
           Before(p, q) == key[p] < key[q] \/ (key[p] = key[q] /\ p < q)
           before == {e \in Positions \X Positions : Before(e[1], e[2])}
           order == Ranked(Positions, before)
<1>1. key \in [Positions -> Int]
  <2>1. ASSUME NEW p \in Positions
        PROVE  FirstIndex(control_hosts[taken[p]]) \in Int
    <3>1. FirstIndex(control_hosts[taken[p]]) \in Positions
      BY FirstIndexType
    <3>2. QED
      BY <3>1, PositionsCounted
  <2>2. QED
    BY <2>1
<1>2. before = {e \in Positions \X Positions :
                  LET p == e[1]  q == e[2]
                      Key(r) == FirstIndex(control_hosts[taken[r]])
                  IN  Key(p) < Key(q) \/ (Key(p) = Key(q) /\ p < q)}
  OBVIOUS
<1> HIDE DEF key
<1>3. \A p, q \in Positions : <<p, q>> \in before <=> Before(p, q)
  OBVIOUS
<1> HIDE DEF before
<1>4. StrictOrder(Positions, before)
  <2>1. \A p \in Positions : <<p, p>> \notin before
    BY <1>1, <1>3, PositionsCounted
  <2>2. ASSUME NEW p \in Positions, NEW q \in Positions, p # q
        PROVE  <<p, q>> \in before \/ <<q, p>> \in before
    BY <1>1, <1>3, <2>2, PositionsCounted
  <2>3. ASSUME NEW p \in Positions, NEW q \in Positions, NEW r \in Positions,
               <<p, q>> \in before, <<q, r>> \in before
        PROVE  <<p, r>> \in before
    <3>1. Before(p, q) /\ Before(q, r)
      BY <1>3, <2>3
    <3>2. /\ key[p] \in Int /\ key[q] \in Int /\ key[r] \in Int
          /\ p \in Nat /\ q \in Nat /\ r \in Nat
      BY <1>1, PositionsCounted
    <3>3. \A a, b, c, x, y, z \in Int :
            (a < b \/ (a = b /\ x < y)) /\ (b < c \/ (b = c /\ y < z))
              => (a < c \/ (a = c /\ x < z))
      OBVIOUS
    <3>4. Before(p, r)
      BY <3>1, <3>2, <3>3
    <3>5. QED
      BY <1>3, <3>4
  <2>4. QED
    BY <2>1, <2>2, <2>3 DEF StrictOrder
<1>5. /\ order \in [Positions -> Positions]
      /\ \A i, j \in Positions : i < j => <<order[i], order[j]>> \in before
  BY <1>4, PositionsCounted, RankedSorts
<1> HIDE DEF order
<1>6. ASSUME NEW i \in Positions, NEW j \in Positions, i # j
      PROVE  order[i] # order[j]
  <2>1. i < j \/ j < i
    BY <1>6, PositionsCounted
  <2>2. QED
    BY <1>4, <1>5, <2>1 DEF StrictOrder
<1>7. Sorted(taken) = [k \in Positions |-> taken[order[k]]]
  BY <1>2 DEF Sorted, Positions, order
<1>8. ASSUME NEW i \in Positions, NEW j \in Positions, i < j
      PROVE  key[order[i]] <= key[order[j]]
  <2>1. order[i] \in Positions /\ order[j] \in Positions
    BY <1>5
  <2>2. Before(order[i], order[j])
    BY <1>3, <1>5, <1>8, <2>1
  <2>3. QED
    BY <1>1, <2>1, <2>2
<1>9. \A i, j \in Positions :
        i < j => FirstIndex(control_hosts[taken[order[i]]])
                   <= FirstIndex(control_hosts[taken[order[j]]])
  BY <1>5, <1>8 DEF key
<1> DEFINE f == Sorted(taken)
<1>10. /\ f \in [Positions -> Positions]
       /\ \A i \in Positions : f[i] = taken[order[i]]
  BY <1>5, <1>7
<1> HIDE DEF f
<1>11. \A i, j \in Positions : f[i] = f[j] => i = j
  BY <1>5, <1>6, <1>10
<1>12. \A i, j \in Positions :
         i < j => FirstIndex(control_hosts[f[i]]) <= FirstIndex(control_hosts[f[j]])
  BY <1>9, <1>10
<1>13. f \in Abstract!Arrangements
  <2>1. \A h : Abstract!FirstIndex(h) = FirstIndex(h)
    BY DEF Abstract!FirstIndex, FirstIndex
  <2>2. QED
    BY <1>10, <1>11, <1>12, <2>1 DEF Abstract!Arrangements, Abstract!Positions, Positions
<1>14. QED
  BY <1>13 DEF f

-----------------------------------------------------------------------------
(* The inductive invariant. *)

AllAnswered == \A i \in Positions : outcome[i] \in Pings

SomeFailed == \E i \in Positions : outcome[i] = NoTool

\* A job has an outcome once it is done; what was taken are answers, each once.
JobsInv ==
  /\ \A i \in Positions : job[i] = "done" <=> outcome[i] # Pending
  /\ collected \in Seq(Positions)
  /\ \A k, l \in 1..Len(collected) : collected[k] = collected[l] => k = l
  /\ \A k \in 1..Len(collected) : outcome[collected[k]] \in Pings

\* Where the caller is tells what it has submitted and taken, and why it fails.
CallerInv ==
  /\ pc = "idle" => submitted = 0
  /\ pc = "submitting" => submitted < Len(control_hosts)
  /\ pc = "collecting" => submitted = Len(control_hosts)
  /\ pc = "leaving" => Len(collected) = Len(control_hosts)
  /\ pc \in {"idle", "submitting", "collecting", "leaving", "returned"} => interrupts = 0
  /\ pc \in {"raising", "raised"} /\ interrupts = 0 =>
       submitted = Len(control_hosts) /\ SomeFailed
  /\ pc = "raised" =>
       AllDone \/ interrupts >= 2 \/ (interrupts = 1 /\ SomeFailed)

\* What is returned counts every host's answer.
ResultInv ==
  pc = "returned" =>
    /\ AllAnswered
    /\ \E f \in Abstract!Arrangements :
         controls = control_hosts_slice(Abstract!Results(outcome, f))

\* The inductive invariant of the check (control_hosts.py:63-74).
PoolInv == TypeOK /\ JobsInv /\ CallerInv /\ ResultInv

\* It holds before the check begins.
LEMMA PoolInvInit == Init => PoolInv
BY HostsAreCounted, PoolAssumption
   DEF Init, PoolInv, TypeOK, JobsInv, CallerInv, ResultInv, Positions

\* Who has taken as many results as there are hosts has taken every host's.
LEMMA TakenIsAll ==
  ASSUME PoolInv, Len(collected) = Len(control_hosts)
  PROVE  /\ collected \in [Positions -> Positions]
         /\ AllAnswered /\ AllDone
<1> USE DEF PoolInv, TypeOK, JobsInv
<1>1. collected \in [Positions -> Positions]
  BY DEF Positions
<1>2. IsFiniteSet(Positions)
  BY HostsAreCounted, FS_Interval DEF Positions
<1>3. collected \in Injection(Positions, Positions)
  BY <1>1 DEF Injection, IsInjective, Positions
<1>4. collected \in Surjection(Positions, Positions)
  BY <1>2, <1>3, FS_Injection
<1>5. \A i \in Positions : \E k \in Positions : collected[k] = i
  BY <1>4 DEF Surjection
<1>6. AllAnswered
  BY <1>5 DEF AllAnswered, Positions
<1>7. AllDone
  BY <1>6, PoolAssumption DEF AllAnswered, AllDone
<1>8. QED
  BY <1>1, <1>6, <1>7

\* The results handed over are those of ControlCheck (control_hosts.py:69-74).
LEMMA ReturnsResults ==
  ASSUME PoolInv, LeaveReturning
  PROVE  /\ Sorted(collected) \in Abstract!Arrangements
         /\ controls' = control_hosts_slice(Abstract!Results(outcome, Sorted(collected)))
<1>1. /\ Len(collected) = Len(control_hosts)
      /\ \A k, l \in Positions : collected[k] = collected[l] => k = l
  BY DEF PoolInv, CallerInv, JobsInv, LeaveReturning, Positions
<1>2. collected \in [Positions -> Positions]
  BY <1>1, TakenIsAll
<1>3. Sorted(collected) \in Abstract!Arrangements
  BY <1>1, <1>2, SortedArranges
<1> DEFINE f == Sorted(collected)
<1>4. DOMAIN f = Positions
  BY <1>3 DEF Abstract!Arrangements, Abstract!Positions, Positions
<1>5. controls' = control_hosts_slice(
        [k \in DOMAIN f |-> probe_one(control_hosts[f[k]], outcome[f[k]])])
  BY DEF LeaveReturning
<1> HIDE DEF f
<1>6. [k \in DOMAIN f |-> probe_one(control_hosts[f[k]], outcome[f[k]])]
        = Abstract!Results(outcome, f)
  BY <1>4 DEF Abstract!Results, Abstract!Positions, Positions, Abstract!probe_one,
              probe_one, Abstract!Answered, Answered
<1>7. QED
  BY <1>3, <1>5, <1>6 DEF f

\* No step of the caller or of a job leaves the invariant (control_hosts.py:63-74).
LEMMA PoolInvInductive ==
  ASSUME PoolInv, [Next]_vars
  PROVE  PoolInv'
<1> USE HostsAreCounted, PoolAssumption, PositionsCounted DEF TypeOK
<1>1. CASE Enter
  BY <1>1 DEF Enter, PoolInv, JobsInv, CallerInv, ResultInv
<1>2. CASE Submit
  BY <1>2 DEF Submit, PoolInv, JobsInv, CallerInv, ResultInv, Positions
<1>3. ASSUME NEW i \in Positions, Collect(i)
      PROVE  PoolInv'
  <2>1. CASE outcome[i] = NoTool
    BY <1>3, <2>1 DEF Collect, PoolInv, JobsInv, CallerInv, ResultInv, SomeFailed
  <2>2. CASE outcome[i] # NoTool
    <3>1. /\ collected' = Append(collected, i) /\ collected \in Seq(Positions)
          /\ pc' = IF Len(collected') = Len(control_hosts) THEN "leaving" ELSE pc
          /\ UNCHANGED <<submitted, job, outcome, interrupts, controls>>
          /\ outcome[i] \in Pings
      BY <1>3, <2>2 DEF Collect, PoolInv, JobsInv
    <3>2. \A k \in 1..Len(collected) : collected[k] # i
      BY <1>3, <3>1 DEF Collect, ToSet
    <3>3. /\ collected' \in Seq(Positions) /\ Len(collected') = Len(collected) + 1
          /\ \A k \in 1..Len(collected) : collected'[k] = collected[k]
          /\ collected'[Len(collected) + 1] = i
      BY <3>1, AppendProperties
    <3>4. Len(collected) \in Nat
      BY <3>1
    <3>5. JobsInv'
      BY <3>1, <3>2, <3>3, <3>4 DEF PoolInv, JobsInv
    <3>6. QED
      BY <1>3, <3>1, <3>5 DEF Collect, PoolInv, CallerInv, ResultInv, SomeFailed
  <2>3. QED
    BY <2>1, <2>2
<1>4. CASE LeaveRaising
  BY <1>4 DEF LeaveRaising, PoolInv, JobsInv, CallerInv, ResultInv, AllDone, SomeFailed
<1>5. CASE LeaveReturning
  <2>1. AllAnswered /\ ResultInv'
    BY <1>5, ReturnsResults, TakenIsAll
       DEF LeaveReturning, PoolInv, CallerInv, ResultInv, AllAnswered
  <2>2. QED
    BY <1>5, <2>1 DEF LeaveReturning, PoolInv, JobsInv, CallerInv, AllDone
<1>6. CASE Interrupt
  <2>1. pc = "leaving" => AllDone
    BY TakenIsAll DEF PoolInv, CallerInv
  <2>2. QED
    BY <1>6, <2>1 DEF Interrupt, PoolInv, JobsInv, CallerInv, ResultInv, AllDone, SomeFailed
<1>7. ASSUME NEW i \in Positions, Finish(i)
      PROVE  PoolInv'
  BY <1>7 DEF Finish, PoolInv, JobsInv, CallerInv, ResultInv, AllDone, AllAnswered, SomeFailed
<1>8. CASE UNCHANGED vars
  BY <1>8 DEF vars, PoolInv, JobsInv, CallerInv, ResultInv, AllDone, AllAnswered, SomeFailed
<1>9. QED
  BY <1>1, <1>2, <1>3, <1>4, <1>5, <1>6, <1>7, <1>8 DEF Next, Caller, Ended

\* The invariant holds for every list of hosts (control_hosts.py:46-74).
THEOREM PoolInvHolds == Spec => []PoolInv
BY PoolInvInit, PoolInvInductive, PTL DEF Spec
-----------------------------------------------------------------------------
(* What the invariant gives. *)

\* Nothing but a Ctrl-C during the with-block's wait leaves a ping behind
\* (control_hosts.py:64-67).
THEOREM PoolWaits == Spec => []NoPingLeftBehind
<1>1. PoolInv => NoPingLeftBehind
  BY PoolAssumption
     DEF PoolInv, TypeOK, JobsInv, CallerInv, ResultInv, NoPingLeftBehind,
         AllAnswered, AllDone, SomeFailed
<1>2. QED
  BY <1>1, PoolInvHolds, PTL

\* Putting the results into another order does not change how many are reachable.
LEMMA OrderDoesNotCount ==
  ASSUME NEW f \in Abstract!Arrangements, NEW ok \in [Positions -> BOOLEAN]
  PROVE  Cardinality({i \in Positions : ok[f[i]]}) = Cardinality({i \in Positions : ok[i]})
<1> DEFINE A == {i \in Positions : ok[f[i]]}
           B == {i \in Positions : ok[i]}
           g == [i \in A |-> f[i]]
<1>1. /\ f \in [Positions -> Positions]
      /\ \A i, j \in Positions : f[i] = f[j] => i = j
  BY DEF Abstract!Arrangements, Abstract!Positions, Positions
<1>2. f \in Injection(Positions, Positions)
  BY <1>1 DEF Injection, IsInjective
<1>3. f \in Surjection(Positions, Positions)
  BY <1>2, PositionsCounted, FS_Injection
<1>4. \A j \in Positions : \E i \in Positions : f[i] = j
  BY <1>3 DEF Surjection
<1>5. g \in Bijection(A, B)
  BY <1>1, <1>4 DEF Bijection, Injection, IsInjective, Surjection
<1>6. IsFiniteSet(A)
  BY PositionsCounted, FS_Subset, A \in SUBSET Positions
<1> HIDE DEF A, B, g
<1>7. Cardinality(B) = Cardinality(A)
  BY <1>5, <1>6, FS_Bijection DEF ExistsBijection
<1>8. QED
  BY <1>7 DEF A, B

\* Whatever the order in which the pings end, the quorum is taken over all of
\* them and the results stand in configured order (control_hosts.py:66-71).
THEOREM EveryHostCounts == Spec => []QuorumOverAll
<1>1. PoolInv => QuorumOverAll
  <2> SUFFICES ASSUME PoolInv, pc = "returned" PROVE QuorumOverAll
    BY DEF QuorumOverAll
  <2>1. PICK f \in Abstract!Arrangements :
          controls = control_hosts_slice(Abstract!Results(outcome, f))
    BY DEF PoolInv, ResultInv
  <2> DEFINE results == [i \in Positions |-> probe_one(control_hosts[f[i]], outcome[f[i]])]
             ok == [i \in Positions |-> probe_one(control_hosts[i], outcome[i]).reachable]
  <2>2. Abstract!Results(outcome, f) = results
    BY DEF Abstract!Results, Abstract!Positions, Positions, Abstract!probe_one,
           probe_one, Abstract!Answered, Answered
  <2>3. /\ f \in [Positions -> Positions]
        /\ \A i, j \in Positions :
             i < j => FirstIndex(control_hosts[f[i]]) <= FirstIndex(control_hosts[f[j]])
    BY DEF Abstract!Arrangements, Abstract!Positions, Positions,
           Abstract!FirstIndex, FirstIndex
  <2>4. ok \in [Positions -> BOOLEAN]
    BY DEF probe_one, Answered
  <2>5. /\ DOMAIN results = Positions
        /\ \A i \in Positions : /\ results[i].reachable = ok[f[i]]
                                /\ results[i].host = control_hosts[f[i]]
    BY <2>3 DEF probe_one
  <2>6. \A i \in Positions : ok[i] = probe_one(control_hosts[i], outcome[i]).reachable
    OBVIOUS
  <2> HIDE DEF results, ok
  <2>7. /\ controls.results = results
        /\ controls.all_ok <=>
             Cardinality({i \in Positions : results[i].reachable}) >= control_quorum
    BY <2>1, <2>2, <2>5 DEF control_hosts_slice
  <2>8. Cardinality({i \in Positions : results[i].reachable})
          = Cardinality({i \in Positions : ok[i]})
    <3>1. {i \in Positions : results[i].reachable} = {i \in Positions : ok[f[i]]}
      BY <2>5
    <3>2. QED
      BY <2>4, <3>1, OrderDoesNotCount
  <2>9. {i \in Positions : ok[i]}
          = {i \in Positions : probe_one(control_hosts[i], outcome[i]).reachable}
    BY <2>6
  <2>10. AllAnswered
    BY DEF PoolInv, ResultInv
  <2>11. \A i, j \in Positions :
           i < j => FirstIndex(controls.results[i].host)
                      <= FirstIndex(controls.results[j].host)
    BY <2>3, <2>5, <2>7
  <2>12. QED
    BY <2>7, <2>8, <2>9, <2>10, <2>11 DEF QuorumOverAll, AllAnswered
<1>2. QED
  BY <1>1, PoolInvHolds, PTL

-----------------------------------------------------------------------------
(* The refinement of ControlCheck. *)

Phase ==
  CASE interrupts > 0 -> "interrupted"
    [] interrupts = 0 /\ pc = "idle" -> "idle"
    [] interrupts = 0 /\ pc \in {"returned", "raised"} -> pc
    [] OTHER -> "pinging"

\* A step of the pool is a step of the check, or shows nothing (control_hosts.py:63-74).
LEMMA StepRefines ==
  ASSUME PoolInv, PoolInv', [Next]_vars
  PROVE  [AbstractNext]_(Abstract!controlVars)
<1> DEFINE Stutter == Phase' = Phase /\ UNCHANGED <<outcome, controls>>
<1>1. /\ interrupts > 0 => Phase = "interrupted"
      /\ interrupts = 0 =>
           /\ pc \in {"idle", "returned", "raised"} => Phase = pc
           /\ pc \notin {"idle", "returned", "raised"} => Phase = "pinging"
      /\ interrupts' > 0 => Phase' = "interrupted"
      /\ interrupts' = 0 =>
           /\ pc' \in {"idle", "returned", "raised"} => Phase' = pc'
           /\ pc' \notin {"idle", "returned", "raised"} => Phase' = "pinging"
      /\ interrupts \in Nat /\ interrupts' \in Nat
  BY PoolAssumption DEF PoolInv, TypeOK, Phase
<1>2. Stutter => UNCHANGED Abstract!controlVars
  BY DEF Abstract!controlVars, Phase
<1> HIDE DEF Stutter
<1> USE DEF PoolInv, CallerInv
<1>3. CASE Enter
  <2>1. Phase = "idle" /\ Phase' = "pinging" /\ UNCHANGED <<outcome, controls>>
    BY <1>1, <1>3 DEF Enter
  <2>2. QED
    BY <2>1 DEF Phase, AbstractNext, Abstract!Begin
<1>4. CASE Submit \/ \E i \in Positions : Collect(i)
  <2>1. pc' \notin {"idle", "returned", "raised"} /\ pc \notin {"idle", "returned", "raised"}
          /\ UNCHANGED <<outcome, interrupts, controls>>
    BY <1>4 DEF Submit, Collect
  <2>2. QED
    BY <1>1, <1>2, <2>1 DEF Stutter
<1>5. CASE LeaveRaising
  <2>1. CASE interrupts > 0
    BY <1>1, <1>2, <1>5, <2>1 DEF LeaveRaising, Stutter
  <2>2. CASE interrupts = 0
    <3>1. Phase = "pinging" /\ Phase' = "raised" /\ UNCHANGED <<outcome, controls>>
      BY <1>1, <1>5, <2>2 DEF LeaveRaising
    <3>2. submitted = Len(control_hosts) /\ SomeFailed
      BY <1>5, <2>2 DEF LeaveRaising
    <3>3. \A i \in Positions : outcome[i] # Pending
      BY <1>5, <3>2, HostsAreCounted DEF LeaveRaising, AllDone, TypeOK, JobsInv, Positions
    <3>4. Abstract!Fail
      BY <3>1, <3>2, <3>3
         DEF Phase, Abstract!Fail, Abstract!Settled, Abstract!SomeFailed,
             Abstract!Positions, SomeFailed, Positions
    <3>5. QED
      BY <3>4 DEF AbstractNext
  <2>3. QED
    BY <1>1, <2>1, <2>2
<1>6. CASE LeaveReturning
  <2>1. Phase = "pinging" /\ Phase' = "returned" /\ UNCHANGED outcome
    BY <1>1, <1>6 DEF LeaveReturning
  <2>2. AllAnswered
    BY <1>6, TakenIsAll DEF LeaveReturning
  <2>3. \E f \in Abstract!Arrangements :
          controls' = Abstract!control_hosts_slice(Abstract!Results(outcome, f))
    <3>1. \A results :
            control_hosts_slice(results) = Abstract!control_hosts_slice(results)
      BY DEF control_hosts_slice, Abstract!control_hosts_slice,
             Cardinality, Abstract!Cardinality
    <3>2. QED
      BY <1>6, <3>1, ReturnsResults
  <2>4. Abstract!Settled /\ ~Abstract!SomeFailed
    BY <2>2, PoolAssumption
       DEF AllAnswered, Abstract!Settled, Abstract!SomeFailed, Abstract!Positions, Positions
  <2>5. Abstract!Return
    BY <2>1, <2>3, <2>4 DEF Phase, Abstract!Return
  <2>6. QED
    BY <2>5 DEF AbstractNext
<1>7. CASE Interrupt
  <2>1. UNCHANGED <<outcome, controls>> /\ interrupts' > 0
          /\ pc \notin {"idle", "returned", "raised"}
    BY <1>1, <1>7 DEF Interrupt
  <2>2. CASE interrupts > 0
    BY <1>1, <1>2, <2>1, <2>2 DEF Stutter
  <2>3. CASE interrupts = 0
    BY <1>1, <2>1, <2>3 DEF Phase, AbstractNext, Abstract!Interrupted
  <2>4. QED
    BY <1>1, <2>2, <2>3
<1>8. ASSUME NEW i \in Positions, Finish(i)
      PROVE  AbstractNext
  <2>1. PICK o \in Pings \cup {NoTool} : outcome' = [outcome EXCEPT ![i] = o]
    BY <1>8 DEF Finish
  <2>2. job[i] = "running" /\ outcome[i] = Pending
          /\ UNCHANGED <<pc, interrupts, controls>>
    BY <1>8 DEF Finish, JobsInv
  <2>3. Phase \in {"pinging", "interrupted"} /\ Phase' = Phase
    <3>1. pc # "idle"
      BY <2>2 DEF TypeOK, Positions
    <3>2. pc # "returned"
      BY <2>2, PoolAssumption DEF ResultInv, AllAnswered
    <3>3. pc = "raised" => interrupts > 0
      BY <1>1, <2>2 DEF AllDone
    <3>4. QED
      BY <1>1, <2>2, <3>1, <3>2, <3>3
  <2>4. Abstract!Measure(i, o)
    BY <2>1, <2>2, <2>3 DEF Phase, Abstract!Measure
  <2>5. QED
    BY <2>4 DEF AbstractNext
<1>9. CASE UNCHANGED vars
  BY <1>2, <1>9 DEF vars, Stutter, Phase
<1>10. QED
  BY <1>3, <1>4, <1>5, <1>6, <1>7, <1>8, <1>9 DEF Next, Caller, Ended

\* The pool of threads implements the check: each host's ping on its own, and
\* one result when all have answered (control_hosts.py:46-74).
THEOREM PoolImplementsControlCheck == Spec => ImplementsControlCheck
<1>1. Init => Abstract!ControlInit
  BY DEF Init, Abstract!ControlInit, Abstract!Positions, Abstract!NoControls,
         Positions, NoControls
<1>2. PoolInv /\ PoolInv' /\ [Next]_vars => [AbstractNext]_(Abstract!controlVars)
  BY StepRefines
<1>3. QED
  BY <1>1, <1>2, PoolInvHolds, PTL DEF Spec, ImplementsControlCheck
=============================================================================
