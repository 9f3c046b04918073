----------------------------- MODULE WatchProofs -----------------------------
(***************************************************************************)
(* What Watch guarantees for every interval, every number of polls, and    *)
(* whatever probes and store take: the panel and the log tell one story,   *)
(* and polls keep their distance.                                          *)
(***************************************************************************)
EXTENDS Watch, SequenceTheorems, TLAPS

\* A sequence of the numbers that end at n is a suffix of the count up to n.
LEMMA SuffixOfCount ==
  ASSUME NEW n \in Nat, NEW h \in Seq(Nat), Len(h) <= n,
         \A i \in 1..Len(h) : h[i] = (n - Len(h)) + i
  PROVE  IsSuffix(h, [i \in 1..n |-> i])
<1> DEFINE count == [i \in 1..n |-> i]
           m     == Len(h)
<1>1. m \in Nat /\ m <= n /\ count \in Seq(Nat) /\ Len(count) = n
  OBVIOUS
<1>2. /\ Reverse(h) \in Seq(Nat) /\ Len(Reverse(h)) = m
      /\ \A i \in 1..m : Reverse(h)[i] = n - i + 1
  BY <1>1 DEF Reverse
<1>3. /\ Reverse(count) \in Seq(Nat) /\ Len(Reverse(count)) = n
      /\ \A i \in 1..n : Reverse(count)[i] = n - i + 1
  BY <1>1 DEF Reverse
<1> HIDE DEF count, m
<1>4. SubSeq(Reverse(h), 1, m) = SubSeq(Reverse(count), 1, m)
  <2>1. /\ SubSeq(Reverse(h), 1, m) \in Seq(Nat)
        /\ Len(SubSeq(Reverse(h), 1, m)) = m
        /\ \A i \in 1..m : SubSeq(Reverse(h), 1, m)[i] = n - i + 1
    BY <1>1, <1>2
  <2>2. /\ SubSeq(Reverse(count), 1, m) \in Seq(Nat)
        /\ Len(SubSeq(Reverse(count), 1, m)) = m
        /\ \A i \in 1..m : SubSeq(Reverse(count), 1, m)[i] = n - i + 1
    <3>1. \A i \in 1..m : Reverse(count)[i] \in Nat
      BY <1>1, <1>3
    <3>2. QED
      BY <1>1, <1>3, <3>1, SubSeqProperties
  <2>3. QED
    BY <2>1, <2>2, SeqEqual
<1>5. QED
  BY <1>1, <1>2, <1>3, <1>4 DEF IsSuffix, IsPrefix, count, m

\* The number after n carries on a sequence of the numbers that end at n.
LEMMA CountGrows ==
  ASSUME NEW S, NEW n \in Nat, NEW h \in Seq(S), n + 1 \in S,
         \A i \in 1..Len(h) : h[i] = (n - Len(h)) + i
  PROVE  /\ Len(Append(h, n + 1)) = Len(h) + 1
         /\ \A i \in 1..Len(Append(h, n + 1)) :
              Append(h, n + 1)[i] = ((n + 1) - Len(Append(h, n + 1))) + i
<1>1. /\ Len(Append(h, n + 1)) = Len(h) + 1
      /\ \A i \in 1..Len(h) : Append(h, n + 1)[i] = h[i]
      /\ Append(h, n + 1)[Len(h) + 1] = n + 1
  BY AppendProperties
<1>2. Len(h) \in Nat /\ ((n + 1) - (Len(h) + 1)) = n - Len(h)
  OBVIOUS
<1>3. \A i \in 1..Len(h) : Append(h, n + 1)[i] = (n - Len(h)) + i
  BY <1>1
<1>4. QED
  BY <1>1, <1>2, <1>3

-----------------------------------------------------------------------------
(* Panel and log.  Where the loop stands tells whether the poll under way has
   been counted, and whether it is on record. *)

\* Types of the clocks, which TypeOK leaves to Cadence.
ClocksOK == elapsed \in Nat /\ gap \in Nat

Counted ==
  /\ poll_num \in Nat
  /\ pc \in {"poll", "sleep", "finished", "no_tool", "remember", "forget"} => poll_num = started
  /\ pc \in {"store", "count"} => started = poll_num + 1
  /\ pc = "store" => persist

\* The panel holds consecutive polls, up to the last one remembered.
Shows(last) ==
  /\ last \in Nat /\ Len(history) <= last
  /\ \A i \in 1..Len(history) : history[i] = (last - Len(history)) + i

\* How many, and up to which: the ninth stays until it is forgotten.
Remembered(last) ==
  /\ Len(history) \in {Capped(last), Capped(last - 1) + 1}
  /\ pc = "remember" => last = poll_num - 1 /\ Len(history) = Capped(last)
  /\ pc = "forget" => last = poll_num /\ Len(history) = Capped(last - 1) + 1
  /\ pc \notin {"remember", "forget", "interrupted"} =>
       last = poll_num /\ Len(history) = Capped(last)

\* The log is at most one ahead of the panel.
Logged(last) ==
  persist =>
    /\ Len(log) \in {last, last + 1}
    /\ pc \in {"count", "remember", "forget"} => Len(log) = started
    /\ ~BeingNoted => Len(log) = last

PanelInv ==
  \E last \in {poll_num - 1, poll_num} : Shows(last) /\ Remembered(last) /\ Logged(last)

LogInv == persist => \A i \in 1..Len(log) : log[i] = i

\* The inductive invariant of the loop (watch.py:130-180).
WatchInv == TypeOK /\ ClocksOK /\ Counted /\ PanelInv /\ LogInv

\* Before the first poll panel and log are empty.
LEMMA WatchInvInit == Init => WatchInv
<1> SUFFICES ASSUME Init PROVE WatchInv
  OBVIOUS
<1>1. TypeOK /\ ClocksOK /\ Counted /\ LogInv
  BY WatchAssumption DEF Init, TypeOK, ClocksOK, Counted, LogInv, Stopped
<1>2. Shows(poll_num) /\ Remembered(poll_num) /\ Logged(poll_num)
  BY DEF Init, Shows, Remembered, Logged, Capped, HistoryCap, BeingNoted
<1>3. QED
  BY <1>1, <1>2 DEF WatchInv, PanelInv

\* Steps that neither count nor note a poll leave the panel as it is.
LEMMA PanelStays ==
  ASSUME WatchInv, UNCHANGED <<poll_num, history, log, started>>,
         \/ pc' \in {"interrupted", pc}
         \/ ~BeingNoted /\ ~BeingNoted'
         \/ ~BeingNoted /\ pc' = "count" /\ ~persist
  PROVE  PanelInv'
<1>1. PICK last \in {poll_num - 1, poll_num} : Shows(last) /\ Remembered(last) /\ Logged(last)
  BY DEF WatchInv, PanelInv
<1>2. Shows(last)'
  BY <1>1 DEF Shows
<1>3. Remembered(last)'
  BY <1>1 DEF Remembered, BeingNoted
<1>4. Logged(last)'
  BY <1>1 DEF Logged, BeingNoted
<1>5. QED
  BY <1>1, <1>2, <1>3, <1>4 DEF PanelInv

\* No step of the loop takes panel and log apart (watch.py:130-180).
LEMMA WatchInvInductive ==
  ASSUME WatchInv, [Next]_vars
  PROVE  WatchInv'
<1> USE WatchAssumption DEF TypeOK, ClocksOK, Counted, LogInv, Stopped
<1>a. PICK last \in {poll_num - 1, poll_num} : Shows(last) /\ Remembered(last) /\ Logged(last)
  BY DEF WatchInv, PanelInv
<1>1. CASE Poll
  <2>1. /\ started' = started + 1 /\ started' \in 0..max_polls /\ started = poll_num
        /\ pc' = IF persist THEN "store" ELSE "count"
        /\ elapsed' \in Nat /\ gap' \in Nat
        /\ UNCHANGED <<poll_num, log, history, remaining>> /\ pc = "poll"
    BY <1>1 DEF WatchInv, Poll
  <2>2. (TypeOK /\ ClocksOK /\ Counted /\ LogInv)'
    BY <2>1 DEF WatchInv
  <2>3. (Shows(last) /\ Remembered(last) /\ Logged(last))'
    BY <1>a, <2>1 DEF Shows, Remembered, Logged, BeingNoted
  <2>4. QED
    BY <1>a, <2>1, <2>2, <2>3 DEF WatchInv, PanelInv
<1>2. CASE Finish \/ ProbesFail \/ StoreFails \/ SleepSecond \/ SleepRest \/ Interrupt
  <2>1. UNCHANGED <<poll_num, history, log, started>>
    BY <1>2 DEF Finish, ProbesFail, StoreFails, SleepSecond, SleepRest, Interrupt
  <2>2. \/ pc' \in {"interrupted", pc}
        \/ ~BeingNoted /\ ~BeingNoted'
    BY <1>2 DEF Finish, ProbesFail, StoreFails, SleepSecond, SleepRest, Interrupt, BeingNoted
  <2>3. PanelInv'
    BY <2>1, <2>2, PanelStays
  <2>4. (TypeOK /\ ClocksOK /\ Counted /\ LogInv)'
    BY <1>2 DEF WatchInv, Finish, ProbesFail, StoreFails, SleepSecond, SleepRest, Interrupt,
       Second
  <2>5. QED
    BY <2>3, <2>4 DEF WatchInv
<1>3. CASE Store
  <2>1. /\ pc = "store" /\ pc' = "count" /\ log' = Append(log, started)
        /\ UNCHANGED <<poll_num, history, started, elapsed, remaining>> /\ gap' \in Nat
        /\ persist /\ started = poll_num + 1 /\ started \in 1..max_polls
    BY <1>3 DEF WatchInv, Store
  <2>2. /\ log' \in Seq(1..max_polls) /\ Len(log') = Len(log) + 1
        /\ \A i \in 1..Len(log) : log'[i] = log[i]
        /\ log'[Len(log) + 1] = started
    BY <2>1, AppendProperties DEF WatchInv
  <2>3. Len(log) = last /\ last = poll_num
    BY <1>a, <2>1 DEF Logged, Remembered, BeingNoted
  <2>4. (TypeOK /\ ClocksOK /\ Counted /\ LogInv)'
    BY <2>1, <2>2, <2>3 DEF WatchInv
  <2>5. (Shows(last) /\ Remembered(last) /\ Logged(last))'
    BY <1>a, <2>1, <2>2, <2>3 DEF Shows, Remembered, Logged, BeingNoted
  <2>6. QED
    BY <1>a, <2>1, <2>4, <2>5 DEF WatchInv, PanelInv
<1>4. CASE Count
  <2>1. /\ pc = "count" /\ pc' = "remember" /\ poll_num' = poll_num + 1
        /\ UNCHANGED <<log, history, started, elapsed, remaining, gap>>
        /\ started = poll_num + 1 /\ last = poll_num
    BY <1>4, <1>a DEF WatchInv, Count, Remembered
  <2>2. (TypeOK /\ ClocksOK /\ Counted /\ LogInv)'
    BY <2>1 DEF WatchInv
  <2>3. (Shows(last) /\ Remembered(last) /\ Logged(last))'
    BY <1>a, <2>1 DEF Shows, Remembered, Logged, BeingNoted
  <2>4. QED
    BY <2>1, <2>2, <2>3 DEF WatchInv, PanelInv
<1>5. CASE Remember
  <2>1. /\ pc = "remember" /\ pc' = "forget" /\ history' = Append(history, started)
        /\ UNCHANGED <<poll_num, log, started, elapsed, remaining, gap>>
        /\ started = poll_num /\ poll_num = last + 1 /\ last \in Nat
        /\ started \in 1..max_polls
    BY <1>5, <1>a DEF WatchInv, Remember, Remembered, Shows
  <2>2. /\ history' \in Seq(1..max_polls) /\ Len(history') = Len(history) + 1
        /\ \A i \in 1..Len(history') :
             history'[i] = ((last + 1) - Len(history')) + i
    <3>1. /\ history \in Seq(1..max_polls) /\ last + 1 \in 1..max_polls
          /\ history' = Append(history, last + 1)
          /\ \A i \in 1..Len(history) : history[i] = (last - Len(history)) + i
      BY <1>a, <2>1 DEF WatchInv, Shows
    <3>2. /\ Len(history') = Len(history) + 1
          /\ \A i \in 1..Len(history') : history'[i] = ((last + 1) - Len(history')) + i
      BY <2>1, <3>1, CountGrows
    <3>3. QED
      BY <3>1, <3>2, AppendProperties
  <2>3. (TypeOK /\ ClocksOK /\ Counted /\ LogInv)'
    BY <2>1, <2>2 DEF WatchInv
  <2>4. (Shows(poll_num) /\ Remembered(poll_num) /\ Logged(poll_num))'
    <3>1. Len(history) = Capped(last) /\ (persist => Len(log) = started)
      BY <1>a, <2>1 DEF Remembered, Logged
    <3>2. Len(history) \in Nat /\ Len(history) <= last
      BY <1>a DEF Shows
    <3>3. QED
      BY <2>1, <2>2, <3>1, <3>2 DEF Shows, Remembered, Logged, BeingNoted
  <2>5. QED
    BY <2>3, <2>4 DEF WatchInv, PanelInv
<1>6. CASE Forget
  <2>1. /\ pc = "forget" /\ pc' \in {"poll", "sleep"} /\ last = poll_num
        /\ history' = IF Len(history) > HistoryCap THEN Tail(history) ELSE history
        /\ UNCHANGED <<poll_num, log, started, elapsed, gap>> /\ remaining' \in 0..interval
        /\ started = poll_num /\ Len(history) = Capped(last - 1) + 1
        /\ history \in Seq(1..max_polls)
    BY <1>6, <1>a DEF WatchInv, Forget, Remembered
  <2>2. /\ history' \in Seq(1..max_polls) /\ Len(history') = Capped(last)
        /\ \A i \in 1..Len(history') : history'[i] = (last - Len(history')) + i
    <3>1. CASE Len(history) > HistoryCap
      <4>1. history # <<>> /\ history' = Tail(history)
        BY <2>1, <3>1 DEF HistoryCap
      <4>2. /\ Tail(history) \in Seq(1..max_polls)
            /\ Len(Tail(history)) = Len(history) - 1
            /\ \A i \in 1..Len(Tail(history)) : Tail(history)[i] = history[i + 1]
        BY <2>1, <4>1, HeadTailProperties
      <4>3. last \in Nat /\ Len(history) = HistoryCap + 1 /\ Capped(last) = HistoryCap
        BY <1>a, <2>1, <3>1 DEF Shows, Capped, HistoryCap
      <4>4. \A i \in 1..Len(history') : i + 1 \in 1..Len(history)
        BY <4>1, <4>2, <4>3 DEF HistoryCap
      <4>5. \A i \in 1..Len(history') : history'[i] = (last - Len(history)) + (i + 1)
        BY <1>a, <4>1, <4>2, <4>4 DEF Shows
      <4>6. Len(history') = HistoryCap /\ Len(history) = Len(history') + 1
        BY <4>1, <4>2, <4>3 DEF HistoryCap
      <4>7. \A i \in 1..Len(history') : history'[i] = (last - Len(history')) + i
        BY <4>3, <4>5, <4>6 DEF HistoryCap
      <4>8. QED
        BY <4>1, <4>2, <4>3, <4>6, <4>7
    <3>2. CASE ~(Len(history) > HistoryCap)
      <4>1. history' = history /\ last \in Nat /\ Len(history) \in Nat
        BY <1>a, <2>1, <3>2 DEF Shows
      <4>2. Len(history) = Capped(last)
        BY <2>1, <3>2, <4>1 DEF Capped, HistoryCap
      <4>3. QED
        BY <1>a, <2>1, <4>1, <4>2 DEF Shows
    <3>3. QED
      BY <3>1, <3>2
  <2>3. (TypeOK /\ ClocksOK /\ Counted /\ LogInv)'
    BY <2>1, <2>2 DEF WatchInv
  <2>4. (Shows(last) /\ Remembered(last) /\ Logged(last))'
    <3>1. persist => Len(log) = last
      BY <1>a, <2>1 DEF Logged
    <3>2. last \in Nat /\ Capped(last) <= last
      BY <1>a DEF Shows, Capped, HistoryCap
    <3>3. Shows(last)'
      BY <2>2, <3>2 DEF Shows
    <3>4. Remembered(last)'
      BY <2>1, <2>2 DEF Remembered
    <3>5. Logged(last)'
      BY <2>1, <3>1 DEF Logged, BeingNoted
    <3>6. QED
      BY <3>3, <3>4, <3>5
  <2>5. QED
    BY <2>1, <2>3, <2>4 DEF WatchInv, PanelInv
<1>7. CASE UNCHANGED vars
  <2>1. PanelInv'
    BY <1>7, PanelStays DEF vars
  <2>2. QED
    BY <1>7, <2>1 DEF vars, WatchInv
<1>8. QED
  BY <1>1, <1>2, <1>3, <1>4, <1>5, <1>6, <1>7 DEF Next, Step

\* The panel shows consecutive polls up to the last one remembered, the log holds
\* every poll and is at most one ahead, and only a Ctrl-C that falls while a poll is
\* being noted leaves them apart (watch.py:151-164).
THEOREM PanelAndLogAgree == Spec => []PanelMatchesLog
<1>1. WatchInv => PanelMatchesLog
  <2> SUFFICES ASSUME WatchInv PROVE PanelMatchesLog
    OBVIOUS
  <2>1. PICK last \in {poll_num - 1, poll_num} : Shows(last) /\ Remembered(last) /\ Logged(last)
    BY DEF WatchInv, PanelInv
  <2>2. IsSuffix(history, [i \in 1..last |-> i])
    <3>1. history \in Seq(Nat)
      BY SeqMonotonic, WatchAssumption, 1..max_polls \subseteq Nat DEF WatchInv, TypeOK
    <3>2. QED
      BY <2>1, <3>1, SuffixOfCount DEF Shows
  <2>3. persist => log = [i \in 1..Len(log) |-> i]
    BY DEF WatchInv, TypeOK, LogInv
  <2>4. /\ Len(history) \in {Capped(last), Capped(last - 1) + 1}
        /\ persist => Len(log) \in {last, last + 1}
        /\ ~BeingNoted => /\ last = poll_num
                          /\ Len(history) = Capped(last)
                          /\ persist => Len(log) = last
    BY <2>1 DEF Remembered, Logged, BeingNoted
  <2>5. QED
    BY <2>1, <2>2, <2>3, <2>4 DEF PanelMatchesLog, WatchInv
<1>2. QED
  BY <1>1, WatchInvInit, WatchInvInductive, PTL DEF Spec

-----------------------------------------------------------------------------
(* The cadence.  gap is what has passed since the poll began: what the probes
   took, what the store took (delay), and what has been slept of the rest. *)

\* Where the loop is in its interval; a last full second may overshoot by less
\* than half of one.
Paced(delay) ==
  /\ pc = "store"  => gap = elapsed /\ delay = 0
  /\ pc \in {"count", "remember", "forget"} => gap = elapsed + delay
  /\ pc = "sleep"  =>
       /\ elapsed <= interval
       /\ \/ remaining > 0 /\ gap + remaining = interval + delay
          \/ remaining = 0 /\ gap >= interval + delay
               /\ 2 * (gap - delay - interval) < Second
  /\ pc = "poll" /\ poll_num > 0 =>
       gap >= Slower + delay /\ 2 * (gap - delay - Slower) < Second

PaceInv == \E delay \in StoreDelays \cup {0} : Paced(delay)

\* No step of the loop breaks the pace (watch.py:166-180).
LEMMA PaceInductive ==
  ASSUME WatchInv, PaceInv, [Next]_vars
  PROVE  PaceInv'
<1> USE WatchAssumption DEF WatchInv, TypeOK, ClocksOK, Counted, Stopped, Slower, Second
<1>1. PICK delay \in StoreDelays \cup {0} : Paced(delay)
  BY DEF PaceInv
<1>2. delay \in Nat /\ 0 \in StoreDelays \cup {0}
  OBVIOUS
<1>3. CASE Poll
  <2>1. Paced(0)'
    BY <1>3 DEF Poll, Paced
  <2>2. QED
    BY <1>2, <2>1 DEF PaceInv
<1>4. CASE Finish \/ ProbesFail \/ StoreFails \/ Interrupt
  <2>1. Paced(delay)'
    BY <1>1, <1>4 DEF Finish, ProbesFail, StoreFails, Interrupt, Paced
  <2>2. QED
    BY <1>1, <2>1 DEF PaceInv
<1>5. CASE Store
  <2>1. PICK d \in StoreDelays : gap' = gap + d
    BY <1>5 DEF Store
  <2>2. Paced(d)'
    BY <1>1, <1>5, <2>1 DEF Store, Paced
  <2>3. QED
    BY <2>2 DEF PaceInv
<1>6. CASE Count \/ Remember \/ Forget
  <2>1. CASE Forget
    <3>1. gap = elapsed + delay
      BY <1>1, <2>1 DEF Forget, Paced
    <3>2. Paced(delay)'
      BY <1>2, <2>1, <3>1 DEF Forget, Paced
    <3>3. QED
      BY <1>1, <3>2 DEF PaceInv
  <2>2. CASE Count \/ Remember
    <3>1. Paced(delay)'
      BY <1>1, <2>2 DEF Count, Remember, Paced
    <3>2. QED
      BY <1>1, <3>1 DEF PaceInv
  <2>3. QED
    BY <1>6, <2>1, <2>2
<1>7. CASE SleepSecond
  <2>1. Paced(delay)'
    BY <1>1, <1>2, <1>7 DEF SleepSecond, Paced
  <2>2. QED
    BY <1>1, <2>1 DEF PaceInv
<1>8. CASE SleepRest
  <2>1. Paced(delay)'
    BY <1>1, <1>2, <1>8 DEF SleepRest, Paced
  <2>2. QED
    BY <1>1, <2>1 DEF PaceInv
<1>9. CASE UNCHANGED vars
  BY <1>1, <1>9 DEF vars, PaceInv, Paced
<1>10. QED
  BY <1>3, <1>4, <1>5, <1>6, <1>7, <1>8, <1>9 DEF Next, Step

\* Whatever probes and store take, the next poll comes neither before the interval
\* nor more than half a second, plus the store's time, after it is due
\* (watch.py:166-180).
THEOREM PollsKeepTheirDistance == Spec => Cadence
<1> DEFINE Kept ==
      pc = "poll" /\ pc' # "poll" /\ poll_num > 0 =>
        /\ gap >= interval
        /\ \E d \in StoreDelays \cup {0} :
             gap - d >= Slower /\ 2 * (gap - d - Slower) < Second
<1>1. Init => PaceInv
  BY WatchAssumption DEF Init, PaceInv, Paced
<1>2. WatchInv /\ PaceInv /\ [Next]_vars => PaceInv'
  BY PaceInductive
<1>3. WatchInv /\ PaceInv => Kept
  <2> SUFFICES ASSUME WatchInv, PaceInv, pc = "poll", poll_num > 0
               PROVE  Kept
    OBVIOUS
  <2>1. PICK delay \in StoreDelays \cup {0} : Paced(delay)
    BY DEF PaceInv
  <2>2. delay \in Nat /\ gap \in Nat /\ elapsed \in Nat /\ interval \in Nat
    BY WatchAssumption DEF WatchInv, ClocksOK
  <2>3. gap - delay >= Slower /\ 2 * (gap - delay - Slower) < Second /\ gap >= interval
    BY <2>1, <2>2 DEF Paced, Slower, Second
  <2>4. QED
    BY <2>3
<1> HIDE DEF Kept
<1>4. Spec => [][Kept]_vars
  BY <1>1, <1>2, <1>3, WatchInvInit, WatchInvInductive, PTL DEF Spec
<1>5. QED
  BY <1>4 DEF Cadence, Kept
=============================================================================
