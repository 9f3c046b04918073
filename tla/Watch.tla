------------------------------- MODULE Watch -------------------------------
(***************************************************************************)
(* The watch loop: poll, record, remember, sleep out the interval, repeat. *)
(* Time is counted in ticks of a quarter second; what a poll and its store *)
(* take is the environment's choice.  A poll is named by its number.       *)
(***************************************************************************)
EXTENDS Naturals, Sequences, SequencesExt

CONSTANTS
  interval,        \* interval_s, in ticks
  max_polls,       \* --count
  persist,
  Durations,       \* what the probes of a poll may take
  StoreDelays      \* what opening the store and inserting may take

ASSUME WatchAssumption ==
  /\ interval \in Nat /\ max_polls \in Nat \ {0}
  /\ persist \in BOOLEAN
  /\ Durations \subseteq Nat /\ StoreDelays \subseteq Nat

Second == 4
HistoryCap == 8

VARIABLES
  pc,          \* what the loop does next, or why it stopped
  started,     \* polls begun
  poll_num,    \* polls counted
  log,         \* the polls on record, oldest first
  history,     \* the polls the panel shows, oldest first
  elapsed,     \* what the probes of this poll took
  remaining,   \* of this interval; 0 also where the code goes below it
  gap          \* since the beginning of this poll

vars == <<pc, started, poll_num, log, history, elapsed, remaining, gap>>

Stopped == {"finished", "no_tool", "interrupted", "crashed"}

Init ==
  /\ pc = "poll"
  /\ started = 0 /\ poll_num = 0
  /\ log = <<>> /\ history = <<>>
  /\ elapsed = 0 /\ remaining = 0 /\ gap = 0

\* collect_signals; the loop condition is tested first.
Poll ==
  /\ pc = "poll" /\ poll_num < max_polls
  /\ \E d \in Durations : elapsed' = d /\ gap' = d
  /\ started' = started + 1
  /\ pc' = IF persist THEN "store" ELSE "count"
  /\ UNCHANGED <<poll_num, log, history, remaining>>

Finish ==
  /\ pc = "poll" /\ poll_num >= max_polls
  /\ pc' = "finished"
  /\ UNCHANGED <<started, poll_num, log, history, elapsed, remaining, gap>>

\* A tool that is not installed stops the loop; any other error of the probes
\* leaves it.
ProbesFail ==
  /\ pc = "poll" /\ poll_num < max_polls
  /\ pc' \in {"no_tool", "crashed"}
  /\ UNCHANGED <<started, poll_num, log, history, elapsed, remaining, gap>>

Store ==
  /\ pc = "store"
  /\ log' = Append(log, started)
  /\ \E d \in StoreDelays : gap' = gap + d
  /\ pc' = "count"
  /\ UNCHANGED <<started, poll_num, history, elapsed, remaining>>

\* Nothing catches an error of the store.
StoreFails ==
  /\ pc = "store"
  /\ pc' = "crashed"
  /\ UNCHANGED <<started, poll_num, log, history, elapsed, remaining, gap>>

\* Counted, remembered, and the ninth poll forgotten: three statements, and
\* Ctrl-C may fall between any two of them.
Count ==
  /\ pc = "count"
  /\ poll_num' = poll_num + 1
  /\ pc' = "remember"
  /\ UNCHANGED <<started, log, history, elapsed, remaining, gap>>

Remember ==
  /\ pc = "remember"
  /\ history' = Append(history, started)
  /\ pc' = "forget"
  /\ UNCHANGED <<started, poll_num, log, elapsed, remaining, gap>>

\* Mutant: the oldest poll is dropped one too early.
Forget_early ==
  /\ pc = "forget"
  /\ history' = IF Len(history) >= HistoryCap THEN Tail(history) ELSE history
  /\ remaining' = 0
  /\ pc' = "poll"
  /\ UNCHANGED <<started, poll_num, log, elapsed, gap>>

\* At most eight are kept.  The time the probes took is taken off the interval,
\* the time the store took is not.
Forget ==
  /\ pc = "forget"
  /\ history' = IF Len(history) > HistoryCap THEN Tail(history) ELSE history
  /\ remaining' = IF elapsed > interval THEN 0 ELSE interval - elapsed
  /\ pc' = IF elapsed > interval THEN "poll" ELSE "sleep"
  /\ UNCHANGED <<started, poll_num, log, elapsed, gap>>

\* Whole seconds while more than half a second is left, then the rest.
SleepSecond ==
  /\ pc = "sleep" /\ 2 * remaining > Second
  /\ gap' = gap + Second
  /\ remaining' = IF remaining > Second THEN remaining - Second ELSE 0
  /\ UNCHANGED <<pc, started, poll_num, log, history, elapsed>>

\* Mutant: less than half a second is not worth a sleep.
SleepRest_skipped ==
  /\ pc = "sleep" /\ 2 * remaining <= Second
  /\ remaining' = 0
  /\ pc' = "poll"
  /\ UNCHANGED <<started, poll_num, log, history, elapsed, gap>>

\* Mutant: waits for more than is left.
SleepRest_waits ==
  /\ pc = "sleep" /\ 2 * remaining <= Second /\ remaining > 0
  /\ gap' = gap + remaining
  /\ remaining' = 0
  /\ UNCHANGED <<pc, started, poll_num, log, history, elapsed>>

SleepRest ==
  /\ pc = "sleep" /\ 2 * remaining <= Second
  /\ gap' = gap + remaining
  /\ remaining' = 0
  /\ pc' = "poll"
  /\ UNCHANGED <<started, poll_num, log, history, elapsed>>

Interrupt ==
  /\ pc \notin Stopped
  /\ pc' = "interrupted"
  /\ UNCHANGED <<started, poll_num, log, history, elapsed, remaining, gap>>

Step ==
  \/ Poll \/ Finish \/ Store \/ Count \/ Remember \/ Forget
  \/ SleepSecond \/ SleepRest

Next == Step \/ ProbesFail \/ StoreFails \/ Interrupt
          \/ (pc \in Stopped /\ UNCHANGED vars)

Spec == Init /\ [][Next]_vars /\ WF_vars(Step)

-----------------------------------------------------------------------------
\* Properties

\* The types; what is counted was begun, and at most one poll is under way.
TypeOK ==
  /\ pc \in {"poll", "store", "count", "remember", "forget", "sleep"} \cup Stopped
  /\ started \in 0..max_polls
  /\ poll_num \in {started, started - 1}
  /\ log \in Seq(1..max_polls) /\ history \in Seq(1..max_polls)
  /\ remaining \in 0..interval

\* The panel and the database tell one story: the polls shown are consecutive, up
\* to the last one remembered, the log holds every poll in order and is at most
\* one ahead of the panel.  Only while a poll is being noted, or after a Ctrl-C
\* that fell there, do they differ, may the panel lag the count or show a ninth
\* poll; at any other time it shows the last eight counted (watch.py:151-164).
Capped(n) == IF n > HistoryCap THEN HistoryCap ELSE n

BeingNoted == pc \in {"count", "remember", "forget", "interrupted"}

PanelMatchesLog ==
  /\ TypeOK
  /\ persist => log = [i \in 1..Len(log) |-> i]
  /\ \E last \in {poll_num - 1, poll_num} :
       /\ IsSuffix(history, [i \in 1..last |-> i])
       /\ Len(history) \in {Capped(last), Capped(last - 1) + 1}
       /\ persist => Len(log) \in {last, last + 1}
       /\ ~BeingNoted => /\ last = poll_num
                         /\ Len(history) = Capped(last)
                         /\ persist => Len(log) = last

\* No two polls begin closer together than the interval, and none begins later
\* than the slower of interval and probes, the store's time, and half a second
\* of rounding (watch.py:166-180).
Slower == IF elapsed > interval THEN elapsed ELSE interval

Cadence ==
  [][pc = "poll" /\ pc' # "poll" /\ poll_num > 0 =>
       /\ gap >= interval
       /\ \E d \in StoreDelays \cup {0} :
            gap - d >= Slower /\ 2 * (gap - d - Slower) < Second]_vars

\* A bounded watch ends, however its polls and sleeps divide the interval.
WatchEnds == <>(pc \in Stopped)
=============================================================================
