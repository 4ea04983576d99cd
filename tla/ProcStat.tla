------------------------------ MODULE ProcStat ------------------------------
(***************************************************************************)
(* Monitor::read_proc_stat: CPU usage of one process that lives on, from   *)
(* its line in /proc/[pid]/stat.  ProcScan models which process, and which *)
(* earlier snapshot, a reading belongs to.                                 *)
(*                                                                         *)
(* The line's second column is the name of the program, which may contain  *)
(* white space: what the program counts as columns are its words.  Time is *)
(* counted in clock ticks (CLK_TCK of them are a second).                  *)
(***************************************************************************)
EXTENDS Integers

CONSTANTS
    First,      \* the first column that the model has: a counter of faults
    Word,       \* 2^32: uint32_t arithmetic is modulo Word
    MaxCount,   \* bound on each counter
    MaxTime,    \* bound on the time
    MaxWords,   \* bound on the words of the name
    None

utime == 14
stime == 15
Columns == First..stime

ASSUME StatAssumption ==
    /\ First \in 4..utime
    /\ Word \in Nat \ {0} /\ MaxCount \in Nat /\ MaxTime \in Nat
    /\ MaxWords \in 1..(utime - First + 1)

(* The kernel.                                                             *)
VARIABLES
    column,     \* column[i]: the counter that is the i-th column of the line
    words,      \* the number of words of the name
    now         \* the uptime

VARIABLES
    store,      \* the process's snapshot in m_proc_snapshots
    truth       \* what the latest poll and the one before it really read

vars == <<column, words, now, store, truth>>

Times == 0..MaxTime
Readings == [ran : Nat, named : 1..MaxWords]

(* usage: time on a CPU and time elapsed, whose quotient is the percentage.*)
Snapshots == [utime : 0..(Word - 1), stime : 0..(Word - 1), snapshot_time : Times,
              usage : (Int \X Int) \cup {None}]

TypeOK ==
    /\ column \in [Columns -> 0..MaxCount]
    /\ words \in 1..MaxWords
    /\ now \in Times
    /\ store \in Snapshots \cup {None}
    /\ truth.last \in Readings \cup {None} /\ truth.before \in Readings \cup {None}

Init ==
    /\ column \in [Columns -> {0}]
    /\ words \in 1..MaxWords
    /\ now = 0
    /\ store = None
    /\ truth = [last |-> None, before |-> None]

-----------------------------------------------------------------------------
(* The process runs for a tick, on one of its threads, or has a fault.     *)
Count(i) ==
    /\ column[i] < MaxCount
    /\ column' = [column EXCEPT ![i] = @ + 1]
    /\ UNCHANGED <<words, now, store, truth>>

(* It gives itself a name, or executes another program.                    *)
Rename(n) ==
    /\ words' = n
    /\ UNCHANGED <<column, now, store, truth>>

Tick ==
    /\ now < MaxTime
    /\ now' = now + 1
    /\ UNCHANGED <<column, words, store, truth>>

-----------------------------------------------------------------------------
(* Mutant: the fields are as wide as the numbers in the file.              *)
NarrowNot(x) == x

(* stoul's result, or a sum, is cut to a uint32_t.                         *)
Narrow(x) == x % Word

(* The i-th word of the line, for i after the name.                        *)
ColumnRead(i) == column[i - (words - 1)]

(* boost::algorithm::clamp, on the scale where the elapsed time is 100 %.  *)
Clamp(x, limit) == IF x < 0 THEN 0 ELSE IF x > limit THEN limit ELSE x

(* Mutant: the time in the kernel is left out.                             *)
ScheduledUser(s) == s.utime

(* utime + stime is added in uint32_t, the difference taken in double.     *)
Scheduled(s) == Narrow(s.utime + s.stime)

Usage(prev, s) ==
    IF prev = None THEN None
    ELSE LET uptime_delta == s.snapshot_time - prev.snapshot_time
         IN  <<Clamp(Scheduled(s) - Scheduled(prev), uptime_delta), uptime_delta>>

(* A poll, at least POLL_INTERVAL after the one before.                    *)
ReadProcStat ==
    /\ store # None => now > store.snapshot_time
    /\ LET s == [utime |-> Narrow(ColumnRead(utime)), stime |-> Narrow(ColumnRead(stime)),
                 snapshot_time |-> now, usage |-> None]
       IN  store' = [s EXCEPT !.usage = Usage(store, s)]
    /\ truth' = [last |-> [ran |-> column[utime] + column[stime], named |-> words],
                 before |-> truth.last]
    /\ UNCHANGED <<column, words, now>>

Next ==
    \/ \E i \in Columns : Count(i)
    \/ \E n \in 1..MaxWords : Rename(n)
    \/ Tick \/ ReadProcStat

Spec == Init /\ [][Next]_vars

-----------------------------------------------------------------------------
(* Usage is the time that the process has run since the poll before, up to *)
(* the limit, or 0 in the one poll in which the sum of its times wraps     *)
(* round, provided that its name had no spaces in either poll.             *)
UsageIsTimeRun ==
    store # None /\ store.usage # None /\ truth.last.named = 1 /\ truth.before.named = 1 =>
        LET ran == truth.last.ran - truth.before.ran IN
        \/ store.usage[1] = Clamp(ran, store.usage[2])
        \/ /\ truth.last.ran \div Word > truth.before.ran \div Word
           /\ ran < Word => store.usage[1] = 0

(* "Read utime (column 14) and stime (column 15), skip anything else"      *)
(* (monitor.cpp:258), for any name.                                        *)
TimesAreRead ==
    [][ReadProcStat =>
        /\ store'.utime = column[utime] % Word
        /\ store'.stime = column[stime] % Word]_vars
=============================================================================
