------------------------------ MODULE CpuStat ------------------------------
(***************************************************************************)
(* Monitor::read_system_stat and parse_cpu_snapshot: CPU usage from the    *)
(* jiffy counters of /proc/stat, kept in words that wrap around.           *)
(*                                                                         *)
(* A line of the file has ten columns.  The program reads seven of them:   *)
(* idle, and six others that it counts as activity, here one counter       *)
(* (busy).  The eighth, steal, is time the hypervisor gave to others: the  *)
(* program does not read it.                                               *)
(* One step is one poll: the kernel writes the file in one go, and only    *)
(* the monitor's thread writes the snapshots that it compares with.        *)
(***************************************************************************)
EXTENDS Integers

CONSTANTS
    Cpus,       \* the lines "cpu", "cpu0", "cpu1", ...
    Word,       \* 2^32: uint32_t arithmetic is modulo Word
    MaxJiffies, \* bound on each of the kernel's counters
    None

ASSUME CpuAssumption ==
    /\ Word \in Nat \ {0}
    /\ MaxJiffies \in Nat

(* The kernel's counters, 64 bits wide, since boot.                        *)
VARIABLES
    busy,       \* busy[c]: user, nice, system, iowait, irq and softirq
    idle,       \* idle[c]
    online,     \* online[c]: whether the file has a line for c
    ticked      \* the lines for which time has passed since the latest poll

VARIABLES
    store       \* m_cpu_snapshots: store[c] is a snapshot or None

(* Which counters the latest poll read, and the time that passed since the *)
(* poll before, for the properties.                                        *)
VARIABLES
    read,       \* read[c]: <<busy, idle>> when last polled, None if not listed
    elapsed     \* elapsed[c]: <<busy, busy + idle>> since the poll before that

kernel == <<busy, idle, online>>
program == <<store, read, elapsed>>
vars == <<kernel, ticked, program>>

Jiffies == 0..MaxJiffies
Times == Nat \X Nat
Spans == Int \X Int

(* usage: active_time and total_time, whose quotient is usage_percent;     *)
(* None while it has its initial value 0.                                  *)
Snapshots == [idle_jiffies : 0..(Word - 1), total_jiffies : 0..(Word - 1),
              usage : Times \cup {None}]

ASSUME NoneAssumption == None \notin Spans \cup Snapshots

TypeOK ==
    /\ busy \in [Cpus -> Jiffies]
    /\ idle \in [Cpus -> Jiffies]
    /\ online \in [Cpus -> {"yes", "no"}]
    /\ ticked \subseteq Cpus
    /\ store \in [Cpus -> Snapshots \cup {None}]
    /\ read \in [Cpus -> Times \cup {None}]
    /\ elapsed \in [Cpus -> Spans \cup {None}]

Init ==
    /\ busy \in [Cpus -> Jiffies]
    /\ idle \in [Cpus -> Jiffies]
    /\ online \in [Cpus -> {"yes", "no"}]
    /\ ticked = {}
    /\ store = [c \in Cpus |-> None]
    /\ read = [c \in Cpus |-> None]
    /\ elapsed = [c \in Cpus |-> None]

-----------------------------------------------------------------------------
(* The kernel counts a jiffy of c.  No more than Word - 1 of them pass     *)
(* between two polls: a poll takes seconds, the words last for months.     *)
Room(c) == read[c] # None => busy[c] + idle[c] - read[c][1] - read[c][2] < Word - 1

Busy(c) ==
    /\ online[c] = "yes" /\ busy[c] < MaxJiffies /\ Room(c)
    /\ busy' = [busy EXCEPT ![c] = @ + 1]
    /\ ticked' = ticked \cup {c}
    /\ UNCHANGED <<idle, online, program>>

Idle(c) ==
    /\ online[c] = "yes" /\ idle[c] < MaxJiffies /\ Room(c)
    /\ idle' = [idle EXCEPT ![c] = @ + 1]
    /\ ticked' = ticked \cup {c}
    /\ UNCHANGED <<busy, online, program>>

(* iowait "may decrease in certain conditions" (proc(5)): it is one of the *)
(* counters of activity.                                                   *)
Iowait(c) ==
    /\ online[c] = "yes" /\ busy[c] > 0
    /\ busy' = [busy EXCEPT ![c] = @ - 1]
    /\ ticked' = ticked \cup {c}
    /\ UNCHANGED <<idle, online, program>>

(* A jiffy of steal.                                                       *)
Steal(c) ==
    /\ online[c] = "yes"
    /\ ticked' = ticked \cup {c}
    /\ UNCHANGED <<kernel, program>>

(* A core is taken offline, or brought back: its counters stand still.     *)
(* (The line "cpu" is always there: it may always leave this out.)         *)
Plug(c) ==
    /\ online' = [online EXCEPT ![c] = IF @ = "yes" THEN "no" ELSE "yes"]
    /\ ticked' = ticked \cup {c}
    /\ UNCHANGED <<busy, idle, program>>

-----------------------------------------------------------------------------
(* Mutant: differences that do not wrap.                                   *)
MinusSaturating(x, y) == IF x < y THEN 0 ELSE x - y

(* uint32_t subtraction and addition.                                      *)
Minus(x, y) == (x - y) % Word
Plus(x, y) == (x + y) % Word

(* parse_cpu_snapshot: stoul's result is cut to a word, and the columns    *)
(* are added up as words.                                                  *)
IdleJiffies(c) == idle[c] % Word

(* Mutant: the idle column is left out of the total.                       *)
TotalJiffiesBusy(c) == busy[c] % Word

TotalJiffies(c) == Plus(busy[c] % Word, idle[c] % Word)

(* The differences to the snapshot of the same id that the store holds.    *)
Usage(old, idle_jiffies, total_jiffies) ==
    IF old = None THEN None
    ELSE LET idle_time == Minus(idle_jiffies, old.idle_jiffies)
             total_time == Minus(total_jiffies, old.total_jiffies)
         IN  <<Minus(total_time, idle_time), total_time>>

Parse(c) == [idle_jiffies |-> IdleJiffies(c), total_jiffies |-> TotalJiffies(c),
             usage |-> Usage(store[c], IdleJiffies(c), TotalJiffies(c))]

(* read_system_stat: the new snapshots replace all the old ones.  A second *)
(* has passed since the latest poll, for every line it read.               *)
ReadSystemStat ==
    /\ \A c \in Cpus : online[c] = "yes" /\ read[c] # None => c \in ticked
    /\ ticked' = {}
    /\ store' = [c \in Cpus |-> IF online[c] = "yes" THEN Parse(c) ELSE None]
    /\ read' = [c \in Cpus |-> IF online[c] = "yes" THEN <<busy[c], idle[c]>> ELSE None]
    /\ elapsed' = [c \in Cpus |->
                      IF online[c] = "yes" /\ read[c] # None
                      THEN <<busy[c] - read[c][1], busy[c] + idle[c] - read[c][1] - read[c][2]>>
                      ELSE None]
    /\ UNCHANGED kernel

Next ==
    \/ \E c \in Cpus : Busy(c) \/ Idle(c) \/ Iowait(c) \/ Steal(c) \/ Plug(c)
    \/ ReadSystemStat

Spec == Init /\ [][Next]_vars

-----------------------------------------------------------------------------
(* What the store remembers of a line is its counters, modulo the word.    *)
WordsOfCounters ==
    \A c \in Cpus :
        /\ store[c] = None <=> read[c] = None
        /\ read[c] # None =>
              /\ store[c].idle_jiffies = read[c][2] % Word
              /\ store[c].total_jiffies = (read[c][1] + read[c][2]) % Word

(* Idle time goes up, and all by less than a word between two polls.       *)
CountersAdvance ==
    \A c \in Cpus : read[c] # None =>
        /\ read[c][2] <= idle[c]
        /\ busy[c] + idle[c] - read[c][1] - read[c][2] < Word

(* The usage that is stored is the share of activity in the time that has  *)
(* really passed since the poll before, also when a word has wrapped round *)
(* in between, and there is none when the poll before had no such line     *)
(* ("calculating CPU usage since last read", monitor.h:65), unless the     *)
(* kernel has taken back more iowait than there was other activity.        *)
UsageIsExact ==
    \A c \in Cpus :
        store[c] # None /\ (elapsed[c] # None => elapsed[c][1] >= 0)
        => store[c].usage = elapsed[c]

IInv == TypeOK /\ WordsOfCounters /\ CountersAdvance /\ UsageIsExact

(* "float usage_percent{0.0f}; // [0.0, 100.0]" (types.h:78): a quotient,  *)
(* which clamp keeps within its limits.                                    *)
UsageIsPercentage == \A c \in Cpus : store[c] # None => store[c].usage # <<0, 0>>
=============================================================================
