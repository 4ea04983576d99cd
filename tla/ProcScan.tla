------------------------------ MODULE ProcScan ------------------------------
(***************************************************************************)
(* Monitor::read_proc_files: the scan of /proc/[pid] while the kernel goes *)
(* on starting and ending processes between any two of its file accesses.  *)
(*                                                                         *)
(* A pid outlives a process: when the process is gone its pid may be given *)
(* to another.  A life is one process from its fork until its directory    *)
(* leaves /proc.  Instead of the figures it reads from a file a snapshot   *)
(* records whose file it was, so the properties can tell whom they belong  *)
(* to.  The uptime that stamps a snapshot (snapshot_time) is the number of *)
(* the poll: read_system_uptime runs once per poll, before the scan.       *)
(***************************************************************************)
EXTENDS Naturals, FiniteSets

CONSTANTS
    Lives,      \* the processes there may ever be
    InitLife,   \* the process with pid 1, which never ends
    Pids,       \* pids, 1 among them
    MaxPolls,   \* bound on the number of polls
    None

ASSUME ScanAssumption ==
    /\ InitLife \in Lives
    /\ Pids \subseteq Nat /\ IsFiniteSet(Pids) /\ 1 \in Pids /\ 0 \notin Pids
    /\ MaxPolls \in Nat
    /\ None \notin Lives /\ None \notin Nat

(* The kernel's processes.                                                 *)
VARIABLES
    pidOf,      \* pidOf[l]: the pid that life l has or had, None before its fork
    parent,     \* parent[l]: the pid of its parent, 0 for none
    birth,      \* birth[l]: the poll during or after which it was forked
    death       \* death[l]: the poll during or after which it ended, or None

(* The monitor thread.                                                     *)
VARIABLES
    pc,         \* what the monitor does next
    poll,       \* the number of polls begun
    dir,        \* the pids that directory_iterator has still to come to
    pids,       \* the pids discovered and not yet visited
    cur,        \* the pid being visited
    snapshot,   \* the snapshot of cur under construction
    snapshots,  \* the snapshots completed in this scan, by pid
    store       \* m_proc_snapshots

kernel == <<pidOf, parent, birth, death>>
monitor == <<pc, poll, dir, pids, cur, snapshot, snapshots, store>>
vars == <<kernel, monitor>>

Running(l) == pidOf[l] # None /\ death[l] = None
Holders(p) == {l \in Lives : Running(l) /\ pidOf[l] = p}

Polls == 0..MaxPolls
Readers == Lives \cup {None}
Baselines == [stat : Readers, poll : Polls]

(* status, stat: the life whose file was read, None for blank fields;      *)
(* base: the stored snapshot that CPU usage was computed against.          *)
Snapshots == [status : Readers, ppid : Pids \cup {0}, stat : Readers,
              poll : Polls, base : Baselines \cup {None}]

ASSUME NoneAssumption == None \notin Snapshots /\ None \notin Baselines

(* Mutant: ppid has no initialiser in the class.                           *)
BlankUninitialised ==
    [status |-> None, ppid |-> None, stat |-> None, poll |-> poll, base |-> None]

(* ProcSnapshot snapshot, stamped with the time.                           *)
Blank == [status |-> None, ppid |-> 0, stat |-> None, poll |-> poll, base |-> None]
NoSnapshots == [p \in Pids |-> None]

Least(S) == CHOOSE p \in S : \A q \in S : p <= q

TypeOK ==
    /\ pidOf \in [Lives -> Pids \cup {None}]
    /\ parent \in [Lives -> Pids \cup {0}]
    /\ birth \in [Lives -> Polls]
    /\ death \in [Lives -> Polls \cup {None}]
    /\ pc \in {"sleep", "discover", "visit", "status", "exists", "stat", "append", "terminated"}
    /\ poll \in Polls
    /\ dir \subseteq Pids /\ pids \subseteq Pids
    /\ cur \in Pids \cup {0}
    /\ snapshot \in Snapshots \cup {None}
    /\ snapshots \in [Pids -> Snapshots \cup {None}]
    /\ store \in [Pids -> Snapshots \cup {None}]

Init ==
    /\ pidOf = [l \in Lives |-> IF l = InitLife THEN 1 ELSE None]
    /\ parent = [l \in Lives |-> 0]
    /\ birth = [l \in Lives |-> 0]
    /\ death = [l \in Lives |-> None]
    /\ pc = "sleep" /\ poll = 0
    /\ dir = {} /\ pids = {}
    /\ cur = 0 /\ snapshot = None
    /\ snapshots = NoSnapshots
    /\ store = NoSnapshots

-----------------------------------------------------------------------------
(* The kernel.                                                             *)

(* A running process forks; the child gets a pid that nobody has.          *)
Fork(l, child, p) ==
    /\ Running(l) /\ pidOf[child] = None /\ Holders(p) = {}
    /\ pidOf' = [pidOf EXCEPT ![child] = p]
    /\ parent' = [parent EXCEPT ![child] = pidOf[l]]
    /\ birth' = [birth EXCEPT ![child] = poll]
    /\ UNCHANGED <<death, monitor>>

(* A process leaves /proc, and its children become init's.                 *)
Exit(l) ==
    /\ l # InitLife /\ Running(l)
    /\ death' = [death EXCEPT ![l] = poll]
    /\ parent' = [k \in Lives |-> IF Running(k) /\ parent[k] = pidOf[l] THEN 1 ELSE parent[k]]
    /\ UNCHANGED <<pidOf, birth, monitor>>

Kernel == \E l \in Lives : Exit(l) \/ \E child \in Lives, p \in Pids : Fork(l, child, p)

-----------------------------------------------------------------------------
(* The monitor.                                                            *)

(* The poll begins; readdir will come to each pid in ascending order.      *)
Wake ==
    /\ pc = "sleep" /\ poll < MaxPolls
    /\ pc' = "discover" /\ poll' = poll + 1
    /\ dir' = Pids
    /\ UNCHANGED <<kernel, pids, cur, snapshot, snapshots, store>>

(* Mutant: a directory without a process ends the search.                  *)
DiscoverBreaks ==
    /\ pc = "discover" /\ dir # {}
    /\ dir' = IF Holders(Least(dir)) # {} THEN dir \ {Least(dir)} ELSE {}
    /\ pids' = IF Holders(Least(dir)) # {} THEN pids \cup {Least(dir)} ELSE pids
    /\ UNCHANGED <<kernel, pc, poll, cur, snapshot, snapshots, store>>

(* discover_current_procs: a directory that is gone when the iterator gets *)
(* to it, or has no status file any more, is not listed.                   *)
Discover ==
    /\ pc = "discover" /\ dir # {}
    /\ dir' = dir \ {Least(dir)}
    /\ pids' = IF Holders(Least(dir)) # {} THEN pids \cup {Least(dir)} ELSE pids
    /\ UNCHANGED <<kernel, pc, poll, cur, snapshot, snapshots, store>>

(* Mutant: the map is cleared before the scan and not after it.            *)
DiscoveredClears ==
    /\ pc = "discover" /\ dir = {}
    /\ pc' = "visit"
    /\ store' = NoSnapshots
    /\ UNCHANGED <<kernel, poll, dir, pids, cur, snapshot, snapshots>>

Discovered ==
    /\ pc = "discover" /\ dir = {}
    /\ pc' = "visit"
    /\ UNCHANGED <<kernel, poll, dir, pids, cur, snapshot, snapshots, store>>

(* Mutant: the loop does not advance.                                      *)
VisitAgain ==
    /\ pc = "visit" /\ pids # {}
    /\ pc' = "status"
    /\ cur' = Least(pids)
    /\ snapshot' = Blank
    /\ UNCHANGED <<kernel, poll, dir, pids, snapshots, store>>

(* The next turn of the loop over the pids, with a fresh snapshot.         *)
Visit ==
    /\ pc = "visit" /\ pids # {}
    /\ pc' = "status"
    /\ cur' = Least(pids) /\ pids' = pids \ {Least(pids)}
    /\ snapshot' = Blank
    /\ UNCHANGED <<kernel, poll, dir, snapshots, store>>

(* read_proc_status: no file, or one that cannot be read any more, leaves  *)
(* the fields as they are.                                                 *)
ReadStatus ==
    /\ pc = "status"
    /\ pc' = "exists"
    /\ \/ Holders(cur) = {} /\ UNCHANGED snapshot
       \/ \E l \in Holders(cur) :
             snapshot' = [snapshot EXCEPT !.status = l, !.ppid = parent[l]]
    /\ UNCHANGED <<kernel, poll, dir, pids, cur, snapshots, store>>

(* Mutant: a process that has been removed gets no snapshot.               *)
StatExistsOrSkip ==
    /\ pc = "exists"
    /\ pc' = IF Holders(cur) = {} THEN "visit" ELSE "stat"
    /\ UNCHANGED <<kernel, poll, dir, pids, cur, snapshot, snapshots, store>>

(* read_proc_stat looks whether the file exists ...                        *)
StatExists ==
    /\ pc = "exists"
    /\ pc' = IF Holders(cur) = {} THEN "append" ELSE "stat"
    /\ UNCHANGED <<kernel, poll, dir, pids, cur, snapshot, snapshots, store>>

(* ... and opens and reads it, then computes the usage since the snapshot  *)
(* that the store holds for the pid.                                       *)
ReadStat ==
    /\ pc = "stat"
    /\ pc' = "append"
    /\ \E l \in Holders(cur) :
          snapshot' = [snapshot EXCEPT
              !.stat = l,
              !.base = IF store[cur] = None THEN None
                       ELSE [stat |-> store[cur].stat, poll |-> store[cur].poll]]
    /\ UNCHANGED <<kernel, poll, dir, pids, cur, snapshots, store>>

(* If the process has gone since the look, nothing is extracted from the   *)
(* stream and std::stoul("") throws: nothing catches it, the program ends. *)
StatGone ==
    /\ pc = "stat" /\ Holders(cur) = {}
    /\ pc' = "terminated"
    /\ UNCHANGED <<kernel, poll, dir, pids, cur, snapshot, snapshots, store>>

(* read_proc_cmdline, whose result no property speaks of, and emplace_back. *)
EmplaceBack ==
    /\ pc = "append"
    /\ pc' = "visit"
    /\ snapshots' = [snapshots EXCEPT ![cur] = snapshot]
    /\ cur' = 0 /\ snapshot' = None
    /\ UNCHANGED <<kernel, poll, dir, pids, store>>

(* Mutant: the map is not cleared first.                                   *)
StoreSnapshotsMerges ==
    /\ pc = "visit" /\ pids = {}
    /\ pc' = "sleep"
    /\ store' = [p \in Pids |-> IF snapshots[p] = None THEN store[p] ELSE snapshots[p]]
    /\ snapshots' = NoSnapshots
    /\ UNCHANGED <<kernel, poll, dir, pids, cur, snapshot>>

(* store_proc_snapshots: the map is cleared and filled anew.               *)
StoreSnapshots ==
    /\ pc = "visit" /\ pids = {}
    /\ pc' = "sleep"
    /\ store' = snapshots
    /\ snapshots' = NoSnapshots
    /\ UNCHANGED <<kernel, poll, dir, pids, cur, snapshot>>

Monitor ==
    \/ Wake \/ Discover \/ Discovered \/ Visit \/ ReadStatus
    \/ StatExists \/ ReadStat \/ StatGone \/ EmplaceBack \/ StoreSnapshots

Next == pc # "terminated" /\ (Kernel \/ Monitor)

Spec == Init /\ [][Next]_vars

-----------------------------------------------------------------------------
(* A life that was there for the whole of poll n, or at some time in it.   *)
ThroughoutPoll(l, n) == Running(l) /\ birth[l] < n
DuringPoll(l, n) == pidOf[l] # None /\ birth[l] <= n /\ (death[l] # None => death[l] >= n)

(* Whoever runs all through a poll is in what the poll stores, with its    *)
(* own name and parent and its own CPU time, however many processes come   *)
(* and go while /proc is read.                                             *)
ScanIsComplete ==
    [][StoreSnapshots =>
        \A l \in Lives : ThroughoutPoll(l, poll) =>
            /\ store'[pidOf[l]] # None
            /\ store'[pidOf[l]].status = l
            /\ store'[pidOf[l]].stat = l]_vars

(* Whoever runs through two polls has its usage computed from its own CPU  *)
(* time in both, and not from a former owner of its pid.                   *)
SurvivorsHaveOwnBaseline ==
    [][StoreSnapshots =>
        \A l \in Lives : poll > 1 /\ ThroughoutPoll(l, poll - 1) =>
            store'[pidOf[l]].base = [stat |-> l, poll |-> poll - 1]]_vars

(* Nothing is stored that was not there: every entry, and every file read  *)
(* for it, belongs to a process that had this pid at some time during the  *)
(* poll ("all the current processes found in /proc", monitor.h:59).        *)
NoPhantoms ==
    [][StoreSnapshots =>
        \A p \in Pids : store'[p] # None =>
            /\ \E l \in Lives : pidOf[l] = p /\ DuringPoll(l, poll)
            /\ \A l \in Lives : l \in {store'[p].status, store'[p].stat} =>
                  pidOf[l] = p /\ DuringPoll(l, poll)]_vars

(* The dashboard draws a process under its parent: the parent that an      *)
(* entry names is in the same poll's entries, unless it was itself started *)
(* while /proc was being read.                                             *)
ParentsAreStored ==
    [][StoreSnapshots =>
        \A p \in Pids : store'[p] # None /\ store'[p].ppid # 0 =>
            \/ store'[store'[p].ppid] # None
            \/ \E l \in Lives : pidOf[l] = store'[p].ppid /\ birth[l] = poll]_vars

(* The interval that CPU time is divided by (uptime_delta_s) is the one    *)
(* from the poll before to this poll: never empty, negative or longer.     *)
BaselineIsLastPoll ==
    \A p \in Pids : store[p] # None =>
        /\ store[p].poll = IF pc = "sleep" THEN poll ELSE poll - 1
        /\ store[p].base # None => store[p].base.poll = store[p].poll - 1

(* An upper bound on the steps that the monitor has still to take.         *)
Remaining ==
    LET perPid == 6
        stage == [visit |-> 1, append |-> 2, stat |-> 3, exists |-> 4, status |-> 5]
    IN  IF pc = "discover" THEN perPid * Cardinality(pids \cup dir) + Cardinality(dir) + 2
        ELSE IF pc \in DOMAIN stage THEN perPid * Cardinality(pids) + stage[pc]
        ELSE 0

(* A scan comes to its end however fast processes come and go: each step   *)
(* of the monitor brings it nearer, whatever the kernel does in between.   *)
ScanAdvances == [][pc # "sleep" /\ monitor' # monitor => Remaining' < Remaining]_vars

(* A process that goes away during the scan is not the end of the program: *)
(* "Expected if proc has been removed" (monitor.cpp:212, 251, 289).        *)
RemovalIsExpected == pc # "terminated"
=============================================================================
