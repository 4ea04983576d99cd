--------------------------- MODULE ProcScanProofs ---------------------------
(***************************************************************************)
(* Proofs about ProcScan and ProcTree, for any number of processes, pids   *)
(* and polls.                                                              *)
(***************************************************************************)
EXTENDS ProcTree, FiniteSetTheorems, SequenceTheorems, WellFoundedInduction, TLAPS

(* The stages of a turn of the loop, and where an exception ends it.       *)
Visiting == {"status", "exists", "stat", "append", "terminated"}

(* The latest poll that the store has the result of.                       *)
Stored == IF pc = "sleep" THEN poll ELSE poll - 1

(* Processes that run have different pids, and parents that run.           *)
Processes ==
    /\ Running(InitLife) /\ pidOf[InitLife] = 1
    /\ \A l \in Lives : birth[l] <= poll /\ (pidOf[l] = None => death[l] = None)
    /\ \A l, k \in Lives : Running(l) /\ Running(k) /\ pidOf[l] = pidOf[k] => l = k
    /\ \A l \in Lives : Running(l) /\ parent[l] # 0 => Holders(parent[l]) # {}

(* What the monitor's variables are good for at each stage.                *)
Locals ==
    /\ pc \in {"sleep", "discover"} => snapshots = NoSnapshots
    /\ pc = "sleep" => pids = {}
    /\ pc # "discover" => dir = {}
    /\ pc # "sleep" => poll > 0
    /\ pc \in Visiting => cur \in Pids /\ cur \notin pids /\ snapshot \in Snapshots

(* A snapshot is of this poll, its baseline of the one before.             *)
Fresh(s) == s.poll = poll /\ (s.base # None => s.base.poll = poll - 1)

FreshSnapshots ==
    /\ pc \in Visiting => Fresh(snapshot)
    /\ \A p \in Pids : snapshots[p] # None => Fresh(snapshots[p])

(* What the store has of those who were there throughout its poll.         *)
StoreKnows ==
    \A l \in Lives : Stored > 0 /\ ThroughoutPoll(l, Stored) =>
        store[pidOf[l]] # None /\ store[pidOf[l]].stat = l

OwnBaseline(s, l) ==
    poll > 1 /\ ThroughoutPoll(l, poll - 1) => s.base = [stat |-> l, poll |-> poll - 1]

(* Where the scan is with a process that has been there throughout: it is  *)
(* still to be listed, still to be visited, being visited, or done.        *)
ScanIsOn(l) ==
    LET q == pidOf[l]
    IN  /\ pc = "discover" => q \in dir \cup pids
        /\ pc \in Visiting /\ q = cur =>
              /\ pc # "status" => snapshot.status = l
              /\ pc = "append" => snapshot.stat = l /\ OwnBaseline(snapshot, l)
        /\ pc \in Visiting \cup {"visit"} =>
              \/ q \in pids \/ (pc \in Visiting /\ q = cur)
              \/ /\ snapshots[q] # None
                 /\ snapshots[q].status = l /\ snapshots[q].stat = l
                 /\ OwnBaseline(snapshots[q], l)

NobodyMissed == pc # "sleep" => \A l \in Lives : ThroughoutPoll(l, poll) => ScanIsOn(l)

(* Who has been listed was there, and what was read for a pid was read     *)
(* from the files of one that had it.                                      *)
Seen(p) == \E l \in Lives : pidOf[l] = p /\ DuringPoll(l, poll)
Owned(s, p) ==
    \A l \in Lives : l \in {s.status, s.stat} => pidOf[l] = p /\ DuringPoll(l, poll)

NobodyInvented ==
    /\ \A p \in pids : Seen(p)
    /\ pc \in Visiting => Seen(cur) /\ Owned(snapshot, cur)
    /\ \A p \in Pids : snapshots[p] # None => Seen(p) /\ Owned(snapshots[p], p)

(* The parent that a snapshot names has been listed, or is new.            *)
ParentListed(s) ==
    s.ppid # 0 =>
        \/ s.ppid \in pids \/ (pc \in Visiting /\ s.ppid = cur)
        \/ snapshots[s.ppid] # None
        \/ \E l \in Lives : pidOf[l] = s.ppid /\ birth[l] = poll

ParentsListed ==
    /\ pc \in Visiting => ParentListed(snapshot)
    /\ \A p \in Pids : snapshots[p] # None => ParentListed(snapshots[p])

IInv ==
    /\ TypeOK /\ Processes /\ Locals
    /\ FreshSnapshots /\ BaselineIsLastPoll
    /\ StoreKnows /\ NobodyMissed
    /\ NobodyInvented /\ ParentsListed

-----------------------------------------------------------------------------
(* The iterator and the loop take a pid that is there.                     *)
LEMMA LeastIn ==
    ASSUME NEW S, S \subseteq Pids, S # {}
    PROVE  Least(S) \in S
<1>1. S \subseteq Nat
    BY ScanAssumption
<1>2. PICK x \in S : \A y \in S : ~ (<<y, x>> \in OpToRel(<, Nat))
    BY <1>1, WFMin, NatLessThanWellFounded, Zenon
<1>3. \A y \in S : ~ (y < x)
    BY <1>1, <1>2 DEF OpToRel
<1>4. \A y \in S : x <= y
    BY <1>1, <1>3
<1>5. QED
    BY <1>4 DEF Least

LEMMA LeastIs ==
    ASSUME NEW S \in SUBSET Pids, NEW x \in S
    PROVE  /\ Least(S) \in S /\ Least(S) <= x
           /\ (\A y \in S : x <= y) => Least(S) = x
<1>1. S \subseteq Nat
    BY ScanAssumption
<1>2. Least(S) \in S
    BY LeastIn
<1>3. \A y \in S : Least(S) <= y
    <2>1. PICK y \in S : ~ \E z \in S : <<z, y>> \in OpToRel(<, Nat)
        BY <1>1, WFMin, NatLessThanWellFounded, Zenon
    <2>2. \A z \in S : y <= z
        BY <1>1, <2>1 DEF OpToRel
    <2>3. QED
        BY <2>2 DEF Least
<1>4. ASSUME \A y \in S : x <= y PROVE Least(S) = x
    <2> DEFINE least == Least(S)
    <2>1. least \in Nat /\ x \in Nat /\ least <= x /\ x <= least
        BY <1>1, <1>2, <1>3, <1>4
    <2> HIDE DEF least
    <2>2. least = x
        BY <2>1
    <2>3. QED
        BY <2>2 DEF least
<1>5. QED
    BY <1>2, <1>3, <1>4

(* What a fork or an exit leaves true: nobody turns out to have been there *)
(* all along, and whoever was seen has been seen.                          *)
LEMMA ForkKeeps ==
    ASSUME TypeOK, Processes,
           NEW l \in Lives, NEW child \in Lives, NEW p \in Pids, Fork(l, child, p)
    PROVE  /\ pidOf' \in [Lives -> Pids \cup {None}] /\ parent' \in [Lives -> Pids \cup {0}]
           /\ birth' \in [Lives -> Polls] /\ death' \in [Lives -> Polls \cup {None}]
           /\ Processes'
           /\ \A k \in Lives, n \in 0..poll :
                 /\ ThroughoutPoll(k, n)' => ThroughoutPoll(k, n) /\ pidOf'[k] = pidOf[k]
                 /\ DuringPoll(k, n) => DuringPoll(k, n)' /\ pidOf'[k] = pidOf[k]
           /\ \A k \in Lives : pidOf[k] # None => pidOf'[k] = pidOf[k] /\ birth'[k] = birth[k]
<1> USE ScanAssumption DEF Polls
<1>1. /\ pidOf[child] = None /\ Running(l) /\ Holders(p) = {}
      /\ pidOf' = [pidOf EXCEPT ![child] = p]
      /\ parent' = [parent EXCEPT ![child] = pidOf[l]]
      /\ birth' = [birth EXCEPT ![child] = poll]
      /\ death' = death /\ poll' = poll
    BY DEF Fork, monitor
<1>2. /\ pidOf' \in [Lives -> Pids \cup {None}] /\ parent' \in [Lives -> Pids \cup {0}]
      /\ birth' \in [Lives -> Polls] /\ death' \in [Lives -> Polls \cup {None}]
    BY <1>1 DEF TypeOK, Running
<1>3. \A k \in Lives : k # child =>
         /\ pidOf'[k] = pidOf[k] /\ parent'[k] = parent[k] /\ birth'[k] = birth[k]
         /\ Running(k)' = Running(k)
    BY <1>1 DEF TypeOK, Running
<1>4. /\ pidOf'[child] = p /\ parent'[child] = pidOf[l] /\ birth'[child] = poll
      /\ death'[child] = None /\ p # None
    BY <1>1 DEF TypeOK, Processes
<1>5. Processes'
    <2>1. Running(InitLife)' /\ pidOf'[InitLife] = 1
        BY <1>1, <1>3 DEF Processes, Running
    <2>2. \A k \in Lives : birth'[k] <= poll' /\ (pidOf'[k] = None => death'[k] = None)
        BY <1>1, <1>3, <1>4 DEF Processes, TypeOK
    <2>3. ASSUME NEW k \in Lives, NEW h \in Lives, Running(k)', Running(h)', pidOf'[k] = pidOf'[h]
          PROVE  k = h
        BY <2>3, <1>1, <1>3, <1>4 DEF Processes, Holders
    <2>4. ASSUME NEW k \in Lives, Running(k)', parent'[k] # 0
          PROVE  Holders(parent[k])' # {}
        <3>1. PICK h \in Lives : Running(h) /\ pidOf[h] = parent'[k]
            BY <2>4, <1>1, <1>3, <1>4 DEF Processes, Holders
        <3>2. Running(h)' /\ pidOf'[h] = parent'[k]
            BY <3>1, <1>1, <1>3 DEF Running
        <3>3. QED
            BY <3>2 DEF Holders
    <2>5. QED
        BY <2>1, <2>2, <2>3, <2>4 DEF Processes
<1>6. ASSUME NEW k \in Lives, NEW n \in 0..poll
      PROVE  /\ ThroughoutPoll(k, n)' => ThroughoutPoll(k, n) /\ pidOf'[k] = pidOf[k]
             /\ DuringPoll(k, n) => DuringPoll(k, n)' /\ pidOf'[k] = pidOf[k]
    BY <1>1, <1>3, <1>4 DEF ThroughoutPoll, DuringPoll, TypeOK
<1>7. QED
    BY <1>1, <1>2, <1>3, <1>5, <1>6

LEMMA ExitKeeps ==
    ASSUME TypeOK, Processes, NEW l \in Lives, Exit(l)
    PROVE  /\ parent' \in [Lives -> Pids \cup {0}] /\ death' \in [Lives -> Polls \cup {None}]
           /\ Processes' /\ UNCHANGED <<pidOf, birth>>
           /\ \A k \in Lives, n \in 0..poll :
                 /\ ThroughoutPoll(k, n)' => ThroughoutPoll(k, n)
                 /\ DuringPoll(k, n) => DuringPoll(k, n)'
<1> USE ScanAssumption DEF Polls
<1>1. /\ l # InitLife /\ Running(l)
      /\ death' = [death EXCEPT ![l] = poll]
      /\ parent' = [k \in Lives |-> IF Running(k) /\ parent[k] = pidOf[l] THEN 1 ELSE parent[k]]
      /\ pidOf' = pidOf /\ birth' = birth /\ poll' = poll
    BY DEF Exit, monitor
<1>2. parent' \in [Lives -> Pids \cup {0}] /\ death' \in [Lives -> Polls \cup {None}]
    BY <1>1 DEF TypeOK
<1>3. \A k \in Lives : Running(k)' <=> Running(k) /\ k # l
    BY <1>1 DEF Running, TypeOK
<1>4. Processes'
    <2>1. Running(InitLife)' /\ pidOf'[InitLife] = 1
        BY <1>1, <1>3 DEF Processes
    <2>2. \A k \in Lives : birth'[k] <= poll' /\ (pidOf'[k] = None => death'[k] = None)
        BY <1>1 DEF Processes, TypeOK, Running
    <2>3. \A k, h \in Lives : Running(k)' /\ Running(h)' /\ pidOf'[k] = pidOf'[h] => k = h
        BY <1>1, <1>3 DEF Processes
    <2>4. ASSUME NEW k \in Lives, Running(k)', parent'[k] # 0
          PROVE  Holders(parent[k])' # {}
        <3>1. CASE parent[k] = pidOf[l]
            <4>1. parent'[k] = 1
                BY <3>1, <2>4, <1>1, <1>3
            <4>2. QED
                BY <4>1, <2>1 DEF Holders
        <3>2. CASE parent[k] # pidOf[l]
            <4>1. parent'[k] = parent[k]
                BY <3>2, <1>1
            <4>2. PICK h \in Lives : Running(h) /\ pidOf[h] = parent[k]
                BY <4>1, <2>4, <1>3 DEF Processes, Holders
            <4>3. Running(h)' /\ pidOf'[h] = parent'[k]
                BY <4>1, <4>2, <3>2, <1>1, <1>3
            <4>4. QED
                BY <4>3 DEF Holders
        <3>3. QED
            BY <3>1, <3>2
    <2>5. QED
        BY <2>1, <2>2, <2>3, <2>4 DEF Processes
<1>5. ASSUME NEW k \in Lives, NEW n \in 0..poll
      PROVE  /\ ThroughoutPoll(k, n)' => ThroughoutPoll(k, n)
             /\ DuringPoll(k, n) => DuringPoll(k, n)'
    BY <1>1, <1>3 DEF ThroughoutPoll, DuringPoll, TypeOK, Running
<1>6. QED
    BY <1>1, <1>2, <1>4, <1>5

LEMMA KernelKeeps ==
    ASSUME IInv, Kernel
    PROVE  /\ pidOf' \in [Lives -> Pids \cup {None}] /\ parent' \in [Lives -> Pids \cup {0}]
           /\ birth' \in [Lives -> Polls] /\ death' \in [Lives -> Polls \cup {None}]
           /\ Processes' /\ UNCHANGED monitor
           /\ \A k \in Lives, n \in 0..poll :
                 /\ ThroughoutPoll(k, n)' => ThroughoutPoll(k, n) /\ pidOf'[k] = pidOf[k]
                 /\ DuringPoll(k, n) => DuringPoll(k, n)' /\ pidOf'[k] = pidOf[k]
           /\ \A k \in Lives : pidOf[k] # None => pidOf'[k] = pidOf[k] /\ birth'[k] = birth[k]
<1>1. TypeOK /\ Processes
    BY DEF IInv
<1>2. ASSUME NEW l \in Lives, Exit(l)
      PROVE  Processes' /\ UNCHANGED <<pidOf, birth, monitor>>
    BY <1>1, <1>2, ExitKeeps DEF Exit
<1>3. CASE \E l \in Lives : Exit(l)
    <2>1. PICK l \in Lives : Exit(l)
        BY <1>3
    <2>2. pidOf' = pidOf /\ birth' = birth /\ UNCHANGED monitor
        BY <2>1 DEF Exit
    <2>3. QED
        BY <1>1, <2>1, <2>2, ExitKeeps DEF TypeOK
<1>4. CASE \E l \in Lives, child \in Lives, p \in Pids : Fork(l, child, p)
    <2>1. PICK l \in Lives, child \in Lives, p \in Pids : Fork(l, child, p)
        BY <1>4
    <2>2. UNCHANGED monitor
        BY <2>1 DEF Fork
    <2>3. QED
        BY <1>1, <2>1, <2>2, ForkKeeps
<1>5. QED
    BY <1>3, <1>4 DEF Kernel

(* The kernel may do anything without disturbing what the scan has found.  *)
LEMMA KernelIInv ==
    ASSUME IInv, Kernel
    PROVE  IInv'
<1>1. /\ TypeOK /\ Processes /\ Locals /\ FreshSnapshots /\ BaselineIsLastPoll
      /\ StoreKnows /\ NobodyMissed /\ NobodyInvented /\ ParentsListed
    BY DEF IInv
<1>2. /\ Processes'
      /\ pc' = pc /\ poll' = poll /\ dir' = dir /\ pids' = pids /\ cur' = cur
      /\ snapshot' = snapshot /\ snapshots' = snapshots /\ store' = store
    BY KernelKeeps DEF monitor
<1>3. poll \in Nat /\ poll \in 0..poll /\ (pc # "sleep" => poll - 1 \in 0..poll)
    BY <1>1, ScanAssumption DEF TypeOK, Polls, Locals
<1>4. \A k \in Lives, n \in 0..poll : ThroughoutPoll(k, n)' => ThroughoutPoll(k, n) /\ pidOf'[k] = pidOf[k]
    BY KernelKeeps
<1>5. \A k \in Lives, n \in 0..poll : DuringPoll(k, n) => DuringPoll(k, n)' /\ pidOf'[k] = pidOf[k]
    BY KernelKeeps
<1>6. TypeOK'
    BY <1>1, <1>2, KernelKeeps DEF TypeOK
<1>7. Locals' /\ FreshSnapshots' /\ BaselineIsLastPoll'
    BY <1>1, <1>2 DEF Locals, FreshSnapshots, Fresh, BaselineIsLastPoll
<1>8. StoreKnows'
    BY <1>1, <1>2, <1>3, <1>4 DEF StoreKnows, Stored
<1>9. NobodyMissed'
    <2> SUFFICES ASSUME pc # "sleep", NEW l \in Lives, ThroughoutPoll(l, poll)'
                 PROVE  ScanIsOn(l)'
        BY <1>2 DEF NobodyMissed
    <2>1. ThroughoutPoll(l, poll) /\ pidOf'[l] = pidOf[l]
        BY <1>2, <1>3, <1>4
    <2>2. ScanIsOn(l)
        BY <2>1, <1>1 DEF NobodyMissed
    <2>3. ThroughoutPoll(l, poll - 1)' => ThroughoutPoll(l, poll - 1)
        BY <1>2, <1>3, <1>4
    <2>4. \A s : OwnBaseline(s, l) => OwnBaseline(s, l)'
        BY <1>2, <2>3 DEF OwnBaseline
    <2>5. QED
        BY <1>2, <2>1, <2>2, <2>4 DEF ScanIsOn
<1>10. NobodyInvented'
    <2>1. \A p : Seen(p) => Seen(p)'
        BY <1>2, <1>3, <1>5 DEF Seen
    <2>2. \A s, p : Owned(s, p) => Owned(s, p)'
        BY <1>2, <1>3, <1>5 DEF Owned
    <2>3. QED
        BY <1>1, <1>2, <2>1, <2>2 DEF NobodyInvented
<1>11. ParentsListed'
    <2>1. ASSUME NEW s \in Snapshots, ParentListed(s) PROVE ParentListed(s)'
        <3>1. CASE \E l \in Lives : pidOf[l] = s.ppid /\ birth[l] = poll
            <4>1. PICK l \in Lives : pidOf[l] = s.ppid /\ birth[l] = poll
                BY <3>1
            <4>2. CASE s.ppid = 0
                BY <4>2 DEF ParentListed
            <4>3. CASE s.ppid # 0
                <5>1. pidOf[l] # None
                    BY <4>1, <4>3, ScanAssumption DEF Snapshots
                <5>2. pidOf'[l] = s.ppid /\ birth'[l] = poll'
                    BY <4>1, <5>1, <1>2, KernelKeeps
                <5>3. QED
                    BY <5>2 DEF ParentListed
            <4>4. QED
                BY <4>2, <4>3
        <3>2. CASE ~ \E l \in Lives : pidOf[l] = s.ppid /\ birth[l] = poll
            BY <3>2, <2>1, <1>2 DEF ParentListed
        <3>3. QED
            BY <3>1, <3>2
    <2>2. \A p \in Pids : snapshots[p] # None => snapshots[p] \in Snapshots
        BY <1>1 DEF TypeOK
    <2>3. QED
        BY <1>1, <1>2, <2>1, <2>2 DEF ParentsListed, Locals
<1>12. QED
    BY <1>2, <1>6, <1>7, <1>8, <1>9, <1>10, <1>11 DEF IInv

-----------------------------------------------------------------------------
(* The monitor, one lemma for each part of the invariant.                  *)

LEMMA MonitorLeavesKernel == Monitor => UNCHANGED kernel
BY DEF Monitor, Wake, Discover, Discovered, Visit, ReadStatus, StatExists, ReadStat,
       StatGone, EmplaceBack, StoreSnapshots

LEMMA Taken ==
    ASSUME TypeOK
    PROVE  /\ dir # {} => Least(dir) \in dir /\ Least(dir) \in Pids
           /\ pids # {} => Least(pids) \in pids /\ Least(pids) \in Pids
BY LeastIn DEF TypeOK

(* What the two files add to a snapshot.                                   *)
LEMMA FilesRead ==
    ASSUME TypeOK, Locals, pc \in Visiting
    PROVE  /\ ReadStatus => snapshot' \in Snapshots /\ snapshot'.poll = snapshot.poll
                            /\ snapshot'.base = snapshot.base /\ snapshot'.stat = snapshot.stat
           /\ ReadStat => snapshot' \in Snapshots /\ snapshot'.poll = snapshot.poll
                          /\ snapshot'.status = snapshot.status /\ snapshot'.ppid = snapshot.ppid
<1>1. snapshot \in Snapshots /\ cur \in Pids
    BY DEF Locals
<1>2. ASSUME ReadStatus
      PROVE  snapshot' \in Snapshots /\ snapshot'.poll = snapshot.poll
             /\ snapshot'.base = snapshot.base /\ snapshot'.stat = snapshot.stat
    <2>1. CASE UNCHANGED snapshot
        BY <1>1, <2>1
    <2>2. CASE \E l \in Holders(cur) :
                  snapshot' = [snapshot EXCEPT !.status = l, !.ppid = parent[l]]
        <3>1. PICK l \in Lives : snapshot' = [snapshot EXCEPT !.status = l, !.ppid = parent[l]]
            BY <2>2 DEF Holders
        <3>2. parent[l] \in Pids \cup {0} /\ l \in Readers
            BY DEF TypeOK, Readers
        <3>3. QED
            BY <1>1, <3>1, <3>2 DEF Snapshots
    <2>3. QED
        BY <1>2, <2>1, <2>2 DEF ReadStatus
<1>3. ASSUME ReadStat
      PROVE  snapshot' \in Snapshots /\ snapshot'.poll = snapshot.poll
             /\ snapshot'.status = snapshot.status /\ snapshot'.ppid = snapshot.ppid
    <2> DEFINE base == IF store[cur] = None THEN None
                       ELSE [stat |-> store[cur].stat, poll |-> store[cur].poll]
    <2>1. PICK l \in Lives : snapshot' = [snapshot EXCEPT !.stat = l, !.base = base]
        BY <1>3 DEF ReadStat, Holders
    <2>2. base \in Baselines \cup {None}
        <3>1. store[cur] \in Snapshots \cup {None}
            BY <1>1 DEF TypeOK
        <3>2. QED
            BY <3>1 DEF Snapshots, Baselines
    <2>3. QED
        <3> HIDE DEF base
        <3>1. QED
            BY <1>1, <2>1, <2>2 DEF Snapshots, Readers
<1>4. QED
    BY <1>2, <1>3

LEMMA MonitorTypeOK ==
    ASSUME IInv, Monitor
    PROVE  TypeOK'
<1>1. TypeOK /\ Locals
    BY DEF IInv
<1>2. UNCHANGED kernel
    BY MonitorLeavesKernel
<1>3. /\ pidOf' \in [Lives -> Pids \cup {None}] /\ parent' \in [Lives -> Pids \cup {0}]
      /\ birth' \in [Lives -> Polls] /\ death' \in [Lives -> Polls \cup {None}]
    BY <1>1, <1>2 DEF TypeOK, kernel
<1> USE DEF TypeOK
<1>4. CASE Wake
    BY <1>1, <1>3, <1>4, ScanAssumption DEF Wake, Polls
<1>5. CASE Discover
    BY <1>1, <1>3, <1>5, Taken DEF Discover
<1>6. CASE Discovered
    BY <1>1, <1>3, <1>6 DEF Discovered
<1>7. CASE Visit
    <2>1. Blank \in Snapshots
        BY <1>1 DEF Blank, Snapshots, Readers
    <2>2. QED
        BY <1>1, <1>3, <1>7, <2>1, Taken DEF Visit
<1>8. CASE ReadStatus
    <2>1. snapshot' \in Snapshots
        BY <1>1, <1>8, FilesRead DEF ReadStatus, Visiting
    <2>2. QED
        BY <1>1, <1>3, <1>8, <2>1 DEF ReadStatus
<1>9. CASE StatExists
    BY <1>1, <1>3, <1>9 DEF StatExists
<1>10. CASE ReadStat
    <2>1. snapshot' \in Snapshots
        BY <1>1, <1>10, FilesRead DEF ReadStat, Visiting
    <2>2. QED
        BY <1>1, <1>3, <1>10, <2>1 DEF ReadStat
<1>11. CASE StatGone
    BY <1>1, <1>3, <1>11 DEF StatGone
<1>12. CASE EmplaceBack
    BY <1>1, <1>3, <1>12 DEF EmplaceBack
<1>13. CASE StoreSnapshots
    BY <1>1, <1>3, <1>13 DEF StoreSnapshots, NoSnapshots
<1>14. QED
    BY <1>4, <1>5, <1>6, <1>7, <1>8, <1>9, <1>10, <1>11, <1>12, <1>13 DEF Monitor

LEMMA PollAdvances == Monitor => poll' = poll \/ (Wake /\ poll' = poll + 1)
BY DEF Monitor, Wake, Discover, Discovered, Visit, ReadStatus, StatExists, ReadStat,
       StatGone, EmplaceBack, StoreSnapshots

LEMMA MonitorProcesses ==
    ASSUME IInv, Monitor
    PROVE  Processes'
<1>1. TypeOK /\ Processes /\ UNCHANGED kernel
    BY MonitorLeavesKernel DEF IInv
<1>2. poll \in Nat /\ (poll' = poll \/ poll' = poll + 1)
    BY <1>1, PollAdvances, ScanAssumption DEF TypeOK, Polls
<1>3. \A l \in Lives : birth'[l] <= poll'
    BY <1>1, <1>2, ScanAssumption DEF Processes, kernel, TypeOK, Polls
<1>4. QED
    BY <1>1, <1>3 DEF Processes, kernel, Running, Holders

LEMMA MonitorLocals ==
    ASSUME IInv, Monitor
    PROVE  Locals'
<1>1. TypeOK /\ Locals
    BY DEF IInv
<1> USE DEF Locals, Visiting
<1>2. CASE Wake
    BY <1>1, <1>2, ScanAssumption DEF Wake, TypeOK, Polls
<1>3. CASE Discover
    BY <1>1, <1>3 DEF Discover
<1>4. CASE Discovered
    BY <1>1, <1>4 DEF Discovered
<1>5. CASE Visit
    <2>1. Blank \in Snapshots
        BY <1>1 DEF Blank, Snapshots, Readers, TypeOK
    <2>2. QED
        BY <1>1, <1>5, <2>1, Taken DEF Visit
<1>6. CASE ReadStatus
    BY <1>1, <1>6, FilesRead DEF ReadStatus
<1>7. CASE StatExists
    BY <1>1, <1>7 DEF StatExists
<1>8. CASE ReadStat
    BY <1>1, <1>8, FilesRead DEF ReadStat
<1>9. CASE StatGone
    BY <1>1, <1>9 DEF StatGone
<1>10. CASE EmplaceBack
    BY <1>1, <1>10 DEF EmplaceBack
<1>11. CASE StoreSnapshots
    BY <1>1, <1>11 DEF StoreSnapshots
<1>12. QED
    BY <1>2, <1>3, <1>4, <1>5, <1>6, <1>7, <1>8, <1>9, <1>10, <1>11 DEF Monitor

(* Readings are of this poll, and baselines of the one before.             *)
LEMMA MonitorFresh ==
    ASSUME IInv, Monitor
    PROVE  FreshSnapshots' /\ BaselineIsLastPoll'
<1>1. TypeOK /\ Locals /\ FreshSnapshots /\ BaselineIsLastPoll /\ poll \in Nat
    BY ScanAssumption DEF IInv, TypeOK, Polls
<1> USE DEF FreshSnapshots, BaselineIsLastPoll, Fresh, Visiting
<1>2. CASE Wake
    BY <1>1, <1>2 DEF Wake, Locals, NoSnapshots
<1>3. CASE Discover
    BY <1>1, <1>3 DEF Discover
<1>4. CASE Discovered
    BY <1>1, <1>4 DEF Discovered
<1>5. CASE Visit
    BY <1>1, <1>5 DEF Visit, Blank
<1>6. CASE ReadStatus
    BY <1>1, <1>6, FilesRead DEF ReadStatus
<1>7. CASE StatExists
    BY <1>1, <1>7 DEF StatExists
<1>8. CASE ReadStat
    <2>1. /\ pc = "stat" /\ pc' = "append" /\ poll' = poll /\ store' = store /\ snapshots' = snapshots
          /\ snapshot'.poll = snapshot.poll
        BY <1>1, <1>8, FilesRead DEF ReadStat
    <2>2. cur \in Pids /\ snapshot \in Snapshots
        BY <1>1, <2>1 DEF Locals
    <2>3. snapshot'.base = IF store[cur] = None THEN None
                           ELSE [stat |-> store[cur].stat, poll |-> store[cur].poll]
        BY <1>8, <2>2 DEF ReadStat, Snapshots
    <2>4. snapshot'.base # None => snapshot'.base.poll = poll - 1
        BY <1>1, <2>1, <2>2, <2>3
    <2>5. Fresh(snapshot)'
        BY <1>1, <2>1, <2>4
    <2>6. QED
        BY <1>1, <2>1, <2>5
<1>9. CASE StatGone
    BY <1>1, <1>9 DEF StatGone
<1>10. CASE EmplaceBack
    <2>1. /\ poll' = poll /\ store' = store /\ pc = "append" /\ pc' = "visit"
          /\ \A p \in Pids : snapshots'[p] = IF p = cur THEN snapshot ELSE snapshots[p]
        BY <1>1, <1>10 DEF EmplaceBack, TypeOK
    <2>2. QED
        BY <1>1, <2>1
<1>11. CASE StoreSnapshots
    BY <1>1, <1>11 DEF StoreSnapshots, NoSnapshots
<1>12. QED
    BY <1>2, <1>3, <1>4, <1>5, <1>6, <1>7, <1>8, <1>9, <1>10, <1>11 DEF Monitor

(* What the end of a scan leaves in the store.                             *)
LEMMA ScanEnds ==
    ASSUME TypeOK, Locals, NobodyMissed, StoreSnapshots,
           NEW l \in Lives, ThroughoutPoll(l, poll)
    PROVE  /\ store'[pidOf[l]] # None
           /\ store'[pidOf[l]].status = l /\ store'[pidOf[l]].stat = l
           /\ OwnBaseline(store'[pidOf[l]], l)
BY DEF StoreSnapshots, NobodyMissed, ScanIsOn, Visiting

LEMMA MonitorStoreKnows ==
    ASSUME IInv, Monitor
    PROVE  StoreKnows'
<1>1. /\ TypeOK /\ Locals /\ StoreKnows /\ NobodyMissed /\ poll \in Nat
      /\ UNCHANGED kernel
    BY ScanAssumption, MonitorLeavesKernel DEF IInv, TypeOK, Polls
<1>2. CASE store' = store /\ Stored' = Stored
    BY <1>1, <1>2 DEF StoreKnows, ThroughoutPoll, Running, kernel
<1>3. CASE Wake
    <2>1. store' = store /\ Stored' = Stored
        BY <1>1, <1>3 DEF Wake, Stored
    <2>2. QED
        BY <1>2, <2>1
<1>4. CASE StoreSnapshots
    <2>1. Stored' = poll
        BY <1>4 DEF StoreSnapshots, Stored
    <2>2. ASSUME NEW l \in Lives, ThroughoutPoll(l, Stored)'
          PROVE  store'[pidOf'[l]] # None /\ store'[pidOf'[l]].stat = l
        <3>1. ThroughoutPoll(l, poll)
            BY <1>1, <2>1, <2>2 DEF ThroughoutPoll, Running, kernel
        <3>2. QED
            BY <1>1, <1>4, <3>1, ScanEnds DEF kernel
    <2>3. QED
        BY <2>2 DEF StoreKnows
<1>5. CASE \/ Discover \/ Discovered \/ Visit \/ ReadStatus
           \/ StatExists \/ ReadStat \/ StatGone \/ EmplaceBack
    <2>1. store' = store /\ Stored' = Stored
        BY <1>5 DEF Discover, Discovered, Visit, ReadStatus, StatExists, ReadStat,
                    StatGone, EmplaceBack, Stored
    <2>2. QED
        BY <1>2, <2>1
<1>6. QED
    BY <1>3, <1>4, <1>5 DEF Monitor

(* A step within the poll leaves open only where the scan is.              *)
LEMMA WithinPoll ==
    ASSUME UNCHANGED kernel, poll' = poll
    PROVE  /\ \A l \in Lives : /\ ThroughoutPoll(l, poll)' <=> ThroughoutPoll(l, poll)
                               /\ pidOf'[l] = pidOf[l]
                               /\ \A s : OwnBaseline(s, l)' <=> OwnBaseline(s, l)
           /\ \A p : Seen(p)' <=> Seen(p)
           /\ \A s, p : Owned(s, p)' <=> Owned(s, p)
BY DEF kernel, ThroughoutPoll, DuringPoll, Running, OwnBaseline, Seen, Owned

LEMMA MonitorNobodyMissed ==
    ASSUME IInv, Monitor
    PROVE  NobodyMissed'
<1>1. /\ TypeOK /\ Processes /\ Locals /\ StoreKnows /\ BaselineIsLastPoll /\ NobodyMissed
      /\ poll \in Nat /\ UNCHANGED kernel
    BY ScanAssumption, MonitorLeavesKernel DEF IInv, TypeOK, Polls
<1> SUFFICES ASSUME pc' # "sleep", NEW l \in Lives, ThroughoutPoll(l, poll)'
             PROVE  ScanIsOn(l)'
    BY DEF NobodyMissed
<1> DEFINE q == pidOf[l]
<1>2. /\ Running(l) /\ q \in Pids /\ pidOf'[l] = q /\ l \in Holders(q)
      /\ \A k \in Holders(q) : k = l
    <2>1. Running(l) /\ pidOf'[l] = q
        BY <1>1 DEF ThroughoutPoll, Running, kernel
    <2>2. QED
        BY <1>1, <2>1 DEF Processes, Holders, Running, TypeOK
<1>3. ~Wake => poll' = poll /\ ScanIsOn(l) /\ \A s : OwnBaseline(s, l)' <=> OwnBaseline(s, l)
    <2> SUFFICES ASSUME ~Wake
                 PROVE  poll' = poll /\ ScanIsOn(l) /\ \A s : OwnBaseline(s, l)' <=> OwnBaseline(s, l)
        OBVIOUS
    <2>1. poll' = poll
        BY PollAdvances
    <2>2. pc # "sleep"
        BY DEF Monitor, Discover, Discovered, Visit, ReadStatus, StatExists, ReadStat,
               StatGone, EmplaceBack, StoreSnapshots
    <2>3. QED
        BY <1>1, <2>1, <2>2, WithinPoll DEF NobodyMissed
<1> HIDE DEF q
<1> USE DEF ScanIsOn, Visiting
<1>4. CASE Wake
    BY <1>2, <1>4 DEF Wake, q
<1>5. CASE Discover
    <2>1. ~Wake
        BY <1>5 DEF Discover, Wake
    <2>2. pc = "discover" /\ pc' = pc /\ q \in dir \cup pids
        BY <1>3, <1>5, <2>1 DEF Discover, q
    <2>3. q \in dir' \cup pids'
        BY <1>2, <1>5, <2>2 DEF Discover
    <2>4. QED
        BY <1>2, <2>2, <2>3
<1>6. CASE Discovered
    <2>1. ~Wake /\ pc = "discover" /\ dir = {} /\ pc' = "visit" /\ pids' = pids
        BY <1>6 DEF Discovered, Wake
    <2>2. q \in pids'
        BY <1>3, <2>1 DEF q
    <2>3. QED
        BY <1>2, <2>1, <2>2
<1>7. CASE Visit
    <2>1. /\ ~Wake /\ pc = "visit" /\ pc' = "status" /\ cur' = Least(pids)
          /\ pids' = pids \ {Least(pids)} /\ snapshots' = snapshots
        BY <1>7 DEF Visit, Wake
    <2>2. QED
        BY <1>2, <1>3, <2>1 DEF q
<1>8. CASE ReadStatus
    <2>1. /\ ~Wake /\ pc = "status" /\ pc' = "exists" /\ cur' = cur
          /\ pids' = pids /\ snapshots' = snapshots
        BY <1>8 DEF ReadStatus, Wake
    <2>2. q = cur => snapshot'.status = l
        BY <1>1, <1>2, <1>8 DEF ReadStatus, Locals, Snapshots
    <2>3. QED
        BY <1>2, <1>3, <2>1, <2>2 DEF q
<1>9. CASE StatExists
    <2>1. /\ ~Wake /\ pc = "exists" /\ cur' = cur /\ snapshot' = snapshot
          /\ pids' = pids /\ snapshots' = snapshots
          /\ pc' = IF Holders(cur) = {} THEN "append" ELSE "stat"
        BY <1>9 DEF StatExists, Wake
    <2>2. q = cur => pc' = "stat"
        BY <1>2, <2>1
    <2>3. QED
        BY <1>2, <1>3, <2>1, <2>2 DEF q
<1>10. CASE ReadStat
    <2>1. /\ ~Wake /\ pc = "stat" /\ pc' = "append" /\ cur' = cur
          /\ pids' = pids /\ snapshots' = snapshots
        BY <1>10 DEF ReadStat, Wake
    <2>2. cur \in Pids /\ snapshot \in Snapshots
        BY <1>1, <2>1 DEF Locals
    <2>3. ASSUME q = cur
          PROVE  /\ snapshot'.status = snapshot.status /\ snapshot'.stat = l
                 /\ snapshot'.base = IF store[q] = None THEN None
                                     ELSE [stat |-> store[q].stat, poll |-> store[q].poll]
        BY <1>2, <1>10, <2>2, <2>3 DEF ReadStat, Snapshots
    <2>4. ASSUME q = cur, poll > 1, ThroughoutPoll(l, poll - 1)
          PROVE  snapshot'.base = [stat |-> l, poll |-> poll - 1]
        <3>1. Stored = poll - 1 /\ Stored > 0
            BY <1>1, <2>1, <2>4 DEF Stored
        <3>2. store[q] # None /\ store[q].stat = l
            BY <1>1, <2>4, <3>1 DEF StoreKnows, q
        <3>3. store[q].poll = poll - 1
            BY <1>1, <1>2, <2>1, <3>2 DEF BaselineIsLastPoll
        <3>4. QED
            BY <2>3, <2>4, <3>2, <3>3
    <2>5. q = cur => OwnBaseline(snapshot', l)
        BY <2>4 DEF OwnBaseline
    <2>6. q = cur => OwnBaseline(snapshot, l)'
        BY <2>5, <1>1, <1>3, <2>1 DEF OwnBaseline, ThroughoutPoll, Running, kernel
    <2>7. q = cur => snapshot'.status = l /\ snapshot'.stat = l
        BY <1>3, <2>1, <2>3 DEF q
    <2>8. QED
        BY <1>2, <1>3, <2>1, <2>6, <2>7 DEF q
<1>11. CASE StatGone
    <2>1. /\ ~Wake /\ pc = "stat" /\ Holders(cur) = {} /\ pc' = "terminated" /\ cur' = cur
          /\ snapshot' = snapshot /\ pids' = pids /\ snapshots' = snapshots
        BY <1>11 DEF StatGone, Wake
    <2>2. q # cur
        BY <1>2, <2>1
    <2>3. QED
        BY <1>2, <1>3, <2>1, <2>2 DEF q
<1>12. CASE EmplaceBack
    <2>1. /\ ~Wake /\ pc = "append" /\ pc' = "visit" /\ pids' = pids
          /\ \A p \in Pids : snapshots'[p] = IF p = cur THEN snapshot ELSE snapshots[p]
        BY <1>1, <1>12 DEF EmplaceBack, Wake, TypeOK
    <2>2. snapshot # None
        BY <1>1, <2>1, NoneAssumption DEF Locals
    <2>3. q \notin pids =>
             /\ snapshots'[q] # None /\ snapshots'[q].status = l /\ snapshots'[q].stat = l
             /\ OwnBaseline(snapshots'[q], l)
        BY <1>2, <1>3, <2>1, <2>2 DEF q
    <2>4. OwnBaseline(snapshots'[q], l) => OwnBaseline(snapshots[q], l)'
        BY <1>1, <1>2, <1>3, <2>1 DEF OwnBaseline, ThroughoutPoll, Running, kernel, q
    <2>5. QED
        BY <1>2, <2>1, <2>3, <2>4 DEF q
<1>13. CASE StoreSnapshots
    BY <1>13 DEF StoreSnapshots
<1>14. QED
    BY <1>4, <1>5, <1>6, <1>7, <1>8, <1>9, <1>10, <1>11, <1>12, <1>13 DEF Monitor

LEMMA HolderIsSeen ==
    ASSUME TypeOK, Processes, NEW p, NEW l \in Holders(p)
    PROVE  l \in Lives /\ pidOf[l] = p /\ DuringPoll(l, poll)
BY DEF Processes, Holders, Running, DuringPoll

LEMMA MonitorNobodyInvented ==
    ASSUME IInv, Monitor
    PROVE  NobodyInvented'
<1>1. TypeOK /\ Processes /\ Locals /\ NobodyInvented /\ UNCHANGED kernel
    BY MonitorLeavesKernel DEF IInv
<1> USE DEF NobodyInvented, Visiting
<1>2. CASE Wake
    BY <1>1, <1>2 DEF Wake, Locals, NoSnapshots
<1>3. CASE Discover
    <2>1. /\ poll' = poll /\ pc' = pc /\ pc = "discover" /\ snapshots' = snapshots
          /\ pids' = IF Holders(Least(dir)) # {} THEN pids \cup {Least(dir)} ELSE pids
        BY <1>3 DEF Discover
    <2>2. \A p \in pids' : Seen(p)
        BY <1>1, <2>1, HolderIsSeen DEF Seen
    <2>3. QED
        BY <1>1, <2>1, <2>2, WithinPoll
<1>4. CASE Discovered
    <2>1. /\ poll' = poll /\ pc' = "visit" /\ snapshots' = snapshots /\ pids' = pids
        BY <1>4 DEF Discovered
    <2>2. QED
        BY <1>1, <2>1, WithinPoll
<1>5. CASE Visit
    <2>1. /\ poll' = poll /\ snapshots' = snapshots /\ snapshot' = Blank
          /\ cur' = Least(pids) /\ pids' = pids \ {Least(pids)} /\ Least(pids) \in pids
        BY <1>1, <1>5, Taken DEF Visit
    <2>2. Seen(cur') /\ Owned(Blank, cur')
        BY <1>1, <2>1, ScanAssumption DEF Blank, Owned
    <2>3. Seen(cur)' /\ Owned(snapshot, cur)'
        BY <1>1, <2>1, <2>2, WithinPoll DEF Seen, Owned, DuringPoll, kernel
    <2>4. \A p \in Pids : snapshots[p] # None => Seen(p)' /\ Owned(snapshots[p], p)'
        BY <1>1, <2>1, WithinPoll
    <2>5. QED
        BY <1>1, <2>1, <2>3, <2>4, WithinPoll
<1>6. CASE ReadStatus
    <2>1. /\ poll' = poll /\ snapshots' = snapshots /\ pids' = pids /\ cur' = cur
          /\ pc = "status" /\ snapshot \in Snapshots
        BY <1>1, <1>6 DEF ReadStatus, Locals
    <2>2. Owned(snapshot', cur)
        <3>1. CASE snapshot' = snapshot
            BY <1>1, <2>1, <3>1
        <3>2. CASE \E l \in Holders(cur) :
                      snapshot' = [snapshot EXCEPT !.status = l, !.ppid = parent[l]]
            <4>1. PICK l \in Holders(cur) : snapshot' = [snapshot EXCEPT !.status = l, !.ppid = parent[l]]
                BY <3>2
            <4>2. snapshot'.status = l /\ snapshot'.stat = snapshot.stat
                BY <2>1, <4>1 DEF Snapshots
            <4>3. QED
                BY <1>1, <2>1, <4>1, <4>2, HolderIsSeen DEF Owned
        <3>3. QED
            BY <1>6, <3>1, <3>2 DEF ReadStatus
    <2>3. QED
        BY <1>1, <2>1, <2>2, WithinPoll DEF Owned, DuringPoll, kernel
<1>7. CASE StatExists
    <2>1. /\ poll' = poll /\ snapshots' = snapshots /\ pids' = pids /\ cur' = cur
          /\ pc = "exists" /\ snapshot' = snapshot
        BY <1>7 DEF StatExists
    <2>2. QED
        BY <1>1, <2>1, WithinPoll
<1>8. CASE ReadStat
    <2>1. /\ poll' = poll /\ snapshots' = snapshots /\ pids' = pids /\ cur' = cur
          /\ pc = "stat" /\ snapshot \in Snapshots
        BY <1>1, <1>8 DEF ReadStat, Locals
    <2>2. PICK l \in Holders(cur) : snapshot'.stat = l /\ snapshot'.status = snapshot.status
        BY <1>8, <2>1 DEF ReadStat, Snapshots
    <2>3. Owned(snapshot', cur)
        BY <1>1, <2>1, <2>2, HolderIsSeen DEF Owned
    <2>4. QED
        BY <1>1, <2>1, <2>3, WithinPoll DEF Owned, DuringPoll, kernel
<1>9. CASE StatGone
    <2>1. /\ poll' = poll /\ snapshots' = snapshots /\ pids' = pids /\ cur' = cur
          /\ pc = "stat" /\ snapshot' = snapshot
        BY <1>9 DEF StatGone
    <2>2. QED
        BY <1>1, <2>1, WithinPoll
<1>10. CASE EmplaceBack
    <2>1. /\ poll' = poll /\ pids' = pids /\ pc = "append" /\ pc' = "visit"
          /\ \A p \in Pids : snapshots'[p] = IF p = cur THEN snapshot ELSE snapshots[p]
        BY <1>1, <1>10 DEF EmplaceBack, TypeOK
    <2>2. \A p \in Pids : snapshots'[p] # None => Seen(p) /\ Owned(snapshots'[p], p)
        BY <1>1, <2>1
    <2>3. \A p \in Pids : snapshots'[p] # None => Seen(p)' /\ Owned(snapshots[p], p)'
        BY <1>1, <2>1, <2>2, WithinPoll DEF Owned, DuringPoll, kernel
    <2>4. QED
        BY <1>1, <2>1, <2>3, WithinPoll
<1>11. CASE StoreSnapshots
    BY <1>1, <1>11 DEF StoreSnapshots, NoSnapshots
<1>12. QED
    BY <1>2, <1>3, <1>4, <1>5, <1>6, <1>7, <1>8, <1>9, <1>10, <1>11 DEF Monitor

(* Whoever runs after the listing has been listed, or is new.              *)
LEMMA RunningIsListed ==
    ASSUME TypeOK, Processes, NobodyMissed, pc \in Visiting, NEW h \in Lives, Running(h)
    PROVE  \/ pidOf[h] \in pids \/ pidOf[h] = cur
           \/ snapshots[pidOf[h]] # None
           \/ birth[h] = poll
<1>1. CASE birth[h] = poll
    BY <1>1
<1>2. CASE birth[h] # poll
    <2>1. birth[h] < poll
        BY <1>2, ScanAssumption DEF Processes, TypeOK, Polls
    <2>2. ScanIsOn(h)
        BY <2>1 DEF NobodyMissed, ThroughoutPoll, Visiting
    <2>3. QED
        BY <2>2 DEF ScanIsOn
<1>3. QED
    BY <1>1, <1>2

LEMMA MonitorParentsListed ==
    ASSUME IInv, Monitor
    PROVE  ParentsListed'
<1>1. /\ TypeOK /\ Processes /\ Locals /\ NobodyMissed /\ ParentsListed
      /\ birth' = birth /\ pidOf' = pidOf
    BY MonitorLeavesKernel DEF IInv, kernel
<1> USE DEF ParentsListed, Visiting
<1>2. CASE Wake
    BY <1>1, <1>2 DEF Wake, Locals, NoSnapshots
<1>3. CASE Discover
    BY <1>1, <1>3 DEF Discover, Locals, NoSnapshots
<1>4. CASE Discovered
    BY <1>1, <1>4 DEF Discovered, Locals, ParentListed
<1>5. CASE Visit
    <2>1. /\ poll' = poll /\ snapshots' = snapshots /\ snapshot' = Blank /\ pc = "visit" /\ pc' = "status"
          /\ cur' = Least(pids) /\ pids' = pids \ {Least(pids)}
        BY <1>5 DEF Visit
    <2>2. ParentListed(snapshot)'
        BY <2>1 DEF Blank, ParentListed
    <2>3. \A s : ParentListed(s) => ParentListed(s)'
        BY <1>1, <2>1 DEF ParentListed
    <2>4. QED
        BY <1>1, <2>1, <2>2, <2>3
<1>6. CASE ReadStatus
    <2>1. /\ poll' = poll /\ snapshots' = snapshots /\ pc = "status" /\ pc' = "exists"
          /\ cur' = cur /\ pids' = pids /\ snapshot \in Snapshots
        BY <1>1, <1>6 DEF ReadStatus, Locals
    <2>2. \A s : ParentListed(s) <=> ParentListed(s)'
        BY <1>1, <2>1 DEF ParentListed
    <2>3. ParentListed(snapshot')
        <3>1. CASE snapshot' = snapshot
            BY <1>1, <2>1, <3>1
        <3>2. CASE \E l \in Holders(cur) :
                      snapshot' = [snapshot EXCEPT !.status = l, !.ppid = parent[l]]
            <4>1. PICK l \in Holders(cur) : snapshot' = [snapshot EXCEPT !.status = l, !.ppid = parent[l]]
                BY <3>2
            <4>2. snapshot'.ppid = parent[l] /\ l \in Lives /\ Running(l)
                BY <2>1, <4>1 DEF Snapshots, Holders
            <4>3. ASSUME parent[l] # 0
                  PROVE  \E h \in Lives : Running(h) /\ pidOf[h] = parent[l]
                BY <1>1, <4>2, <4>3 DEF Processes, Holders
            <4>4. QED
                BY <1>1, <2>1, <4>2, <4>3, RunningIsListed DEF ParentListed
        <3>3. QED
            BY <1>6, <3>1, <3>2 DEF ReadStatus
    <2>4. ParentListed(snapshot)'
        BY <1>1, <2>1, <2>3 DEF ParentListed
    <2>5. QED
        BY <1>1, <2>1, <2>2, <2>4
<1>7. CASE StatExists
    BY <1>1, <1>7 DEF StatExists, ParentListed
<1>8. CASE ReadStat
    <2>1. /\ poll' = poll /\ snapshots' = snapshots /\ pc = "stat" /\ pc' = "append"
          /\ cur' = cur /\ pids' = pids /\ snapshot'.ppid = snapshot.ppid
        BY <1>1, <1>8, FilesRead DEF ReadStat
    <2>2. QED
        BY <1>1, <2>1 DEF ParentListed
<1>9. CASE StatGone
    BY <1>1, <1>9 DEF StatGone, ParentListed
<1>10. CASE EmplaceBack
    <2>1. /\ poll' = poll /\ pids' = pids /\ pc = "append" /\ pc' = "visit"
          /\ cur \in Pids /\ snapshot # None
          /\ \A p \in Pids : snapshots'[p] = IF p = cur THEN snapshot ELSE snapshots[p]
        BY <1>1, <1>10, NoneAssumption DEF EmplaceBack, TypeOK, Locals
    <2>2. ASSUME NEW s \in Snapshots, ParentListed(s) PROVE ParentListed(s)'
        BY <1>1, <2>1, <2>2 DEF ParentListed, Snapshots
    <2>3. \A p \in Pids : snapshots'[p] # None => snapshots'[p] \in Snapshots /\ ParentListed(snapshots'[p])
        BY <1>1, <2>1 DEF TypeOK, Locals
    <2>4. \A p \in Pids : snapshots'[p] # None => ParentListed(snapshots[p])'
        BY <1>1, <2>1, <2>2, <2>3 DEF ParentListed, Snapshots
    <2>5. QED
        BY <2>1, <2>4
<1>11. CASE StoreSnapshots
    BY <1>1, <1>11 DEF StoreSnapshots, NoSnapshots
<1>12. QED
    BY <1>2, <1>3, <1>4, <1>5, <1>6, <1>7, <1>8, <1>9, <1>10, <1>11 DEF Monitor

-----------------------------------------------------------------------------
LEMMA InitIInv == Init => IInv
<1> SUFFICES ASSUME Init PROVE IInv
    OBVIOUS
<1> USE ScanAssumption DEF Init
<1>1. TypeOK
    BY DEF TypeOK, Polls, NoSnapshots
<1>2. Processes
    BY DEF Processes, Running, Holders
<1>3. Locals /\ FreshSnapshots /\ BaselineIsLastPoll /\ StoreKnows
    BY DEF Locals, FreshSnapshots, BaselineIsLastPoll, StoreKnows, Stored, Visiting, NoSnapshots
<1>4. NobodyMissed /\ NobodyInvented /\ ParentsListed
    BY DEF NobodyMissed, NobodyInvented, ParentsListed, Visiting, NoSnapshots
<1>5. QED
    BY <1>1, <1>2, <1>3, <1>4 DEF IInv

LEMMA NextIInv ==
    ASSUME IInv, [Next]_vars
    PROVE  IInv'
<1>1. CASE Kernel
    BY <1>1, KernelIInv
<1>2. CASE Monitor
    BY <1>2, MonitorTypeOK, MonitorProcesses, MonitorLocals, MonitorFresh, MonitorStoreKnows,
       MonitorNobodyMissed, MonitorNobodyInvented, MonitorParentsListed DEF IInv
<1>3. CASE UNCHANGED vars
    <2>1. UNCHANGED <<kernel, monitor>>
        BY <1>3 DEF vars
    <2>2. TypeOK' /\ Processes' /\ Locals' /\ FreshSnapshots' /\ BaselineIsLastPoll'
        BY <2>1 DEF IInv, kernel, monitor, TypeOK, Processes, Running, Holders, Locals,
                    FreshSnapshots, Fresh, BaselineIsLastPoll
    <2>3. StoreKnows' /\ NobodyMissed'
        BY <2>1 DEF IInv, kernel, monitor, StoreKnows, Stored, NobodyMissed, ScanIsOn,
                    OwnBaseline, ThroughoutPoll, Running
    <2>4. NobodyInvented' /\ ParentsListed'
        BY <2>1 DEF IInv, kernel, monitor, NobodyInvented, Seen, Owned, DuringPoll,
                    ParentsListed, ParentListed
    <2>5. QED
        BY <2>2, <2>3, <2>4 DEF IInv
<1>4. QED
    BY <1>1, <1>2, <1>3 DEF Next

(* What ties the kernel's processes, the place of the scan, what it has    *)
(* read and the store together, at every moment.                           *)
THEOREM Invariance == Spec => []IInv
<1>1. IInv /\ [Next]_vars => IInv'
    BY NextIInv
<1>2. QED
    BY InitIInv, <1>1, PTL DEF Spec

(* Every file that is recorded is that of a process, every figure in range.*)
THEOREM Types == Spec => []TypeOK
<1>1. IInv => TypeOK
    BY DEF IInv
<1>2. QED
    BY Invariance, <1>1, PTL

(* CPU time is divided by the interval from the poll before to this one.   *)
THEOREM LastPoll == Spec => []BaselineIsLastPoll
<1>1. IInv => BaselineIsLastPoll
    BY DEF IInv
<1>2. QED
    BY Invariance, <1>1, PTL

(* Whoever runs through a poll is in what it stores, with its own files.   *)
THEOREM Completeness == Spec => ScanIsComplete
<1>1. IInv => [StoreSnapshots =>
                 \A l \in Lives : ThroughoutPoll(l, poll) =>
                     /\ store'[pidOf[l]] # None
                     /\ store'[pidOf[l]].status = l
                     /\ store'[pidOf[l]].stat = l]_vars
    BY ScanEnds DEF IInv
<1>2. QED
    BY Invariance, <1>1, PTL DEF ScanIsComplete

(* Whoever runs through two polls is compared with itself.                 *)
THEOREM Survivors == Spec => SurvivorsHaveOwnBaseline
<1>1. ASSUME IInv, StoreSnapshots, NEW l \in Lives, poll > 1 /\ ThroughoutPoll(l, poll - 1)
      PROVE  store'[pidOf[l]].base = [stat |-> l, poll |-> poll - 1]
    <2>1. TypeOK /\ Locals /\ NobodyMissed
        BY <1>1 DEF IInv
    <2>2. ThroughoutPoll(l, poll)
        BY <1>1, <2>1, ScanAssumption DEF ThroughoutPoll, TypeOK, Polls
    <2>3. OwnBaseline(store'[pidOf[l]], l)
        BY <1>1, <2>1, <2>2, ScanEnds
    <2>4. QED
        BY <1>1, <2>3 DEF OwnBaseline
<1>2. IInv => [StoreSnapshots =>
                 \A l \in Lives : poll > 1 /\ ThroughoutPoll(l, poll - 1) =>
                     store'[pidOf[l]].base = [stat |-> l, poll |-> poll - 1]]_vars
    BY <1>1
<1>3. QED
    BY Invariance, <1>2, PTL DEF SurvivorsHaveOwnBaseline

(* Nothing is stored that was not there.                                   *)
THEOREM Reality == Spec => NoPhantoms
<1>1. IInv => [StoreSnapshots =>
                 \A p \in Pids : store'[p] # None =>
                     /\ \E l \in Lives : pidOf[l] = p /\ DuringPoll(l, poll)
                     /\ \A l \in Lives : l \in {store'[p].status, store'[p].stat} =>
                           pidOf[l] = p /\ DuringPoll(l, poll)]_vars
    BY DEF IInv, NobodyInvented, Seen, Owned, StoreSnapshots
<1>2. QED
    BY Invariance, <1>1, PTL DEF NoPhantoms

(* The parent that an entry names is an entry too, or has just started.    *)
THEOREM Parents == Spec => ParentsAreStored
<1>1. ASSUME IInv, StoreSnapshots, NEW p \in Pids, store'[p] # None /\ store'[p].ppid # 0
      PROVE  \/ store'[store'[p].ppid] # None
             \/ \E l \in Lives : pidOf[l] = store'[p].ppid /\ birth[l] = poll
    BY <1>1 DEF IInv, ParentsListed, ParentListed, StoreSnapshots, Visiting
<1>2. IInv => [StoreSnapshots =>
                 \A p \in Pids : store'[p] # None /\ store'[p].ppid # 0 =>
                     \/ store'[store'[p].ppid] # None
                     \/ \E l \in Lives : pidOf[l] = store'[p].ppid /\ birth[l] = poll]_vars
    BY <1>1
<1>3. QED
    BY Invariance, <1>2, PTL DEF ParentsAreStored

(* Each step of the scan brings its end nearer.                            *)
LEMMA StepAdvances ==
    ASSUME TypeOK, Locals, Monitor, pc # "sleep"
    PROVE  Remaining' < Remaining
<1>1. /\ IsFiniteSet(pids) /\ IsFiniteSet(dir)
      /\ IsFiniteSet(pids \cup dir) /\ pids \subseteq Pids /\ dir \subseteq Pids
    BY ScanAssumption, FS_Subset, FS_Union DEF TypeOK
<1>2. Cardinality(pids) \in Nat /\ Cardinality(dir) \in Nat /\ Cardinality(pids \cup dir) \in Nat
    BY <1>1, FS_CardinalityType
<1> USE DEF Remaining
<1>3. CASE Discover
    <2>1. /\ pc = "discover" /\ pc' = pc /\ dir # {} /\ dir' = dir \ {Least(dir)}
          /\ Least(dir) \in dir /\ pids' \cup dir' \subseteq pids \cup dir
        BY <1>3, Taken DEF Discover
    <2>2. Cardinality(dir') = Cardinality(dir) - 1 /\ Cardinality(dir') \in Nat
        BY <1>1, <1>2, <2>1, FS_RemoveElement, FS_CardinalityType
    <2>3. Cardinality(pids' \cup dir') <= Cardinality(pids \cup dir)
          /\ Cardinality(pids' \cup dir') \in Nat
        BY <1>1, <2>1, FS_Subset, FS_CardinalityType
    <2>4. QED
        BY <1>2, <2>1, <2>2, <2>3
<1>4. CASE Discovered
    <2>1. pc = "discover" /\ pc' = "visit" /\ pids' = pids /\ dir = {} /\ pids \cup dir = pids
        BY <1>4 DEF Discovered
    <2>2. QED
        BY <1>2, <2>1
<1>5. CASE Visit
    <2>1. /\ pc = "visit" /\ pc' = "status" /\ pids' = pids \ {Least(pids)}
          /\ Least(pids) \in pids
        BY <1>5, Taken DEF Visit
    <2>2. Cardinality(pids') = Cardinality(pids) - 1
        BY <1>1, <2>1, FS_RemoveElement
    <2>3. QED
        BY <1>2, <2>1, <2>2
<1>6. CASE ReadStatus
    <2>1. pc = "status" /\ pc' = "exists" /\ pids' = pids
        BY <1>6 DEF ReadStatus
    <2>2. QED
        BY <1>2, <2>1
<1>7. CASE StatExists
    <2>1. pc = "exists" /\ pc' \in {"append", "stat"} /\ pids' = pids
        BY <1>7 DEF StatExists
    <2>2. QED
        BY <1>2, <2>1
<1>8. CASE ReadStat
    <2>1. pc = "stat" /\ pc' = "append" /\ pids' = pids
        BY <1>8 DEF ReadStat
    <2>2. QED
        BY <1>2, <2>1
<1>9. CASE StatGone
    <2>1. pc = "stat" /\ pc' = "terminated" /\ pids' = pids
        BY <1>9 DEF StatGone
    <2>2. QED
        BY <1>2, <2>1
<1>10. CASE EmplaceBack
    <2>1. pc = "append" /\ pc' = "visit" /\ pids' = pids
        BY <1>10 DEF EmplaceBack
    <2>2. QED
        BY <1>2, <2>1
<1>11. CASE StoreSnapshots
    <2>1. pc = "visit" /\ pids = {} /\ pc' = "sleep"
        BY <1>11 DEF StoreSnapshots
    <2>2. QED
        BY <1>2, <2>1
<1>12. QED
    BY <1>3, <1>4, <1>5, <1>6, <1>7, <1>8, <1>9, <1>10, <1>11 DEF Monitor, Wake

(* The scan comes to its end, whatever the kernel does meanwhile: there    *)
(* are only so many steps left, and each step leaves fewer.                *)
THEOREM Progress == Spec => ScanAdvances
<1>1. ASSUME IInv, Next, pc # "sleep", monitor' # monitor
      PROVE  Remaining' < Remaining
    <2>1. CASE Kernel
        BY <1>1, <2>1, KernelKeeps
    <2>2. CASE Monitor
        BY <1>1, <2>2, StepAdvances DEF IInv
    <2>3. QED
        BY <1>1, <2>1, <2>2 DEF Next
<1>2. IInv /\ [Next]_vars => [pc # "sleep" /\ monitor' # monitor => Remaining' < Remaining]_vars
    BY <1>1
<1>3. QED
    BY Invariance, <1>2, PTL DEF Spec, ScanAdvances

-----------------------------------------------------------------------------
(* The kernel's tree: init has no parent, everyone else has one that is no *)
(* younger, and everyone descends from init.                               *)

IsParent(k, l) == Running(k) /\ pidOf[k] = parent[l]

Descending(S) == \A k \in S, l \in Lives : Running(l) /\ IsParent(k, l) => l \in S

Ancestry ==
    /\ parent[InitLife] = 0 /\ birth[InitLife] = 0
    /\ \A l \in Lives : Running(l) /\ l # InitLife => parent[l] # 0
    /\ \A k, l \in Lives : Running(l) /\ IsParent(k, l) => birth[k] <= birth[l]
    /\ \A S \in SUBSET Lives :
          InitLife \in S /\ Descending(S) => \A l \in Lives : Running(l) => l \in S

(* Whoever cannot have lost its parent since the poll began has the parent *)
(* that was read for it.                                                   *)
Kept(l) == l = InitLife \/ \A k \in Lives : death[k] # poll

ParentsRead ==
    pc # "sleep" => \A l \in Lives : ThroughoutPoll(l, poll) /\ Kept(l) =>
        /\ pc \in {"exists", "stat", "append"} /\ cur = pidOf[l] => snapshot.ppid = parent[l]
        /\ snapshots[pidOf[l]] # None => snapshots[pidOf[l]].ppid = parent[l]

TreeInv == Ancestry /\ ParentsRead

(* A fork adds a leaf to the tree.                                         *)
LEMMA ForkTree ==
    ASSUME IInv, TreeInv, NEW l \in Lives, NEW child \in Lives, NEW p \in Pids, Fork(l, child, p)
    PROVE  TreeInv'
<1>1. TypeOK /\ Processes /\ Locals /\ Ancestry /\ ParentsRead
    BY DEF IInv, TreeInv
<1>2. /\ pidOf[child] = None /\ Running(l) /\ Holders(p) = {} /\ l # child /\ child # InitLife
      /\ pidOf' = [pidOf EXCEPT ![child] = p]
      /\ parent' = [parent EXCEPT ![child] = pidOf[l]]
      /\ birth' = [birth EXCEPT ![child] = poll]
      /\ death' = death /\ poll' = poll
    BY <1>1 DEF Fork, monitor, Running, Processes
<1>3. \A k \in Lives : k # child =>
         /\ pidOf'[k] = pidOf[k] /\ parent'[k] = parent[k] /\ birth'[k] = birth[k]
         /\ Running(k)' = Running(k)
    BY <1>1, <1>2 DEF TypeOK, Running
<1>4. /\ pidOf'[child] = p /\ parent'[child] = pidOf[l] /\ birth'[child] = poll
      /\ Running(child)' /\ ~Running(child)
    BY <1>1, <1>2, ScanAssumption DEF TypeOK, Processes, Running
<1>5. InitLife \in Lives /\ 0 \notin Pids /\ None \notin Pids
    BY ScanAssumption
<1>6. ASSUME NEW k \in Lives, NEW m \in Lives, Running(m)', IsParent(k, m)'
      PROVE  (m = child /\ k = l) \/ (m # child /\ k # child /\ Running(m) /\ IsParent(k, m))
    <2>1. Running(k)' /\ pidOf'[k] = parent'[m]
        BY <1>6 DEF IsParent
    <2>2. pidOf[l] \in Pids /\ pidOf[l] # p
        BY <1>1, <1>2 DEF TypeOK, Running, Holders
    <2>3. CASE m = child
        <3>1. k # child
            BY <1>4, <2>1, <2>2, <2>3
        <3>2. Running(k) /\ pidOf[k] = pidOf[l]
            BY <1>3, <1>4, <2>1, <2>3, <3>1
        <3>3. QED
            BY <1>1, <1>2, <2>3, <3>2 DEF Processes
    <2>4. CASE m # child
        <3>1. Running(m) /\ parent'[m] = parent[m]
            BY <1>3, <1>6, <2>4
        <3>2. parent[m] # p
            BY <1>1, <1>2, <1>5, <3>1 DEF Processes
        <3>3. k # child
            BY <1>4, <2>1, <3>1, <3>2
        <3>4. IsParent(k, m)
            BY <1>3, <2>1, <3>1, <3>3 DEF IsParent
        <3>5. QED
            BY <2>4, <3>1, <3>3, <3>4
    <2>5. QED
        BY <2>3, <2>4
<1>7. Ancestry'
    <2>1. parent'[InitLife] = 0 /\ birth'[InitLife] = 0
        BY <1>1, <1>2, <1>3, <1>5 DEF Ancestry
    <2>2. ASSUME NEW m \in Lives, Running(m)', m # InitLife PROVE parent'[m] # 0
        BY <1>1, <1>2, <1>3, <1>4, <1>5, <2>2 DEF Ancestry, TypeOK, Running
    <2>3. ASSUME NEW k \in Lives, NEW m \in Lives, Running(m)', IsParent(k, m)'
          PROVE  birth'[k] <= birth'[m]
        BY <1>1, <1>2, <1>3, <1>4, <1>6, <2>3 DEF Ancestry, Processes
    <2>4. ASSUME NEW S \in SUBSET Lives, InitLife \in S, Descending(S)', NEW m \in Lives, Running(m)'
          PROVE  m \in S
        <3>1. ASSUME NEW k \in S, NEW h \in Lives, Running(h), IsParent(k, h) PROVE h \in S
            <4>1. k # child /\ h # child /\ k \in Lives
                BY <1>4, <3>1 DEF IsParent
            <4>2. Running(h)' /\ IsParent(k, h)'
                BY <1>3, <3>1, <4>1 DEF IsParent
            <4>3. QED
                BY <2>4, <4>2 DEF Descending
        <3>2. Descending(S)
            BY <3>1 DEF Descending
        <3>3. \A h \in Lives : Running(h) => h \in S
            BY <1>1, <2>4, <3>2 DEF Ancestry
        <3>4. IsParent(l, child)' /\ l \in S
            BY <1>2, <1>3, <1>4, <3>3 DEF IsParent
        <3>5. child \in S
            BY <1>4, <2>4, <3>4 DEF Descending
        <3>6. QED
            BY <1>3, <2>4, <3>3, <3>5
    <2>5. QED
        BY <2>1, <2>2, <2>3, <2>4 DEF Ancestry
<1>8. ParentsRead'
    <2>1. /\ pc' = pc /\ cur' = cur /\ snapshot' = snapshot /\ snapshots' = snapshots
        BY DEF Fork, monitor
    <2>2. ASSUME pc # "sleep", NEW m \in Lives, ThroughoutPoll(m, poll)', Kept(m)'
          PROVE  ThroughoutPoll(m, poll) /\ Kept(m) /\ pidOf'[m] = pidOf[m] /\ parent'[m] = parent[m]
        <3>1. m # child
            BY <1>1, <1>2, <1>4, <2>2, ScanAssumption DEF ThroughoutPoll, TypeOK, Polls
        <3>2. QED
            BY <1>2, <1>3, <2>2, <3>1 DEF ThroughoutPoll, Kept
    <2>3. QED
        BY <1>1, <2>1, <2>2, <1>2 DEF ParentsRead
<1>9. QED
    BY <1>7, <1>8 DEF TreeInv

(* When a process ends its children are moved to the root.                 *)
LEMMA ExitTree ==
    ASSUME IInv, TreeInv, NEW l \in Lives, Exit(l)
    PROVE  TreeInv'
<1>1. TypeOK /\ Processes /\ Locals /\ Ancestry /\ ParentsRead
    BY DEF IInv, TreeInv
<1>2. /\ l # InitLife /\ Running(l)
      /\ death' = [death EXCEPT ![l] = poll]
      /\ parent' = [k \in Lives |-> IF Running(k) /\ parent[k] = pidOf[l] THEN 1 ELSE parent[k]]
      /\ pidOf' = pidOf /\ birth' = birth /\ poll' = poll
    BY DEF Exit, monitor
<1>3. \A k \in Lives : Running(k)' <=> Running(k) /\ k # l
    BY <1>1, <1>2, ScanAssumption DEF Running, TypeOK, Polls
<1>4. /\ InitLife \in Lives /\ 0 \notin Pids /\ pidOf[l] \in Pids
      /\ Running(InitLife) /\ pidOf[InitLife] = 1 /\ Running(InitLife)'
    BY <1>1, <1>2, <1>3, ScanAssumption DEF TypeOK, Processes, Running
<1>5. parent'[InitLife] = 0
    BY <1>1, <1>2, <1>4 DEF Ancestry
<1>6. \A k \in Lives : Running(k) /\ parent[k] = pidOf[l] => parent'[k] = 1
    BY <1>2
<1>7. \A k \in Lives : parent[k] # pidOf[l] => parent'[k] = parent[k]
    BY <1>2
<1>8. Ancestry'
    <2>1. birth'[InitLife] = 0
        BY <1>1, <1>2 DEF Ancestry
    <2>2. ASSUME NEW m \in Lives, Running(m)', m # InitLife PROVE parent'[m] # 0
        BY <1>1, <1>3, <1>6, <1>7, <2>2 DEF Ancestry
    <2>3. ASSUME NEW k \in Lives, NEW m \in Lives, Running(m)', IsParent(k, m)'
          PROVE  birth'[k] <= birth'[m]
        <3>1. Running(k) /\ Running(m) /\ pidOf[k] = parent'[m]
            BY <1>2, <1>3, <2>3 DEF IsParent
        <3>2. CASE parent[m] = pidOf[l]
            <4>1. k = InitLife
                BY <1>1, <1>4, <1>6, <3>1, <3>2 DEF Processes
            <4>2. birth[m] \in Nat
                BY <1>1, ScanAssumption DEF TypeOK, Polls
            <4>3. QED
                BY <1>1, <1>2, <4>1, <4>2 DEF Ancestry
        <3>3. CASE parent[m] # pidOf[l]
            <4>1. IsParent(k, m)
                BY <1>7, <3>1, <3>3 DEF IsParent
            <4>2. QED
                BY <1>1, <1>2, <3>1, <4>1 DEF Ancestry
        <3>4. QED
            BY <3>2, <3>3
    <2>4. ASSUME NEW S \in SUBSET Lives, InitLife \in S, Descending(S)', NEW m \in Lives, Running(m)'
          PROVE  m \in S
        <3> DEFINE T == S \cup {l}
        <3>1. ASSUME NEW k \in T, NEW h \in Lives, Running(h), IsParent(k, h) PROVE h \in T
            <4>1. CASE h = l
                BY <4>1
            <4>2. CASE h # l /\ k = l
                <5>1. parent'[h] = 1 /\ Running(h)'
                    BY <1>3, <1>6, <3>1, <4>2 DEF IsParent
                <5>2. IsParent(InitLife, h)'
                    BY <1>2, <1>4, <5>1 DEF IsParent
                <5>3. QED
                    BY <2>4, <5>1, <5>2 DEF Descending
            <4>3. CASE h # l /\ k # l
                <5>1. k \in S /\ k \in Lives /\ Running(k) /\ pidOf[k] = parent[h]
                    BY <3>1, <4>3 DEF IsParent
                <5>2. parent[h] # pidOf[l]
                    BY <1>1, <1>2, <4>3, <5>1 DEF Processes
                <5>3. Running(h)' /\ IsParent(k, h)'
                    BY <1>2, <1>3, <1>7, <3>1, <4>3, <5>1, <5>2 DEF IsParent
                <5>4. QED
                    BY <2>4, <5>1, <5>3 DEF Descending
            <4>4. QED
                BY <4>1, <4>2, <4>3
        <3>2. Descending(T) /\ T \in SUBSET Lives /\ InitLife \in T
            BY <2>4, <3>1 DEF Descending
        <3> HIDE DEF T
        <3>3. m \in T
            BY <1>1, <1>3, <2>4, <3>2 DEF Ancestry
        <3>4. QED
            BY <1>3, <2>4, <3>3 DEF T
    <2>5. QED
        BY <1>5, <2>1, <2>2, <2>3, <2>4 DEF Ancestry
<1>9. ParentsRead'
    <2>1. /\ pc' = pc /\ cur' = cur /\ snapshot' = snapshot /\ snapshots' = snapshots
        BY DEF Exit, monitor
    <2>2. ASSUME NEW m \in Lives, ThroughoutPoll(m, poll)', Kept(m)'
          PROVE  /\ ThroughoutPoll(m, poll) /\ Kept(m) /\ pidOf'[m] = pidOf[m]
                 /\ parent'[m] = parent[m]
        <3>1. death'[l] = poll'
            BY <1>1, <1>2 DEF TypeOK
        <3>2. m = InitLife
            BY <2>2, <3>1 DEF Kept
        <3>3. QED
            BY <1>1, <1>2, <1>3, <1>5, <2>2, <3>2 DEF ThroughoutPoll, Kept, Ancestry
    <2>3. QED
        BY <1>1, <2>1, <2>2, <1>2 DEF ParentsRead
<1>10. QED
    BY <1>8, <1>9 DEF TreeInv

(* What has been read of a parent is read of the one that there is.        *)
LEMMA MonitorTree ==
    ASSUME IInv, TreeInv, Monitor
    PROVE  TreeInv'
<1>1. /\ TypeOK /\ Processes /\ Locals /\ Ancestry /\ ParentsRead
      /\ pidOf' = pidOf /\ parent' = parent /\ birth' = birth /\ death' = death
    BY MonitorLeavesKernel DEF IInv, TreeInv, kernel
<1>2. Ancestry'
    BY <1>1 DEF Ancestry, IsParent, Running, Descending
<1>3. ParentsRead'
    <2> USE DEF ParentsRead
    <2>1. CASE Wake
        <3>1. pc' = "discover" /\ snapshots' = NoSnapshots
            BY <1>1, <2>1 DEF Wake, Locals
        <3>2. ASSUME NEW l \in Lives, ThroughoutPoll(l, poll)' PROVE snapshots'[pidOf'[l]] = None
            BY <1>1, <3>1, <3>2 DEF ThroughoutPoll, Running, TypeOK, NoSnapshots
        <3>3. QED
            BY <3>1, <3>2
    <2>2. ASSUME poll' = poll
          PROVE  \A l \in Lives : ThroughoutPoll(l, poll)' /\ Kept(l)' =>
                    ThroughoutPoll(l, poll) /\ Kept(l) /\ pidOf[l] \in Pids
        BY <1>1, <2>2 DEF ThroughoutPoll, Running, Kept, TypeOK
    <2>3. CASE Discover
        BY <1>1, <2>2, <2>3 DEF Discover
    <2>4. CASE Discovered
        BY <1>1, <2>2, <2>4 DEF Discovered
    <2>5. CASE Visit
        BY <1>1, <2>2, <2>5 DEF Visit
    <2>6. CASE ReadStatus
        <3>1. /\ poll' = poll /\ snapshots' = snapshots /\ pc = "status" /\ pc' = "exists"
              /\ cur' = cur /\ snapshot \in Snapshots
            BY <1>1, <2>6 DEF ReadStatus, Locals, Visiting
        <3>2. ASSUME NEW l \in Lives, ThroughoutPoll(l, poll), cur = pidOf[l]
              PROVE  snapshot'.ppid = parent[l]
            <4>1. l \in Holders(cur)
                BY <3>2 DEF Holders, ThroughoutPoll
            <4>2. \A h \in Holders(cur) : h = l
                BY <1>1, <4>1 DEF Processes, Holders
            <4>3. snapshot' = [snapshot EXCEPT !.status = l, !.ppid = parent[l]]
                BY <2>6, <4>1, <4>2 DEF ReadStatus
            <4>4. QED
                BY <3>1, <4>3 DEF Snapshots
        <3>3. QED
            BY <1>1, <2>2, <3>1, <3>2
    <2>7. CASE StatExists
        BY <1>1, <2>2, <2>7 DEF StatExists
    <2>8. CASE ReadStat
        <3>1. /\ poll' = poll /\ snapshots' = snapshots /\ pc = "stat" /\ pc' = "append"
              /\ cur' = cur /\ snapshot'.ppid = snapshot.ppid
            BY <1>1, <2>8, FilesRead DEF ReadStat, Visiting
        <3>2. QED
            BY <1>1, <2>2, <3>1
    <2>9. CASE StatGone
        BY <1>1, <2>2, <2>9 DEF StatGone
    <2>10. CASE EmplaceBack
        <3>1. /\ poll' = poll /\ pc = "append" /\ pc' = "visit"
              /\ \A p \in Pids : snapshots'[p] = IF p = cur THEN snapshot ELSE snapshots[p]
            BY <1>1, <2>10 DEF EmplaceBack, TypeOK
        <3>2. QED
            BY <1>1, <2>2, <3>1
    <2>11. CASE StoreSnapshots
        BY <2>11 DEF StoreSnapshots
    <2>12. QED
        BY <2>1, <2>3, <2>4, <2>5, <2>6, <2>7, <2>8, <2>9, <2>10, <2>11 DEF Monitor
<1>4. QED
    BY <1>2, <1>3 DEF TreeInv

LEMMA InitTree == Init => TreeInv
<1> SUFFICES ASSUME Init PROVE TreeInv
    OBVIOUS
<1>1. \A l \in Lives : Running(l) => l = InitLife
    BY DEF Init, Running
<1>2. Ancestry
    BY <1>1, ScanAssumption DEF Init, Ancestry
<1>3. QED
    BY <1>2 DEF TreeInv, ParentsRead, Init

LEMMA NextTree ==
    ASSUME IInv, TreeInv, [Next]_vars
    PROVE  TreeInv'
<1>1. CASE Kernel
    BY <1>1, ForkTree, ExitTree DEF Kernel
<1>2. CASE Monitor
    BY <1>2, MonitorTree
<1>3. CASE UNCHANGED vars
    BY <1>3 DEF vars, kernel, monitor, TreeInv, Ancestry, IsParent, Running, Descending,
                ParentsRead, ThroughoutPoll, Kept
<1>4. QED
    BY <1>1, <1>2, <1>3 DEF Next

(* The tree of the kernel, and what a scan has read of it.                 *)
THEOREM TreeInvariance == Spec => []TreeInv
<1>1. IInv /\ TreeInv /\ [Next]_vars => TreeInv'
    BY NextTree
<1>2. QED
    BY Invariance, InitTree, <1>1, PTL DEF Spec

-----------------------------------------------------------------------------
(* The page's tree.  Induction over numbers and over sets of pids, stated  *)
(* with sets instead of predicates.                                        *)

LEMMA NatInductionOnSets ==
    ASSUME NEW S, 0 \in S, \A n \in Nat : n \in S => n + 1 \in S
    PROVE  Nat \subseteq S
<1> DEFINE Others == Nat \ S
<1>1. SUFFICES ASSUME Others # {} PROVE FALSE
    OBVIOUS
<1>2. PICK least \in Others : \A n \in Others : <<n, least>> \notin OpToRel(<, Nat)
    <2>1. Others \subseteq Nat
        OBVIOUS
    <2>2. QED
        BY ONLY <1>1, <2>1, NatLessThanWellFounded, WFMin
<1>3. \A n \in Others : ~(n < least)
    BY <1>2 DEF OpToRel
<1>4. least # 0 /\ least - 1 \in Nat
    OBVIOUS
<1>5. least - 1 \in S
    BY <1>3, <1>4
<1>6. QED
    BY <1>4, <1>5

LEMMA PidsAre ==
    ASSUME NEW S \in SUBSET Pids
    PROVE  /\ IsFiniteSet(S) /\ Cardinality(S) \in Nat
           /\ Cardinality(S) <= Cardinality(Pids)
BY ScanAssumption, FS_Subset, FS_CardinalityType

LEMMA PidSetInduction ==
    ASSUME NEW F, {} \in F,
           \A S \in SUBSET Pids : S # {} /\ S \ {Least(S)} \in F => S \in F
    PROVE  SUBSET Pids \subseteq F
<1> DEFINE Sizes == {n \in Nat : \A S \in SUBSET Pids : Cardinality(S) = n => S \in F}
<1>1. 0 \in Sizes
    <2>1. ASSUME NEW S \in SUBSET Pids, Cardinality(S) = 0 PROVE S \in F
        <3>1. IsFiniteSet(S)
            BY PidsAre
        <3>2. S = {}
            BY <2>1, <3>1, FS_EmptySet
        <3>3. QED
            BY <3>2
    <2>2. QED
        BY <2>1
<1>2. ASSUME NEW n \in Nat, n \in Sizes PROVE n + 1 \in Sizes
    <2>1. ASSUME NEW S \in SUBSET Pids, Cardinality(S) = n + 1 PROVE S \in F
        <3>1. IsFiniteSet(S) /\ S # {}
            BY <2>1, PidsAre, FS_EmptySet
        <3>2. Least(S) \in S
            BY <3>1, LeastIn
        <3>3. Cardinality(S \ {Least(S)}) = n
            <4>1. Cardinality(S \ {Least(S)}) = Cardinality(S) - 1
                BY <3>1, <3>2, FS_RemoveElement
            <4>2. QED
                BY <2>1, <4>1
        <3>4. S \ {Least(S)} \in F
            BY <1>2, <3>3
        <3>5. QED
            BY <3>1, <3>4
    <2>2. QED
        BY <2>1
<1> HIDE DEF Sizes
<1>3. Nat \subseteq Sizes
    BY <1>1, <1>2, NatInductionOnSets
<1>4. QED
    BY <1>3, PidsAre DEF Sizes

-----------------------------------------------------------------------------
(* ListChildren is a fold: the choice of a function that satisfies a       *)
(* recursive equation.  There is one.                                      *)

IsListing(g, S, below) ==
    g = [s \in SUBSET S |->
            IF s = {} THEN <<>> ELSE <<Least(s)>> \o below[Least(s)] \o g[s \ {Least(s)}]]

LEMMA ListingExists ==
    ASSUME NEW below, NEW S \in SUBSET Pids
    PROVE  \E g : IsListing(g, S, below)
<1> DEFINE F == {s \in SUBSET Pids : \E g : IsListing(g, s, below)}
<1>1. {} \in F
    <2> DEFINE g == [s \in SUBSET {} |-> <<>>]
    <2>1. IsListing(g, {}, below)
        BY DEF IsListing
    <2>2. QED
        BY <2>1
<1>2. ASSUME NEW T \in SUBSET Pids, T # {}, T \ {Least(T)} \in F PROVE T \in F
    <2> DEFINE first == Least(T)
    <2>1. PICK g : IsListing(g, T \ {first}, below)
        BY <1>2
    <2>2. first \in T /\ \A x \in T : first <= x
        BY <1>2, LeastIn, LeastIs
    <2> HIDE DEF first
    <2> DEFINE h == [s \in SUBSET T |->
                        IF first \in s THEN <<first>> \o below[first] \o g[s \ {first}] ELSE g[s]]
    <2>3. ASSUME NEW s \in SUBSET T
          PROVE  h[s] = IF s = {} THEN <<>>
                        ELSE <<Least(s)>> \o below[Least(s)] \o h[s \ {Least(s)}]
        <3>1. CASE first \in s
            <4>1. Least(s) = first
                BY <2>2, <3>1, LeastIs
            <4>2. h[s \ {first}] = g[s \ {first}]
                OBVIOUS
            <4>3. h[s] = <<first>> \o below[first] \o g[s \ {first}] /\ s # {}
                BY <3>1
            <4>4. QED
                BY <4>1, <4>2, <4>3
        <3>2. CASE first \notin s
            <4>1. s \in SUBSET (T \ {first}) /\ s \ {Least(s)} \in SUBSET (T \ {first})
                BY <3>2
            <4>2. h[s] = g[s] /\ h[s \ {Least(s)}] = g[s \ {Least(s)}]
                BY <3>2
            <4>3. g[s] = IF s = {} THEN <<>>
                         ELSE <<Least(s)>> \o below[Least(s)] \o g[s \ {Least(s)}]
                BY <2>1, <4>1 DEF IsListing
            <4>4. QED
                BY <4>2, <4>3
        <3>3. QED
            BY <3>1, <3>2
    <2>4. IsListing(h, T, below)
        BY ONLY <2>3 DEF IsListing, h
    <2>5. QED
        BY <2>4
<1> HIDE DEF F
<1>3. SUBSET Pids \subseteq F
    BY <1>1, <1>2, PidSetInduction
<1>4. QED
    BY <1>3 DEF F

LEMMA ListChildrenLists ==
    ASSUME NEW procs, NEW p, NEW below
    PROVE  \E g : /\ IsListing(g, WithParent(procs, p), below)
                  /\ ListChildren(procs, p, below) = g[WithParent(procs, p)]
<1> DEFINE S == WithParent(procs, p)
<1> DEFINE P(g) == g = [s \in SUBSET S |->
            IF s = {} THEN <<>> ELSE <<Least(s)>> \o below[Least(s)] \o g[s \ {Least(s)}]]
<1>1. ListChildren(procs, p, below) = (CHOOSE g : P(g))[S]
    BY DEF ListChildren, MapThenFoldSet
<1>2. S \in SUBSET Pids
    BY DEF WithParent
<1> HIDE DEF S, P
<1>3. \A g : P(g) <=> IsListing(g, S, below)
    BY DEF P, IsListing
<1>4. \E g : P(g)
    BY <1>2, <1>3, ListingExists
<1>5. P(CHOOSE g : P(g))
    BY <1>4
<1>6. QED
    BY <1>1, <1>3, <1>5 DEF S

-----------------------------------------------------------------------------
(* Everyone below a process, by the parent links of a list.                *)

Closed(procs, S) == \A y \in S : WithParent(procs, y) \subseteq S

Below(procs, p) ==
    {x \in Pids : \A S \in SUBSET Pids : WithParent(procs, p) \subseteq S /\ Closed(procs, S) => x \in S}

LEMMA BelowIsClosed ==
    ASSUME NEW procs, NEW p
    PROVE  WithParent(procs, p) \subseteq Below(procs, p) /\ Closed(procs, Below(procs, p))
<1>1. WithParent(procs, p) \subseteq Below(procs, p)
    BY DEF Below, WithParent
<1>2. ASSUME NEW y \in Below(procs, p), NEW x \in WithParent(procs, y) PROVE x \in Below(procs, p)
    BY DEF Below, WithParent, Closed
<1>3. QED
    BY <1>1, <1>2 DEF Closed

LEMMA BelowIsLeast ==
    ASSUME NEW procs, NEW p, NEW S \in SUBSET Pids,
           WithParent(procs, p) \subseteq S, Closed(procs, S)
    PROVE  Below(procs, p) \subseteq S
BY DEF Below

LEMMA BelowChild ==
    ASSUME NEW procs, NEW p, NEW c \in WithParent(procs, p)
    PROVE  /\ c \in Below(procs, p) /\ Below(procs, c) \subseteq Below(procs, p)
           /\ c \in Pids
<1>1. Below(procs, p) \in SUBSET Pids
    BY DEF Below
<1>2. c \in Below(procs, p) /\ Closed(procs, Below(procs, p))
    BY BelowIsClosed
<1>3. WithParent(procs, c) \subseteq Below(procs, p)
    BY <1>2 DEF Closed
<1>4. QED
    BY <1>1, <1>2, <1>3, BelowIsLeast DEF WithParent

(* Who is below a process has its parent there, unless that is the process. *)
LEMMA BelowHasParent ==
    ASSUME NEW procs, NEW p, NEW x \in Below(procs, p)
    PROVE  x \in WithParent(procs, p) \/ \E y \in Below(procs, p) : x \in WithParent(procs, y)
<1> DEFINE S == {z \in Below(procs, p) :
                    z \in WithParent(procs, p) \/ \E y \in Below(procs, p) : z \in WithParent(procs, y)}
<1>1. WithParent(procs, p) \subseteq S
    BY BelowIsClosed
<1>2. Closed(procs, S)
    BY BelowIsClosed DEF Closed
<1>3. S \in SUBSET Pids
    BY DEF Below
<1> HIDE DEF S
<1>4. x \in S
    BY <1>1, <1>2, <1>3, BelowIsLeast
<1>5. QED
    BY <1>4 DEF S

(* Who is below a process is one of its children or below one.             *)
LEMMA BelowByChild ==
    ASSUME NEW procs, NEW p, NEW x \in Below(procs, p)
    PROVE  \E c \in WithParent(procs, p) : x = c \/ x \in Below(procs, c)
<1> DEFINE S == {z \in Pids : \E c \in WithParent(procs, p) : z = c \/ z \in Below(procs, c)}
<1>1. WithParent(procs, p) \subseteq S
    BY DEF WithParent
<1>2. ASSUME NEW y \in S, NEW z \in WithParent(procs, y) PROVE z \in S
    <2>1. PICK c \in WithParent(procs, p) : y = c \/ y \in Below(procs, c)
        OBVIOUS
    <2>2. z \in Below(procs, c)
        BY <2>1, BelowIsClosed DEF Closed
    <2>3. QED
        BY <2>2 DEF Below
<1>3. S \in SUBSET Pids
    OBVIOUS
<1> HIDE DEF S
<1>4. x \in S
    BY <1>1, <1>2, <1>3, BelowIsLeast DEF Closed
<1>5. QED
    BY <1>4 DEF S

(* A process has one parent: nobody who is not below himself has a child   *)
(* who is, nor two children with somebody in common.                       *)
LEMMA OneParent ==
    ASSUME NEW procs, NEW x, NEW p, NEW q, x \in WithParent(procs, p), x \in WithParent(procs, q)
    PROVE  p = q
BY DEF WithParent

LEMMA ChildNotBelowItself ==
    ASSUME NEW procs, NEW p, p \notin Below(procs, p), NEW c \in WithParent(procs, p)
    PROVE  c \notin Below(procs, c) /\ p \notin Below(procs, c) /\ p # c
<1>1. p # c /\ p \notin Below(procs, c)
    BY BelowChild
<1>2. ASSUME c \in Below(procs, c) PROVE FALSE
    <2>1. c \in WithParent(procs, c) \/ \E y \in Below(procs, c) : c \in WithParent(procs, y)
        BY <1>2, BelowHasParent
    <2>2. QED
        BY <1>1, <2>1, OneParent
<1>3. QED
    BY <1>1, <1>2

(* There are fewer processes below a child.                                *)
LEMMA FewerBelowChild ==
    ASSUME NEW procs, NEW p, p \notin Below(procs, p), NEW c \in WithParent(procs, p)
    PROVE  /\ Cardinality(Below(procs, c)) \in Nat /\ Cardinality(Below(procs, p)) \in Nat
           /\ Cardinality(Below(procs, c)) < Cardinality(Below(procs, p))
<1>1. /\ Below(procs, c) \in SUBSET Pids /\ Below(procs, p) \in SUBSET Pids
      /\ Below(procs, p) \ {c} \in SUBSET Pids
    BY DEF Below
<1>2. c \in Below(procs, p) /\ Below(procs, c) \subseteq Below(procs, p) \ {c}
    BY ChildNotBelowItself, BelowChild
<1>3. Cardinality(Below(procs, p) \ {c}) = Cardinality(Below(procs, p)) - 1
    BY <1>1, <1>2, PidsAre, FS_RemoveElement
<1>4. Cardinality(Below(procs, c)) <= Cardinality(Below(procs, p) \ {c})
    BY <1>1, <1>2, PidsAre, FS_Subset
<1>5. Cardinality(Below(procs, c)) \in Nat /\ Cardinality(Below(procs, p)) \in Nat
    BY <1>1, PidsAre
<1>6. QED
    BY <1>3, <1>4, <1>5

LEMMA SiblingsApart ==
    ASSUME NEW procs, NEW p, p \notin Below(procs, p),
           NEW c \in WithParent(procs, p), NEW d \in WithParent(procs, p), c # d
    PROVE  ({c} \cup Below(procs, c)) \cap ({d} \cup Below(procs, d)) = {}
<1>1. /\ p # c /\ p \notin Below(procs, c) /\ p # d /\ p \notin Below(procs, d)
      /\ c \in Pids /\ d \in Pids
    BY ChildNotBelowItself, BelowChild
<1>2. ASSUME NEW a \in WithParent(procs, p), NEW b \in WithParent(procs, p), a # b
      PROVE  a \notin Below(procs, b)
    <2>1. SUFFICES ASSUME a \in Below(procs, b) PROVE FALSE
        OBVIOUS
    <2>2. p \in Below(procs, b) \/ p = b
        BY <2>1, BelowHasParent, OneParent
    <2>3. QED
        BY <2>2, ChildNotBelowItself
<1> DEFINE S == Below(procs, c) \ Below(procs, d)
<1>3. WithParent(procs, c) \subseteq S
    <2>1. ASSUME NEW x \in WithParent(procs, c), x \in Below(procs, d) PROVE FALSE
        <3>1. c \in Below(procs, d) \/ c = d
            BY <2>1, BelowHasParent, OneParent
        <3>2. QED
            BY <1>2, <3>1
    <2>2. QED
        BY <2>1, BelowIsClosed
<1>4. Closed(procs, S)
    <2>1. ASSUME NEW y \in S, NEW x \in WithParent(procs, y) PROVE x \in S
        <3>1. x \in Below(procs, c)
            BY BelowIsClosed DEF Closed
        <3>2. ASSUME x \in Below(procs, d) PROVE FALSE
            <4>1. y \in Below(procs, d) \/ y = d
                BY <3>2, BelowHasParent, OneParent
            <4>2. y = d
                BY <4>1
            <4>3. QED
                BY <1>2, <4>2
        <3>3. QED
            BY <3>1, <3>2
    <2>2. QED
        BY <2>1 DEF Closed
<1>5. S \in SUBSET Pids
    BY DEF Below
<1>6. Below(procs, c) \subseteq S
    <2> HIDE DEF S
    <2>1. QED
        BY <1>3, <1>4, <1>5, BelowIsLeast
<1>7. c \notin Below(procs, d) /\ d \notin Below(procs, c)
    BY <1>2
<1>8. QED
    BY <1>6, <1>7

-----------------------------------------------------------------------------
(* Rows that are a tree: nobody twice, and each after the row of its       *)
(* parent, if that is not p itself.                                        *)

Tree(rows, procs, p) ==
    /\ rows \in Seq(Pids)
    /\ \A i, j \in 1..Len(rows) : rows[i] = rows[j] => i = j
    /\ \A i \in 1..Len(rows) :
          procs[rows[i]].ppid = p \/ \E j \in 1..(i - 1) : rows[j] = procs[rows[i]].ppid

LEMMA NoTree ==
    ASSUME NEW procs, NEW p
    PROVE  Tree(<<>>, procs, p) /\ \A x : ~Contains(<<>>, x)
BY EmptySeq DEF Tree, Contains

LEMMA TreeOfOne ==
    ASSUME NEW procs, NEW p, NEW c \in Pids, procs[c].ppid = p
    PROVE  Tree(<<c>>, procs, p) /\ \A x : Contains(<<c>>, x) <=> x = c
<1> DEFINE one == <<c>>
<1>1. one \in Seq(Pids) /\ Len(one) = 1 /\ one[1] = c /\ 1..1 = {1}
    OBVIOUS
<1> HIDE DEF one
<1>2. Tree(one, procs, p) /\ \A x : Contains(one, x) <=> x = c
    BY <1>1 DEF Tree, Contains
<1>3. QED
    BY <1>2 DEF one

LEMMA TreeConcat ==
    ASSUME NEW procs, NEW p, NEW q, NEW a, NEW b, Tree(a, procs, p), Tree(b, procs, q),
           q = p \/ Contains(a, q), \A x : ~(Contains(a, x) /\ Contains(b, x))
    PROVE  /\ Tree(a \o b, procs, p)
           /\ \A x : Contains(a \o b, x) <=> Contains(a, x) \/ Contains(b, x)
<1> DEFINE n == Len(a)
<1> DEFINE m == Len(b)
<1> DEFINE both == a \o b
<1>1. a \in Seq(Pids) /\ b \in Seq(Pids) /\ n \in Nat /\ m \in Nat
    BY LenProperties DEF Tree
<1>2. /\ both \in Seq(Pids) /\ Len(both) = n + m
      /\ \A i \in 1..(n + m) : both[i] = IF i <= n THEN a[i] ELSE b[i - n]
    BY <1>1, ConcatProperties
<1> HIDE DEF n, m, both
<1>3. /\ \A i \in 1..n : i \in 1..(n + m) /\ both[i] = a[i]
      /\ \A i \in 1..m : n + i \in 1..(n + m) /\ both[n + i] = b[i]
    <2>1. ASSUME NEW i \in 1..n PROVE i \in 1..(n + m) /\ both[i] = a[i]
        BY <1>1, <1>2
    <2>2. ASSUME NEW i \in 1..m PROVE n + i \in 1..(n + m) /\ both[n + i] = b[i]
        <3>1. n + i \in 1..(n + m) /\ ~(n + i <= n) /\ (n + i) - n = i
            BY <1>1
        <3>2. QED
            BY <1>2, <3>1
    <2>3. QED
        BY <2>1, <2>2
<1>4. \A i \in 1..(n + m) : i \in 1..n \/ \E k \in 1..m : i = n + k
    <2>1. ASSUME NEW i \in 1..(n + m), i \notin 1..n PROVE \E k \in 1..m : i = n + k
        <3>1. i - n \in 1..m /\ i = n + (i - n)
            BY <1>1, <2>1
        <3>2. QED
            BY <3>1
    <2>2. QED
        BY <2>1
<1>5. \A x : Contains(both, x) <=> Contains(a, x) \/ Contains(b, x)
    <2>1. ASSUME NEW x, Contains(both, x) PROVE Contains(a, x) \/ Contains(b, x)
        <3>1. PICK i \in 1..(n + m) : both[i] = x
            BY <1>2, <2>1 DEF Contains
        <3>2. CASE i \in 1..n
            BY <1>3, <3>1, <3>2 DEF Contains, n
        <3>3. ASSUME NEW k \in 1..m, i = n + k PROVE Contains(b, x)
            BY <1>3, <3>1, <3>3 DEF Contains, m
        <3>4. QED
            BY <1>4, <3>2, <3>3
    <2>2. ASSUME NEW x, Contains(a, x) PROVE Contains(both, x)
        BY <1>2, <1>3, <2>2 DEF Contains, n
    <2>3. ASSUME NEW x, Contains(b, x) PROVE Contains(both, x)
        BY <1>2, <1>3, <2>3 DEF Contains, m
    <2>4. QED
        BY <2>1, <2>2, <2>3
<1>6. ASSUME NEW i \in 1..(n + m), NEW j \in 1..(n + m), both[i] = both[j] PROVE i = j
    <2>1. CASE i \in 1..n /\ j \in 1..n
        BY <1>3, <1>6, <2>1 DEF Tree, n
    <2>2. ASSUME NEW k \in 1..m, NEW h \in 1..m, i = n + k, j = n + h PROVE i = j
        BY <1>3, <1>6, <2>2 DEF Tree, m
    <2>3. ASSUME NEW k \in 1..n, NEW h \in 1..m PROVE both[k] # both[n + h]
        BY <1>3 DEF Contains, n, m
    <2>4. QED
        BY <1>4, <1>6, <2>1, <2>2, <2>3
<1>7. ASSUME NEW i \in 1..(n + m)
      PROVE  procs[both[i]].ppid = p \/ \E j \in 1..(i - 1) : both[j] = procs[both[i]].ppid
    <2>1. CASE i \in 1..n
        <3>1. both[i] = a[i]
            BY <1>3, <2>1
        <3>2. procs[a[i]].ppid = p \/ \E j \in 1..(i - 1) : a[j] = procs[a[i]].ppid
            BY <2>1 DEF Tree, n
        <3>3. \A j \in 1..(i - 1) : j \in 1..n
            BY <1>1, <2>1
        <3>4. QED
            BY <1>3, <3>1, <3>2, <3>3
    <2>2. ASSUME NEW k \in 1..m, i = n + k
          PROVE  procs[both[i]].ppid = p \/ \E j \in 1..(i - 1) : both[j] = procs[both[i]].ppid
        <3>1. both[i] = b[k]
            BY <1>3, <2>2
        <3>2. CASE procs[b[k]].ppid = q
            <4>1. CASE q = p
                BY <3>1, <3>2, <4>1
            <4>2. CASE Contains(a, q)
                <5>1. PICK j \in 1..n : a[j] = q
                    BY <4>2 DEF Contains, n
                <5>2. j \in 1..(i - 1)
                    BY <1>1, <2>2, <5>1
                <5>3. QED
                    BY <1>3, <3>1, <3>2, <5>1, <5>2
            <4>3. QED
                BY <4>1, <4>2
        <3>3. ASSUME NEW j \in 1..(k - 1), b[j] = procs[b[k]].ppid
              PROVE  \E h \in 1..(i - 1) : both[h] = procs[both[i]].ppid
            <4>1. j \in 1..m /\ n + j \in 1..(i - 1)
                BY <1>1, <2>2, <3>3
            <4>2. both[n + j] = b[j]
                BY <1>3, <4>1
            <4>3. QED
                BY <3>1, <3>3, <4>1, <4>2
        <3>4. procs[b[k]].ppid = q \/ \E j \in 1..(k - 1) : b[j] = procs[b[k]].ppid
            BY <2>2 DEF Tree, m
        <3>5. QED
            BY <3>2, <3>3, <3>4
    <2>3. QED
        BY <1>4, <2>1, <2>2
<1>8. QED
    BY <1>2, <1>5, <1>6, <1>7 DEF Tree, both

(* The rows for a process down to some depth are a tree of some of those   *)
(* below it, and of all if there are not more of them than the depth.      *)
TreeBelow(rows, procs, p, depth) ==
    /\ Tree(rows, procs, p)
    /\ \A x : Contains(rows, x) => x \in Below(procs, p)
    /\ Cardinality(Below(procs, p)) <= depth => \A x \in Below(procs, p) : Contains(rows, x)

LEMMA ListChildrenTree ==
    ASSUME NEW procs, NEW p \in Pids, p \notin Below(procs, p), NEW depth \in Nat, NEW below,
           \A c \in Pids : c \notin Below(procs, c) => TreeBelow(below[c], procs, c, depth)
    PROVE  TreeBelow(ListChildren(procs, p, below), procs, p, depth + 1)
<1> DEFINE S == WithParent(procs, p)
<1>1. PICK g : IsListing(g, S, below) /\ ListChildren(procs, p, below) = g[S]
    BY ListChildrenLists
<1>2. ASSUME NEW c \in S
      PROVE  /\ c \in Pids /\ procs[c].ppid = p /\ c \notin Below(procs, c)
             /\ TreeBelow(below[c], procs, c, depth)
    BY ChildNotBelowItself DEF WithParent
<1>3. ASSUME NEW c \in S, NEW d \in S, c # d
      PROVE  ({c} \cup Below(procs, c)) \cap ({d} \cup Below(procs, d)) = {}
    BY <1>3, SiblingsApart
<1>4. S \in SUBSET Pids
    BY DEF WithParent
<1> DEFINE Listed(s) ==
        /\ Tree(g[s], procs, p)
        /\ \A x : Contains(g[s], x) <=> \E c \in s : x = c \/ Contains(below[c], x)
<1> DEFINE F == {s \in SUBSET Pids : s \subseteq S => Listed(s)}
<1> HIDE DEF S
<1>5. {} \in F
    <2>1. g[{}] = <<>>
        BY <1>1 DEF IsListing
    <2>2. QED
        BY <2>1, NoTree
<1>6. ASSUME NEW s \in SUBSET Pids, s # {}, s \ {Least(s)} \in F PROVE s \in F
    <2> DEFINE c == Least(s)
    <2> DEFINE rest == s \ {Least(s)}
    <2>1. SUFFICES ASSUME s \subseteq S PROVE Listed(s)
        OBVIOUS
    <2>2. c \in s /\ c \in S
        BY <1>6, <2>1, LeastIn
    <2>3. Listed(rest)
        BY <1>6, <2>1
    <2>4. g[s] = <<c>> \o below[c] \o g[rest]
        BY <1>1, <1>6, <2>1 DEF IsListing
    <2>5. rest \subseteq s /\ c \notin rest /\ s = rest \cup {c}
        BY <2>2
    <2> HIDE DEF c, rest, F
    <2>6. /\ c \in Pids /\ procs[c].ppid = p /\ c \notin Below(procs, c)
          /\ Tree(below[c], procs, c) /\ \A x : Contains(below[c], x) => x \in Below(procs, c)
        BY <1>2, <2>2 DEF TreeBelow
    <2> DEFINE own == <<c>> \o below[c]
    <2>7. /\ Tree(own, procs, p)
          /\ \A x : Contains(own, x) <=> x = c \/ Contains(below[c], x)
        <3>1. Tree(<<c>>, procs, p) /\ \A x : Contains(<<c>>, x) <=> x = c
            BY <2>6, TreeOfOne
        <3> DEFINE one == <<c>>
        <3>2. Tree(one, procs, p) /\ (\A x : Contains(one, x) <=> x = c) /\ Contains(one, c)
            BY <3>1
        <3> HIDE DEF one
        <3>3. \A x : ~(Contains(one, x) /\ Contains(below[c], x))
            BY <2>6, <3>2
        <3>4. /\ Tree(one \o below[c], procs, p)
              /\ \A x : Contains(one \o below[c], x) <=> Contains(one, x) \/ Contains(below[c], x)
            BY <2>6, <3>2, <3>3, TreeConcat
        <3>5. own = one \o below[c]
            BY DEF one
        <3> HIDE DEF own
        <3>6. QED
            BY <3>2, <3>4, <3>5
    <2> HIDE DEF own
    <2>8. ASSUME NEW x, Contains(own, x), Contains(g[rest], x) PROVE FALSE
        <3>1. x \in {c} \cup Below(procs, c)
            BY <2>6, <2>7, <2>8
        <3>2. PICK d \in rest : x = d \/ Contains(below[d], x)
            BY <2>3, <2>8
        <3>3. d \in S /\ d # c
            BY <2>1, <2>5
        <3>4. x \in {d} \cup Below(procs, d)
            BY <1>2, <3>2, <3>3 DEF TreeBelow
        <3>5. QED
            BY <1>3, <2>2, <3>1, <3>3, <3>4
    <2>9. /\ Tree(own \o g[rest], procs, p)
          /\ \A x : Contains(own \o g[rest], x) <=> Contains(own, x) \/ Contains(g[rest], x)
        BY <2>3, <2>7, <2>8, TreeConcat
    <2>10. g[s] = own \o g[rest]
        BY <2>4 DEF own
    <2>11. QED
        BY <2>3, <2>5, <2>7, <2>9, <2>10
<1> HIDE DEF F
<1>7. SUBSET Pids \subseteq F
    BY <1>5, <1>6, PidSetInduction
<1>8. Listed(S)
    BY <1>4, <1>7 DEF F
<1>9. ASSUME NEW x, Contains(g[S], x) PROVE x \in Below(procs, p)
    <2>1. PICK c \in S : x = c \/ Contains(below[c], x)
        BY <1>8, <1>9
    <2>2. x = c \/ x \in Below(procs, c)
        BY <1>2, <2>1 DEF TreeBelow
    <2>3. QED
        BY <2>2, BelowChild DEF S
<1>10. ASSUME Cardinality(Below(procs, p)) <= depth + 1, NEW x \in Below(procs, p)
       PROVE  Contains(g[S], x)
    <2>1. PICK c \in S : x = c \/ x \in Below(procs, c)
        BY <1>10, BelowByChild DEF S
    <2>2. Cardinality(Below(procs, c)) <= depth
        BY <1>10, FewerBelowChild DEF S
    <2>3. x = c \/ Contains(below[c], x)
        BY <1>2, <2>1, <2>2 DEF TreeBelow
    <2>4. QED
        BY <1>8, <2>3
<1>11. QED
    BY <1>1, <1>8, <1>9, <1>10 DEF TreeBelow

-----------------------------------------------------------------------------
(* The recursion, by its depth.                                            *)

IsDescent(f, n, procs) ==
    f = [depth \in 0..n |-> [p \in Pids |-> IF depth = 0 THEN <<>>
                                            ELSE ListChildren(procs, p, f[depth - 1])]]

LEMMA DescentExists ==
    ASSUME NEW procs, NEW n \in Nat
    PROVE  \E f : IsDescent(f, n, procs)
<1> DEFINE S == {m \in Nat : \E f : IsDescent(f, m, procs)}
<1>1. 0 \in S
    <2> DEFINE f == [depth \in 0..0 |-> [p \in Pids |-> <<>>]]
    <2>1. IsDescent(f, 0, procs)
        BY DEF IsDescent
    <2>2. QED
        BY <2>1
<1>2. ASSUME NEW m \in Nat, m \in S PROVE m + 1 \in S
    <2>1. PICK f : IsDescent(f, m, procs)
        BY <1>2
    <2> DEFINE h == [depth \in 0..(m + 1) |->
                        IF depth = m + 1 THEN [p \in Pids |-> ListChildren(procs, p, f[m])] ELSE f[depth]]
    <2>2. ASSUME NEW depth \in 0..(m + 1)
          PROVE  h[depth] = [p \in Pids |-> IF depth = 0 THEN <<>>
                                            ELSE ListChildren(procs, p, h[depth - 1])]
        <3>1. CASE depth = m + 1
            <4>1. h[m] = f[m] /\ depth # 0 /\ depth - 1 = m
                BY <3>1
            <4>2. h[depth] = [p \in Pids |-> ListChildren(procs, p, f[m])]
                BY <3>1
            <4> HIDE DEF h
            <4>3. QED
                BY <4>1, <4>2
        <3>2. CASE depth \in 0..m
            <4>1. h[depth] = f[depth]
                BY <3>2
            <4>2. depth # 0 => h[depth - 1] = f[depth - 1]
                BY <3>2
            <4>3. f[depth] = [p \in Pids |-> IF depth = 0 THEN <<>>
                                             ELSE ListChildren(procs, p, f[depth - 1])]
                BY <2>1, <3>2 DEF IsDescent
            <4> HIDE DEF h
            <4>4. QED
                BY <4>1, <4>2, <4>3
        <3>3. QED
            BY <3>1, <3>2
    <2>3. IsDescent(h, m + 1, procs)
        BY ONLY <2>2 DEF IsDescent, h
    <2>4. QED
        BY <2>3
<1> HIDE DEF S
<1>3. Nat \subseteq S
    BY <1>1, <1>2, NatInductionOnSets
<1>4. QED
    BY <1>3 DEF S

LEMMA DescentTree ==
    ASSUME NEW procs, NEW n \in Nat, NEW f, IsDescent(f, n, procs)
    PROVE  \A depth \in 0..n, p \in Pids :
              p \notin Below(procs, p) => TreeBelow(f[depth][p], procs, p, depth)
<1> DEFINE S == {d \in Nat : d <= n => \A p \in Pids :
                    p \notin Below(procs, p) => TreeBelow(f[d][p], procs, p, d)}
<1>1. 0 \in S
    <2>1. ASSUME NEW p \in Pids PROVE TreeBelow(f[0][p], procs, p, 0)
        <3>1. f[0][p] = <<>>
            BY DEF IsDescent
        <3>2. Below(procs, p) \in SUBSET Pids
            BY DEF Below
        <3>3. IsFiniteSet(Below(procs, p)) /\ Cardinality(Below(procs, p)) \in Nat
            BY <3>2, PidsAre
        <3>4. Cardinality(Below(procs, p)) <= 0 => Below(procs, p) = {}
            BY <3>3, FS_EmptySet
        <3>5. QED
            BY <3>1, <3>4, NoTree DEF TreeBelow
    <2>2. QED
        BY <2>1
<1>2. ASSUME NEW d \in Nat, d \in S PROVE d + 1 \in S
    <2>1. SUFFICES ASSUME d + 1 <= n, NEW p \in Pids, p \notin Below(procs, p)
                   PROVE  TreeBelow(f[d + 1][p], procs, p, d + 1)
        OBVIOUS
    <2>2. d + 1 \in 0..n /\ d <= n /\ d + 1 # 0 /\ (d + 1) - 1 = d
        BY <2>1
    <2>3. f[d + 1][p] = ListChildren(procs, p, f[d])
        BY <2>2 DEF IsDescent
    <2>4. \A c \in Pids : c \notin Below(procs, c) => TreeBelow(f[d][c], procs, c, d)
        BY <1>2, <2>2
    <2>5. TreeBelow(ListChildren(procs, p, f[d]), procs, p, d + 1)
        BY <2>1, <2>4, ListChildrenTree
    <2>6. QED
        BY <2>3, <2>5
<1> HIDE DEF S
<1>3. Nat \subseteq S
    BY <1>1, <1>2, NatInductionOnSets
<1>4. QED
    BY <1>3 DEF S

LEMMA SortedTree ==
    ASSUME NEW procs, NEW p \in Pids, p \notin Below(procs, p)
    PROVE  TreeBelow(SortProcsDepthFirst(procs, p), procs, p, Cardinality(Pids))
<1> DEFINE n == Cardinality(Pids)
<1> DEFINE P(f) == f = [depth \in 0..n |-> [q \in Pids |-> IF depth = 0 THEN <<>>
                            ELSE ListChildren(procs, q, f[depth - 1])]]
<1>1. SortProcsDepthFirst(procs, p) = (CHOOSE f : P(f))[n][p]
    BY DEF SortProcsDepthFirst
<1>2. n \in Nat /\ n \in 0..n
    BY PidsAre
<1> HIDE DEF n, P
<1>3. \A f : P(f) <=> IsDescent(f, n, procs)
    BY DEF P, IsDescent
<1>4. \E f : P(f)
    BY <1>2, <1>3, DescentExists
<1>5. P(CHOOSE f : P(f))
    BY <1>4
<1>6. IsDescent(CHOOSE f : P(f), n, procs)
    BY <1>3, <1>5
<1>7. TreeBelow((CHOOSE f : P(f))[n][p], procs, p, n)
    BY <1>2, <1>6, DescentTree
<1>8. QED
    BY <1>1, <1>7 DEF n

(* Pid 1, if it has no parent, is not below anybody.                       *)
LEMMA RootBelowNobody ==
    ASSUME NEW procs, procs[1] # None, procs[1].ppid = 0, NEW p \in Pids
    PROVE  1 \notin Below(procs, p)
<1>1. SUFFICES ASSUME 1 \in Below(procs, p) PROVE FALSE
    OBVIOUS
<1>2. PICK y \in Pids : 1 \in WithParent(procs, y)
    BY <1>1, BelowHasParent DEF Below
<1>3. QED
    BY <1>2, ScanAssumption DEF WithParent

(* The rows of a list that has an entry without a parent for pid 1: a tree *)
(* from there, with everyone who is below.                                 *)
LEMMA AllProcsTree ==
    ASSUME NEW procs, procs[1] # None, procs[1].ppid = 0
    PROVE  /\ Tree(AllProcs(procs), procs, 0) /\ AllProcs(procs)[1] = 1
           /\ \A x : Contains(AllProcs(procs), x) <=> x = 1 \/ x \in Below(procs, 1)
           /\ \A i \in 2..Len(AllProcs(procs)) : procs[AllProcs(procs)[i]].ppid # 0
<1>1. 1 \in Pids /\ Pids \subseteq Nat /\ 0 \notin Pids
    BY ScanAssumption
<1>2. Least(WithParent(procs, 0)) = 1
    <2>1. WithParent(procs, 0) \in SUBSET Pids /\ 1 \in WithParent(procs, 0)
        BY <1>1 DEF WithParent
    <2>2. ASSUME NEW x \in WithParent(procs, 0) PROVE 1 <= x
        <3>1. x \in Nat /\ x # 0
            BY <1>1, <2>1
        <3>2. QED
            BY <3>1
    <2>3. QED
        BY <2>1, <2>2, LeastIs
<1>3. 1 \notin Below(procs, 1)
    BY <1>1, RootBelowNobody
<1> DEFINE one == <<1>>
<1> DEFINE rows == SortProcsDepthFirst(procs, 1)
<1>4. AllProcs(procs) = one \o rows
    BY <1>2 DEF AllProcs
<1>5. Tree(one, procs, 0) /\ (\A x : Contains(one, x) <=> x = 1) /\ Len(one) = 1 /\ one[1] = 1
    BY <1>1, TreeOfOne
<1>6. TreeBelow(rows, procs, 1, Cardinality(Pids))
    BY <1>1, <1>3, SortedTree
<1> HIDE DEF one, rows
<1>7. Tree(rows, procs, 1) /\ \A x : Contains(rows, x) <=> x \in Below(procs, 1)
    <2>1. Below(procs, 1) \in SUBSET Pids
        BY DEF Below
    <2>2. Cardinality(Below(procs, 1)) <= Cardinality(Pids)
        BY <2>1, PidsAre
    <2>3. QED
        BY <1>6, <2>2 DEF TreeBelow
<1>8. /\ Tree(one \o rows, procs, 0)
      /\ \A x : Contains(one \o rows, x) <=> Contains(one, x) \/ Contains(rows, x)
    BY <1>3, <1>5, <1>7, TreeConcat
<1>9. one \in Seq(Pids) /\ rows \in Seq(Pids) /\ Len(rows) \in Nat
    BY <1>5, <1>7, LenProperties DEF Tree
<1>10. (one \o rows)[1] = 1
    <2>1. 1 \in 1..(Len(one) + Len(rows)) /\ 1 <= Len(one)
        BY <1>5, <1>9
    <2>2. QED
        BY <1>5, <1>9, <2>1, ConcatProperties
<1>11. ASSUME NEW i \in 2..Len(one \o rows) PROVE procs[(one \o rows)[i]].ppid # 0
    <2>1. Len(one \o rows) = 1 + Len(rows)
        <3>1. one \in Seq(Pids) /\ rows \in Seq(Pids)
            BY <1>9
        <3>2. Len(one \o rows) = Len(one) + Len(rows)
            BY ONLY <3>1, ConcatProperties
        <3>3. QED
            BY <1>5, <3>2
    <2>2. i \in 1..(Len(one) + Len(rows)) /\ ~(i <= Len(one)) /\ i - Len(one) \in 1..Len(rows)
        <3> DEFINE n == Len(rows)
        <3>1. n \in Nat /\ i \in 2..(1 + n) /\ Len(one) = 1
            BY <1>5, <1>9, <2>1
        <3> HIDE DEF n
        <3>2. i \in 1..(1 + n) /\ ~(i <= 1) /\ i - 1 \in 1..n
            BY <3>1
        <3>3. QED
            BY <3>1, <3>2 DEF n
    <2>3. (one \o rows)[i] = rows[i - Len(one)]
        BY <1>9, <2>2, ConcatProperties
    <2>4. rows[i - Len(one)] \in Below(procs, 1)
        BY <1>7, <2>2 DEF Contains
    <2>5. PICK y \in Pids : rows[i - Len(one)] \in WithParent(procs, y)
        BY <1>1, <2>4, BelowHasParent DEF Below
    <2>6. QED
        BY <1>1, <2>3, <2>5 DEF WithParent
<1>12. QED
    BY <1>4, <1>5, <1>7, <1>8, <1>10, <1>11

-----------------------------------------------------------------------------
(* The levels at which the recursion is cut are enough: what is below a    *)
(* process is listed in full, by the equation of the recursion itself.     *)

LEMMA ListChildrenSame ==
    ASSUME NEW procs, NEW p, NEW a, NEW b, \A c \in WithParent(procs, p) : a[c] = b[c]
    PROVE  ListChildren(procs, p, a) = ListChildren(procs, p, b)
<1> DEFINE S == WithParent(procs, p)
<1>1. PICK g : IsListing(g, S, a) /\ ListChildren(procs, p, a) = g[S]
    BY ListChildrenLists
<1>2. PICK h : IsListing(h, S, b) /\ ListChildren(procs, p, b) = h[S]
    BY ListChildrenLists
<1>3. S \in SUBSET Pids /\ \A c \in S : a[c] = b[c]
    BY DEF WithParent
<1> DEFINE F == {s \in SUBSET Pids : s \subseteq S => g[s] = h[s]}
<1> HIDE DEF S
<1>4. {} \in F
    BY <1>1, <1>2 DEF IsListing
<1>5. ASSUME NEW s \in SUBSET Pids, s # {}, s \ {Least(s)} \in F PROVE s \in F
    <2>1. SUFFICES ASSUME s \subseteq S PROVE g[s] = h[s]
        OBVIOUS
    <2>2. Least(s) \in S
        BY <1>5, <2>1, LeastIn
    <2>3. g[s \ {Least(s)}] = h[s \ {Least(s)}] /\ a[Least(s)] = b[Least(s)]
        BY <1>3, <1>5, <2>1, <2>2
    <2>4. /\ g[s] = <<Least(s)>> \o a[Least(s)] \o g[s \ {Least(s)}]
          /\ h[s] = <<Least(s)>> \o b[Least(s)] \o h[s \ {Least(s)}]
        BY <1>1, <1>2, <1>5, <2>1 DEF IsListing
    <2>5. QED
        BY <2>3, <2>4
<1> HIDE DEF F
<1>6. SUBSET Pids \subseteq F
    BY <1>4, <1>5, PidSetInduction
<1>7. g[S] = h[S]
    BY <1>3, <1>6 DEF F
<1>8. QED
    BY <1>1, <1>2, <1>7

(* One level more changes nothing if there are not more processes than     *)
(* levels below.                                                           *)
LEMMA DescentSettles ==
    ASSUME NEW procs, NEW n \in Nat, NEW f, IsDescent(f, n, procs)
    PROVE  \A d \in Nat : d + 1 <= n => \A p \in Pids :
              p \notin Below(procs, p) /\ Cardinality(Below(procs, p)) <= d
              => f[d + 1][p] = f[d][p]
<1> DEFINE S == {d \in Nat : d + 1 <= n => \A p \in Pids :
                    p \notin Below(procs, p) /\ Cardinality(Below(procs, p)) <= d
                    => f[d + 1][p] = f[d][p]}
<1>1. 0 \in S
    <2>1. SUFFICES ASSUME 0 + 1 <= n, NEW p \in Pids, p \notin Below(procs, p),
                          Cardinality(Below(procs, p)) <= 0
                   PROVE  f[1][p] = f[0][p]
        OBVIOUS
    <2>2. WithParent(procs, p) = {}
        BY <2>1, FewerBelowChild
    <2>3. 0 \in 0..n /\ 1 \in 0..n /\ 1 # 0 /\ 1 - 1 = 0
        BY <2>1
    <2>4. f[0][p] = <<>> /\ f[1][p] = ListChildren(procs, p, f[0])
        BY <2>3 DEF IsDescent
    <2>5. PICK g : IsListing(g, {}, f[0]) /\ ListChildren(procs, p, f[0]) = g[{}]
        BY <2>2, ListChildrenLists
    <2>6. g[{}] = <<>>
        BY <2>5 DEF IsListing
    <2>7. QED
        BY <2>4, <2>5, <2>6
<1>2. ASSUME NEW d \in Nat, d \in S PROVE d + 1 \in S
    <2>1. SUFFICES ASSUME (d + 1) + 1 <= n, NEW p \in Pids, p \notin Below(procs, p),
                          Cardinality(Below(procs, p)) <= d + 1
                   PROVE  f[(d + 1) + 1][p] = f[d + 1][p]
        OBVIOUS
    <2>2. /\ d + 1 <= n /\ d + 1 \in 0..n /\ (d + 1) + 1 \in 0..n
          /\ d + 1 # 0 /\ (d + 1) - 1 = d /\ (d + 1) + 1 # 0 /\ ((d + 1) + 1) - 1 = d + 1
        BY <2>1
    <2>3. f[d + 1][p] = ListChildren(procs, p, f[d])
        BY <2>2 DEF IsDescent
    <2>4. f[(d + 1) + 1][p] = ListChildren(procs, p, f[d + 1])
        BY <2>2 DEF IsDescent
    <2>5. ASSUME NEW c \in WithParent(procs, p) PROVE f[d + 1][c] = f[d][c]
        <3>1. c \in Pids /\ c \notin Below(procs, c)
            BY <2>1, ChildNotBelowItself DEF WithParent
        <3>2. Cardinality(Below(procs, c)) <= d
            BY <2>1, FewerBelowChild
        <3>3. QED
            BY <1>2, <2>2, <3>1, <3>2
    <2>6. ListChildren(procs, p, f[d + 1]) = ListChildren(procs, p, f[d])
        BY <2>5, ListChildrenSame
    <2>7. QED
        BY <2>3, <2>4, <2>6
<1> HIDE DEF S
<1>3. Nat \subseteq S
    BY <1>1, <1>2, NatInductionOnSets
<1>4. QED
    BY <1>3 DEF S

LEMMA SortEquation ==
    ASSUME NEW procs, NEW p \in Pids, p \notin Below(procs, p)
    PROVE  SortProcsDepthFirst(procs, p) =
              ListChildren(procs, p, [c \in Pids |-> SortProcsDepthFirst(procs, c)])
<1> DEFINE n == Cardinality(Pids)
<1> DEFINE P(f) == f = [depth \in 0..n |-> [q \in Pids |-> IF depth = 0 THEN <<>>
                            ELSE ListChildren(procs, q, f[depth - 1])]]
<1> DEFINE f == CHOOSE g : P(g)
<1> DEFINE sorted == [c \in Pids |-> SortProcsDepthFirst(procs, c)]
<1>1. \A q \in Pids : SortProcsDepthFirst(procs, q) = f[n][q]
    BY DEF SortProcsDepthFirst
<1>2. n \in Nat /\ n # 0
    <2>1. Pids # {} /\ IsFiniteSet(Pids)
        BY ScanAssumption
    <2>2. QED
        BY <2>1, FS_CardinalityType, FS_EmptySet
<1> HIDE DEF n, P
<1>3. IsDescent(f, n, procs)
    <2>1. \A g : P(g) <=> IsDescent(g, n, procs)
        BY DEF P, IsDescent
    <2>2. \E g : P(g)
        BY <1>2, <2>1, DescentExists
    <2>3. QED
        BY <2>1, <2>2
<1> HIDE DEF f
<1>4. f[n][p] = ListChildren(procs, p, f[n - 1])
    <2>1. n \in 0..n
        BY <1>2
    <2>2. QED
        BY <1>2, <1>3, <2>1 DEF IsDescent
<1>5. ASSUME NEW c \in WithParent(procs, p) PROVE f[n - 1][c] = sorted[c]
    <2>1. c \in Pids /\ c \notin Below(procs, c)
        BY ChildNotBelowItself DEF WithParent
    <2>2. Cardinality(Below(procs, c)) <= n - 1
        <3>1. Below(procs, p) \in SUBSET Pids
            BY DEF Below
        <3>2. Cardinality(Below(procs, p)) <= n
            BY <3>1, PidsAre DEF n
        <3>3. QED
            BY <1>2, <3>2, FewerBelowChild
    <2>3. n - 1 \in Nat /\ (n - 1) + 1 <= n /\ (n - 1) + 1 = n
        BY <1>2
    <2>4. f[(n - 1) + 1][c] = f[n - 1][c]
        BY <1>2, <1>3, <2>1, <2>2, <2>3, DescentSettles
    <2>5. QED
        BY <1>1, <2>1, <2>3, <2>4
<1>6. ListChildren(procs, p, f[n - 1]) = ListChildren(procs, p, sorted)
    <2> HIDE DEF sorted
    <2>1. QED
        BY <1>5, ListChildrenSame
<1>7. QED
    BY <1>1, <1>4, <1>6

(* Below somebody who is not below himself, nobody is.                     *)
LEMMA NobodyBelowHimself ==
    ASSUME NEW procs, NEW p, p \notin Below(procs, p), NEW x \in Below(procs, p)
    PROVE  x \in Pids /\ x \notin Below(procs, x)
<1> DEFINE S == {y \in Pids : y \notin Below(procs, y)}
<1>1. WithParent(procs, p) \subseteq S
    BY ChildNotBelowItself DEF WithParent
<1>2. Closed(procs, S)
    BY ChildNotBelowItself DEF WithParent, Closed
<1>3. S \in SUBSET Pids
    OBVIOUS
<1> HIDE DEF S
<1>4. x \in S
    BY <1>1, <1>2, <1>3, BelowIsLeast
<1>5. QED
    BY <1>4 DEF S

-----------------------------------------------------------------------------
(* The tree that the page draws from what a scan has stored.               *)

(* Whoever ran all through the scan is stored, with its parent if that     *)
(* cannot have changed.                                                    *)
LEMMA ThroughoutStored ==
    ASSUME IInv, TreeInv, pc = "visit", pids = {}, NEW l \in Lives, ThroughoutPoll(l, poll)
    PROVE  /\ pidOf[l] \in Pids /\ snapshots[pidOf[l]] # None
           /\ Kept(l) => snapshots[pidOf[l]].ppid = parent[l]
<1>1. TypeOK /\ NobodyMissed /\ ParentsRead
    BY DEF IInv, TreeInv
<1>2. pidOf[l] \in Pids
    BY <1>1 DEF ThroughoutPoll, Running, TypeOK
<1>3. ScanIsOn(l)
    BY <1>1 DEF NobodyMissed
<1>4. snapshots[pidOf[l]] # None
    BY <1>3 DEF ScanIsOn, Visiting
<1>5. QED
    BY <1>1, <1>2, <1>4 DEF ParentsRead

LEMMA RootStored ==
    ASSUME IInv, TreeInv, pc = "visit", pids = {}
    PROVE  /\ InitLife \in Lives /\ ThroughoutPoll(InitLife, poll) /\ pidOf[InitLife] = 1
           /\ snapshots[1] # None /\ snapshots[1].ppid = 0
<1>1. InitLife \in Lives /\ ThroughoutPoll(InitLife, poll) /\ pidOf[InitLife] = 1
    BY ScanAssumption DEF IInv, TreeInv, ThroughoutPoll, Processes, Ancestry, Locals
<1>2. snapshots[1] # None /\ snapshots[1].ppid = 0
    BY <1>1, ThroughoutStored DEF Kept, TreeInv, Ancestry
<1>3. QED
    BY <1>1, <1>2

LEMMA ScanTree ==
    ASSUME IInv, TreeInv, pc = "visit", pids = {}, NEW rows, rows = AllProcs(snapshots)
    PROVE  /\ rows[1] = 1 /\ IsInjective(rows)
           /\ \A i \in DOMAIN rows \ {1} : \E j \in 1..(i - 1) : rows[j] = snapshots[rows[i]].ppid
           /\ (\A l \in Lives : death[l] # poll) =>
                 \A l \in Lives : ThroughoutPoll(l, poll) => Contains(rows, pidOf[l])
<1>1. TypeOK /\ Processes /\ Locals /\ NobodyMissed /\ Ancestry /\ ParentsRead
    BY DEF IInv, TreeInv
<1>2. ASSUME NEW l \in Lives, ThroughoutPoll(l, poll)
      PROVE  /\ pidOf[l] \in Pids /\ snapshots[pidOf[l]] # None
             /\ Kept(l) => snapshots[pidOf[l]].ppid = parent[l]
    BY <1>2, ThroughoutStored
<1>3. InitLife \in Lives /\ ThroughoutPoll(InitLife, poll) /\ pidOf[InitLife] = 1
    BY RootStored
<1>4. snapshots[1] # None /\ snapshots[1].ppid = 0
    BY RootStored
<1>5. /\ Tree(rows, snapshots, 0) /\ rows[1] = 1
      /\ \A x : Contains(rows, x) <=> x = 1 \/ x \in Below(snapshots, 1)
      /\ \A i \in 2..Len(rows) : snapshots[rows[i]].ppid # 0
    BY <1>4, AllProcsTree
<1>6. rows \in Seq(Pids) /\ Len(rows) \in Nat /\ DOMAIN rows = 1..Len(rows)
    BY <1>5, LenProperties DEF Tree
<1>7. IsInjective(rows)
    BY <1>5, <1>6 DEF Tree, IsInjective
<1>8. ASSUME NEW i \in DOMAIN rows \ {1}
      PROVE  \E j \in 1..(i - 1) : rows[j] = snapshots[rows[i]].ppid
    <2>1. i \in 1..Len(rows) /\ i \in 2..Len(rows)
        BY <1>6
    <2>2. QED
        BY <1>5, <2>1 DEF Tree
<1>9. ASSUME \A l \in Lives : death[l] # poll, NEW m \in Lives, ThroughoutPoll(m, poll)
      PROVE  Contains(rows, pidOf[m])
    <2> DEFINE S == {l \in Lives : ThroughoutPoll(l, poll) => Contains(rows, pidOf[l])}
    <2>1. InitLife \in S
        BY <1>3, <1>5
    <2>2. ASSUME NEW k \in S, NEW l \in Lives, Running(l), IsParent(k, l), ThroughoutPoll(l, poll)
          PROVE  Contains(rows, pidOf[l])
        <3>1. Running(k) /\ pidOf[k] = parent[l] /\ birth[k] <= birth[l] /\ k \in Lives
            BY <1>1, <2>2 DEF IsParent, Ancestry
        <3>2. ThroughoutPoll(k, poll)
            BY <1>1, <2>2, <3>1, ScanAssumption DEF ThroughoutPoll, TypeOK, Polls
        <3>3. pidOf[k] = 1 \/ pidOf[k] \in Below(snapshots, 1)
            BY <1>5, <2>2, <3>2
        <3>4. pidOf[l] \in WithParent(snapshots, pidOf[k])
            BY <1>2, <1>9, <2>2, <3>1 DEF Kept, WithParent
        <3>5. pidOf[l] \in Below(snapshots, 1)
            BY <3>3, <3>4, BelowIsClosed DEF Closed
        <3>6. QED
            BY <1>5, <3>5
    <2>3. Descending(S) /\ S \in SUBSET Lives
        BY <2>2 DEF Descending
    <2> HIDE DEF S
    <2>4. m \in S
        BY <1>1, <1>9, <2>1, <2>3 DEF Ancestry, ThroughoutPoll
    <2>5. QED
        BY <1>9, <2>4 DEF S
<1>10. QED
    BY <1>5, <1>7, <1>8, <1>9

(* The tree that is drawn ends, has everyone once and under its parent,    *)
(* and, if nobody ended during the scan, everyone who ran all through it.  *)
THEOREM Drawn == Spec => TreeIsDrawn
<1>1. ASSUME IInv, TreeInv, StoreSnapshots, NEW rows, rows = AllProcs(store')
      PROVE  /\ rows[1] = 1 /\ IsInjective(rows)
             /\ \A i \in DOMAIN rows \ {1} : \E j \in 1..(i - 1) : rows[j] = store'[rows[i]].ppid
             /\ (\A l \in Lives : death[l] # poll) =>
                   \A l \in Lives : ThroughoutPoll(l, poll) => Contains(rows, pidOf[l])
    <2>1. pc = "visit" /\ pids = {} /\ store' = snapshots
        BY <1>1 DEF StoreSnapshots
    <2>2. rows = AllProcs(snapshots)
        BY <1>1, <2>1
    <2>3. QED
        BY <1>1, <2>1, <2>2, ScanTree
<1>2. IInv /\ TreeInv => [StoreSnapshots =>
        LET rows == AllProcs(store') IN
        /\ rows[1] = 1 /\ IsInjective(rows)
        /\ \A i \in DOMAIN rows \ {1} : \E j \in 1..(i - 1) : rows[j] = store'[rows[i]].ppid
        /\ (\A l \in Lives : death[l] # poll) =>
              \A l \in Lives : ThroughoutPoll(l, poll) => Contains(rows, pidOf[l])]_vars
    BY <1>1
<1>3. QED
    BY Invariance, TreeInvariance, <1>2, PTL DEF TreeIsDrawn

(* In what a scan has stored, sortProcsDepthFirst comes to an end for pid 1 *)
(* and for everyone below, by its own equation: no level is left out, and  *)
(* nobody is among his own descendants.                                    *)
THEOREM RecursionEnds ==
    Spec => [][StoreSnapshots =>
        \A p \in {1} \cup Below(store', 1) :
            /\ p \notin Below(store', p)
            /\ SortProcsDepthFirst(store', p) =
                  ListChildren(store', p, [c \in Pids |-> SortProcsDepthFirst(store', c)])]_vars
<1>1. ASSUME IInv, TreeInv, StoreSnapshots, NEW p \in {1} \cup Below(snapshots, 1)
      PROVE  /\ p \notin Below(snapshots, p)
             /\ SortProcsDepthFirst(snapshots, p) =
                  ListChildren(snapshots, p, [c \in Pids |-> SortProcsDepthFirst(snapshots, c)])
    <2>1. snapshots[1] # None /\ snapshots[1].ppid = 0
        BY <1>1, RootStored DEF StoreSnapshots
    <2>2. 1 \in Pids /\ 1 \notin Below(snapshots, 1)
        BY <2>1, RootBelowNobody, ScanAssumption
    <2>3. p \in Pids /\ p \notin Below(snapshots, p)
        BY <1>1, <2>2, NobodyBelowHimself
    <2>4. QED
        BY <2>3, SortEquation
<1>2. ASSUME IInv, TreeInv, StoreSnapshots, NEW p \in {1} \cup Below(store', 1)
      PROVE  /\ p \notin Below(store', p)
             /\ SortProcsDepthFirst(store', p) =
                  ListChildren(store', p, [c \in Pids |-> SortProcsDepthFirst(store', c)])
    BY <1>1, <1>2 DEF StoreSnapshots
<1>3. IInv /\ TreeInv => [StoreSnapshots =>
        \A p \in {1} \cup Below(store', 1) :
            /\ p \notin Below(store', p)
            /\ SortProcsDepthFirst(store', p) =
                  ListChildren(store', p, [c \in Pids |-> SortProcsDepthFirst(store', c)])]_vars
    BY <1>2
<1>4. QED
    BY Invariance, TreeInvariance, <1>3, PTL
=============================================================================
