------------------------------ MODULE Backend ------------------------------
(***************************************************************************)
(* The backend process: the monitor thread's poll cycle, the store between *)
(* the threads, and the endpoints that session threads run.                *)
(*                                                                         *)
(* A store method is one step here: DataStoreProofs shows that it behaves  *)
(* as one.  What a member holds is abstracted to the number of the poll    *)
(* that read it from /proc; 0 stands for what DataStore() starts with.     *)
(***************************************************************************)
EXTENDS Naturals

CONSTANTS
    Sessions,   \* one thread per TCP connection, detached by Server::start
    MaxPolls    \* bound on the number of polls

ASSUME BackendAssumption == MaxPolls \in Nat

VARIABLES
    monitor,    \* what the monitor thread does next
    poll,       \* the number of polls it has begun
    store,      \* store[c]: the poll whose reading member c holds
    basis,      \* the readings of the store from which members were computed
    phase,      \* phase[s]: where session s is with its current request
    asked,      \* asked[s]: the member its endpoint reads
    got,        \* got[s]: the reading that its endpoint copied out
    process     \* "terminated" once an exception has left a thread's function

(* What clients have been sent so far, and what was true when a request    *)
(* came in: no variable of the program, the properties speak of them.      *)
VARIABLES
    delivered,  \* delivered[c]: the newest reading of c in any response
    promised,   \* promised[s]: delivered when s received its request
    completed   \* completed[s]: the polls completed by then

program == <<monitor, poll, store, basis, phase, asked, got, process>>
history == <<delivered, promised, completed>>
vars == <<program, history>>

Cells == {"uptime", "cpus", "mem", "procs"}

(* The order of the calls in check_filesystem_changes.                     *)
Rank(c) == IF c = "uptime" THEN 1 ELSE IF c = "cpus" THEN 2 ELSE IF c = "mem" THEN 3 ELSE 4

Completed == IF monitor = "sleep" THEN poll ELSE poll - 1

NothingYet == [c \in Cells |-> 0]

(* What the monitor reads back from the store: the CPU snapshots in        *)
(* parse_cpu_snapshot; the uptime, the memory and the process snapshots in *)
(* read_proc_files and its callees.                                        *)
Uses == {"cpus", "time", "mem", "procs"}

TypeOK ==
    /\ monitor \in Cells \cup {"sleep"}
    /\ poll \in 0..MaxPolls
    /\ monitor # "sleep" => poll > 0
    /\ store \in [Cells -> 0..MaxPolls]
    /\ basis \in [Uses -> 0..MaxPolls]
    /\ phase \in [Sessions -> {"reading", "called", "loaded"}]
    /\ asked \in [Sessions -> Cells]
    /\ got \in [Sessions -> 0..MaxPolls]
    /\ process \in {"running", "terminated"}
    /\ delivered \in [Cells -> 0..MaxPolls]
    /\ promised \in [Sessions -> [Cells -> 0..MaxPolls]]
    /\ completed \in [Sessions -> 0..MaxPolls]

Init ==
    /\ monitor = "sleep" /\ poll = 0
    /\ store = NothingYet
    /\ basis = [u \in Uses |-> 0]
    /\ phase = [s \in Sessions |-> "reading"]
    /\ asked = [s \in Sessions |-> "uptime"]
    /\ got = [s \in Sessions |-> 0]
    /\ process = "running"
    /\ delivered = NothingYet
    /\ promised = [s \in Sessions |-> NothingYet]
    /\ completed = [s \in Sessions |-> 0]

-----------------------------------------------------------------------------
(* The monitor thread.                                                     *)

MonitorOnly == UNCHANGED <<phase, asked, got, process, history>>

(* sleep_for returns and the loop body begins.                             *)
Wake ==
    /\ monitor = "sleep" /\ poll < MaxPolls
    /\ monitor' = "uptime"
    /\ poll' = poll + 1
    /\ UNCHANGED <<store, basis>> /\ MonitorOnly

ReadSystemUptime ==
    /\ monitor = "uptime"
    /\ monitor' = "cpus"
    /\ store' = [store EXCEPT !["uptime"] = poll]
    /\ UNCHANGED <<poll, basis>> /\ MonitorOnly

(* Mutant: usage is computed once the new snapshots are in the store.      *)
ReadSystemStatStoresFirst ==
    /\ monitor = "cpus"
    /\ monitor' = "mem"
    /\ basis' = [basis EXCEPT !["cpus"] = poll]
    /\ store' = [store EXCEPT !["cpus"] = poll]
    /\ UNCHANGED poll /\ MonitorOnly

(* Usage is computed against the snapshot that the store still holds.      *)
ReadSystemStat ==
    /\ monitor = "cpus"
    /\ monitor' = "mem"
    /\ basis' = [basis EXCEPT !["cpus"] = store["cpus"]]
    /\ store' = [store EXCEPT !["cpus"] = poll]
    /\ UNCHANGED poll /\ MonitorOnly

(* Mutant: a meminfo that cannot be read leaves the old snapshot.          *)
ReadSystemMeminfoReturnsEarly ==
    /\ monitor = "mem"
    /\ monitor' = "procs"
    /\ UNCHANGED <<store, poll, basis>> /\ MonitorOnly

(* A snapshot is stored whether or not the text was understood: what was   *)
(* not is 0 in it, but it is the reading of this poll all the same.        *)
ReadSystemMeminfo ==
    /\ monitor = "mem"
    /\ monitor' = "procs"
    /\ store' = [store EXCEPT !["mem"] = poll]
    /\ UNCHANGED <<poll, basis>> /\ MonitorOnly

(* Every process snapshot is stamped with the stored uptime, its memory is *)
(* a share of the stored total, its CPU time is compared with the stored   *)
(* snapshot of the same pid.  ProcScan models the scan itself.             *)
ReadProcFiles ==
    /\ monitor = "procs"
    /\ monitor' = "sleep"
    /\ basis' = [basis EXCEPT !["time"] = store["uptime"], !["mem"] = store["mem"],
                              !["procs"] = store["procs"]]
    /\ store' = [store EXCEPT !["procs"] = poll]
    /\ UNCHANGED poll /\ MonitorOnly

(* std::stod, std::stoul and std::stoi throw on text that is no number,    *)
(* and directory_iterator when /proc cannot be read: any of the four       *)
(* readers may leave through an exception that start() does not catch.     *)
MonitorThrows ==
    /\ monitor # "sleep"
    /\ process' = "terminated"
    /\ UNCHANGED <<monitor, poll, store, basis, phase, asked, got, history>>

Monitor ==
    Wake \/ ReadSystemUptime \/ ReadSystemStat \/ ReadSystemMeminfo \/ ReadProcFiles

-----------------------------------------------------------------------------
(* The session threads.                                                    *)

SessionOnly == UNCHANGED <<monitor, poll, store, basis>>

(* A request for one of the four endpoints has been read and routed.       *)
Receive(s, c) ==
    /\ phase[s] = "reading"
    /\ phase' = [phase EXCEPT ![s] = "called"]
    /\ asked' = [asked EXCEPT ![s] = c]
    /\ promised' = [promised EXCEPT ![s] = delivered]
    /\ completed' = [completed EXCEPT ![s] = Completed]
    /\ UNCHANGED <<got, process, delivered>> /\ SessionOnly

(* The endpoint copies the member out of the store.                        *)
Load(s) ==
    /\ phase[s] = "called"
    /\ phase' = [phase EXCEPT ![s] = "loaded"]
    /\ got' = [got EXCEPT ![s] = store[asked[s]]]
    /\ UNCHANGED <<asked, process, history>> /\ SessionOnly

(* The request and all that belonged to it are gone: the session reads the *)
(* next, or ends and leaves its place to another connection.               *)
Finish(s) ==
    /\ phase[s] = "loaded"
    /\ phase' = [phase EXCEPT ![s] = "reading"]
    /\ asked' = [asked EXCEPT ![s] = "uptime"]
    /\ got' = [got EXCEPT ![s] = 0]
    /\ promised' = [promised EXCEPT ![s] = NothingYet]
    /\ completed' = [completed EXCEPT ![s] = 0]
    /\ UNCHANGED process /\ SessionOnly

(* The copy is serialised and the response written to the socket.          *)
Respond(s) ==
    /\ Finish(s)
    /\ delivered' = [delivered EXCEPT ![asked[s]] = IF got[s] > @ THEN got[s] ELSE @]

WriteFails(s) == Finish(s) /\ UNCHANGED delivered

(* dump() throws on a process name that is not UTF-8, and nothing in the   *)
(* session's thread catches it.                                            *)
EndpointThrows(s) ==
    /\ phase[s] = "loaded" /\ asked[s] = "procs" /\ got[s] > 0
    /\ process' = "terminated"
    /\ UNCHANGED <<monitor, poll, store, basis, phase, asked, got, history>>

Session(s) == Load(s) \/ Respond(s) \/ WriteFails(s)

Next ==
    /\ process = "running"
    /\ \/ Monitor
       \/ MonitorThrows
       \/ \E s \in Sessions :
             \/ \E c \in Cells : Receive(s, c)
             \/ Session(s)
             \/ EndpointThrows(s)

Spec == Init /\ [][Next]_vars

(* The scheduler runs the monitor thread.                                  *)
FairSpec == Spec /\ WF_vars(process = "running" /\ Monitor)

-----------------------------------------------------------------------------
(* Where the monitor is in its cycle says which members it has replaced.   *)
StoreByStage ==
    \A c \in Cells : store[c] = IF monitor = "sleep" \/ Rank(c) < Rank(monitor)
                                THEN poll ELSE poll - 1

(* A process snapshot is stamped with the uptime, and weighed against the  *)
(* memory, that its own poll read; CPU usage, of a process or a core, is   *)
(* always the usage since the poll just before ("since last read",         *)
(* monitor.h:65), never over a longer or an empty interval.                *)
ReadingsAgree ==
    /\ basis["time"] = store["procs"] /\ basis["mem"] = store["procs"]
    /\ store["procs"] > 0 => basis["procs"] = store["procs"] - 1
    /\ store["cpus"] > 0 => basis["cpus"] = store["cpus"] - 1

(* A reading of one member may lag behind a reading of another by one      *)
(* poll, and only when the monitor replaces it later in its cycle.         *)
Lag(c, d) == IF Rank(c) > Rank(d) THEN 1 ELSE 0

(* At any instant the store holds readings of two members that are at most *)
(* one poll apart.  (Copies made at different instants may be further      *)
(* apart; what is promised of them is AnswersNeverGoBack.)                 *)
OneCycleSkew == \A c, d \in Cells : store[d] <= store[c] + Lag(c, d)

(* What clients have seen is still there, or has been replaced by newer.   *)
HistoryBehind ==
    /\ \A c \in Cells : delivered[c] <= store[c]
    /\ \A s \in Sessions, c \in Cells : promised[s][c] <= delivered[c]
    /\ \A s \in Sessions : completed[s] <= Completed
    /\ \A s \in Sessions : phase[s] = "loaded" => got[s] <= store[asked[s]]

(* Time does not run backwards for clients: once any client has had an     *)
(* answer, no request sent after it is answered, on any connection, with   *)
(* an older reading of that member, nor with another member from more than *)
(* one poll earlier.                                                       *)
AnswersNeverGoBack ==
    \A s \in Sessions : phase[s] = "loaded" =>
        \A c \in Cells : promised[s][c] <= got[s] + Lag(asked[s], c)

(* An answer is never older than the last poll that was complete when its  *)
(* request came in.                                                        *)
AnswersAreCurrent ==
    \A s \in Sessions : phase[s] = "loaded" => completed[s] <= got[s]

IInv ==
    /\ TypeOK
    /\ StoreByStage
    /\ ReadingsAgree
    /\ HistoryBehind
    /\ AnswersNeverGoBack
    /\ AnswersAreCurrent

(* Every poll that begins has replaced all four members in the end, unless *)
(* the process is terminated.                                              *)
PollsReachTheStore ==
    monitor # "sleep" ~> process = "terminated" \/ \A c \in Cells : store[c] = poll
=============================================================================
