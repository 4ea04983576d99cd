----------------------------- MODULE DataStore -----------------------------
(***************************************************************************)
(* The class DataStore (backend/include/api_server/data/datastore.h) at    *)
(* the grain of its memory accesses.  Each of its four data members has a  *)
(* mutex of its own; every method takes the one mutex of the member it     *)
(* touches for its whole body and never a second one.                      *)
(*                                                                         *)
(* A setter of a struct assigns it field by field.  A setter of a map      *)
(* clears it and then inserts the new snapshots one by one.  A getter      *)
(* copies field by field, or entry by entry.  Other threads run between    *)
(* any two of these steps: only the mutex keeps them out.                  *)
(***************************************************************************)
EXTENDS Snapshots, Naturals, FiniteSets

(* Fields are those of a class; ids and pids are machine integers.         *)
ASSUME KeysAssumption == IsFiniteSet(Keys)

VARIABLES
    data,   \* data[c]: what member c holds in memory
    mutex,  \* mutex[c]: the thread that holds c's mutex, or None
    pc,     \* pc[t]: where thread t is in its method
    call,   \* call[t]: the method and arguments t is in, or None
    todo,   \* todo[t]: the keys t's loop has still to visit
    ret     \* ret[t]: the local that t's getter fills and returns

vars == <<data, mutex, pc, call, todo, ret>>

(* The linearisation point of every method is the acquisition of its       *)
(* mutex: from then on until the release the member is worth what a setter *)
(* is writing, and a getter will return what the member holds.             *)
Inside(t) == pc[t] \in {"clear", "body"}
Storing(t) == Inside(t) /\ call[t].op = "store"
Getting(t) == Inside(t) /\ call[t].op = "get"

Reg == [c \in Cells |->
           IF mutex[c] # None /\ Storing(mutex[c]) THEN call[mutex[c]].arg ELSE data[c]]

Phase == [t \in Threads |->
             IF pc[t] = "wait" THEN "called" ELSE IF pc[t] = "idle" THEN "idle" ELSE "done"]

Result == [t \in Threads |->
              IF Getting(t) THEN View(data[call[t].cell], call[t].want) ELSE ret[t]]

Atomic == INSTANCE SnapshotStore WITH reg <- Reg, phase <- Phase, ret <- Result

TypeOK ==
    /\ data \in [Cells -> AnyContent]
    /\ \A c \in Cells : data[c] \in Content(c)
    /\ mutex \in [Cells -> Threads \cup {None}]
    /\ pc \in [Threads -> {"idle", "wait", "clear", "body"}]
    /\ call \in [Threads -> Calls \cup {None}]
    /\ \A t \in Threads : pc[t] # "idle" => call[t] \in Calls
    /\ todo \in [Threads -> SUBSET Keys]
    /\ ret \in [Threads -> AnyContent]

Init ==
    /\ data = InitialContent
    /\ mutex = [c \in Cells |-> None]
    /\ pc = [t \in Threads |-> "idle"]
    /\ call = [t \in Threads |-> None]
    /\ todo = [t \in Threads |-> {}]
    /\ ret = [t \in Threads |-> NoEntries]

Invoke(t, req) ==
    /\ pc[t] = "idle"
    /\ pc' = [pc EXCEPT ![t] = "wait"]
    /\ call' = [call EXCEPT ![t] = req]
    /\ UNCHANGED <<data, mutex, todo, ret>>

(* set_uptime, set_mem_snapshot, store_cpu_snapshots, store_proc_snapshots *)
Store(t, c) ==
    t \in Writers /\ \E content \in Content(c) : Invoke(t, StoreCall(c, content))

(* get_uptime, get_mem_snapshot, get_cpu_snapshots, get_proc_snapshots     *)
(* want everything; get_cpu_snapshot and get_proc_snapshot want one key.   *)
(* get_cpu_ids and get_pids walk the map like the getters of everything    *)
(* and return the keys that those return with their entries.               *)
Get(t, c) == \E want \in Wants(c) : Invoke(t, GetCall(c, want))

(* The mutex is t's, and the locals are what the body starts from: a map   *)
(* setter loops over the snapshots it was given.                           *)
Enter(t) ==
    /\ mutex' = [mutex EXCEPT ![call[t].cell] = t]
    /\ \/ /\ call[t].op = "store"
          /\ pc' = [pc EXCEPT ![t] = IF call[t].cell \in MapCells THEN "clear" ELSE "body"]
          /\ todo' = [todo EXCEPT ![t] = {k \in Keys : call[t].arg[k] # None}]
          /\ UNCHANGED ret
       \/ /\ call[t].op = "get"
          /\ pc' = [pc EXCEPT ![t] = "body"]
          /\ todo' = [todo EXCEPT ![t] = call[t].want]
          /\ ret' = [ret EXCEPT ![t] = NoEntries]
    /\ UNCHANGED <<data, call>>

(* Mutant: the method does without its unique_lock.                        *)
AcquireUnlocked(t) == pc[t] = "wait" /\ Enter(t)

(* std::unique_lock lock{mutex}                                            *)
Acquire(t) == pc[t] = "wait" /\ mutex[call[t].cell] = None /\ Enter(t)

(* Mutant: the map is not cleared before it is filled.                     *)
ClearNothing(t) ==
    /\ pc[t] = "clear"
    /\ pc' = [pc EXCEPT ![t] = "body"]
    /\ UNCHANGED <<data, mutex, call, todo, ret>>

(* m_cpu_snapshots.clear(), m_proc_snapshots.clear()                       *)
Clear(t) ==
    /\ pc[t] = "clear"
    /\ pc' = [pc EXCEPT ![t] = "body"]
    /\ data' = [data EXCEPT ![call[t].cell] = NoEntries]
    /\ UNCHANGED <<mutex, call, todo, ret>>

(* One field assigned, or one snapshot inserted under its key.             *)
Put(t, k) ==
    /\ pc[t] = "body" /\ call[t].op = "store" /\ k \in todo[t]
    /\ data' = [data EXCEPT ![call[t].cell][k] = call[t].arg[k]]
    /\ todo' = [todo EXCEPT ![t] = @ \ {k}]
    /\ UNCHANGED <<mutex, pc, call, ret>>

(* Mutant: the loop does not advance.                                      *)
CopyAgain(t, k) ==
    /\ pc[t] = "body" /\ call[t].op = "get" /\ k \in todo[t]
    /\ ret' = [ret EXCEPT ![t][k] = data[call[t].cell][k]]
    /\ UNCHANGED <<data, mutex, pc, call, todo>>

(* One field copied, or one entry copied if the map holds it.              *)
Copy(t, k) ==
    /\ pc[t] = "body" /\ call[t].op = "get" /\ k \in todo[t]
    /\ ret' = [ret EXCEPT ![t][k] = data[call[t].cell][k]]
    /\ todo' = [todo EXCEPT ![t] = @ \ {k}]
    /\ UNCHANGED <<data, mutex, pc, call>>

(* The return: the result has been copied out when the lock is destroyed.  *)
Release(t) ==
    /\ pc[t] = "body" /\ todo[t] = {}
    /\ mutex' = [mutex EXCEPT ![call[t].cell] = None]
    /\ pc' = [pc EXCEPT ![t] = "idle"]
    /\ call' = [call EXCEPT ![t] = None]
    /\ UNCHANGED <<data, todo, ret>>

(* The steps of a method once it is called.                                *)
Run(t) ==
    \/ Acquire(t)
    \/ Clear(t)
    \/ \E k \in Keys : Put(t, k) \/ Copy(t, k)
    \/ Release(t)

Next == \E t \in Threads :
            \/ \E c \in Cells : Store(t, c) \/ Get(t, c)
            \/ Run(t)

Spec == Init /\ [][Next]_vars

(* The scheduler runs every thread that can run.  Nothing more is assumed: *)
(* std::mutex does not promise that a waiter is ever chosen, and no thread *)
(* has to call the store at all.                                           *)
FairSpec == Spec /\ \A t \in Threads : WF_vars(Run(t))

-----------------------------------------------------------------------------
(* Each mutex is held by at most one thread, and by the thread whose       *)
(* critical section it guards, for the whole of that section.              *)
Exclusion ==
    /\ \A t \in Threads : Inside(t) => mutex[call[t].cell] = t
    /\ \A c \in Cells : mutex[c] # None => Inside(mutex[c]) /\ call[mutex[c]].cell = c

(* The keys a setter has passed hold what it was given, and it has only    *)
(* its entries to insert after the clear.                                  *)
StoreProgress ==
    \A t \in Threads : pc[t] = "body" /\ call[t].op = "store" =>
        \A k \in Keys \ todo[t] : data[call[t].cell][k] = call[t].arg[k]

(* What a getter has copied so far is what the member still holds.         *)
GetProgress ==
    \A t \in Threads : pc[t] = "body" /\ call[t].op = "get" =>
        \A k \in Keys : ret[t][k] = IF k \in call[t].want \ todo[t]
                                    THEN data[call[t].cell][k] ELSE None

(* Only maps are cleared, by a setter that has all its entries to insert.  *)
ClearOnlyInMapSetters ==
    \A t \in Threads : pc[t] = "clear" =>
        /\ call[t].op = "store" /\ call[t].cell \in MapCells
        /\ todo[t] = {k \in Keys : call[t].arg[k] # None}

(* A getter has only keys left that it was asked for.                      *)
CopyWanted ==
    \A t \in Threads : pc[t] = "body" /\ call[t].op = "get" => todo[t] \subseteq call[t].want

IInv ==
    /\ TypeOK
    /\ Exclusion
    /\ StoreProgress
    /\ GetProgress
    /\ ClearOnlyInMapSetters
    /\ CopyWanted

(* No reader ever sees a half-written snapshot, and no two writers mix     *)
(* theirs: every method behaves as one indivisible step (the contract of   *)
(* datastore.h:14).                                                        *)
LinearisableStore == Atomic!Spec

(* The steps that a thread has still to take with its mutex held.          *)
StepsLeft(t) ==
    IF Inside(t) THEN Cardinality(todo[t]) + IF pc[t] = "clear" THEN 2 ELSE 1 ELSE 0

Own(t) == <<pc[t], call[t], todo[t], ret[t]>>

(* A mutex is held for so many steps only, as many as there are keys and   *)
(* two: each step of its holder leaves fewer, whatever other threads do.   *)
SectionRunsOut ==
    [][\A t \in Threads : Inside(t) /\ Own(t)' # Own(t) => StepsLeft(t)' < StepsLeft(t)]_vars

(* A thread that waits for a mutex is not blocked by an abandoned one: it  *)
(* gets in, or the mutex is free again.  No method leaves a mutex locked.  *)
WaiterSeesFreeMutex ==
    \A t \in Threads :
        pc[t] = "wait" ~> (pc[t] # "wait" \/ mutex[call[t].cell] = None)
=============================================================================
