--------------------------- MODULE SnapshotStore ---------------------------
(***************************************************************************)
(* What the class DataStore promises its callers (datastore.h: "thread-    *)
(* safe data exchange and caching between the filesystem thread and server *)
(* thread"): every call of a setter or getter takes effect in one          *)
(* indivisible step between its invocation and its return.                 *)
(***************************************************************************)
EXTENDS Snapshots

VARIABLES
    reg,    \* reg[c]: the content of cell c
    phase,  \* phase[t]: where thread t is in its call
    call,   \* call[t]: the arguments of the call t is in, or None
    ret     \* ret[t]: what t's latest getter returned

vars == <<reg, phase, call, ret>>

Init ==
    /\ reg = InitialContent
    /\ phase = [t \in Threads |-> "idle"]
    /\ call = [t \in Threads |-> None]
    /\ ret = [t \in Threads |-> NoEntries]

Invoke(t, req) ==
    /\ phase[t] = "idle"
    /\ phase' = [phase EXCEPT ![t] = "called"]
    /\ call' = [call EXCEPT ![t] = req]
    /\ UNCHANGED <<reg, ret>>

Store(t, c) == t \in Writers /\ \E content \in Content(c) : Invoke(t, StoreCall(c, content))

Get(t, c) == \E want \in Wants(c) : Invoke(t, GetCall(c, want))

(* The one step at which the call takes effect.                            *)
Apply(t) ==
    /\ phase[t] = "called"
    /\ phase' = [phase EXCEPT ![t] = "done"]
    /\ \/ /\ call[t].op = "store"
          /\ reg' = [reg EXCEPT ![call[t].cell] = call[t].arg]
          /\ UNCHANGED ret
       \/ /\ call[t].op = "get"
          /\ ret' = [ret EXCEPT ![t] = View(reg[call[t].cell], call[t].want)]
          /\ UNCHANGED reg
    /\ UNCHANGED call

Return(t) ==
    /\ phase[t] = "done"
    /\ phase' = [phase EXCEPT ![t] = "idle"]
    /\ call' = [call EXCEPT ![t] = None]
    /\ UNCHANGED <<reg, ret>>

Next == \E t \in Threads :
            \/ \E c \in Cells : Store(t, c) \/ Get(t, c)
            \/ Apply(t)
            \/ Return(t)

Spec == Init /\ [][Next]_vars
=============================================================================
