-------------------------- MODULE DataStoreProofs --------------------------
(***************************************************************************)
(* Proofs about DataStore, for any number of threads, members, keys and    *)
(* values: the lock discipline is invariant, and the store therefore       *)
(* implements SnapshotStore.                                               *)
(***************************************************************************)
EXTENDS DataStore, FiniteSetTheorems, TLAPS

(* A request that a caller can make is well formed.                        *)
LEMMA RequestsAreCalls ==
    /\ \A c \in Cells : \A content \in Content(c) : StoreCall(c, content) \in Calls
    /\ \A c \in Cells : \A want \in Wants(c) : GetCall(c, want) \in Calls
BY DEF StoreCall, GetCall, Wants, Content, Calls, AnyContent, NoEntries

(* The fields of a well-formed request.                                    *)
LEMMA CallFields ==
    ASSUME NEW req \in Calls
    PROVE  /\ req.op \in {"store", "get"}
           /\ req.cell \in Cells
           /\ req.arg \in AnyContent
           /\ req.want \in SUBSET Keys
           /\ req.op = "store" => req.arg \in Content(req.cell)
BY DEF Calls

LEMMA NoEntriesContent ==
    /\ NoEntries \in AnyContent
    /\ \A c \in Cells : c \notin StructCells => NoEntries \in Content(c)
    /\ \A c \in MapCells : c \in Cells /\ c \notin StructCells
BY StoreAssumption DEF NoEntries, AnyContent, Content, Cells

(* The invariant holds initially.                                          *)
LEMMA InitIInv == Init => IInv
BY StoreAssumption
   DEF Init, IInv, TypeOK, Exclusion, StoreProgress, GetProgress, ClearOnlyInMapSetters,
       CopyWanted, Inside, InitialContent, AnyContent, NoEntries, Cells, Content

(* A request leaves every critical section alone.                          *)
LEMMA InvokeIInv ==
    ASSUME IInv, NEW t \in Threads, NEW req \in Calls, Invoke(t, req)
    PROVE  IInv'
<1> USE DEF IInv, Invoke
<1>1. TypeOK'
    BY DEF TypeOK
<1>2. \A u \in Threads : u # t => pc'[u] = pc[u] /\ call'[u] = call[u]
    BY DEF TypeOK
<1>3. pc'[t] = "wait" /\ pc[t] = "idle"
    BY DEF TypeOK
<1>4. Exclusion'
    BY <1>2, <1>3, StoreAssumption DEF Exclusion, Inside, TypeOK, Threads
<1>5. StoreProgress' /\ GetProgress' /\ ClearOnlyInMapSetters' /\ CopyWanted'
    BY <1>2, <1>3 DEF StoreProgress, GetProgress, ClearOnlyInMapSetters, CopyWanted
<1>6. QED
    BY <1>1, <1>4, <1>5

(* Taking a mutex opens one critical section, on a member that no other    *)
(* thread is working on.                                                   *)
LEMMA AcquireIInv ==
    ASSUME IInv, NEW t \in Threads, Acquire(t)
    PROVE  IInv'
<1> USE DEF IInv, Acquire, Enter
<1>0. call[t] \in Calls
    BY DEF TypeOK
<1>a. /\ call[t].op \in {"store", "get"} /\ call[t].cell \in Cells
      /\ call[t].arg \in AnyContent /\ call[t].want \in SUBSET Keys
    BY <1>0, CallFields
<1>1. TypeOK'
    BY <1>a, NoEntriesContent DEF TypeOK
<1>2. \A u \in Threads : u # t => /\ pc'[u] = pc[u] /\ todo'[u] = todo[u] /\ ret'[u] = ret[u]
    BY DEF TypeOK
<1>3. pc[t] = "wait" /\ pc'[t] \in {"clear", "body"}
    BY DEF TypeOK
<1>4. Exclusion'
    BY <1>2, <1>3, <1>a, StoreAssumption DEF Exclusion, Inside, TypeOK, Threads
<1>5. StoreProgress'
  <2> SUFFICES ASSUME NEW u \in Threads, pc'[u] = "body", call[u].op = "store",
                      NEW k \in Keys \ todo'[u]
               PROVE  data[call[u].cell][k] = call[u].arg[k]
      BY DEF StoreProgress
  <2>1. CASE u # t
      BY <2>1, <1>2 DEF StoreProgress
  <2>2. CASE u = t
    <3>1. call[t].cell \in StructCells
        BY <2>2, <1>a DEF TypeOK, Cells
    <3>2. call[t].arg \in [Keys -> Values]
        BY <2>2, <3>1, <1>0, CallFields DEF Content
    <3>3. todo'[t] = Keys
        BY <2>2, <3>2, StoreAssumption DEF TypeOK
    <3>4. QED
        BY <2>2, <3>3
  <2>3. QED
      BY <2>1, <2>2
<1>6. GetProgress'
  <2> SUFFICES ASSUME NEW u \in Threads, pc'[u] = "body", call[u].op = "get", NEW k \in Keys
               PROVE  ret'[u][k] = IF k \in call[u].want \ todo'[u]
                                   THEN data[call[u].cell][k] ELSE None
      BY DEF GetProgress
  <2>1. CASE u # t
      BY <2>1, <1>2 DEF GetProgress
  <2>2. CASE u = t
      BY <2>2 DEF TypeOK, NoEntries
  <2>3. QED
      BY <2>1, <2>2
<1>7. ClearOnlyInMapSetters' /\ CopyWanted'
    BY <1>2, <1>3, <1>a DEF ClearOnlyInMapSetters, CopyWanted, TypeOK
<1>8. QED
    BY <1>1, <1>4, <1>5, <1>6, <1>7

(* A thread inside a critical section shares its member with no other.     *)
LEMMA AloneInside ==
    ASSUME Exclusion, NEW t \in Threads, NEW u \in Threads, u # t, Inside(t), Inside(u)
    PROVE  call[u].cell # call[t].cell
BY DEF Exclusion

(* The clear happens under the map's mutex.                                *)
LEMMA ClearIInv ==
    ASSUME IInv, NEW t \in Threads, Clear(t)
    PROVE  IInv'
<1> USE DEF IInv, Clear
<1>a. call[t] \in Calls /\ call[t].op = "store" /\ call[t].cell \in Cells
    BY CallFields DEF TypeOK, ClearOnlyInMapSetters
<1>b. \A u \in Threads : u # t => pc'[u] = pc[u]
    BY DEF TypeOK
<1>c. pc[t] = "clear" /\ pc'[t] = "body"
    BY DEF TypeOK
<1>d. \A u \in Threads : u # t /\ pc[u] = "body" => data'[call[u].cell] = data[call[u].cell]
    BY <1>a, <1>c, AloneInside, CallFields DEF Inside, TypeOK
<1>e. data'[call[t].cell] = NoEntries
    BY <1>a DEF TypeOK
<1>1. TypeOK'
  <2>1. data'[call[t].cell] \in Content(call[t].cell)
      BY <1>a, <1>e, NoEntriesContent DEF ClearOnlyInMapSetters
  <2>2. QED
      BY <1>a, <2>1, NoEntriesContent DEF TypeOK
<1>2. Exclusion'
    BY <1>b, <1>c DEF Exclusion, Inside, TypeOK
<1>3. StoreProgress'
  <2> SUFFICES ASSUME NEW u \in Threads, pc'[u] = "body", call[u].op = "store",
                      NEW k \in Keys \ todo[u]
               PROVE  data'[call[u].cell][k] = call[u].arg[k]
      BY DEF StoreProgress
  <2>1. CASE u # t
      BY <2>1, <1>b, <1>d DEF StoreProgress
  <2>2. CASE u = t
      BY <2>2, <1>c, <1>e DEF ClearOnlyInMapSetters, NoEntries
  <2>3. QED
      BY <2>1, <2>2
<1>4. GetProgress'
    BY <1>a, <1>b, <1>d DEF GetProgress
<1>5. ClearOnlyInMapSetters' /\ CopyWanted'
    BY <1>a, <1>b, <1>c DEF ClearOnlyInMapSetters, CopyWanted
<1>6. QED
    BY <1>1, <1>2, <1>3, <1>4, <1>5

(* A setter writes its next field or entry.                                *)
LEMMA PutIInv ==
    ASSUME IInv, NEW t \in Threads, NEW key \in Keys, Put(t, key)
    PROVE  IInv'
<1> USE DEF IInv, Put
<1>a. /\ call[t] \in Calls /\ call[t].op = "store" /\ call[t].cell \in Cells
      /\ call[t].arg \in Content(call[t].cell)
    BY CallFields DEF TypeOK
<1>b. \A u \in Threads : u # t => todo'[u] = todo[u]
    BY DEF TypeOK
<1>c. \A u \in Threads : u # t /\ pc[u] = "body" => data'[call[u].cell] = data[call[u].cell]
    BY <1>a, AloneInside, CallFields DEF Inside, TypeOK
<1>d. /\ data[call[t].cell] \in Content(call[t].cell)
      /\ data'[call[t].cell] = [data[call[t].cell] EXCEPT ![key] = call[t].arg[key]]
    BY <1>a DEF TypeOK
<1>e. todo'[t] = todo[t] \ {key}
    BY DEF TypeOK
<1>1. TypeOK'
  <2>1. data'[call[t].cell] \in Content(call[t].cell) /\ data'[call[t].cell] \in AnyContent
      BY <1>a, <1>d DEF Content, AnyContent
  <2>2. data' \in [Cells -> AnyContent]
      BY <1>a, <1>d, <2>1 DEF TypeOK
  <2>3. \A c \in Cells : data'[c] \in Content(c)
      BY <1>a, <2>1 DEF TypeOK
  <2>4. QED
      BY <2>2, <2>3 DEF TypeOK
<1>2. Exclusion'
    BY DEF Exclusion, Inside
<1>3. StoreProgress'
  <2> SUFFICES ASSUME NEW u \in Threads, pc[u] = "body", call[u].op = "store",
                      NEW k \in Keys \ todo'[u]
               PROVE  data'[call[u].cell][k] = call[u].arg[k]
      BY DEF StoreProgress
  <2>1. CASE u # t
      BY <2>1, <1>b, <1>c DEF StoreProgress
  <2>2. CASE u = t
    <3>1. data[call[t].cell] \in AnyContent
        BY <1>a DEF TypeOK
    <3>2. CASE k = key
        BY <2>2, <3>1, <3>2, <1>d DEF AnyContent
    <3>3. CASE k # key
        BY <2>2, <3>1, <3>3, <1>d, <1>e DEF AnyContent, StoreProgress
    <3>4. QED
        BY <3>2, <3>3
  <2>3. QED
      BY <2>1, <2>2
<1>4. GetProgress'
    BY <1>a, <1>b, <1>c DEF GetProgress
<1>5. ClearOnlyInMapSetters' /\ CopyWanted'
    BY <1>a, <1>b DEF ClearOnlyInMapSetters, CopyWanted
<1>6. QED
    BY <1>1, <1>2, <1>3, <1>4, <1>5

(* A getter copies its next field or entry.                                *)
LEMMA CopyIInv ==
    ASSUME IInv, NEW t \in Threads, NEW key \in Keys, Copy(t, key)
    PROVE  IInv'
<1> USE DEF IInv, Copy
<1>a. call[t] \in Calls /\ call[t].op = "get" /\ call[t].cell \in Cells
    BY CallFields DEF TypeOK
<1>b. \A u \in Threads : u # t => todo'[u] = todo[u] /\ ret'[u] = ret[u]
    BY DEF TypeOK
<1>c. /\ todo'[t] = todo[t] \ {key} /\ todo[t] \in SUBSET Keys
      /\ ret[t] \in AnyContent
      /\ ret'[t] = [ret[t] EXCEPT ![key] = data[call[t].cell][key]]
      /\ data[call[t].cell][key] \in Values \cup {None}
    BY <1>a DEF TypeOK, AnyContent
<1>d. ret'[t] \in AnyContent
    BY <1>c DEF AnyContent
<1>1. TypeOK'
    BY <1>d DEF TypeOK
<1>2. Exclusion'
    BY DEF Exclusion, Inside
<1>3. StoreProgress'
    BY <1>a, <1>b DEF StoreProgress
<1>4. GetProgress'
  <2> SUFFICES ASSUME NEW u \in Threads, pc[u] = "body", call[u].op = "get", NEW k \in Keys
               PROVE  ret'[u][k] = IF k \in call[u].want \ todo'[u]
                                   THEN data[call[u].cell][k] ELSE None
      BY DEF GetProgress
  <2>1. CASE u # t
      BY <2>1, <1>b DEF GetProgress
  <2>2. CASE u = t
    <3>1. key \in call[t].want
        BY DEF CopyWanted
    <3>2. CASE k = key
        BY <2>2, <3>1, <3>2, <1>c DEF AnyContent
    <3>3. CASE k # key
        BY <2>2, <3>3, <1>c DEF AnyContent, GetProgress
    <3>4. QED
        BY <3>2, <3>3
  <2>3. QED
      BY <2>1, <2>2
<1>5. ClearOnlyInMapSetters'
    BY <1>a, <1>b DEF ClearOnlyInMapSetters
<1>6. CopyWanted'
    BY <1>b, <1>c DEF CopyWanted
<1>7. QED
    BY <1>1, <1>2, <1>3, <1>4, <1>5, <1>6

(* Returning closes the critical section and frees its mutex.              *)
LEMMA ReleaseIInv ==
    ASSUME IInv, NEW t \in Threads, Release(t)
    PROVE  IInv'
<1> USE DEF IInv, Release
<1>a. call[t] \in Calls /\ call[t].cell \in Cells
    BY CallFields DEF TypeOK
<1>b. \A u \in Threads : u # t => pc'[u] = pc[u] /\ call'[u] = call[u]
    BY DEF TypeOK
<1>c. pc'[t] = "idle"
    BY DEF TypeOK
<1>1. TypeOK'
    BY <1>a DEF TypeOK
<1>2. Exclusion'
  <2>1. \A u \in Threads : u # t /\ Inside(u) => call[u].cell # call[t].cell
      BY AloneInside DEF Inside
  <2>2. \A u \in Threads : Inside(u)' => u # t /\ Inside(u)
      BY <1>b, <1>c DEF Inside
  <2>3. \A u \in Threads : Inside(u)' => mutex'[call'[u].cell] = u
      BY <2>1, <2>2, <1>a, <1>b, CallFields DEF Exclusion, TypeOK, Inside
  <2>4. \A c \in Cells : mutex'[c] # None => /\ mutex'[c] \in Threads \ {t}
                                             /\ mutex'[c] = mutex[c]
      BY <1>a, StoreAssumption DEF TypeOK, Exclusion, Threads
  <2>5. \A c \in Cells : mutex'[c] # None => /\ pc'[mutex'[c]] \in {"clear", "body"}
                                             /\ call'[mutex'[c]].cell = c
      BY <2>4, <1>b DEF Exclusion, Inside
  <2>6. QED
      BY <2>3, <2>5 DEF Exclusion, Inside
<1>3. StoreProgress' /\ GetProgress' /\ ClearOnlyInMapSetters' /\ CopyWanted'
    BY <1>b, <1>c DEF StoreProgress, GetProgress, ClearOnlyInMapSetters, CopyWanted
<1>4. QED
    BY <1>1, <1>2, <1>3

(* Every step keeps the invariant.                                         *)
LEMMA NextIInv == IInv /\ [Next]_vars => IInv'
<1> SUFFICES ASSUME IInv, [Next]_vars PROVE IInv'
    OBVIOUS
<1>1. ASSUME NEW t \in Threads, NEW c \in Cells, Store(t, c) PROVE IInv'
    BY <1>1, RequestsAreCalls, InvokeIInv DEF Store
<1>2. ASSUME NEW t \in Threads, NEW c \in Cells, Get(t, c) PROVE IInv'
    BY <1>2, RequestsAreCalls, InvokeIInv DEF Get
<1>3. ASSUME NEW t \in Threads, Run(t) PROVE IInv'
    BY <1>3, AcquireIInv, ClearIInv, PutIInv, CopyIInv, ReleaseIInv DEF Run
<1>4. CASE UNCHANGED vars
    BY <1>4 DEF vars, IInv, TypeOK, Exclusion, StoreProgress, GetProgress,
                ClearOnlyInMapSetters, CopyWanted, Inside
<1>5. QED
    BY <1>1, <1>2, <1>3, <1>4 DEF Next

(* The lock discipline of DataStore, with all that it is there to protect, *)
(* holds in every reachable state: each member is touched only by the      *)
(* thread that holds its mutex, so a loop that is half way through finds   *)
(* what it has already written or copied still in place.                   *)
THEOREM Invariance == Spec => []IInv
<1>1. Init => IInv
    BY InitIInv
<1>2. IInv /\ [Next]_vars => IInv'
    BY NextIInv
<1>3. QED
    BY <1>1, <1>2, PTL DEF Spec


-----------------------------------------------------------------------------
(* The store is abstractly fresh when it is fresh.                         *)
LEMMA InitRefines == Init => Atomic!Init
BY DEF Init, Atomic!Init, Reg, Phase, Result, Getting, Inside, InitialContent, NoEntries,
       Cells, Threads, Atomic!InitialContent, Atomic!NoEntries, Atomic!Cells, Atomic!Threads

(* A call is invoked.                                                      *)
LEMMA InvokeRefines ==
    ASSUME IInv, NEW t \in Threads, NEW req \in Calls, Invoke(t, req)
    PROVE  Atomic!Invoke(t, req)
<1> USE DEF Invoke
<1>a. /\ pc[t] = "idle" /\ pc'[t] = "wait"
      /\ \A u \in Threads : u # t => pc'[u] = pc[u] /\ call'[u] = call[u]
    BY DEF IInv, TypeOK
<1>1. Phase[t] = "idle" /\ Phase' = [Phase EXCEPT ![t] = "called"]
    BY <1>a DEF Phase
<1>2. \A c \in Cells : mutex[c] # None => mutex[c] \in Threads \ {t}
    BY <1>a, StoreAssumption DEF IInv, TypeOK, Exclusion, Inside
<1>3. Reg' = Reg
  <2>1. ASSUME NEW c \in Cells, mutex[c] # None
        PROVE  Storing(mutex[c])' = Storing(mutex[c]) /\ call'[mutex[c]] = call[mutex[c]]
      BY <1>a, <1>2, <2>1 DEF Storing, Inside
  <2>2. QED
      BY <2>1 DEF Reg
<1>4. Result' = Result
    BY <1>a DEF Result, Getting, Inside
<1>5. QED
    BY <1>1, <1>3, <1>4 DEF Atomic!Invoke


(* A lock is acquired: the call takes effect.                              *)
LEMMA AcquireRefines ==
    ASSUME IInv, NEW t \in Threads, Acquire(t)
    PROVE  Atomic!Apply(t)
<1> USE DEF Acquire, Enter
<1>a. /\ call[t].op \in {"store", "get"} /\ call[t].cell \in Cells
      /\ mutex[call[t].cell] = None /\ t # None
    BY CallFields, StoreAssumption DEF IInv, TypeOK, Threads
<1>b. /\ pc[t] = "wait" /\ pc'[t] \in {"clear", "body"}
      /\ \A u \in Threads : u # t => pc'[u] = pc[u] /\ ret'[u] = ret[u]
    BY DEF IInv, TypeOK
<1>c. \A c \in Cells : c # call[t].cell => mutex'[c] = mutex[c]
    BY DEF IInv, TypeOK
<1>d. \A c \in Cells : mutex[c] # None => mutex[c] \in Threads /\ mutex[c] # t
    BY <1>b DEF IInv, TypeOK, Exclusion, Inside
<1>e. mutex'[call[t].cell] = t
    BY <1>a DEF IInv, TypeOK
<1>f. Reg = [c \in Cells |-> Reg[c]] /\ Reg' = [c \in Cells |-> Reg'[c]]
    BY DEF Reg
<1>1. Phase[t] = "called" /\ Phase' = [Phase EXCEPT ![t] = "done"]
    BY <1>b DEF Phase
<1>2. \A c \in Cells : c # call[t].cell => Reg'[c] = Reg[c]
  <2> SUFFICES ASSUME NEW c \in Cells, c # call[t].cell PROVE Reg'[c] = Reg[c]
      OBVIOUS
  <2>1. mutex'[c] = mutex[c]
      BY <1>c
  <2>2. CASE mutex[c] = None
      BY <2>1, <2>2 DEF Reg
  <2>3. CASE mutex[c] # None
    <3>1. pc'[mutex[c]] = pc[mutex[c]]
        BY <1>b, <1>d, <2>3
    <3>2. QED
        BY <2>1, <2>3, <3>1 DEF Reg, Storing, Inside
  <2>4. QED
      BY <2>2, <2>3
<1>3. \A u \in Threads : u # t => Result'[u] = Result[u]
    BY <1>b DEF Result, Getting, Inside
<1>4. ~Getting(t) /\ Result[t] = ret[t] /\ Reg[call[t].cell] = data[call[t].cell]
    BY <1>a, <1>b DEF Result, Getting, Inside, Reg
<1>5. CASE call[t].op = "store"
  <2>1. Reg'[call[t].cell] = call[t].arg
      BY <1>5, <1>a, <1>b, <1>e DEF Reg, Storing, Inside
  <2>2. Reg' = [Reg EXCEPT ![call[t].cell] = call[t].arg]
      BY <2>1, <1>2, <1>f
  <2>3. Result' = Result
      BY <1>5, <1>3, <1>4 DEF Result, Getting
  <2>4. QED
      BY <1>5, <1>1, <2>2, <2>3 DEF Atomic!Apply
<1>6. CASE call[t].op = "get"
  <2>1. Reg'[call[t].cell] = Reg[call[t].cell]
      BY <1>6, <1>a, <1>e, <1>4 DEF Reg, Storing
  <2>2. Reg' = Reg
      BY <2>1, <1>2 DEF Reg
  <2>3. Result'[t] = View(Reg[call[t].cell], call[t].want)
      BY <1>6, <1>b, <1>4 DEF Result, Getting, Inside
  <2>4. Result' = [Result EXCEPT ![t] = View(Reg[call[t].cell], call[t].want)]
      BY <2>3, <1>3 DEF Result
  <2>5. QED
      BY <1>6, <1>1, <2>2, <2>4 DEF Atomic!Apply, Atomic!View, View
<1>7. QED
    BY <1>a, <1>5, <1>6

(* The steps inside a critical section are invisible.                      *)
LEMMA BodyRefines ==
    ASSUME IInv, NEW t \in Threads, Clear(t) \/ \E k \in Keys : Put(t, k) \/ Copy(t, k)
    PROVE  UNCHANGED Atomic!vars
<1>a. call[t] \in Calls /\ call[t].cell \in Cells /\ Inside(t) /\ mutex[call[t].cell] = t
    BY CallFields DEF IInv, TypeOK, Clear, Put, Copy, Inside, Exclusion
<1>b. /\ UNCHANGED <<mutex, call>> /\ Inside(t)' /\ t # None
      /\ \A u \in Threads : u # t => pc'[u] = pc[u] /\ ret'[u] = ret[u]
      /\ (pc'[t] \in {"clear", "body"})
    BY StoreAssumption DEF IInv, TypeOK, Clear, Put, Copy, Inside, Threads
<1>c. \A c \in Cells : data'[c] # data[c] => c = call[t].cell /\ call[t].op = "store"
    BY <1>a DEF IInv, TypeOK, Clear, Put, Copy, ClearOnlyInMapSetters
<1>1. Phase' = Phase
    BY <1>a, <1>b DEF Phase, Inside
<1>2. Reg' = Reg
  <2> SUFFICES ASSUME NEW c \in Cells PROVE Reg'[c] = Reg[c]
      BY DEF Reg
  <2>1. CASE c = call[t].cell
      BY <2>1, <1>a, <1>b, <1>c DEF Reg, Storing, Inside
  <2>2. CASE c # call[t].cell
    <3>1. data'[c] = data[c]
        BY <2>2, <1>c
    <3>2. mutex[c] # None => mutex[c] \in Threads /\ mutex[c] # t
        BY <2>2, <1>a DEF IInv, TypeOK, Exclusion
    <3>3. QED
        BY <3>1, <3>2, <1>b DEF Reg, Storing, Inside
  <2>3. QED
      BY <2>1, <2>2
<1>3. Result' = Result
  <2> SUFFICES ASSUME NEW u \in Threads PROVE Result'[u] = Result[u]
      BY DEF Result
  <2>1. Getting(u)' = Getting(u)
      BY <1>a, <1>b DEF Getting, Inside
  <2>2. CASE Getting(u)
    <3>1. data'[call[u].cell] = data[call[u].cell]
        BY <2>2, <1>a, <1>c, CallFields DEF Getting, IInv, TypeOK, Exclusion, Inside
    <3>2. QED
        BY <2>1, <2>2, <3>1, <1>b DEF Result
  <2>3. CASE ~Getting(u)
    <3>1. ret'[u] = ret[u]
        BY <2>3, <1>a, <1>b DEF Getting, Clear, Put, Copy, IInv, TypeOK, ClearOnlyInMapSetters
    <3>2. QED
        BY <2>1, <2>3, <3>1 DEF Result
  <2>4. QED
      BY <2>2, <2>3
<1>4. QED
    BY <1>1, <1>2, <1>3, <1>b DEF Atomic!vars

(* A lock is released: a setter has written everything it was given, a     *)
(* getter has copied everything it was asked for.                          *)
LEMMA ReleaseRefines ==
    ASSUME IInv, NEW t \in Threads, Release(t)
    PROVE  Atomic!Return(t)
<1> USE DEF Release
<1>a. /\ call[t] \in Calls /\ call[t].op \in {"store", "get"} /\ call[t].cell \in Cells
      /\ call[t].op = "store" => call[t].arg \in Content(call[t].cell)
      /\ data[call[t].cell] \in Content(call[t].cell)
      /\ mutex[call[t].cell] = t /\ t # None
    BY CallFields, StoreAssumption DEF IInv, TypeOK, Exclusion, Inside, Threads
<1>b. /\ pc[t] = "body" /\ pc'[t] = "idle"
      /\ \A u \in Threads : u # t => pc'[u] = pc[u] /\ call'[u] = call[u]
    BY DEF IInv, TypeOK
<1>1. Phase[t] = "done" /\ Phase' = [Phase EXCEPT ![t] = "idle"]
    BY <1>b DEF Phase
<1>2. Reg' = Reg
  <2> SUFFICES ASSUME NEW c \in Cells PROVE Reg'[c] = Reg[c]
      BY DEF Reg
  <2>1. CASE c # call[t].cell
    <3>1. mutex'[c] = mutex[c] /\ (mutex[c] # None => mutex[c] \in Threads /\ mutex[c] # t)
        BY <2>1 DEF IInv, TypeOK, Exclusion
    <3>2. QED
        BY <3>1, <1>b DEF Reg, Storing, Inside
  <2>2. CASE c = call[t].cell /\ call[t].op = "get"
      BY <2>2, <1>a DEF Reg, Storing, IInv, TypeOK
  <2>3. CASE c = call[t].cell /\ call[t].op = "store"
    <3>1. \A k \in Keys : data[c][k] = call[t].arg[k]
        BY <2>3, <1>b DEF IInv, StoreProgress
    <3>2. data[c] = call[t].arg
        BY <2>3, <3>1, <1>a DEF Content
    <3>3. mutex'[c] = None
        BY <2>3, <1>a DEF IInv, TypeOK
    <3>4. QED
        BY <2>3, <3>2, <3>3, <1>a, <1>b DEF Reg, Storing, Inside
  <2>4. QED
      BY <2>1, <2>2, <2>3, <1>a
<1>3. Result' = Result
  <2> SUFFICES ASSUME NEW u \in Threads PROVE Result'[u] = Result[u]
      BY DEF Result
  <2>1. CASE u # t
      BY <2>1, <1>b DEF Result, Getting, Inside
  <2>2. CASE u = t /\ Getting(t)
    <3>1. \A k \in Keys : ret[t][k] = IF k \in call[t].want THEN data[call[t].cell][k] ELSE None
        BY <2>2, <1>b DEF Getting, IInv, GetProgress
    <3>2. ret[t] = View(data[call[t].cell], call[t].want)
        BY <3>1 DEF IInv, TypeOK, AnyContent, View
    <3>3. QED
        BY <2>2, <3>2, <1>b DEF Result, Getting, Inside
  <2>3. CASE u = t /\ ~Getting(t)
      BY <2>3, <1>b DEF Result, Getting, Inside
  <2>4. QED
      BY <2>1, <2>2, <2>3
<1>4. QED
    BY <1>1, <1>2, <1>3 DEF Atomic!Return


(* Every step of the store is one step of the atomic store, or none.       *)
LEMMA NextRefines == IInv /\ [Next]_vars => [Atomic!Next]_(Atomic!vars)
<1> SUFFICES ASSUME IInv, [Next]_vars PROVE [Atomic!Next]_(Atomic!vars)
    OBVIOUS
<1>1. ASSUME NEW t \in Threads, NEW c \in Cells, Store(t, c) PROVE Atomic!Next
  <2>1. PICK content \in Content(c) : Invoke(t, StoreCall(c, content))
      BY <1>1 DEF Store
  <2>2. Atomic!Invoke(t, StoreCall(c, content))
      BY <2>1, RequestsAreCalls, InvokeRefines
  <2>3. Atomic!Store(t, c)
      BY <1>1, <2>2 DEF Store, StoreCall, Content, Atomic!Store, Atomic!StoreCall, Atomic!Content
  <2>4. QED
      BY <2>3 DEF Atomic!Next, Atomic!Threads, Atomic!Cells, Threads, Cells
<1>2. ASSUME NEW t \in Threads, NEW c \in Cells, Get(t, c) PROVE Atomic!Next
  <2>1. PICK want \in Wants(c) : Invoke(t, GetCall(c, want))
      BY <1>2 DEF Get
  <2>2. Atomic!Invoke(t, GetCall(c, want))
      BY <2>1, RequestsAreCalls, InvokeRefines
  <2>3. Atomic!Get(t, c)
      BY <2>2 DEF GetCall, Wants, NoEntries,
                  Atomic!Get, Atomic!GetCall, Atomic!Wants, Atomic!NoEntries
  <2>4. QED
      BY <2>3 DEF Atomic!Next, Atomic!Threads, Atomic!Cells, Threads, Cells
<1>3. ASSUME NEW t \in Threads, Run(t) PROVE Atomic!Next \/ UNCHANGED Atomic!vars
  <2>1. CASE Acquire(t)
      BY <2>1, AcquireRefines DEF Atomic!Next, Atomic!Threads, Threads
  <2>2. CASE Clear(t) \/ \E k \in Keys : Put(t, k) \/ Copy(t, k)
      BY <2>2, BodyRefines
  <2>3. CASE Release(t)
      BY <2>3, ReleaseRefines DEF Atomic!Next, Atomic!Threads, Threads
  <2>4. QED
      BY <1>3, <2>1, <2>2, <2>3 DEF Run
<1>4. CASE UNCHANGED vars
    BY <1>4 DEF vars, Atomic!vars, Reg, Phase, Result, Storing, Getting, Inside
<1>5. QED
    BY <1>1, <1>2, <1>3, <1>4 DEF Next

(* The thread safety that datastore.h promises: whatever the interleaving  *)
(* of the monitor with any number of sessions, every method behaves as one *)
(* indivisible step between its call and its return.                       *)
THEOREM Linearisability == Spec => LinearisableStore
<1>1. Init => Atomic!Init
    BY InitRefines
<1>2. IInv /\ [Next]_vars => [Atomic!Next]_(Atomic!vars)
    BY NextRefines
<1>3. QED
    BY <1>1, <1>2, Invariance, PTL DEF Spec, LinearisableStore, Atomic!Spec

-----------------------------------------------------------------------------
(* A thread that holds a mutex goes its own way to the end of its method.  *)
LEMMA StepRunsOut ==
    ASSUME IInv, Next, NEW t \in Threads, Inside(t), Own(t)' # Own(t)
    PROVE  StepsLeft(t)' < StepsLeft(t)
<1>1. TypeOK /\ todo[t] \in SUBSET Keys /\ pc[t] \in {"clear", "body"}
    BY DEF IInv, TypeOK, Inside
<1>2. IsFiniteSet(todo[t]) /\ Cardinality(todo[t]) \in Nat
    BY <1>1, KeysAssumption, FS_Subset, FS_CardinalityType
<1>3. ASSUME NEW u \in Threads, u # t,
             \/ \E c \in Cells : Store(u, c) \/ Get(u, c)
             \/ Run(u)
      PROVE  FALSE
    <2>1. Own(t)' = Own(t)
        BY <1>1, <1>3 DEF Store, Get, Invoke, Run, Acquire, Enter, Clear, Put, Copy, Release, Own, TypeOK
    <2>2. QED
        BY <2>1
<1>4. Run(t)
    <2>1. ASSUME NEW c \in Cells, Store(t, c) \/ Get(t, c) PROVE FALSE
        BY <1>1, <2>1 DEF Store, Get, Invoke
    <2>2. QED
        BY <1>3, <2>1 DEF Next
<1>5. ~Acquire(t)
    BY <1>1 DEF Acquire
<1>6. CASE Clear(t)
    <2>1. pc[t] = "clear" /\ pc'[t] = "body" /\ todo' = todo
        BY <1>1, <1>6 DEF Clear, TypeOK
    <2>2. QED
        BY <1>2, <2>1 DEF StepsLeft, Inside
<1>7. ASSUME NEW k \in Keys, Put(t, k) \/ Copy(t, k)
      PROVE  StepsLeft(t)' < StepsLeft(t)
    <2>1. pc[t] = "body" /\ pc' = pc /\ k \in todo[t] /\ todo'[t] = todo[t] \ {k}
        BY <1>1, <1>7 DEF Put, Copy, TypeOK
    <2>2. Cardinality(todo'[t]) = Cardinality(todo[t]) - 1
        BY <1>2, <2>1, FS_RemoveElement
    <2>3. QED
        BY <1>2, <2>1, <2>2 DEF StepsLeft, Inside
<1>8. CASE Release(t)
    <2>1. pc[t] = "body" /\ pc'[t] = "idle"
        BY <1>1, <1>8 DEF Release, TypeOK
    <2>2. QED
        BY <1>2, <2>1 DEF StepsLeft, Inside
<1>9. QED
    BY <1>4, <1>5, <1>6, <1>7, <1>8 DEF Run

(* No mutex is held for ever: its holder has so many steps left, and takes *)
(* them without a need of anybody else.                                    *)
THEOREM SectionsEnd == Spec => SectionRunsOut
<1>1. IInv /\ [Next]_vars =>
         [\A t \in Threads : Inside(t) /\ Own(t)' # Own(t) => StepsLeft(t)' < StepsLeft(t)]_vars
    BY StepRunsOut
<1>2. QED
    BY Invariance, <1>1, PTL DEF Spec, SectionRunsOut
=============================================================================
