-------------------------- MODULE DashboardProofs --------------------------
(***************************************************************************)
(* Proofs about Dashboard, for any components and any number of requests   *)
(* in flight.                                                              *)
(***************************************************************************)
EXTENDS Dashboard, TLAPS

(* Nothing is asked for before the effects have run for the first time.    *)
NothingBeforeEffects ==
    effect = "none" => app = "mounted" /\ flight["uptime"] = [k \in Kinds |-> 0]

IInv == TypeOK /\ OneInterval /\ NothingBeforeEffects

LEMMA IntervalTyped == \A c, s : Interval(c, s) \in [Periods -> {0, 1}]
BY DEF Interval

(* What the types say of the requests in flight.                           *)
LEMMA Counts ==
    ASSUME TypeOK
    PROVE  \A c \in Components :
              /\ MaxInFlight[c] \in Nat /\ MaxInFlight[c] > 0
              /\ flight[c]["sent"] \in Nat /\ flight[c]["data"] \in Nat
              /\ flight[c]["null"] \in Nat /\ flight[c]["error"] \in Nat
              /\ InFlight(c) \in Nat
BY DashboardAssumption DEF TypeOK, InFlight, Components, Kinds

(* A request that changes its state is still one request.                  *)
LEMMA TurnKeeps ==
    ASSUME TypeOK, NEW c \in Components, flight[c]["sent"] > 0,
           NEW k \in {"data", "null", "error"}, Turn(c, k)
    PROVE  /\ flight' \in [Components -> [Kinds -> Nat]]
           /\ \A d \in Components : InFlight(d)' = InFlight(d)
           /\ \A d \in Components \ {c} : flight'[d] = flight[d]
<1>1. flight[c] \in [Kinds -> Nat] /\ flight[c]["sent"] \in Nat \ {0} /\ flight[c][k] \in Nat
    BY Counts DEF TypeOK
<1>2. flight' = [flight EXCEPT ![c] = [flight[c] EXCEPT !["sent"] = @ - 1, ![k] = @ + 1]]
    BY <1>1 DEF Turn, TypeOK, Kinds
<1>3. [flight[c] EXCEPT !["sent"] = @ - 1, ![k] = @ + 1] \in [Kinds -> Nat]
    BY <1>1 DEF Kinds
<1>4. flight' \in [Components -> [Kinds -> Nat]]
    BY <1>2, <1>3 DEF TypeOK
<1>5. ASSUME NEW d \in Components PROVE InFlight(d)' = InFlight(d)
    <2>1. CASE d # c
        BY <2>1, <1>2 DEF InFlight, TypeOK
    <2>2. CASE d = c
        <3>1. flight'[c] = [flight[c] EXCEPT !["sent"] = @ - 1, ![k] = @ + 1]
            BY <1>2 DEF TypeOK
        <3>2. /\ flight[c]["sent"] \in Nat /\ flight[c]["data"] \in Nat
              /\ flight[c]["null"] \in Nat /\ flight[c]["error"] \in Nat
            BY Counts
        <3>3. CASE k = "data"
            BY <2>2, <3>1, <3>2, <3>3, <1>1 DEF InFlight, Kinds
        <3>4. CASE k = "null"
            BY <2>2, <3>1, <3>2, <3>4, <1>1 DEF InFlight, Kinds
        <3>5. CASE k = "error"
            BY <2>2, <3>1, <3>2, <3>5, <1>1 DEF InFlight, Kinds
        <3>6. QED
            BY <3>3, <3>4, <3>5
    <2>3. QED
        BY <2>1, <2>2
<1>6. \A d \in Components \ {c} : flight'[d] = flight[d]
    BY <1>2 DEF TypeOK
<1>7. QED
    BY <1>4, <1>5, <1>6

(* A request is sent only below the bound.                                 *)
LEMMA SentKeeps ==
    ASSUME TypeOK, NEW c \in Components, InFlight(c) < MaxInFlight[c],
           flight' = [flight EXCEPT ![c] = Sent(c)]
    PROVE  /\ flight' \in [Components -> [Kinds -> Nat]]
           /\ \A d \in Components : InFlight(d)' <= MaxInFlight[d]
<1>1. flight[c] \in [Kinds -> Nat] /\ Sent(c) \in [Kinds -> Nat]
    BY DEF TypeOK, Sent, Kinds
<1>2. flight' \in [Components -> [Kinds -> Nat]]
    BY <1>1 DEF TypeOK
<1>3. ASSUME NEW d \in Components PROVE InFlight(d)' <= MaxInFlight[d]
    <2>1. CASE d # c
        <3>1. flight'[d] = flight[d]
            BY <2>1 DEF TypeOK
        <3>2. QED
            BY <3>1 DEF InFlight, TypeOK
    <2>2. CASE d = c
        <3>1. flight'[c] = Sent(c)
            BY DEF TypeOK
        <3>2. InFlight(c)' = InFlight(c) + 1
            BY <3>1, <1>1, Counts DEF InFlight, Sent, Kinds
        <3>3. QED
            BY <2>2, <3>2, Counts
    <2>3. QED
        BY <2>1, <2>2
<1>4. QED
    BY <1>2, <1>3

(* A response leaves.                                                      *)
LEMMA TakeKeeps ==
    ASSUME TypeOK, NEW c \in Components, NEW k \in Kinds, Take(c, k)
    PROVE  /\ flight' \in [Components -> [Kinds -> Nat]]
           /\ \A d \in Components : InFlight(d)' <= MaxInFlight[d]
           /\ UNCHANGED <<server, app, rendered, effect, timers>>
<1>1. flight[c] \in [Kinds -> Nat] /\ flight[c][k] \in Nat \ {0}
    BY DEF TypeOK, Take
<1>2. flight' = [flight EXCEPT ![c] = [flight[c] EXCEPT ![k] = @ - 1]]
    BY DEF Take, TypeOK
<1>3. [flight[c] EXCEPT ![k] = @ - 1] \in [Kinds -> Nat]
    BY <1>1
<1>4. flight' \in [Components -> [Kinds -> Nat]]
    BY <1>2, <1>3 DEF TypeOK
<1>5. ASSUME NEW d \in Components PROVE InFlight(d)' <= MaxInFlight[d]
    <2>1. CASE d # c
        <3>1. flight'[d] = flight[d]
            BY <2>1, <1>2 DEF TypeOK
        <3>2. QED
            BY <3>1 DEF InFlight, TypeOK
    <2>2. CASE d = c
        <3>1. flight'[c] = [flight[c] EXCEPT ![k] = @ - 1]
            BY <1>2 DEF TypeOK
        <3>2. InFlight(c)' = InFlight(c) - 1
            BY <3>1, <1>1, Counts DEF InFlight, Kinds
        <3>3. QED
            BY <2>2, <3>2, Counts DEF TypeOK
    <2>3. QED
        BY <2>1, <2>2
<1>6. QED
    BY <1>4, <1>5 DEF Take

LEMMA InitIInv == Init => IInv
<1> SUFFICES ASSUME Init PROVE IInv
    OBVIOUS
<1> USE DashboardAssumption DEF Init
<1>1. TypeOK
    <2>1. \A c \in Components : InFlight(c) <= MaxInFlight[c]
        BY DEF InFlight, Kinds, Components
    <2>2. QED
        BY <2>1 DEF TypeOK, Statuses
<1>2. OneInterval
    BY DEF OneInterval, Interval
<1>3. NothingBeforeEffects
    BY DEF NothingBeforeEffects, Components
<1>4. QED
    BY <1>1, <1>2, <1>3 DEF IInv

(* Responses: they change nothing that intervals depend on.                *)
LEMMA ArrivesKeeps ==
    ASSUME IInv, NEW c \in Components, Arrives(c)
    PROVE  IInv'
<1>1. TypeOK /\ OneInterval /\ NothingBeforeEffects
    BY DEF IInv
<1>2. PICK k \in Kinds : Take(c, k)
    BY DEF Arrives, UptimeArrives, MemArrives, CpusArrive, ProcsArrive, Kinds
<1>3. status' \in Statuses
    BY <1>1 DEF Arrives, UptimeArrives, MemArrives, CpusArrive, ProcsArrive,
                SetStatus, TypeOK, Statuses
<1>4. held' \in [Components -> {"drawable", "undrawable"}]
    BY <1>1 DEF Arrives, UptimeArrives, MemArrives, CpusArrive, ProcsArrive, Hold, TypeOK
<1>5. /\ flight' \in [Components -> [Kinds -> Nat]]
      /\ \A d \in Components : InFlight(d)' <= MaxInFlight[d]
      /\ UNCHANGED <<server, app, rendered, effect, timers>>
    BY <1>1, <1>2, TakeKeeps
<1>6. TypeOK'
    BY <1>1, <1>3, <1>4, <1>5 DEF TypeOK
<1>7. OneInterval'
    BY <1>1, <1>5 DEF OneInterval
<1>8. NothingBeforeEffects'
    <2>1. effect = "none" => c # "uptime"
        BY <1>1, <1>2 DEF NothingBeforeEffects, Take
    <2>2. effect = "none" => flight'["uptime"] = flight["uptime"]
        BY <2>1, <1>1, <1>2 DEF Take, TypeOK
    <2>3. QED
        BY <2>2, <1>1, <1>5 DEF NothingBeforeEffects
<1>9. QED
    BY <1>6, <1>7, <1>8 DEF IInv

(* The cleanup of the last effect and the next effect, together.           *)
LEMMA RunEffectsKeeps ==
    ASSUME IInv, RunEffects
    PROVE  IInv'
<1>1. TypeOK /\ OneInterval /\ NothingBeforeEffects
    BY DEF IInv
<1>2. effect' = rendered /\ rendered \in Statuses /\ app = "mounted" /\ UNCHANGED <<server, app, status, rendered, held>>
    BY <1>1 DEF RunEffects, TypeOK
<1>3. \A c \in Components, p \in Periods : timers'[c][p] = Interval(c, rendered)[p]
    <2> SUFFICES ASSUME NEW c \in Components, NEW p \in Periods
                 PROVE  timers'[c][p] = Interval(c, rendered)[p]
        OBVIOUS
    <2>1. timers'[c][p] = timers[c][p] - Interval(c, effect)[p] + Interval(c, rendered)[p]
        BY DEF RunEffects
    <2>2. timers[c][p] = Interval(c, effect)[p]
        BY <1>1, <1>2 DEF OneInterval
    <2>3. Interval(c, effect)[p] \in {0, 1} /\ Interval(c, rendered)[p] \in {0, 1}
        BY IntervalTyped
    <2>4. QED
        BY <2>1, <2>2, <2>3
<1>4. timers' \in [Components -> [Periods -> Nat]]
    <2>1. \A c \in Components, p \in Periods : timers'[c][p] \in Nat
        BY <1>3, IntervalTyped
    <2>2. timers' = [c \in Components |->
                        [p \in Periods |->
                            timers[c][p] - Interval(c, effect)[p] + Interval(c, rendered)[p]]]
        BY DEF RunEffects
    <2>3. QED
        BY <2>1, <2>2
<1>5. OneInterval'
    BY <1>2, <1>3 DEF OneInterval
<1>6. /\ flight' \in [Components -> [Kinds -> Nat]]
      /\ \A d \in Components : InFlight(d)' <= MaxInFlight[d]
    <2>1. CASE effect = "none"
        <3>1. "uptime" \in Components /\ flight' = [flight EXCEPT !["uptime"] = Sent("uptime")]
            BY <2>1 DEF RunEffects, Components
        <3>2. InFlight("uptime") < MaxInFlight["uptime"]
            BY <2>1, <1>1, <3>1, Counts DEF NothingBeforeEffects, InFlight, Kinds
        <3>3. QED
            BY <1>1, <3>1, <3>2, SentKeeps
    <2>2. CASE effect # "none"
        <3>1. flight' = flight
            BY <2>2 DEF RunEffects
        <3>2. QED
            BY <3>1, <1>1 DEF TypeOK, InFlight
    <2>3. QED
        BY <2>1, <2>2
<1>7. TypeOK'
    BY <1>1, <1>2, <1>4, <1>6 DEF TypeOK
<1>8. NothingBeforeEffects'
    BY <1>2 DEF NothingBeforeEffects, Statuses
<1>9. QED
    BY <1>5, <1>7, <1>8 DEF IInv

LEMMA NextIInv ==
    ASSUME IInv, [Next]_vars
    PROVE  IInv'
<1>1. TypeOK /\ OneInterval /\ NothingBeforeEffects
    BY DEF IInv
<1>2. CASE ServerChanges
    BY <1>1, <1>2 DEF ServerChanges, IInv, TypeOK, OneInterval, NothingBeforeEffects, InFlight
<1>3. ASSUME NEW c \in Components, Answer(c) \/ Refuse(c) PROVE IInv'
    <2>1. PICK k \in {"data", "null", "error"} : Turn(c, k)
        BY <1>3 DEF Answer, Refuse
    <2>2. flight[c]["sent"] > 0 /\ UNCHANGED <<server, app, status, rendered, effect, timers, held>>
        BY <1>3 DEF Answer, Refuse
    <2>3. /\ flight' \in [Components -> [Kinds -> Nat]]
          /\ \A d \in Components : InFlight(d)' = InFlight(d)
          /\ \A d \in Components \ {c} : flight'[d] = flight[d]
        BY <1>1, <2>1, <2>2, TurnKeeps
    <2>4. TypeOK'
        BY <1>1, <2>2, <2>3 DEF TypeOK
    <2>5. OneInterval'
        BY <1>1, <2>2 DEF OneInterval
    <2>6. NothingBeforeEffects'
        <3>1. effect = "none" => c # "uptime"
            BY <1>1, <2>2 DEF NothingBeforeEffects, Kinds
        <3>2. effect = "none" => flight'["uptime"] = flight["uptime"]
            BY <3>1, <2>3 DEF Components
        <3>3. QED
            BY <3>2, <1>1, <2>2 DEF NothingBeforeEffects
    <2>7. QED
        BY <2>4, <2>5, <2>6 DEF IInv
<1>4. ASSUME NEW c \in Components, Tick(c) PROVE IInv'
    <2>1. /\ flight' = [flight EXCEPT ![c] = Sent(c)] /\ InFlight(c) < MaxInFlight[c]
          /\ UNCHANGED <<server, app, status, rendered, effect, timers, held>>
        BY <1>4 DEF Tick
    <2>2. effect # "none"
        <3>1. PICK p \in Periods : timers[c][p] > 0
            BY <1>4 DEF Tick
        <3>2. timers[c][p] = IF app = "mounted" THEN Interval(c, effect)[p] ELSE 0
            BY <1>1 DEF OneInterval
        <3>3. Interval(c, "none")[p] = 0
            BY DEF Interval, Components
        <3>4. QED
            BY <3>1, <3>2, <3>3
    <2>3. TypeOK'
        BY <1>1, <2>1, SentKeeps DEF TypeOK
    <2>4. OneInterval' /\ NothingBeforeEffects'
        BY <1>1, <2>1, <2>2 DEF OneInterval, NothingBeforeEffects
    <2>5. QED
        BY <2>3, <2>4 DEF IInv
<1>5. ASSUME NEW c \in Components, Arrives(c) PROVE IInv'
    BY <1>5, ArrivesKeeps
<1>6. CASE Render
    BY <1>1, <1>6 DEF Render, IInv, TypeOK, OneInterval, NothingBeforeEffects, InFlight, Statuses
<1>7. CASE RenderThrows
    <2>1. /\ app = "mounted" /\ app' = "unmounted" /\ effect \in Statuses
          /\ UNCHANGED <<server, status, rendered, effect, flight, held>>
        BY <1>1, <1>7 DEF RenderThrows, TypeOK
    <2>2. timers' = [c \in Components |-> [p \in Periods |-> 0]]
        <3>1. timers' = [c \in Components |->
                            [p \in Periods |-> timers[c][p] - Interval(c, effect)[p]]]
            BY <1>7 DEF RenderThrows
        <3>2. \A c \in Components, p \in Periods : timers[c][p] - Interval(c, effect)[p] = 0
            BY <1>1, <2>1, IntervalTyped DEF OneInterval
        <3>3. QED
            BY <3>1, <3>2
    <2>3. TypeOK'
        BY <1>1, <2>1, <2>2 DEF TypeOK, InFlight
    <2>4. OneInterval' /\ NothingBeforeEffects'
        BY <2>1, <2>2 DEF OneInterval, NothingBeforeEffects, Statuses
    <2>5. QED
        BY <2>3, <2>4 DEF IInv
<1>8. CASE RunEffects
    BY <1>8, RunEffectsKeeps
<1>9. CASE UNCHANGED vars
    BY <1>1, <1>9 DEF vars, IInv, TypeOK, OneInterval, NothingBeforeEffects, InFlight
<1>10. QED
    BY <1>2, <1>3, <1>4, <1>5, <1>6, <1>7, <1>8, <1>9 DEF Next

(* The inductive invariant, the type invariant among its parts.            *)
THEOREM Invariance == Spec => []IInv
<1>1. IInv /\ [Next]_vars => IInv'
    BY NextIInv
<1>2. QED
    BY InitIInv, <1>1, PTL DEF Spec

(* Statuses are those of conn-status.js, and requests within their bound.  *)
THEOREM Types == Spec => []TypeOK
<1>1. IInv => TypeOK
    BY DEF IInv
<1>2. QED
    BY Invariance, <1>1, PTL

(* However often the connection is lost and found, a component never has   *)
(* two intervals, nor one for a status that has passed (the effects and    *)
(* cleanups that depend on connStatus).                                    *)
THEOREM Intervals == Spec => []OneInterval
<1>1. IInv => OneInterval
    BY DEF IInv
<1>2. QED
    BY Invariance, <1>1, PTL
=============================================================================
