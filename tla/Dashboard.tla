----------------------------- MODULE Dashboard -----------------------------
(***************************************************************************)
(* The React frontend: four components poll the server from intervals that *)
(* effects set up, and the connection status that one of them finds out    *)
(* switches the others on and off.                                         *)
(*                                                                         *)
(* A state update is queued, then rendered, then the effects that depend   *)
(* on it run: timers fire and responses arrive between these.  React runs  *)
(* the pending effects before it renders again.  An exception in a render  *)
(* unmounts the whole application, for it has no error boundary.           *)
(***************************************************************************)
EXTENDS Naturals

CONSTANTS
    Data,           \* the components besides Overview: mem, cpus, procs
    MaxInFlight     \* MaxInFlight[c]: bound on the requests of c in flight

ASSUME DashboardAssumption ==
    /\ Data \subseteq {"mem", "cpus", "procs"}
    /\ MaxInFlight \in [{"uptime"} \cup Data -> Nat \ {0}]

VARIABLES
    server,     \* "up" or "down"
    app,        \* "mounted", or "unmounted" by an exception
    status,     \* connStatus as last set
    rendered,   \* connStatus in the latest render
    effect,     \* connStatus when the effects last ran, "none" before
    timers,     \* timers[c][p]: intervals of component c with period p
    flight,     \* flight[c][k]: requests of component c in state k
    held        \* held[c]: what c's state holds from the responses

vars == <<server, app, status, rendered, effect, timers, flight, held>>

Components == {"uptime"} \cup Data
Statuses == {"Connecting", "Ok", "ServerOffline"}

(* POLL_PERIOD_MS and SLOW_POLL_PERIOD_MS.                                 *)
Periods == {"normal", "slow"}

(* A request is on its way; its response is on the way back: with usable   *)
(* data, with a usage_percent that is null, or an error.                   *)
Kinds == {"sent", "data", "null", "error"}

InFlight(c) == flight[c]["sent"] + flight[c]["data"] + flight[c]["null"] + flight[c]["error"]

(* What a render can draw, and what makes it throw: processes.length of    *)
(* undefined, toFixed of null.                                             *)
Drawable(c) == held[c] = "drawable"

TypeOK ==
    /\ server \in {"up", "down"} /\ app \in {"mounted", "unmounted"}
    /\ status \in Statuses /\ rendered \in Statuses
    /\ effect \in Statuses \cup {"none"}
    /\ timers \in [Components -> [Periods -> Nat]]
    /\ flight \in [Components -> [Kinds -> Nat]]
    /\ \A c \in Components : InFlight(c) <= MaxInFlight[c]
    /\ held \in [Components -> {"drawable", "undrawable"}]

Init ==
    /\ server \in {"up", "down"} /\ app = "mounted"
    /\ status = "Connecting" /\ rendered = "Connecting" /\ effect = "none"
    /\ timers = [c \in Components |-> [p \in Periods |-> 0]]
    /\ flight = [c \in Components |-> [k \in Kinds |-> 0]]
    /\ held = [c \in Components |-> "drawable"]

-----------------------------------------------------------------------------
(* The network and the server.                                             *)

ServerChanges ==
    /\ server' = IF server = "up" THEN "down" ELSE "up"
    /\ UNCHANGED <<app, status, rendered, effect, timers, flight, held>>

Turn(c, k) == flight' = [flight EXCEPT ![c]["sent"] = @ - 1, ![c][k] = @ + 1]

(* A request is answered while the server runs.  Its usage figures may be  *)
(* NaN (see CpuStat), for which the response has null.                     *)
Answer(c) ==
    /\ server = "up" /\ flight[c]["sent"] > 0
    /\ Turn(c, "data") \/ (c = "cpus" /\ Turn(c, "null"))
    /\ UNCHANGED <<server, app, status, rendered, effect, timers, held>>

(* It is refused, or its connection reset, while the server does not.      *)
Refuse(c) ==
    /\ server = "down" /\ flight[c]["sent"] > 0
    /\ Turn(c, "error")
    /\ UNCHANGED <<server, app, status, rendered, effect, timers, held>>

-----------------------------------------------------------------------------
(* The browser.                                                            *)

Sent(c) == [flight[c] EXCEPT !["sent"] = @ + 1]

(* An interval's callback: axios.get(...), whether or not earlier requests *)
(* have been answered.                                                     *)
Tick(c) ==
    /\ \E p \in Periods : timers[c][p] > 0
    /\ InFlight(c) < MaxInFlight[c]
    /\ flight' = [flight EXCEPT ![c] = Sent(c)]
    /\ UNCHANGED <<server, app, status, rendered, effect, timers, held>>

Take(c, k) ==
    /\ flight[c][k] > 0
    /\ flight' = [flight EXCEPT ![c][k] = @ - 1]
    /\ UNCHANGED <<server, app, rendered, effect, timers>>

(* Mutant: a status that conn-status.js does not have.                     *)
SetStatusMisspelt(s) == status' = IF app = "mounted" /\ s = "Ok" THEN s ELSE "undefined"

(* setState does nothing once the component is unmounted.                  *)
SetStatus(s) == status' = IF app = "mounted" THEN s ELSE status
Hold(c, h) == held' = IF app = "mounted" THEN [held EXCEPT ![c] = h] ELSE held

(* Mutant: the catch only writes to the console.                           *)
UptimeArrivesOrNot ==
    \/ Take("uptime", "data") /\ SetStatus("Ok") /\ Hold("uptime", "drawable")
    \/ Take("uptime", "error") /\ UNCHANGED <<status, held>>

(* fetchUptime's then and catch.                                           *)
UptimeArrives ==
    \/ Take("uptime", "data") /\ SetStatus("Ok") /\ Hold("uptime", "drawable")
    \/ Take("uptime", "error") /\ SetStatus("ServerOffline") /\ UNCHANGED held

(* Memory: undefined data is ignored.                                      *)
MemArrives ==
    /\ "mem" \in Data
    /\ \/ Take("mem", "data") /\ Hold("mem", "drawable")
       \/ Take("mem", "error") /\ UNCHANGED held
    /\ UNCHANGED status

(* Processors: likewise, but nothing looks at the figures.                 *)
CpusArrive ==
    /\ "cpus" \in Data
    /\ \/ Take("cpus", "data") /\ Hold("cpus", "drawable")
       \/ Take("cpus", "null") /\ Hold("cpus", "undrawable")
       \/ Take("cpus", "error") /\ UNCHANGED held
    /\ UNCHANGED status

(* ProcessList: setProcesses(data) also when the catch has made it         *)
(* undefined.                                                              *)
ProcsArrive ==
    /\ "procs" \in Data
    /\ \/ Take("procs", "data") /\ Hold("procs", "drawable")
       \/ Take("procs", "error") /\ Hold("procs", "undrawable")
    /\ UNCHANGED status

Arrives(c) ==
    \/ c = "uptime" /\ UptimeArrives
    \/ c = "mem" /\ MemArrives
    \/ c = "cpus" /\ CpusArrive
    \/ c = "procs" /\ ProcsArrive

(* Mutant: the heartbeat stops like the others when the server is lost.    *)
IntervalWhenOk(c, s) ==
    [p \in Periods |-> IF s = "Ok" /\ p = "normal" THEN 1 ELSE 0]

(* The interval that a component's effect sets for a status.               *)
Interval(c, s) ==
    [p \in Periods |->
        IF \/ c = "uptime" /\ s # "none" /\ p = IF s = "Ok" THEN "normal" ELSE "slow"
           \/ c \in Data /\ s = "Ok" /\ p = "normal"
        THEN 1 ELSE 0]

(* React renders the queued updates.                                       *)
Render ==
    /\ app = "mounted" /\ effect = rendered
    /\ status # rendered /\ \A c \in Components : Drawable(c)
    /\ rendered' = status
    /\ UNCHANGED <<server, app, status, effect, timers, flight, held>>

(* A render throws: everything is unmounted, and every cleanup runs.       *)
RenderThrows ==
    /\ app = "mounted" /\ effect = rendered
    /\ \E c \in Components : ~Drawable(c)
    /\ app' = "unmounted"
    /\ timers' = [c \in Components |->
                     [p \in Periods |-> timers[c][p] - Interval(c, effect)[p]]]
    /\ UNCHANGED <<server, status, rendered, effect, flight, held>>

(* Mutant: no cleanup.                                                     *)
RunEffectsNoCleanup ==
    /\ app = "mounted" /\ effect # rendered
    /\ effect' = rendered
    /\ timers' = [c \in Components |->
                     [p \in Periods |-> timers[c][p] + Interval(c, rendered)[p]]]
    /\ flight' = IF effect = "none" THEN [flight EXCEPT !["uptime"] = Sent("uptime")] ELSE flight
    /\ UNCHANGED <<server, app, status, rendered, held>>

(* The effects that depend on connStatus are cleaned up and run again; the *)
(* first time also the one that fetches the uptime at once.                *)
RunEffects ==
    /\ app = "mounted" /\ effect # rendered
    /\ effect' = rendered
    /\ timers' = [c \in Components |->
                     [p \in Periods |->
                         timers[c][p] - Interval(c, effect)[p] + Interval(c, rendered)[p]]]
    /\ flight' = IF effect = "none" THEN [flight EXCEPT !["uptime"] = Sent("uptime")] ELSE flight
    /\ UNCHANGED <<server, app, status, rendered, held>>

Next ==
    \/ ServerChanges
    \/ \E c \in Components : Answer(c) \/ Refuse(c) \/ Tick(c) \/ Arrives(c)
    \/ Render \/ RenderThrows \/ RunEffects

Spec == Init /\ [][Next]_vars

(* Timers fire, requests are answered or refused, responses are delivered, *)
(* and React renders what has changed.  Nothing is assumed of the server.  *)
FairSpec ==
    /\ Spec
    /\ \A c \in Components :
          WF_vars(Answer(c) \/ Refuse(c)) /\ WF_vars(Tick(c)) /\ WF_vars(Arrives(c))
    /\ WF_vars(Render \/ RenderThrows) /\ WF_vars(RunEffects)

-----------------------------------------------------------------------------
(* However often the status changes, each component has the one interval   *)
(* that its latest effect has set, or none; and none is left behind when   *)
(* the application is unmounted.                                           *)
OneInterval ==
    \A c \in Components, p \in Periods :
        timers[c][p] = IF app = "mounted" THEN Interval(c, effect)[p] ELSE 0

(* What the page says, and who polls, when all goes well with the server   *)
(* or nothing does.                                                        *)
Settled(s) == rendered = s /\ effect = s

(* Once the server stays up the page is connected, and stays so, whatever  *)
(* late errors come in from before, unless a render has thrown.            *)
ConnectionIsFound ==
    <>[](server = "up") => <>[](app = "unmounted" \/ Settled("Ok"))

(* Once the server stays away the page says so, stops asking for mem, cpus *)
(* and procs, and goes on asking for the uptime, unless a render has       *)
(* thrown ("should not fetch ... when conn status is not ok").             *)
LossIsNoticed ==
    <>[](server = "down") =>
        /\ <>[](app = "unmounted" \/ Settled("ServerOffline"))
        /\ <>[](\A c \in Data : flight[c] = [k \in Kinds |-> 0])

(* ConnectionStatus is set to ServerOffline when the uptime cannot be      *)
(* fetched (Overview.test.js:117), and the user can read it.               *)
OfflineIsShown ==
    <>[](server = "down") => <>(app = "mounted" /\ rendered = "ServerOffline")
=============================================================================
