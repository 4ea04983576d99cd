# A verification of linux-task-manager

linux-task-manager shows what a Linux host is doing in a web page. A C++
process (`src/backend`) reads `/proc` once a second and serves what it read as
JSON; a React page (`src/frontend`) polls it and draws tables. This directory
holds TLA+ models of that program, the TLC configurations that check them on
small instances, and proofs, checked by TLAPS, of what matters most about them
for instances of every size.

Paths below are relative to `src/`; `monitor.cpp` is
`backend/src/filesystem/monitor.cpp`, and so on.

## 1. Inventory

| Component | State it keeps | Operations | What is hard about it | What makes it correct |
|---|---|---|---|---|
| Data store (`datastore.h`, `data/types.h`) | four members: uptime, memory, CPU snapshots, process snapshots; a mutex for each | a setter and one to three getters per member | called by the monitor thread and one thread per connection; maps are cleared and refilled | every call takes effect at once; no mutex is left locked |
| Monitor: poll cycle (`monitor.cpp:35-52`) | none of its own: it reads back what it stored | uptime, CPUs, memory, processes, in this order, then sleep | readings are combined within a poll and across polls; an exception ends the process | readings that are combined belong together; each poll reaches the store |
| Monitor: process scan (`monitor.cpp:119-131, 169-294`) | the list of pids, the snapshots built so far | list the pids, then read three files of each | processes start, end and inherit pids between any two file accesses | whoever is there is stored, nobody else is, CPU usage is one's own |
| Monitor: CPU usage (`monitor.cpp:101-117, 133-167, 243-282`) | the words of the last poll, in the store | parse a line, subtract, divide | 32-bit words that wrap, cores that come and go, counters that go back, nothing elapsed, columns that a program's name shifts | usage is that of the time since the last poll, and a percentage |
| API endpoints (`api.h`) | none | copy a member, serialise, respond | the copy is stale when it is sent; `dump()` may throw | answers are current and do not go back |
| Server (`server.cpp`, `responses.h`) | session counter; per session a socket and a buffer | accept, one detached thread per connection; read, route, write | no limits, no timeouts, several requests in one receive, exceptions that nothing catches | each request gets its answer, in order; no client holds up another; a session ends, and gives its descriptor back, when its peer closes or resets the connection |
| Router (`router.cpp`, `server/types.h`) | the route table, a request counter | add a route; split a target, normalise it, look it up | corner cases of splitting text; validation whose result is ignored | a target leads to the endpoint added for its resource, up to case and a final slash, or to none |
| Logger, timestamps (`logger.h`, `time.h`) | an output stream, `localtime`'s buffer | write a line | shared by all threads | only wording depends on it |
| Dashboard (`App.js`, `Overview.js`, `Memory.js`, `Processors.js`, `ProcessList.js`) | the connection status; the latest data and an interval per component | timers, responses, renders, effects and cleanups | responses late, lost or out of order; effects run after a render, not with it; no error boundary | one interval per component; the status finds out what the server does |
| Process tables (`TreeTable.js`, `ListTable.js`) | the sort column and direction | sort; walk the tree | parent links read at different times | every process is drawn once |
| Layout widgets, start-up, packaging | none | | | |

How they interact: `main` starts the monitor in a thread and runs the server's
accept loop itself. The monitor and the sessions share the store and nothing
else that matters. The page knows the backend only through the four endpoints;
its components share the connection status, which only Overview sets.

The hazards these parts are exposed to are listed, each at its line and with
the properties that cover it, in `PROJECT.json` under `hazards`.

## 2. Modules

| Module | Models | Rests on |
|---|---|---|
| `Snapshots` | the members of the store, the calls, what a getter asks for | |
| `SnapshotStore` | abstract: a store whose every call takes effect in one step | `Snapshots` |
| `DataStore` | the store, one step per field or entry written or copied and per mutex operation | `Snapshots`, refines `SnapshotStore` |
| `Backend` | the poll cycle, the sessions and the endpoints around the store | `DataStore`: a store call is one step here because it behaves as one |
| `ProcScan` | one poll's scan of `/proc/[pid]` against the kernel | `Backend`'s order of the readers: one uptime per poll |
| `ProcTree` | the page's tree of a list that a scan has stored | extends `ProcScan` |
| `ProcStat` | the columns and words behind the CPU usage of one process | `ProcScan`: the baseline is the process's own |
| `CpuStat` | the words behind the CPU usage of a core | |
| `HttpService` | abstract: what a client is promised on a connection | |
| `Server` | the accept loop, the sessions, their buffers and descriptors | refines `HttpService`; `Router` and `Backend` for what a request leads to |
| `Router` | the route table, the splitting and normalising of targets, the lookup | |
| `Dashboard` | the page: timers, requests, status, renders and effects | `CpuStat`: a usage may be `null` |
| `...Proofs` | the theorems about the module of that name | |
| `MC...` | instances for TLC | |

Operators whose comment begins with "Mutant" are wrong versions of the
definition after them, the way the code could have been written wrongly. They
are not part of the specifications: each one shows that some property can fail.

### Snapshots, SnapshotStore and DataStore

A cell is a data member of the class. Its content is a function from keys to
values: a key is a field of a struct, or the key of a map entry, and `None`
stands for an entry the map does not have. `SnapshotStore` has calls that are
invoked, apply in one step, and return. `DataStore` has, per thread, the method
it is in (`call`), its place in it (`pc`), the loop's remaining keys (`todo`) and
the result under construction (`ret`); `mutex[c]` is the holder. `Acquire` is the
`unique_lock`, `Clear` the `clear()` of a map setter, `Put` and `Copy` one
element of a setter and a getter, `Release` the return. Elements may be taken in
any order, since the code leaves the order to the container and the compiler.

The refinement takes a method to have its effect when it acquires the mutex.
While a setter is inside, the abstract content (`Reg`) is its argument and not
the half-written memory; while a getter is inside, the abstract result
(`Result`) is already all it will return.

### Backend

`monitor` is the next reader of the poll cycle or `sleep`. A member of the store
is abstracted to the number of the poll that read it; what a reader could not understand
is stored as zeros, and is that poll's reading too. `basis` records from which
readings the monitor computed: the time stamp and the memory total that process
snapshots use, and the earlier snapshots that usages compare with. A session
receives a request for an endpoint, copies the member, and responds or fails to.
`delivered`, `promised` and `completed` are history: what clients had been sent,
and how far the monitor was, when a request came in. The readers may throw at
any time, and the process list may fail to serialise; either terminates the
process, as an exception in a `std::thread` does.

### ProcScan and ProcTree

A life is one process; several lives may have the same pid, one after another.
The kernel forks with any free pid and ends any process but the first, whose
children it takes over, between any two steps of the monitor. The monitor
lists pids (`Discover`), then for each reads `status`, looks for `stat`, and reads
it. A snapshot records whose file each figure came from, and the snapshot in the
store it was compared with. `StatGone` is the exception of `std::stoul` on the
empty column of a file that vanished after the look. The `cmdline` file is read in
the same way, without an exception, and nothing depends on it.

`ProcTree` is `sortProcsDepthFirst` (`TreeTable.js`) over every list that a scan can
store. Entries whose status could not be read have no parent, and parents may have
ended and their pids passed on between two reads, so such a list need not be a
tree. The entries not reached from the first root are not drawn. The recursion of the code
is cut here at as many levels as there are pids: were a process among its own descendants,
the code would not end, and the model would draw the process twice.

### ProcStat

One process that lives on, with the columns of its line in `/proc/[pid]/stat` from
`First` on. The second column of the line is the program's name, which the
process may change and which may contain white space; the program counts words
(`ColumnRead`), so each space moves every column by one. `utime` and `stime` are
cut to words, their sum again (`Narrow`), and then subtracted as `double`
(`Usage`): unlike in `CpuStat` a difference may be negative. `truth` is what was
there to be read.

### CpuStat

The kernel's counters go up by jiffies that are busy, idle, or stolen by the
hypervisor and not read; lines go away and come back with their counters where
they were. The six columns counted as activity are one counter. One of them is
iowait, which Linux may count down, so activity may go back (`Iowait`); idle time
may not. `ReadSystemStat` is one poll: words modulo `Word`, the differences to the
snapshot of the same line, usage as the pair of active and total time. The pair
stands for the quotient; `<<0, 0>>` is the one that is no number.

### HttpService and Server

`HttpService` appends to what a client has sent and to what it has been answered:
the n-th answer is that to the n-th request, and there is none after a request that
is malformed or that asks for the connection to be closed.

In `Server` a client connects, sends requests without waiting for answers, stops
reading them (`stalled`), closes its half of the connection and reads on (`finished`) or does not
(`deaf`), `vanished` without the kernel being told, or resets the connection, at any time. A
response may go out to any of them into the kernel's memory, but to one that does not read it
may also wait, and `http::write` has no timeout (`Blocked`). `inbox` is what the kernel holds
for the session and `buffer` the session's `flat_buffer`: a read uses the first request of the
buffer or, if that is empty, of what a receive happens to bring into it. `session`
is the place in `process_tcp_session`. Each accepted connection takes one of `limit`
descriptors, and `Close` returns it; `accept` without a descriptor throws in
`main`'s thread (`AcceptThrows`), and so may the endpoint in a session's
(`RouteThrows`). What a request is routed to is reduced to whether its resource is
known. The 8-bit session number only labels log lines.

### Router

Texts are sequences of `Characters`, of which the code tells `/`, `?`, `#`, `&` and `=` apart;
`Lower` is what `to_lower_copy` makes of each. An input is what a client wants to ask for, and
`Target` how it writes that down. `ParseRequestTarget` splits off the fragment and the query
as `split` with its exact counts does; `RouteKeys` is the lower-case resource with a final
slash, and `LookupEndpoint` what the table has for it. The result of
`validate_request` is ignored in the code and therefore here. The last character
of an empty resource, which `route_key` reads, is any character: the memory
behind an empty string is a terminator, but nothing promises it.

### Dashboard

A timer fires, a request is sent; it is answered while the server is up and
refused while it is down, and the responses of one component arrive in any order.
A response queues state updates, `Render` renders them, `RunEffects` runs the
cleanups and effects that depend on the status. A render with data it cannot draw
throws (`RenderThrows`) and unmounts the page. Where the code keeps the data of a
failed request (`ProcessList.js:28-30`) or draws what may be `null`
(`Processors.js:42`), so does the model.

## 3. Runs

All bounds are constants of the configurations.

| Run | Question | Instance |
|---|---|---|
| `datastore` | do a struct and a map member together behave as an atomic store, and is every mutex freed? | monitor and one session, two keys, two values |
| `backend` | do readings agree, are answers current and never older than before, does every poll reach the store? | two sessions, two polls |
| `proc_scan` | is a scan complete and real, with the right baseline, under fork, exit and reuse of pids; does it end; is its list drawn? | three processes besides init, three pids, three polls |
| `proc_scan_removed` | finding 1 | one process besides init, one poll |
| `proc_stat` | is a process's usage the time it ran? | names of up to two words, words of 3, counts up to 3 |
| `proc_stat_names` | finding 4 | names of up to three words, no wrapping |
| `cpu_stat` | is usage exact when words wrap, cores come and go, and iowait goes back? | two lines, words of 3, counters up to 3 |
| `cpu_stat_stolen` | finding 2 | one line |
| `server` | is every request answered once, in order, whoever else misbehaves; do descriptors come back? | two connections with two requests and one, of three kinds; one or two descriptors |
| `router` | does a target lead to the endpoint added for its resource, with the fields that were sent? | two verbs, two routes to two endpoints; all paths of up to three characters, all queries of two items, targets with several `?` and `#` |
| `dashboard` | does a component ever keep a second interval, or an old one; does the page find the server, and notice its loss? | all components, two requests for the uptime in flight and one of each other |
| `dashboard_offline` | finding 3 | Overview and ProcessList, one request each |

Why these bounds are enough to be interesting. Two keys let a copy be torn, two
values let the halves differ. Two polls let one answer precede another, two
sessions let them be on different connections. Three polls let a process be
found, compared, and compared after its pid has changed hands in between; with
three processes a parent, its child and the next owner of the parent's pid
coexist, and parent links can form a cycle. A word of 3 wraps in every position.
Two requests on one connection share a receive or a buffer, or are cut off from
one another by a close; two connections compete for one descriptor. Two requests
in flight let an error overtake a success and the reverse. Two sessions that
contend for one member of the store are covered by the proof, for any number.

Where a deadlock is not an error: the number of polls is bounded in `Backend` and
`ProcScan`, an uncaught exception ends the process, and in `Server` all clients may
have gone. The other passing runs are checked for deadlock, unless their
configuration says why not.

### What the properties say

* `LinearisableStore`: the contract of `datastore.h:14`, as a refinement.
* `SectionRunsOut`, `WaiterSeesFreeMutex`: each step of a thread that holds a mutex leaves
  it fewer to take; a waiting thread gets in or sees the mutex free. That it gets in is not
  claimed: `std::mutex` promises no fairness.
* `ReadingsAgree`, `OneCycleSkew`: what is combined belongs together; two members of
  the store are, at any instant, at most one poll apart, and in which direction.
* `AnswersNeverGoBack`, `AnswersAreCurrent`: what clients may rely on.
* `PollsReachTheStore`, `ScanAdvances`: the monitor makes progress. The second is a
  measure (`Remaining`) that every step of the scan lowers and nothing the kernel
  does raises.
* `ScanIsComplete`, `SurvivorsHaveOwnBaseline`, `NoPhantoms`, `ParentsAreStored`,
  `BaselineIsLastPoll`: a scan is as good as it can be without a lock on `/proc`.
* `TreeIsDrawn`: the recursion over a scan's list ends; it begins with pid 1, draws no row
  twice and each after its parent's, and leaves nobody out if no process ended
  during the scan.
* `UsageIsExact`: a core's usage is the share of the time that really passed, as long
  as what iowait loses is outweighed by other activity.
* `UsageIsTimeRun`: a process's usage is the time it ran if its name is one word; where
  the sum of its words wraps, one poll shows 0.
* `AnswersInOrder`: the refinement of `HttpService`. `RequestsAreAnswered`: each request
  that is to be answered is, whatever other clients do. `SessionRunsOut`: a session
  whose client sends no more has so many steps left, by what the client has left
  behind, and each step leaves fewer. `DescriptorsComeBack`: it takes them, and ends, if its
  client has closed or reset the connection. The exceptions are in the code: a client that is deaf
  keeps the session in `http::write`, and one that has vanished keeps it in `http::read`, for
  ever, with its thread and its descriptor.
* `EndpointIsTheOneAdded`, `FieldsAreThoseSent`: the router against a definition that
  does not split, lower or trim.
* `OneInterval`, `ConnectionIsFound`, `LossIsNoticed`: the page's polling follows
  the status, and the status follows the server.

### Findings

1. `proc_scan_removed`: a process that ends between `fs::exists` and the read of
   its `stat` ends the monitor's program with an uncaught `std::invalid_argument`
   (`monitor.cpp:249-264`), where the comment expects a removal.
2. `cpu_stat_stolen`: when none of the seven columns has moved, usage is 0/0
   and `clamp` passes the NaN on (`monitor.cpp:163`), out of the range in
   `types.h:78`. It reaches the page as `null`.
3. `dashboard_offline`: a failed request for the process list makes the next render
   throw (`ProcessList.js:29`), and the page that should say that the server is
   offline is gone.
4. `proc_stat_names`: a space in the name of a program moves the columns of its
   `stat`, so that what is stored is not columns 14 and 15, which the comment
   at `monitor.cpp:258` says are read.

### Fairness

* `DataStore`: weak fairness of each thread's steps inside a method. No thread has
  to call a method, and no waiter has to be chosen.
* `Backend`: weak fairness of the monitor's thread alone. Sessions may stop where they
  are: they hold nothing the monitor needs.
* `Server`: weak fairness of `main`'s thread and of each session's, which the scheduler
  gives, except of a write to a client that does not read. Nothing is assumed of clients, and
  not that the kernel ever gives up on one that has vanished.
* `Dashboard`: weak fairness of timers, of answers or refusals, of the delivery of
  responses, of rendering and of effects. A server that neither answers nor
  refuses is thereby excluded: axios is used without a timeout, so nothing would
  ever be noticed then. Nothing is assumed of when the server is up.
* The other specifications state none.

## 4. Proofs

| Theorem | States |
|---|---|
| `DataStoreProofs!Invariance`, `Linearisability`, `SectionsEnd` | `Spec => []IInv`, `Spec => LinearisableStore`, `Spec => SectionRunsOut` |
| `BackendProofs!Invariance`, `Skew`, `Agreement`, `Monotony`, `Freshness` | `IInv` and the four safety properties of the run `backend` |
| `ProcScanProofs!Types`, `LastPoll`, `Completeness`, `Survivors`, `Reality`, `Parents`, `Progress`, `Drawn` | every property that the run `proc_scan` checks |
| `ProcScanProofs!TreeInvariance`, `RecursionEnds` | the kernel's processes are one tree; on a scan's list the model's recursion satisfies the equation of the code's |
| `ProcStatProofs!Types`, `TimeRun` | the invariants of the run `proc_stat` |
| `CpuStatProofs!Invariance`, `ExactUsage` | `Spec => []IInv`, `Spec => []UsageIsExact` |
| `ServerProofs!Types`, `Implementation`, `SessionsEnd` | `Spec => []TypeOK`, `Spec => AnswersInOrder`, `Spec => SessionRunsOut` |
| `RouterProofs!Invariance`, `EndpointReached`, `FieldsReceived` | `Spec => []IInv` and both invariants of the run `router` |
| `DashboardProofs!Types`, `Intervals` | `Spec => []TypeOK`, `Spec => []OneInterval` |

**DataStore.** Assumed (`StoreAssumption`): struct and map members differ, `None` is
neither a value nor a thread, and there are finitely many keys (`KeysAssumption`). Mutual exclusion alone is not inductive enough to
show the refinement, since it says nothing of the half-done work. `IInv` adds that a
setter has written just the keys it has passed (`StoreProgress`), that a getter's
local holds just what the member still holds for the keys it has copied
(`GetProgress`), and that a cleared map has all its entries yet to come
(`ClearOnlyInMapSetters`). Then `Acquire` maps to the abstract `Apply`, a call and a
return to themselves, everything else to a stutter: in `Put` because the abstract
content is the argument all along, in `Copy` because the abstract result is, and
in `Release` because `todo` is empty and the progress invariants say the memory,
or the local, is now what the abstraction said.

**Backend.** Assumed: `MaxPolls` is a natural number. The stage of the cycle
determines what each member holds (`StoreByStage`), and with that the skew between
members is arithmetic on their order. Freshness needs more: what clients have been
sent is at most what the store holds (`HistoryBehind`), so that a copy made after a
request is no older than anything delivered before it.

**ProcScan.** Assumed (`ScanAssumption`, `NoneAssumption`): init is one of the lives,
pids are finitely many positive numbers and 1 is one of them, `None` is none of the
things it is compared with. None of the properties is inductive: they speak of the end of
a scan only. `IInv` says at each step where the scan is with each process that has
been there throughout the poll (`ScanIsOn`): still to be listed, still to be visited,
being visited with so many of its files read, or done. For the baseline it needs
that the store has the same process's reading from the poll before (`StoreKnows`),
for reality that whoever was listed was there (`NobodyInvented`), for parents that
the one a snapshot names has been listed (`ParentsListed`). About the kernel it
needs that processes that run have different pids and parents that run
(`Processes`). A fork or an exit leaves all this true, since it makes nobody one
that has been there throughout (`KernelKeeps`). The entries of the end of a scan then
follow from the last step (`ScanEnds`). `Progress` counts with the cardinality of the
pids still to come.

**ProcTree.** No more is assumed. `TreeInv` adds to `IInv` that the kernel's processes are
always a tree (`Ancestry`): init has no parent, nobody is older than its parent, and who
is not a descendant of init does not run. The last is stated with sets, since there is no
induction: every set with init in it that is closed under children has all who run. A fork
adds a leaf; an exit moves children to the root, so that a set which is closed
afterwards was closed before with the process that ended added to it. And whoever cannot
have lost its parent since the poll began has the parent that was read (`ParentsRead`). For init
that is always so: it is stored without a parent, hence is the first row. About the list no
more is needed for a tree. Each entry has one parent, so the sets of
those below two siblings have nobody in common (`SiblingsApart`), and below someone who is not
below himself nobody is (`NobodyBelowHimself`); pid 1 is not, having no parent. By induction on
the depth (`DescentTree`) the rows are then those of the processes below, none
twice, each after its parent's. As there are fewer below each child (`FewerBelowChild`) the
depth suffices, one more level would change nothing (`DescentSettles`), and the code's
recursion ends (`RecursionEnds`). If nobody ended during the scan all parents are
those that were read, and by `Ancestry` everyone who ran throughout is below pid 1.

**ProcStat.** Assumed (`StatAssumption`): the columns begin late enough for the names
allowed. While the name is one word, what is stored is the time run, cut to a word
(`WordsOfTimes`); a plain difference of two words is the difference of the
numbers, or a wrap lies between them and it is not positive
(`PlainDifference`).

**CpuStat.** Assumed (`CpuAssumption`, `NoneAssumption`): the word is positive. The
stored words are the counters modulo the word (`WordsOfCounters`), and less than a
word of time passes between polls (`CountersAdvance`), in which idle time has not
gone back. Lemma `WordDifference`: the difference of two words is the difference of
the counters if that is neither negative nor a word or more. Hence active and
total time are exact when the activity since the last poll is not negative.

**Server.** Assumed (`ServerAssumption`): finitely many connections, and requests that
are well-formed or `Malformed`. What has been sent on a connection is what its session
has consumed, then its buffer, then its inbox (`Stream`), wherever receives have
cut it; the request or the response in hand is that of the first request not yet
answered, all before it were to be kept alive, and none was malformed (`Turn`).
`InputIsStream` shows this of whatever a read finds. Then `Write` maps to the
abstract `Answer`, `Send` to `Ask`, all else to a stutter.

**Router.** Assumed: the separators are characters, and lower case neither makes nor
removes a `/`, `?` or `#` (`CharacterAssumption`); resources are texts that are not empty and
have no `?` or `#`, and neither have the paths that clients ask for (`RouterAssumption`). Of the
other texts in a request nothing is assumed but that the words of a query have no `&` or `=`.
That an answer is the one which the table has for the request, and that a key of the table
leads to the last route added with it (`IInv`), is inductive at once. The work is to say what
texts of any length are split into. `Split`, `Join` and `ParseQueryParameters` are folds: one
lemma shows that a fold does what its name says (`FoldOfAppend`), by which each has its
equation for one element more. From these, by induction on the length, `Join` undoes `Split`
(`SplitMakesParts`), `Split` undoes `Join` if no part has the separator (`SplitOfJoin`), and the
parameters are the last pairs of each key (`ParametersOfItems`). Hence a clear target is taken
apart as it was put together (`ParseOfClear`). In any other, what is taken for the path is the
path asked for or else has a `?` or `#` in it (`PathOfTarget`), and for such a path there is no
route (`NotFound`); the one key of a path that is not its own, that of an empty path, no
route has (`EmptyKeyNotFound`).

**Dashboard.** Assumed (`DashboardAssumption`): the bounds are positive. `OneInterval` is
inductive: each effect takes away what the effect before it has set. The types need
that nothing is in flight before the first effects (`NothingBeforeEffects`), which
send a request without a look at the bound.

Only model-checked: the liveness properties `WaiterSeesFreeMutex`, `PollsReachTheStore`,
`RequestsAreAnswered`, `DescriptorsComeBack`, `ConnectionIsFound` and `LossIsNoticed`. Liveness
under fairness needs `ENABLED`, about which the proof system at hand cannot reason. What
can be proved of it are the measures: `SectionRunsOut`, `ScanAdvances` and `SessionRunsOut`
say that the steps which fairness makes happen come to an end. The proof system can
use neither `RECURSIVE` operators, so there are none, nor the library's induction theorems,
which are about an operator; `RouterProofs` and `ProcScanProofs` therefore prove induction over
sets of numbers (`NatInductionOnSets`), of sequences (`SeqInductionOnSets`) and of sets of
pids (`PidSetInduction`) from the fact that every set of numbers has a least.

## 5. Not modelled

* The text of `/proc/uptime` and `/proc/meminfo`, of JSON, and floating point: the
  conversions have no state, and `clamp` bounds what they yield. Sizes from 4 TiB of
  memory on are cut to 32 bits (`monitor.cpp:84`).
* The `cmdline` file, read like the others, on which nothing depends.
* `logger.h` and `time.h`: all threads use them without synchronisation, which can
  garble log lines and nothing else. The 8-bit session and request numbers
  (`server.cpp`, `router.cpp`) appear only there.
* The list view of the processes: a sort by one column, without state beyond the column and the
  direction.
* Requests that pile up in a browser without a bound: at `MaxInFlight` a timer does
  nothing.
* Kernel threads, whose parent is 0 like init's: the tree draws the first root only.
* Widgets, start-up and packaging have no behaviour worth a model.

## 6. Plan

Done: the store, the poll cycle with the endpoints, the process scan and its tree,
CPU usage of cores and of processes, the server and the router, the page; proofs of
all safety properties. What could follow:

1. `Backend`: a composition with `DataStore` in which the monitor's and the sessions' calls
   are its methods, instead of the argument by `Linearisability`; and with `Server`, so
   that a session's answers carry the readings.
2. `ProcScan`: kernel threads and the `cmdline` file.
3. The list view: "an ordered permutation".
