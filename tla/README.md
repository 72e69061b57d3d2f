# Formal model of DMoni

DMoni launches Hadoop and Spark applications on the nodes of a cluster and
monitors the resources their processes use.  This directory holds TLA+
specifications of its manager, its agents and its client, the configurations that
model-check them with TLC, and proofs that TLAPS checks.

`PROJECT.json` is the index: components, runs, mutants (a plausible bug for each
property), the source lines behind each definition, findings, hazards, theorems.

## The system

| component | state | operations |
|---|---|---|
| manager, application server (`manager/server_app.go`) | `Manager.apps` | `Submit`, `Kill`, `Deregister`, `GetProcesses`; `GetStatus` and `Test` do nothing |
| manager, master server (`manager/server_master.go`) | `Manager.agents`, `Manager.apps` | `SayHi`, `NotifyDone` |
| manager, core (`manager/manager.go`) | both maps | `kill`, `deregister`, `monitor`, `findNode`, the loop `checkAgents`, `configAgent` |
| agent, launcher (`agent/agent.go`) | `lch`, `lchApps`, child processes | the `launch` loop, one waiter goroutine per application, `kill`, `storeOne`, `updateDoc`, `notifyDone` |
| agent, monitors (`agent/agent.go`, `snapshot/`) | `apps`, `App.Procs`, a buffer | `appMonitor`, `sysMonitor`, `detectProcs` |
| agent, document pipeline (`agent/agent.go`) | three channels | the goroutines of `merger`, `store` |
| agent, server (`agent/server.go`) | all of the above | `Launch`, `Kill`, `Register`, `Deregister`, `GetProcesses`, `Configure` |
| agent, heartbeat (`agent/agent.go` `cast`) | none that is read | `SayHi` once per interval, retried |
| detectors (`detector/`) | none | filters over the output of `jps` |
| monica (`monica/monica.go`, `cmd/`) | none; the position of a scroll | `Submit`, `Kill`, `GetProcesses` to the manager; `AppInfo`, `AppPerf`, `AppSysPerf` from ElasticSearch |
| daemon scripts (`tools/`) | a pid file | start and stop a daemon |

They interact like this.  `Submit` calls `Launch` on the agent of the entry
host, then `Register` on every agent, then stores the application.  The agent's
launcher starts a child process; its waiter reports the end by `NotifyDone`,
upon which the manager calls `Deregister` on every agent.  A client's `Kill`
does the same, then calls `Kill` on the agent of the entry host.  `GetProcesses`
asks every agent for the list its `appMonitor` has made last.  Measured documents,
and one per application with its start and end, go to ElasticSearch, where monica
reads them without asking anybody.  Every RPC
handler is a goroutine; the maps have locks, but no handler holds one over a
call, so any two handlers interleave between a lookup and its use.  Nothing is
persisted: a restarted daemon begins with empty tables, and a restarted agent
has a new id.

What is hard is thus: handlers that overtake one another (an application may end
before `Submit` has stored it), calls that are late or lost (an agent may execute
a `Register` after the `Deregister`), daemons that end in the middle of a fan-out,
lookups that have gone stale when they are used, the age of a timestamp at the
boundary between two loops, slices and maps that one goroutine reads while
another replaces them, full channels, goroutines whose answers meet in one channel
under the caller's deadline, times that come from different clocks.  The hazards in `PROJECT.json` name each
with its line and the properties meant for it.

## Modules

| module | what it is | extends |
|---|---|---|
| `AgentLauncher` | launcher, waiters, `Launch` and `Kill` handlers of agents | instantiates `AppRecord` |
| `AppRegistry` | abstract: what the manager's table of applications promises | |
| `AppLifecycle` | the manager's handlers composed with the agents' launchers and monitored tables | `AgentLauncher`; instantiates `AppRegistry` |
| `AgentDirectory` | heartbeats, `SayHi`, `checkAgents`, `Configure`, with discrete time | |
| `DocStream` | abstract: what the document pipeline promises | |
| `DocPipeline` | channels, merger, store | instantiates `DocStream` |
| `AgentMonitor` | `appMonitor`, `sysMonitor`, the agent's `Register` and `Deregister` | `DocPipeline` |
| `AgentQuery` | `GetProcesses` of an agent, beside its monitors | `AgentMonitor` |
| `AppRecord` | abstract: what an application's document promises its reader | |
| `Detectors` | `jps`, the two detectors and `detectProcs` as operators | |
| `ProcessQuery` | one query from monica through the manager to the agents and back | `Detectors` |
| `Monica` | one command of monica, beside the application, its document and what nodes measure | `ProcessQuery`, `AppRecord` |
| `*_proofs` | theorems and their proofs | the module they are about |
| `MC*` | small sets for TLC | the module they instantiate |

**AgentLauncher.**  `phase[a]` is the program counter of the goroutine that has
application `a` in hand: the launcher up to `"listed"` (it stores the start
document there), then the waiter.  `launch[a]` is that of the `Launch` handler,
`lch[g]` the channel, `lchApps[g]` the map.  An action lasts from one point where
another goroutine may be scheduled to the next; so `Kill` is three steps, `getLchApp`
(`RecvKill`), the deletion under the lock (`KillDelete`) and `app.cancel()` after it
(`KillCancel`), and `kill[a]` is its program counter.  Between the last two a process
runs that is neither listed nor cancelled.  `cmd.Wait` waits for the process and for
the end of its output: a process that `Forks` may leave descendants that hold the
output open (`"draining"`) until `PipesClose`, if ever.  A failed `cmd.Start` leads to
`PanicOnStart`, because the code reads `cmd.Process.Pid` next.  `NilReply` is the end
of an agent whose handler returned `nil, nil` where gRPC does not forgive that
(agents in `NilFatal`, see `AppLifecycle`).

**AppLifecycle.**  `pc[h][a]` is the program counter of handler `h` for
application `a`, `await[h][a]` the agents whose answers it waits for, `net` the
calls in flight.  `CallFailed` is an error at the caller (a deadline, an
unreachable agent); the request may be lost or be executed later.  An answer counts
only for the call it answers (`Awaited`): a `Deregister` call that `Kill` has given up
and that is answered late is not taken for the answer to its `Kill` call.  A nil
dereference (`NotifyPanics`, `KillPanics`) ends the manager, as gRPC handlers are
not recovered.  `Deregister` of an application that an agent does not monitor returns
`nil, nil`.  The generated code is of gRPC's `SupportPackageIsVersion3`, and no version
is vendored: a server of that age calls `Fatalf` for a nil message (`NilDeregister`, of
agents in `NilFatal`), a later one answers with an error, which `deregister` logs as it logs
any other answer (`HandleDeregister`).  Agents have addresses, `HostOf`, which several
may share, as in `docs/getting_started.md` or when an agent is restarted on its node;
`findNode` takes any agent of the directory with the address.  The directory appears as `Join` and `Expire`, whose guard
(`Flaky`) stands for what `AgentDirectory` shows in detail.

**AgentDirectory.**  Time is relative: the age of each timestamp, the ticks since
an agent went to sleep, the rest of `checkAgents`' sleep.  `SayHi` has its three
steps (lookup, insertion with a zero timestamp, stamp), `checkAgents` its two
(scan, removal).  `hi[g] = "orphan"` is a handler that stamps an entry which
`checkAgents` has meanwhile deleted.

**DocPipeline** is a chain of bounded buffers; a document carries its monitor's
running number modulo `Wrap`.  `stored` means handed to the bulk processor.

**AgentMonitor.**  `todo` is the rest of the copy that `getMoniList` has returned,
`cur` and `next` the application and the process in hand, `procs[a]` the length of
`App.Procs` (the processes themselves play no part), `late[a]` a history variable
that counts documents sent after the `Deregister`.  A script run is one step.  `Deregister`
of what is not in the table is `NilDeregister`, which ends the agent if `NilFatal`.
**AgentQuery** adds the steps of `GetProcesses`: the lookup under the lock, and the two
reads of `App.Procs` without it.

**Detectors.**  A line of `jps` is a record of what the filters test: whether it can
be split and begins with a number, the last component of its class, which framework
prefixes and job ids occur in it.  A filter is a selection from a sequence.

**ProcessQuery.**  `worker[g]` is the program counter of the goroutine that asks agent
`g`, `pc` that of the handler, `heard` that of the client.  The channel has no places,
so that sending and receiving are one step (`Receive`).  The agents asked are any set:
the directory may hold dead ones.  Their lists come from `detectProcs` over any of
`Listings`, or are empty before the first detection; `seen` is a history variable
that remembers which.  gRPC hands the client's deadline on, so that a goroutine's own
second never ends before it: hence the guard of `CallExpires`.

**AppRecord** has two variables, `life` and `appDoc`.  In `AgentLauncher` they are
`LifeOf(a)` and `AppDocOf(a)`: an application is `"killed"` from the moment `kill`
cancels its context before the waiter's `select`, although its process may have exited;
a document that could not be stored is `"lost"`.

**Monica** takes the steps of `AppRecord` as its agent and adds the times.  `clock` is
true time, `Offset` what each node's clock is off, `Stamp` the conversion to RFC 3339,
which cuts fractions of a `Second`.  Its assumption bounds how far clocks may be apart:
by the margin of three minutes less one second and the launcher's lag.  Whether a
page is the last is ElasticSearch's to say (`io.EOF`); a scroll pages through what
its first search found, newest first.  While the command is a process query the
application's steps are left out, since the query reads none of what they change.

## Runs

Passing runs:

| run | bounds | shows |
|---|---|---|
| `launcher` | 1 agent, which may be stopped or end by a nil reply, 3 applications, one of which may fail to start or leave descendants behind, channel of 1 | the launched table, the goroutines and the processes agree; no `Launch` request is lost and every one is answered; a running process keeps a handle by which it can be killed |
| `lifecycle_faults` | 1 application, 2 agents on one address; lost and late calls, an agent that panics, agents that leave the directory and return, a manager that panics and restarts | what is done stays forgotten; only what was started is monitored; a `Kill` that succeeds is true; every handler that waits can still be answered or fail; `AppLifecycle` implements `AppRegistry` |
| `lifecycle_reliable` | 1 application, which may leave descendants behind, 2 agents with addresses of their own, one may be stopped or end by a nil reply; the manager may be stopped; ElasticSearch may fail | no monitoring is left behind; the document implements `AppRecord`; every end of a process is handled; handlers return; ends are forgotten; kills kill |
| `directory` | 2 agents, one of them punctual, 1 tick per interval, one restart of the manager | ages are bounded, a punctual agent never expires; live agents come back and are configured |
| `pipeline` | 2 monitors, channels of 2, numbers modulo 7 | the pipeline implements `DocStream`; documents arrive |
| `monitor` | 2 applications with up to 2 and 1 processes, channels of 1, a script that may be cut off once, an agent that may end by a race on `lchApps.m`, a nil reply or an unreachable ElasticSearch | at most one round after a `Deregister`; rounds go on, deregistered applications leave them, the node is measured until a script is cut off |
| `monica` | one command; 2 agents on one host or on two, 2 outputs of `jps`, both frameworks; 3 points of time, clocks 2 apart, seconds of 2, margin 4, lag 1, 2 documents, pages of 1 | replies are whole and unmixed; an agent misses no process of the application and no daemon of its frameworks; a system report covers the application's time and is refused without an end; every command ends |

Why the bounds are enough: applications meet one another only in an agent's
launcher and in the rounds of `appMonitor`, so the runs about those have two or
three of them and the runs of `AppLifecycle` have one, with two agents, so that
there is an entry agent and another one.  Three applications are one in the
launcher's hand, one in the channel and one waiting.  At most one `Kill` handler per
application is in an agent at a time; a second one would find the entry deleted or
delete and cancel what is deleted and cancelled.  In
`lifecycle_faults` the two agents share one address, so that `findNode` is ambiguous
whenever both are in the directory, and are alike, so that exchanging them is a symmetry
(no liveness is checked there); in `lifecycle_reliable` only the second may end otherwise
than by a failed start, and they have addresses of their own.  With one tick per interval
and calls that take up to one more, a punctual agent's calls come at every
distance from `checkAgents`' wake-ups that matters, the boundary of two intervals
included; the proof is for every number of ticks.
At most `2 * ChCap + 2` documents of a monitor are under way in the pipeline (6),
and `Wrap = 7` exceeds that; where numbers do not matter `Wrap` is 1.  `MaxCuts`
and `MaxRestarts` bound what can be repeated for ever, `NoLeftover` lets a client
repeat a request only when nothing of the earlier one is in flight, `MaxProcs`
bounds what one detection finds, for each application.  In `monica` the margin is the least its assumption
allows for these clocks, so that one unit less in `InRange` is found out; two
documents are one in the range and one outside it, or two on two pages; the outputs of
`jps` hold a daemon, a process of another job, one that names both frameworks, a
line without a blank and one without a number.
Deadlock is not checked where daemons may end for good or every application may
be finished; it is in `pipeline` and `directory`.

Runs that end in a violation, each a disagreement of the code with its own text:

| run | what happens |
|---|---|
| `lifecycle_panic` | an application that ends before `Submit` has stored it ends the manager (`server_master.go:86`) |
| `lifecycle_unkillable` | a `Kill` whose RPC fails has already forgotten the application (`manager.go:189`); the RPC fails even without any fault, when the agent has answered `Launch` but not yet inserted the application |
| `directory_fresh_removed` | `checkAgents` removes an agent that has just said hi (`manager.go:159`); two ticks per interval |
| `monitor_query` | `GetProcesses` indexes beyond a list made for fewer processes and ends the agent (`server.go:137`) |
| `monica_other_jobs` | a query lists processes of other jobs on the node, as job ids are empty and every line contains the empty string (`server_app.go:70`) |

Also in the models, with no run of their own, as one step shows each of them: a
`cmd.Start` that fails ends the agent, as the launcher goes on to `cmd.Process.Pid`
(`PanicOnStart`, `agent.go:353`); `Deregister` ignores `Save` (`server.go:103`); of two
agents on one address `findNode` takes either, and `Kill` fails when it takes the wrong
one (`manager.go:302`), while `GetProcesses` keeps the list of only one
(`server_app.go:193`); a nil reply ends an agent (`server.go:112`); one exited process
ends a round for the application's other processes (`agent.go:220`); and `sysMonitor` does
not recover from what a failed script has left in its buffer (`agent.go:261`).

## Fairness

Weak fairness for every goroutine that can run: the Go scheduler is fair enough
for that.  Calls to ElasticSearch and between daemons return, as they have
deadlines or fail with the connection; where that is not so in the code (`SayHi` has
no deadline) the model lets the call fail with the manager's end.  SIGKILL kills.
Strong fairness only for `MergePut`: Go queues blocked senders of one channel in
order, so that none is passed over for ever.  What rests on calls to ElasticSearch returning
(`LaunchAnswered`, `ExitHandled`, `EndedIsForgotten`, `DocsArrive`) says nothing of an
ElasticSearch that accepts a call and never answers: the calls of `storeOne` and
`updateDoc` have no deadline (`agent.go:489,510`).  Nor is it assumed that
descendants of an application ever close its output.  Nothing is assumed of clients,
operators, the natural end of a process, or of lost calls being repeated.  In `Monica`
only the command itself, the manager's handler and the client's deadline are fair: an
agent may be silent for ever, and the application need not end.

## Proofs

All for every value of the constants that satisfies the named assumptions.

- `AgentLauncher_proofs`: `LauncherInv` adds to the types that an application's
  `phase`, `home`, `launch` and place in a channel agree (only a queued application is in a
  channel, at its home and once), and that a listed one is in `lchApps`
  unless it was cancelled or a `Kill` handler has deleted it and will cancel it.  `NoStaleEntry` and `RunningIsKillable` follow.
  `ServedInv` is the converse, that a queued application is in its channel, and gives
  `LaunchIsServed`, the safety half of `LaunchAnswered`.
  With `DocInv`, by which the document does not get ahead of `phase`, each action
  maps to a step of `AppRecord` or a stutter, for each application and whether or
  not ElasticSearch fails.
- `AppLifecycle_proofs`: the manager's handlers are added.  `LifecycleInv` relates
  `pc`, `net` and the launchers: `Submit` is past its `Launch` call before
  anything is registered or stored, `NotifyDone` has begun only when the waiter is
  past `cmd.Wait`.  `DoneStaysForgotten` needs this strengthening, as by itself it says
  nothing of a `Submit` that is still to store.  Steps of the launchers are
  taken over from the launcher's own invariant by one lemma, which also gives that
  the cluster implements `AgentLauncher` (`LauncherComposed`) and therefore `AppRecord`.
- `AppRegistry_proofs`: with `LifecycleInv`, each action maps to a step of
  `AppRegistry` or a stutter under the mapping in `AppLifecycle`.
- `AppCalls_proofs`, three theorems about the calls to agents:
  - `KillTrue`: `KillIsTrue` wherever agents run.  The manager's `Kill` ends in success
    only with the answer of an agent that has just cancelled the application, nothing
    undoes a cancellation (`CancelledStays`), and no agent lists a cancelled application
    (`NoStaleEntry`, taken over from the launcher).  So a `Kill` that `findNode` has sent
    to the wrong agent fails, and never leaves a client believing in it.
  - `NoLeak`: `NoMonitorLeak` in a `ReliableCluster`, in which calls fail only with the
    agent they go to, the manager is not started again and no agent that runs is
    taken out of the directory; each of the three is a way in which the code does leak.
    `OrderInv` says why there is no leak otherwise: a `Register` call that can still be
    executed is awaited by a `Submit` that has not stored the application
    (`RegisterInv`), so that nobody deregisters it yet; whoever monitors anything is in
    the directory (`ReachInv`), so that a fan-out reaches it, and is waited for until it
    has answered (`FanoutInv`).  `wg.Wait` in `monitor` and in `deregister` is what both
    rest on.
  - `NobodyWaitsInVain`: `WaitingIsAnswerable` under every fault.  `WaitInv` adds that
    a handler with a single call waits for exactly one agent, `ReportInv` that a waiter
    calls `NotifyDone` once.  It is the safety half of `HandlersReturn`: what is left to
    fairness is that an agent executes what it was sent, or its caller's call fails.
- `AgentDirectory_proofs`: the invariant bounds a stamp's age by the position of
  `checkAgents` in its cycle, and by the position of a punctual agent in its own.
- `DocPipeline_proofs`: the channels implement `DocStream` for every number of
  monitors and every capacity, if `Wrap > 2 * ChCap + 2` (`Numbered`), as a smaller
  `Wrap` could not tell the documents under way from one another, and if the
  placeholder `NoDoc` is no document.  `StreamInv` numbers them along the chain: each
  place between the monitor and the store that holds a document of a monitor has a
  rank, later places have lower ranks, and the ranks are exactly `1` to what the
  monitor has sent less what is stored.
- `AgentMonitor_proofs`: the types, for any channel capacity; the same refinement with
  the monitors as producers; `LateDocsBounded`, from an invariant by which only the
  application in hand gets documents late, and only the processes that one detection
  found; and that `GetProcesses`, asked at any time, keeps all that (`QueryKeepsMonitors`).
- `Monica_proofs`: for the query, `GatherInv` says that what has been received is what
  the reply holds, that the closed channel leaves no sender behind, and that a
  goroutine expires only after the client has given up.  For the reports, `ReportInv`
  ties a set end to a waiter that noted its times; `RangeCoversAll` is then arithmetic
  over the three minutes, for all clocks, seconds and lags within them.
  `NoneMissed` comes from `FoundExactly`, by which detection finds exactly the lines that
  `Named` describes: it needs an induction over the lines of `jps` and over the frameworks.
  The provers cannot instantiate the library's induction theorems, which take an
  operator, but well-founded minimality (`WFMin`) is about sets: a loop that does not
  do what is claimed has a least index at which it fails (`LeastIndex`, `UpTo`), and at
  that index one turn of the loop contradicts it.  `LoopRuns` gives the loop's recursive
  function by the same argument.  For this `Kept` and `detectProcs` are recursive functions.

Only model-checked: the liveness properties, as fairness and ENABLED are beyond the
prover.  Every invariant and every refinement that a passing run checks is also proved;
that documents arrive, processes are reaped and the like is liveness.

## Not modelled

What documents, processes and replies contain, except where a property needs it; the
printing of reports and the parsing of flags and addresses; the pid files of the daemon
scripts; what the ElasticSearch client does after `bulk.Add`; the files generated from
the `.proto` definitions.  A restarted agent is another element of `Agent`, as
`cmd/agent.go:62` draws a new id at every start; that an agent could rejoin under its
old id, for which `server_master.go:59` has a TODO, does not happen.

`monica.GetProcesses` is called by no command (the flag is commented out in
`cmd/app.go:34,63`); it is modelled as the client it was written to be.  `GetStatus` of the manager, which
returns `nil, nil`, is called by no client.  With both
`--perf` and `--sys-perf` only the first report is given, as `AppPerf` exits (`AppCmd`).

## Plan

Done: launcher, lifecycle with its registry, directory, pipeline, monitors, detectors,
process query, client and record; the proofs above.  What is left is the safety half
of more liveness properties, as `NobodyWaitsInVain` is that of `HandlersReturn` and
`LaunchServed` that of `LaunchAnswered`:

1. `DocsArrive`: a pipeline that has not stored all it was sent has a goroutine
   that is not blocked.
2. `QueryReturns`: the handler that gathers has a sender or the closer to wait for.
