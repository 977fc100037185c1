# QVD: a TLA+ verification project

QVD serves Linux desktops. A *node* runs virtual machines, LXC containers or KVM
guests, under a Perl daemon, the HKD (house keeping daemon). Users reach their
machine through an *L7R* process that the HKD of some node forks for each
connection. Nodes never talk to each other: everything they share is a database,
mostly the table `vm_runtimes`, which holds one row per machine, with its node, its
state, the pending command and the session of its user. So the correctness of QVD
is that of a set of state machines that crash, time out and interleave around one
row. Around the core are the agent inside each machine, the process that relays the
bytes of a session, and two web applications that show administrators and users what
the database says. This project models these parts in TLA+, checks them with TLC and
proves the main safety properties with TLAPS.

Paths below are relative to `src/ext/` unless they begin with `wat/` or `up/`, which are
under `src/`; `HKD/` is `QVD-HKD/lib/QVD/HKD/`.

## 1. Inventory

| Component | State it keeps | Operations | Talks to |
|---|---|---|---|
| LXC VM handler (`HKD/VMHandler/LXC.pm`, `HKD/VMHandler.pm`) | a hierarchical state machine per machine with a queue of delayed events, `vm_pid`, `killer_count`, its reservations | starting, running, debugging, stopping, zombie, each a chain of enter methods | row (SQL), `lxc-*` commands, ebtables, LXC::FS, hypervisor, DHCP and VHCI handlers, VMA monitor |
| LXC::FS (`HKD/VMHandler/LXC/FS.pm`, `FS/*.pm`) | what it has unpacked and mounted | unpack an image under a lock file, mount the root | the handler, by callbacks |
| Agent base (`HKD/Agent.pm`) | pending queries, commands and timers, the heavy semaphore | `_query` with retries, `_run_cmd`, `_call_after`, `_heavy_down`, `_heavy_up` | database pool, children |
| HKD daemon (`QVD-HKD/lib/QVD/HKD.pm`) | its own state machine, tables of handlers and L7R objects | start-up, catching zombies, commands, an orderly stop | all the agents |
| VM command handler (`HKD/VMCommandHandler.pm`) | commands that it has loaded | load start and stop commands, deliver them | rows, HKD |
| Node command handler (`HKD/CommandHandler.pm`) | the command of the node | stop, block, unblock | `host_runtimes`, HKD |
| Expiration monitor, VMA monitor | timers, counts of failures | soft and hard expiration; alive and failed | rows, handlers |
| Ticker, cluster monitor (`HKD/Ticker.pm`, `HKD/ClusterMonitor.pm`) | time of the last tick | tick; declare other nodes lost and take their machines and sessions away | `host_runtimes`, rows |
| L7R process (`QVD-L7R/lib/QVD/L7R.pm`) | place in the request, a stale copy of the row | authenticate, list, `connect_to_vm`: take over, assign, start, X session, forward | row (transactions), VMA (RPC), client |
| L7R supervision (`HKD/L7R.pm`, `L7RListener.pm`, `L7RKiller.pm`) | one object per process, aborts that were loaded | fork, TERM, wait, clean the row; poll for aborts | row, processes |
| VMA (`QVD-VMA/lib/QVD/VMA.pm`) | state of nxagent in files of the VM | x_start, x_suspend, x_state, poweroff | L7R and VMA monitor, by RPC |
| Load balancer, cpu sets (`HKD/Hypervisor/LXC.pm`), DHCP and VHCI handlers | loads; cpus; addresses; hubs | choose, reserve, release | L7R; handlers |
| Forwarder (`IO-Socket-Forwarder`) | two buffers, four half-open flags | relay, close | two sockets |
| KVM, NOTHING, KUBERNETES handlers | variants of the LXC handler | | |
| WAT lists (`wat/lib/bb-views/proto-list.js`, `proto-main.js`, `session/config.js`) | the collection and its page, the selection, the array of requests to abort, dialogs | sort, filter, pages, select, apply an action, abort | Admin API |
| User portal desktops (`up/lib/bb-views/up/desktops.js`, `up/lib/crud/desktops.js`, `up/lib/websockets/`) | the state shown for each desktop, intervals, windows | connect with either client, time out, follow changes | UP API and its websocket |
| Admin API, authenticators, configuration, clients, proxies, other views | CRUD, user interfaces | | database |

What is hard. An HKD is one thread with an event loop, but every query, command,
timer, hook and semaphore wait of it yields, and any event may arrive in between;
each state of a handler acts on an event, delays it or ignores it, in a declarative
table that no test enumerates. HKD may be killed between any two steps and is then
restarted with the rows, containers, mounts and L7R processes of its predecessor. A
query may fail, or succeed and lose its reply and be run again. Another node may
take rows away. L7R processes on all nodes work on one row with transactions that
conflict, from copies of it that are already old. A node that others hold for lost has
to know it by its own clock. The agent of a machine keeps its state in two files that
several processes write. The forwarder has a copy of each step for each socket, and SSL
reads that write and writes that read. In the browser every answer is a callback that
may come when the view is in another state than the one that asked. `PROJECT.json` lists each of these
hazards at its line, with the property that looks for it.

What makes each component correct:

* *VM handler*: the row of a machine is not given up while its container lives (or the
  machine would be started twice, over the same disk); a container is started only
  when all it needs is in place; what was reserved is released; the end of a
  container, a stop command and the stop of the node are not lost; zombies are reaped.
* *HKD*: it stops when told to, whatever its handlers do; no accepted command is dropped.
* *Heavy semaphore*: it does limit the heavy work, and an idle handler holds no slot.
* *L7R*: a machine has one user at a time; a session ends when it is aborted and is
  released when its process ends; every request is answered.
* *Cluster*: two nodes never run one machine; a lost node lets go before others take over.
* *VMA*: the state it answers is that of nxagent; no state in which a user cannot
  connect lasts for ever.
* *Forwarder*: nothing is lost, memory is bounded, the end of one side reaches the other.
* *WAT lists*: what is drawn is what was asked for last; an action is applied to what is
  shown as selected.
* *Desktops*: the state shown is the state in the database, a moment later.

## 2. Modules

| Module | Models |
|---|---|
| `LXCHandler` | one node: HKD, VM command handler, LXC handlers, LXC::FS agents, rows |
| `LXCHandlerProofs` | its theorems about types, containers and events that must not be lost |
| `LXCHandlerResourceProofs` | its theorems about what is reserved, and the heavy semaphore |
| `MCLXCHandler` | its instances for TLC |
| `L7RSession` | the L7R processes of some nodes, their supervisors, one row |
| `SessionLock` | the abstract specification that `L7RSession` implements: a lock |
| `L7RSessionProofs` | its theorems, the refinement among them |
| `MCL7RSession` | its instances for TLC |
| `Cluster`, `ClusterProofs`, `MCCluster` | several nodes with their tickers, cluster monitors and clocks, and the L7R processes that assign machines to them |
| `VMASession`, `VMASessionProofs`, `MCVMASession` | the agent inside a machine: requests, monitors, nxagent, the two files |
| `Forwarder`, `ForwarderProofs`, `MCForwarder` | the relay between two sockets |
| `ListView`, `ListViewProofs`, `MCListView` | a list of the WAT |
| `Desktops`, `DesktopsProofs`, `MCDesktops` | the list of desktops of the user portal, the UP API and the clients |

The specifications of the servers meet in the row. `LXCHandler` has the machine's half
(`host_id`, `vm_state`, `vm_cmd`) and lets anybody write the commands that L7R and the
API write. `L7RSession` has the session's half (`user_state`, `user_cmd`,
`l7r_host_id` and `l7r_pid`) and the few columns of the machine that L7R reads; its
action `vm_changes` is what a node may do to those. `Cluster` has both halves and the
table of the nodes, with handlers and sessions reduced to what other nodes can tell
apart. What one module takes for granted of another is a property of that one:
`forwarder_ends` of `L7RSession` is `ForwarderEnds` of `Forwarder`, the answers of the VMA
there are those of `VMASession`, the rows that `Desktops` is told about change as
`L7RSession` changes them.

### LXCHandler

`st[v]` is the substate of the handler of machine `v`, spelled as in the table at
`HKD/VMHandler/LXC.pm:28-195`; the operators `OnDone`, `OnError`, `OnHkdKill`,
`OnCmdStop` and `OnLxcDone` *are* that table, one operator per event. Each enter
method has an action with its name, enabled in the set of substates that name it. An
event that a state delays goes to `pend[v]`, and is offered again in later substates
(`delayed`). `res[v]` is what exists for the machine: `World` on the node, which
survives HKD (processes, interfaces, mounts, ebtables chains, the LXC configuration),
and `Memory` in the daemon, which does not (cpus, dhcpd entry, hub, and an entry of the
hub table that could not be released). `row[v]` keeps
whether `host_id` is this node, `vm_state` and `vm_cmd`. Merged or left out: the six
queries of `starting/db`, which have the same exits and write nothing the model
keeps; the text of commands and configuration files; the counters of attempts. A
query whose reply may matter is split in two: `clear_runtime_row` runs in the
database, `row_cleared` is its reply.

HKD's own states are reduced to those that its handlers can tell apart: catching
zombies, running, draining the command handler, stopping and killing all the
machines, down. The configuration items `internal.vm.debug.enable` and
`internal.hkd.lxc.does.not.cleanup` are constants. The names in `Faults` are the
ways in which the outside may fail: `query` (a query fails for good), `cmd` (a
command), `fs` (setting up or mounting the file systems), `umount`, `kill` (a killed
process survives, or the path of the cgroup is not known), `hub` (the VHCI handler croaks,
or HKD has none), `reply` (a query commits and its reply is lost), `crash` (of HKD),
`lost` (another node takes the row), `late`
(a command that L7R decided on an old copy of the row is written when the row is
another).

`disowned` is a history variable: the machines whose row was taken while a handler
or a container was alive, by another node or by a repeated `_clear_runtime_row`.
Nothing in this node can protect those, and the properties say which of them they
exclude.

### L7RSession

`pc[p]` is the place of process `p` in `connect_to_vm_processor` (`L7R.pm:232-337`),
`seen[p]` the copy of the row in its `$vm` object. The database runs with serializable
transactions (`QVD-DB/lib/QVD/DB.pm:77-79`), so the body of a `txn_do` is one step and
a conflict is one in which nothing changes; reads and updates out of a transaction
are steps of their own, which is what makes the takeover interesting: its
transaction, the second read and the abort are three. A process whose request fails
does not exit: it waits for another request over the same connection
(`QVD-HTTPD/lib/QVD/HTTPD.pm:89-133`), and the row still names it.

`agent[p]` is the HKD::L7R object, `to_abort[h]` the result of the query of the
L7RKiller between its execution and its delivery. Calls to the VMA succeed or fail at
will, and succeed only while the row does not say that the machine is stopped. The
API reads and writes in one transaction, L7R's `stop_vm` does not. The states of
the machine that L7R does not tell apart are one, `busy`. A process is identified by
node and pid; the model does not reuse a pid that a row or a list still holds.
`stray` is a history variable: processes whose HKD died or stopped without them, or
whose node was held for lost.

`SessionLock` says what all of this is for: somebody takes the lock when it is free, is
inside while it goes on with the session, and the lock is free again only after its
holder has left or is out of control. `owner` is the process that the row names,
`inside` the processes between takeover and the end of the request, `lost` the strays.

### Cluster

A node has an HKD (`hkd[h]`, the states of the table at `QVD-HKD/lib/QVD/HKD.pm:49-123`),
a ticker, a cluster monitor (`mon[h]`, one action per query of
`HKD/ClusterMonitor.pm`) and what it has of each machine (`hv[h][v]`, the handler
reduced to starting, launched, up, stopping, zombie, clearing; `orphan` is a container
whose HKD died). `link[h]` says whether the node reaches the database.

Time is in the state. `age[h]` is `now() - ok_ts` in the database, `lastOk[h]` the same as
the ticker sees it, `tickT` and `stopT` are timers. `Elapse` makes everything one unit
older and may not pass a timer that is due, which is how a loop with timers behaves;
the latency of a query is within `TickDelay`. The monitors wake whenever they like.
`Skew[h]` is how far the clock of a node is ahead of the database's, because
`_tick_error` compares the two (`HKD/Ticker.pm:65`). `Horizon` is the age from which on
ages are not told apart, `Watchers` and `Frail` the nodes whose monitor works and that
faults happen to, `MaxFaults` a bound on the number of faults. A request of L7R that fails
frees its row here at once, as when the client closes its connection; `L7RSession` has
the rest.

### VMASession

The agent (`QVD-VMA/lib/QVD/VMA.pm`) forks a process per connection, and a monitor per
nxagent. All of them read and write `nxagent.state` (`nx`, with `late` for its timestamp)
and `nxagent.pid` (`pidf`), under a lock for a single read or write only. A request is
split where another process can get in: it reads the state, reads the pid and acts on
the outcome of `_state`, runs its hook, and does what it decided before the hook. The
monitor reads what nxagent has printed (`out`), which is older than nxagent (`agent`). The
write of a state and the look at it by its hook are one step. nxagent itself is external: it
may suspend on HUP when a client is connected, and may as well hang, resumes on HUP when it is suspended, ends on
TERM; aborted is treated as terminated. `MaxStarts` bounds the monitors, `MaxLines` how far
nxagent is ahead of its monitor. Only the shutdown of the agent calls `x_stop` in this
repository, and nobody `x_suspend`; both are actions because they are its interface. The
monitor's process, which does not exit but returns into the HTTP server, and the
clean-up of children are left out.

### Forwarder

`forward_sockets` (`IO-Socket-Forwarder/lib/IO/Socket/Forwarder.pm`). Bytes are counted:
`sent`, `deciphered`, `got`, `put` and `taken` are the bytes of a direction that have come
so far, and the buffer is the difference of two of them. One pass of the loop is `select`,
then the reads and writes it allowed one by one, then the propagation of `%close`. Where
the two copies of the code differ (lines 192 and 226) so do the actions. SSL reads may
want to write and the other way round (`wtr`, `wtw`, `hello`); a message of the SSL
protocol arrives at once. `Window` bounds the network, `MaxBytes` what a peer sends.

### ListView

One view of the class `ListView`: a click, an answer or a dialog button is a step, as
JavaScript runs one callback at a time. `view.coll` is the collection with what it asks
for and what it holds, `view.wire` the requests on their way with the state of the view
that their callbacks close over, `view.requests` the array `Wat.C.requests`. An abort runs
the callbacks of the request within the step, and an exception ends the step where it is
thrown: `abortRequests`, whose loop removes entries of the array it goes over, is written
out for that reason. When nothing is on its way only the parity of the dead entries of
that array matters, and `Forget` lets it be either. An administrator who is not
`impatient` acts when nothing is on its way (`Patience`). The API answers from the table as
it is when it answers. A failed request draws the error page only when jQuery calls it
"error" or "timeout" (`wat/lib/actions/actions.js:588`); over HTTP/1.1 jQuery 1.9.1 keeps the
reason phrase of the server, and nothing is drawn but what the callbacks draw, so `fail` does
either. The administrator loads the page again after an error page, or a view that stays
empty. Left out: answers of the API that report an error, starting and
stopping many machines, the editors, embedded lists, and the chain of forced deletions
(`wat/lib/binds/binds.js:462-525`), which no list can reach.

### Desktops

The row of a desktop, the API that listens for its changes and pushes them, the
websocket (`sock`), the list as it was read and as it is shown, the intervals of the
classic client and the windows of the HTML5 client. There is one prepared connection
per desktop and one window; a second window behaves as the first. The order in which
intervals tick is free. An interval whose desktop has gone throws, which is a stutter.
The list stays the current view.

## 3. Runs

| Run | Instance | Checks |
|---|---|---|
| `node_one_vm` | one machine, every fault, debugging and dirty configurations on, one retry of the killer | `TypeOK`, `ContainerOwned`, `NothingLeft`, `LaunchPrepared`, `LxcExitSeen`, `StopReachesAll` |
| `node_two_vms` | two machines, one heavy slot, failing commands, symmetry | `HeavyLimited` |
| `node_live` | one machine, crashes, lost replies, lost rows; fairness | `HkdTerminates`, `StopHonoured`, `ZombieReaped` |
| `session_faults` | two processes of one node, conflicts, crashes, survivors, lost nodes, symmetry | `TypeOK`, `SessionOwned`, `OwnerCleaned`, and that `L7RSession` implements `SessionLock` (`LockImplemented`) |
| `session_live` | two processes of one node, conflicts; fairness | `ConnectedByOwner`, `AbortHonoured`, `SessionReleased`, `RequestEnds` |
| `cluster_faults` | two nodes, one machine, one fault on either node: link, power, HKD or a stop; timeouts just long enough | `LiveNotLost`, `OneNode`, `OrphanCaught` |
| `cluster_live` | two nodes, one of which loses its power or its link; fairness | `RowsFreed`, `SessionsFreed`, `PartitionedStops` |
| `vma_session` | one request at a time, one nxagent, three lines unread; slow, hanging, dying, refused its configuration; users who come back; fairness | `StateTrue` | `vma_session` with `MaxStarts = 2` | The monitor of a session deletes the files when the output of its xinit ends, without a look at whose they are (`VMA.pm:636`): the next session, begun in between, loses its files, and a second nxagent is started on its display. |
| `forward_client` | a plain and an SSL socket, one byte already read, three bytes from each peer; resets, renegotiation; fairness | `BufferBounded`, `BackComplete`, `BackTold`, `ForwarderEnds`, `AllArrives` |
| `forward_cut` | two plain sockets, no fault | violates `ForthComplete`, see 6 |
| `list_pages` | two rows on two pages, two filters, others that create and delete, requests that fail with or without an error page; fairness | `TypeOK`, `RenderedLast`, `ListCurrent`, `SelectionShown`, `SelectionCounted`, `BusyEnds` |
| `desktops` | one desktop, both clients, failing requests, a missing client, a closed websocket; fairness | `TypeOK`, `ConnectedTrue`, `ConnectingEnds` |

Why the bounds are enough.

* *Node.* The handlers of a node interact only through the semaphore and the state of
  HKD, so one machine meets every sequence of its own events, faults and restarts of the
  daemon, without a limit on the length of the run; two machines and one slot are the
  least for which the semaphore can be exceeded or leaked to the other's loss.
  `KillerRetries = 1` is the least with a second attempt; 0 already makes the
  comparison before the increment (`LXC.pm:506`) show. There is no counter but `kills`,
  which the code itself bounds, and no state constraint.
* *Session.* An owner and a contender are two processes, and either may come back for
  more. What more processes and nodes would add is covered by the theorems, which are for
  any number of them.
* *Cluster.* One node that fails and one that watches are what the timeouts are about, and
  one machine is what they contend for. In `cluster_faults` the fault may hit the node that
  watches too; each of the delay between ticks, the timeout of the ticker and the phase for
  the machines lasts one unit. The timeouts satisfy `StopTiming` with equality: with a
  `NodeTimeout` of one unit less TLC finds `OneNode` violated. In `cluster_live` the
  timeouts are the least, since liveness does not depend on them. `Horizon` is one more than
  the longest age that is compared. `MaxFaults = 1` is the bound that matters; the theorems
  hold for any number of faults.
* *VMA.* One request at a time, because the requests of two processes exceed what TLC can
  check for `TimedEnds`; with two, `StateTrue` holds of the same instance (1.8 million
  states). Three unread lines let a monitor that is late miss a whole suspension and the
  resumption after it. `MaxStarts = 1` is a real restriction: see 6.
* *Forwarder.* `BufferSize = 2` and `ChunkSize = 1` let a buffer be empty, part full and
  full; three bytes fill it and leave one more; a window of one makes the
  network stop the writer. The other direction of an SSL socket has its own copy of the
  code, and the theorems are for every assignment of SSL to the sockets.
* *Lists.* Two rows of which one has dependents, on pages of one, and a second filter that
  passes one of them: sorting, filtering and paging each change what is drawn. The
  administrator waits; what happens otherwise is in 6.
* *Desktops.* The state of each desktop is its own but for `connectingDesktopId`, whose
  sharing is one of the findings. Two intervals at a time are one attempt and its
  repetition; a timeout of two ticks has a tick in which nothing happens.

Symmetry is used only in `node_two_vms` and `session_faults`, which have no liveness
property. Deadlock is checked but in the runs of `VMASession` and `Forwarder`, where the
system may stop: a request for a new session when `MaxStarts` are used up, a forwarder that
has left its loop.

Two properties depend on what `Faults` leaves out. `ConnectedByOwner` is checked, and proved,
without crashes, survivors and lost nodes: the transaction that marks a session as connected
does not look at the owner (`L7R.pm:656-662`), so a process left behind by a dead HKD can
mark the session of the next one. `OwnerCleaned` does not hold when the query of
`_clean_row` fails, because its errors are ignored (`HKD/L7R.pm:94`) and nothing tries
again before the next start of HKD.

## 4. Fairness

*LXCHandler.* Weak fairness on every enter method: HKD's loop runs what is ready,
queries are retried or fail, commands end, timers fire. Assumed with it: hooks end
(they have no timeout, `LXC.pm:85`). `heavy_down` is strongly fair because
AnyEvent::Semaphore serves its waiters in order. The delivery of a start and a stop
command, `stop_all_vms`, `kill_all_vms` and the drained command handler are strongly
fair: they are timers and callbacks of one loop, which a handler can disable for a
moment by being in the middle of a call but cannot overtake for ever. The exit of
`lxc-start` is reported once the container's processes are gone. The VMA monitor
gives one of its verdicts while a machine starts. Nothing is assumed of users,
administrators and faults: no fairness on commands being sent, on a container ending
by itself, or on HKD being started again.

*L7RSession.* Each step of a request ends, by its timeout if not otherwise; the
takeover loop ends by its clock of 30 s (strong fairness on giving up, because the
loop goes round in between), and provisioning, which has no timeout
(`L7R.pm:621-624`), ends; a process that was sent TERM exits; HKD sees the exit of
its children and cleans the row; the L7RKiller polls, with strong fairness since the
row may change between two polls. Not assumed: that a client goes away, that a
session ends by itself, that HKD is started.

*Cluster.* Time passes; the ticker, the daemon, the monitor and the handlers of a node do
what their timers and callbacks have ready; the request or the session of an L7R process
ends when it fails, takes too long or is told to. All of it is weak fairness. Not assumed: that a node comes back, that a link
is repaired, that anybody asks for anything.

*VMASession.* Every process that handles a request goes on (its hooks end: `VMA.pm:194` has
no limit for them), so do the monitor and nxagent, which obeys TERM but need not suspend
when it is told to, and an nxagent that has said terminated exits. That is `Fairness`. Nobody
in QVD looks at a timeout by himself: the VMA monitor of HKD only sends `ping`
(`HKD/VMAMonitor.pm:47`), and an L7R that waits for its session asks `x_state` until the
first "listening" and dies of a state that ends (`L7R.pm:602-632`). What does call `_state`
again and again is `x_start`: `_start_x` repeats it when it fails (`L7R.pm:588-600`), and
every new connection begins with it. So `TimedEnds` is checked under `Retrying`: time
passes, and users come back, an explicit assumption about them and not about the code. It is
strong fairness, because other requests come in between. Without it a session that is
stuck stays so until somebody wants it.

*Forwarder.* The process goes round its loop and what the network has accepted arrives. The
peers need not send, read or close.

*ListView.* The answers of the API come. *Desktops.* So do they; the database and the
websocket deliver what they have, intervals tick, windows load or are given up, and the
machine leaves the state connecting, which is `RequestEnds` of `L7RSession`.

## 5. Proofs

Each theorem is about every value of the constants that the named assumptions allow; these
(`ConstantsAssumption`, `SessionAssumption`, ...) only give the constants their types. What a
theorem needs beyond that is a hypothesis of its statement.

| Theorem | States | Under |
|---|---|---|
| `LXCHandlerProofs!TypeCorrect` | `Spec => []TypeOK` | |
| `LXCHandlerProofs!ContainerAlwaysOwned` | `Spec => []ContainerOwned` | |
| `LXCHandlerProofs!StopAlwaysReachesAll` | `Spec => []StopReachesAll` | |
| `LXCHandlerProofs!LxcExitAlwaysSeen` | `Spec => []LxcExitSeen` | |
| `LXCHandlerResourceProofs!LaunchAlwaysPrepared` | `Spec => []LaunchPrepared` | |
| `LXCHandlerResourceProofs!NothingEverLeft` | `Spec => []NothingLeft` | |
| `LXCHandlerResourceProofs!HeavyAlwaysLimited` | `Spec => []HeavyLimited` | where an umount may fail, until HKD tells its handlers to stop |
| `L7RSessionProofs!TypeCorrect` | `Spec => []TypeOK` | |
| `L7RSessionProofs!SessionAlwaysOwned` | `Spec => []SessionOwned` | |
| `L7RSessionProofs!OwnerAlwaysCleaned` | `Spec => []OwnerCleaned` | no failing query |
| `L7RSessionProofs!ConnectedAlwaysByOwner` | `Spec => []ConnectedByOwner` | no crash, survivor or lost node |
| `L7RSessionProofs!SessionIsLock` | `Spec => LockImplemented` | |
| `ClusterProofs!TypeCorrect` | `Spec => []TypeOK` | |
| `ClusterProofs!LeaseHolds` | `Spec => []LiveNotLost` | `LeaseTiming` |
| `ClusterProofs!NoSplitBrain` | `Spec => []OneNode` | `StopTiming` |
| `ClusterProofs!LostIsEmpty` | `Spec => []LostHasNoVM` | `StopTiming` |
| `ClusterProofs!OrphansAlwaysCaught` | `Spec => []OrphanCaught` | |
| `ForwarderProofs!TypeCorrect` | `Spec => []TypeOK` | |
| `ForwarderProofs!BuffersAlwaysBounded` | `Spec => []BufferBounded` | |
| `ForwarderProofs!BackAlwaysComplete` | `Spec => []BackComplete` | |
| `VMASessionProofs!TypeCorrect` | `Spec => []TypeOK` | |
| `VMASessionProofs!StateAlwaysTrue` | `Spec => []StateTrue` | one session at a time |
| `ListViewProofs!TypeCorrect` | `Spec => []TypeOK` | an administrator who waits |
| `ListViewProofs!RenderedAlwaysLast` | `Spec => []RenderedLast` | the same |
| `ListViewProofs!ListAlwaysCurrent` | `Spec => []ListCurrent` | the same |
| `ListViewProofs!SelectionAlwaysShown` | `Spec => []SelectionShown` | the same |
| `ListViewProofs!SelectionAlwaysCounted` | `Spec => []SelectionCounted` | the same |
| `ListViewProofs!PageAlwaysInLimits` | `Spec => []PageInLimits` | the same |
| `DesktopsProofs!TypeCorrect` | `Spec => []TypeOK` | |
| `DesktopsProofs!ConnectedAlwaysTrue` | `Spec => []ConnectedTrue` | no list read before the websocket listens |

*ContainerOwned* speaks of a live container and a row and does not mention the
handler that links them, so it is not inductive. `IInv` adds: `RowOwned`, a handler in
a substate that counts on its row, or a start command on its way, has one;
`NoProcs`, there are no processes in the substates (`Bare`) before the container
exists or after it was found dead, nor while the file system agent works, nor
without a handler while HKD is not stopping; `FsDone`, setup begins after the agent
has reported; `KillsPending`, `StartsServed` and `DownEmpty`, which say when a kill
is queued, a start is pending and a handler exists. Most actions only move a handler
to a following substate and leave processes and rows alone: lemmas `TableFollows` and
`NamedFollows` show once, over the whole table, that such a move is never into a
claim that it does not have, and `QuietKeeps` that it keeps the invariant. The others
(killing, launching, saving, clearing, catching zombies, the daemon) are proved one
by one.

*StopReachesAll* and *LxcExitSeen* say of an event that it is in the queue, or that the
handler has acted on it. `EInv` is their conjunction with the invariant `IInv` above. `TableOnward` goes over the table once: from
every substate in which the event has been acted on, each entry leads to another such one.

*LaunchPrepared*, *NothingLeft* and *HeavyLimited* are about what a handler holds, and
follow from `RInv`: with `IInv`, for every machine, what each substate may count on
(`Prepared`), what it must not hold any more (`MemoryFree`, `FwFree`), whether it has a slot
(`SlotHeld`) and in which substates the file system agent may still be at work
(`BusyLate`), which is what `LaunchPrepared` is about: an agent that reports late moves a handler
that does not wait for it. The hub is not among what `LaunchPrepared` claims, and an entry of
the hub table whose release croaked not among what `NothingLeft` does: see 6. `SlotsCounted` counts the handlers that hold a slot; the
substates of heavy work are among theirs by `SlotHeld`. `DoneTable` and `EventTable` go over the
transition table once and say which moves claim something new of the next substate; the
methods that reserve or give back are proved one by one (`SetupNext`, `TakesKeeps`,
`GivesBackKeeps`, `HeavyKeeps`), all the others by `PlainKeeps`.

*SessionOwned* needs `Watched` (a process that was not left behind is supervised until
it exits, and its supervisor cleans only after that), `DownEmpty` (a daemon that is
down supervises nothing) and `FreeUnowned` (a disconnected row names nobody). Then the
only updates that release a row, `clean_row`, the start of an HKD and
`unassign_l7rs`, are harmless: the owner has exited, or is a stray. *OwnerCleaned*
follows from `OwnerSupervised`: a row that names a process of a live daemon names a
supervised one. *SessionIsLock* uses the same invariant: `LeaveStep` shows that a
process that leaves without the row is a release by nobody, `LockStep` maps every action.
*ConnectedByOwner* needs that there are no strays and that whoever has marked the row, or
is about to, is its owner.

*Cluster.* `LeaseInv` ties the clock of a node to the age of its row: while it is not
stopping, the age is at most what its own timer leaves (`Lease`), and a daemon that has
announced itself has ticked since (`Announced`). `StopInv` goes on through the stop: the
time that is left (`StopTimers`, `Draining`) is never more than what is missing to
`NodeTimeout`, and a node with a container of its own has the row (`RowOwner`), because
nobody takes a row from a node that is not lost. The two timing conditions are hypotheses
and not assumptions since the default configuration does not satisfy the second.

*OrphanCaught* rests on no timing. `OrphanInv` is the same fact for the daemon that is
still catching zombies or saving its row, after the search: from then on a node gets the row of
a machine only by an assignment, which leaves the machine stopped, and the start that follows puts
a handler in the place of the orphan.

*Forwarder.* What is on its way is counted (`Counted`), a write that is due has something
to write (`TodoCause`), and each mark that a socket is closed has its reason (`CloseCause`,
`InCause`, `OutCause`). `DependantsSound` shows that the propagation of `%close` gives no
mark without a reason. It is the marks of socket 2 that have none: see 6.

*VMASession.* Before a session has printed its first line, or the monitor has read it,
nobody knows of it: `Before` and `Unread` bound what the files and the memory of every
request may hold (`EarlyFiles`, `EarlyReqs`, `ReqsRead`). From then on the files name it until
its monitor has ended (`Forked`, `Lines`, `Filed`). This breaks with a second start, whose
predecessor still has a monitor.

*ListView.* An administrator who waits has one request on its way at most. `LInv` says which:
the view rests, drawn from its collection if it is a list (`Resting`), which holds the answer to
its own query or, when that failed without an error page, nothing (`Asked`); or a list is fetched
with the query that the collection has now, and the collection is empty (`Fetching`); or the ids of "Select all" are, with
every box checked and the dialog still open (`Selecting`); or an action is applied (`Acting`).
`Base` adds that no row is twice in a selection or on a page, without which `splice` would
leave one of two behind, and `InPages` that pages before the current one are full, so that the
button for the first page works whenever sort or filter press it. The recursive definitions
(`Kept`, `Purged`, the loop of `AbortRequests`) are reasoned about with `Upward`, induction
over a set of numbers, which the well-foundedness of `<` gives without an operator parameter.

*Desktops.* `BInv` follows what the portal believes from the database to the screen: a
notification that the API has not handled (`sock.notes`), the last message in the channel
(`LastTrue`), a list that has been read and not shown (`ReadTrue`) and the stable state the
timeouts put back (`BeliefTrue`). Each is true of the row, or something newer is on its way.
`Listening` says that nothing is missed, which needs that the list is asked for after the
websocket opens; with the fault `early` it may not be, and the property fails (see 6).

Only model-checked: everything temporal, which needs fairness. Every invariant that a run
checks is proved.

## 6. Findings

*forward_cut.* When socket 1 has ended its data and some of it is still in the buffer, the
code closes the output of socket 2 after the next write (`Forwarder.pm:226`): the
condition lacks the negation that its copy for socket 1 has (line 192), and both say
"buffer exhausted". The rest is lost. `BackComplete`, the other direction, holds.

The properties below are stated in the modules, from a comment or a document, and do not
hold. No run checks them; each is refuted by TLC on the instance named, which is that of
the run with the constants changed as said.

| Property | Instance | What happens |
|---|---|---|
| `HeavyLimited` | `node_two_vms` with the fault `umount` only and a node that stops | A handler killed in `starting/os_fs` leaves its file system agent at work. If its umount fails it becomes a zombie, and the `_on_done` of the agent (`HKD/VMHandler/LXC.pm:56`) moves it on from `zombie/reap/heavy` while it waits for a slot: it dismantles its container without one. Everywhere else it is proved. |
| `StartNotIgnored` | `node_one_vm` with `KillerRetries = 0`, no debugging, no dirty configurations, no faults | `_on_vm_cmd` drops a start command for a machine that still has a handler (`HKD.pm:665-669`), although its row has just been marked as starting; "we can not just ignore the command" (`HKD.pm:679-681`). The window is between `_clear_runtime_row` and its reply; the row stays in starting until HKD is restarted. |
| `TakeoverNotRefused` | `session_live` without faults | `_takeover_vm` is to "Take the machine for this L7R process maybe disconnecting others" (`L7R.pm:448`). If the owner releases the session between the transaction and the second read, `send_user_cmd` dies (`VM_Runtime.pm:200-201`) and the client is refused a session that is free. |
| `SilentIsLost` | `cluster_live` with `power`, two faults, no requests | `_kill_hosts` leaves out the hosts in starting (`HKD/ClusterMonitor.pm:59`): a node that dies while it starts keeps that state, and the machines of its previous life. "mark nodes that have not touched the database for too long as lost" (`ClusterMonitor.pm:21`). |
| `LostUnassigned` | `cluster_live` with `power` | `_unassign_vms` leaves out the stopped rows (`ClusterMonitor.pm:90`): a machine that was assigned before its node took the command keeps the lost node, and every later connection skips the assignment (`L7R.pm:498`) and times out. |
| `StoppedAborted` | `cluster_live` with `power` | `_abort_l7rs` asks for `user_cmd = NULL` (`ClusterMonitor.pm:132`), which is true of no row. |
| `LostAborts` | `cluster_live` with `link`, no requests, `TickTimeout = 1`, `NodeTimeout = 2`, `Horizon = 4`, a clock of `a` one unit behind | The update of `_tick` matches no row once the node is lost (`HKD/Ticker.pm:50`), which counts as a good tick: a lost node whose link comes back runs its machines for ever. |
| `LostHasNoVM` | `cluster_faults` with `link`, `connect`, `Horizon = 5` and the timeouts in the proportions of the defaults: `TickTimeout = 3`, `NodeTimeout = 4`, `L7rsTimeout = VmsTimeout = 2`, `KillTime = 1` | `node.timeout` is 600 s, the tick may be 570 s old when HKD begins to stop, and stopping may take 600 s more (`QVD-Config-Core/lib/QVD/Config/Core/Defaults.pm:905-911`, `956-957`): others take the machines while they run. Under `StopTiming` it is proved. |
| `StateTrue`, `TimedEnds` | `vma_session` with `MaxStarts = 2`; the second with the fault `slow` only | The monitor of a session deletes the files when the output of its xinit ends, without a look at whose they are (`VMA.pm:636`): the next session, begun in between, loses its files, and a second nxagent is started on its display. |
| `StartingEnds` | `vma_session` with the fault `die` | A request writes `initiating` for an nxagent that has died, and for that state there is no timeout, because `%timeout` has the name of nxagent's state and not of the agent's (`VMA.pm:128`): every later `x_start` dies with "try again in a few minutes". |
| `BackTold` | `forward_client` with `SSL = {1}`, empty buffers, no faults | When the buffer is exhausted after the end of socket 2, an SSL socket 1 is marked as closed for output without a shutdown, and its input stays open (`Forwarder.pm:194`): the client is not told, and the process waits for it. |
| `ForthTold` | the same, with resets | A failed read of an SSL socket 1 sets `$close{slin}` (`Forwarder.pm:145`), a flag that nothing looks at: the machine is not told that its user has gone, and the loop spins. |
| `ListCurrent`, `RenderedLast` | `list_pages` with three rows and an impatient administrator | sort and filter click on the first page button, which may still be disabled (`wat/lib/bb-views/proto-list.js:188`, `360`): the answer on its way is drawn under the icon of the new order, or nothing is asked and the loading message stays. |
| `FilterTaken` | the same | filter aborts a pending Select all, whose callback reads the rows of an answer without any (`proto-list.js:630`) and throws: the form shows the new filter, the list has the old one. |
| `SelectionCounted` | the same | When the dialog of Select all was closed before the answer, `storeAllSelectedIds` stores the ids and throws before it updates the indicator (`proto-list.js:639`). |
| `PageInLimits` | the same, with a filter that passes nothing | last sets the page to 0 when the total has become 0 (`proto-list.js:1134`). |
| `CheckedSelected` | `list_pages` with three rows and no faults; or as it is | Select all keeps the first `MaxSelectable` ids but checks every box, and rows that others created after the answer are checked with them: unchecking one calls `splice(-1, 1)`, which drops another one (`proto-list.js:554`). |
| `DependencyOffered` | `list_pages` | `saveModel` empties the collection before the dialog of the dependencies looks names up in it (`wat/lib/bb-views/proto-main.js:243`): it is never opened from a list. |
| `ShownCurrent` | `desktops` with the classic client only, one message, no faults; or with HTML5 only and the fault `early` or `idle` | The message before a connection sets a connected desktop to disconnected, and Cancel leaves it so (`up/lib/crud/desktops.js:222`). A change between the reading of the list and the opening of the websocket is lost (`up/lib/bb-views/up/desktops.js:122`); a websocket closed for idleness is not opened again. |
| `ConnectedTrue` | `desktops` with the fault `early` | The list is read and shown before the websocket listens, a desktop is disconnected in between, and nobody is told (`up/lib/bb-views/up/desktops.js:122`). Without `early` it is proved. |
| `FailOwn` | `desktops` with two desktops, the classic client, no faults | `connectingDesktopId` is one for the view: the timeout of one desktop shows the other one as disconnected (`up/lib/crud/desktops.js:144`). |
| `CountdownBreaks` | `desktops` with the classic client, one message, no faults | After a second attempt the older interval clears the newer one and goes on for ever (`up/lib/bb-views/up/desktops.js:256`). |

Two errors are swallowed, and the properties above are stated so that they leave room for
them. `_request_vhci_hub` and `_return_vhci_hub` go on with `_on_done` whatever the VHCI
handler says (`LXC.pm:647-681`). The reservation croaks when no hub is free, when the
directory of the machine cannot be made or when there is no handler, and the machine is
launched without a hub. The release croaks when the directory cannot be removed, before the
entry is cleared (`VHCIHandler.pm:87-109`), and so the hub stays assigned, without a machine,
until HKD ends (`stray` in `LXCHandler`). `processResponseError`, "Process response error to show
feedback" (`wat/lib/actions/actions.js:587`), shows none for an HTTP error with a reason
phrase: the first list stays loading, and any later one is drawn empty, from the collection
that `fetchList` has reset, as if nothing matched; a list on a later page goes back page by
page first. `ListCurrent` allows that empty list, and no other.

What the models also show, and no document contradicts: a row cleared for the second
time after a lost reply may be one that was assigned again; a zombie that waits
between two attempts keeps its heavy slot, and as many of them as slots stop all
starts; `killer_count` is never reset; the L7RKiller clears `vm_cmd`, not `user_cmd`;
a failed request holds the session as long as its client keeps the connection.

## 7. Plan

Done: the node, the session and its lock, the cluster, the agent of a machine, the
forwarder, the lists of the WAT and the desktops of the user portal. Open, in this order:

1. Theorems: what else is an invariant of `LXCHandler` and `L7RSession` without fairness, and
   that `Cluster` does to a row what `LXCHandler` does.
2. `FSImage`: unpacking an image under a lock file, with its back ends.
3. cpu sets, the choice of the load balancer, DHCP and VHCI registers: operators against
   reference definitions.
4. `HKDDaemon`: start and stop of the other agents; the KVM and NOTHING handlers, as
   variants of `LXCHandler`.
5. `VMLifecycle`, what a handler promises the rest of QVD (stopped, starting, running,
   stopping, zombie), refined by `LXCHandler` and used by `Cluster`.

### Not modelled

The Kubernetes handler, authenticators, configuration, the wire formats of HTTP and RPC,
clients, the slave channel, proxies, the HTML5 gateway, the command line, printing and the
NX patches share no state with the core or are thin layers over calls that the modules
have as actions. Of the front ends the two views that have state of their own to keep
right, lists and desktops, are modelled; the others are forms whose every step is one
request.

Most of the lines of JavaScript in the repository are not QVD's: jQuery, Backbone,
html2canvas, noVNC, Application Insights, several of them in more than one copy. No module
is about those. The modules cover the Perl of the node, of the session and of the agent,
and those parts of the web applications.
